----------------------------- MODULE ByteQueue -----------------------------
(***************************************************************************)
(* What a tornado::Buffer promises its clients: a FIFO of bytes with a      *)
(* fixed capacity.  Module Buffer holds the array and the two indexes of    *)
(* src/tornado/Buffer.cpp and implements this specification.               *)
(*                                                                         *)
(* Two operations promise less than a FIFO would.  Extend (the code's       *)
(* extendReadBytes) makes cells readable whatever they hold.  Receive is    *)
(* the way IOStream::readToBuffer fills the buffer: the new bytes go to     *)
(* data(), which is the OLDEST unread byte, and the end then moves by their *)
(* number.                                                                 *)
(***************************************************************************)
EXTENDS Integers, SequencesExt

CONSTANTS
    Byte,        \* the byte values the clients tell apart
    Junk,        \* what a cell holds that no client wrote
    Capacity,    \* buff_len_
    ReadChunk,   \* IOStream::READ_CHUNK_SIZE
    MaxLen,      \* bound: the longest data or length a client passes
    Delimiters   \* the delimiters a client looks for

VARIABLES
    queue,       \* the readable bytes, oldest first
    out          \* what the last call returned

vars == <<queue, out>>

Cell == Byte \cup {Junk}

\* The result of a call: its name, the boolean (or "found") it returns, an
\* index, and the bytes it copies out.
Ret(op, ok, index, data) == [op |-> op, ok |-> ok, index |-> index, data |-> data]

Fits(n) == Len(queue) + n <= Capacity

\* d occurs in the queue at (zero-based) index i.
OccursAt(d, i) == /\ i + Len(d) <= Len(queue)
                  /\ \A k \in 1..Len(d) : queue[i + k] = d[k]

Init == /\ queue = << >>
        /\ out = Ret("none", TRUE, 0, << >>)

\* All of the data is accepted, or none of it.
AppendBytes(data) ==
    \/ /\ Fits(Len(data))
       /\ queue' = queue \o data
       /\ out' = Ret("append", TRUE, 0, << >>)
    \/ /\ ~Fits(Len(data))
       /\ out' = Ret("append", FALSE, 0, << >>)
       /\ UNCHANGED queue

\* Room can be made for n bytes exactly when they fit; nothing is lost.
EnsureWritable(n) ==
    /\ UNCHANGED queue
    /\ \/ Fits(n) /\ out' = Ret("ensureWritableBytes", TRUE, 0, << >>)
       \/ ~Fits(n) /\ out' = Ret("ensureWritableBytes", FALSE, 0, << >>)

\* The end moves by n over cells that hold anything; it is refused when there
\* is no room behind the last byte, which depends on the layout.
Extend(n) ==
    \/ /\ Fits(n)
       /\ \E cells \in [1..n -> Cell] : queue' = queue \o cells
       /\ out' = Ret("extendReadBytes", TRUE, 0, << >>)
    \/ /\ n > 0
       /\ out' = Ret("extendReadBytes", FALSE, 0, << >>)
       /\ UNCHANGED queue

ReadToString(n) ==
    \/ /\ n <= Len(queue)
       /\ queue' = SubSeq(queue, n + 1, Len(queue))
       /\ out' = Ret("readBytesToString", TRUE, 0, SubSeq(queue, 1, n))
    \/ /\ n > Len(queue)
       /\ out' = Ret("readBytesToString", FALSE, 0, << >>)
       /\ UNCHANGED queue

Discard(n) ==
    \/ /\ n <= Len(queue)
       /\ queue' = SubSeq(queue, n + 1, Len(queue))
       /\ out' = Ret("readBytes", TRUE, 0, << >>)
    \/ /\ n > Len(queue)
       /\ out' = Ret("readBytes", FALSE, 0, << >>)
       /\ UNCHANGED queue

Find(d) ==
    /\ UNCHANGED queue
    /\ \/ \E i \in 0..(Len(queue) - 1) :
             /\ OccursAt(d, i)
             /\ \A j \in 0..(i - 1) : ~OccursAt(d, j)
             /\ out' = Ret("find", TRUE, i, << >>)
       \/ /\ \A i \in 0..(Len(queue) - 1) : ~OccursAt(d, i)
          /\ out' = Ret("find", FALSE, -1, << >>)

Clear ==
    /\ queue' = << >>
    /\ out' = Ret("clear", TRUE, 0, << >>)

\* The queue grows by Len(data), its first Len(data) bytes are the new ones, an
\* older byte beyond them stays, and the cells past both hold anything.
Receive(data) ==
    \/ /\ Fits(ReadChunk)
       /\ out' = Ret("readToBuffer", TRUE, 0, << >>)
       /\ \E cells \in [1..(Len(queue) + Len(data)) -> Cell] :
             /\ queue' = cells
             /\ \A i \in 1..Len(data) : cells[i] = data[i]
             /\ \A i \in (Len(data) + 1)..Len(queue) : cells[i] = queue[i]
    \/ /\ ~Fits(ReadChunk)
       /\ out' = Ret("readToBuffer", FALSE, 0, << >>)
       /\ UNCHANGED queue

Next ==
    \/ \E data \in SeqOf(Byte, MaxLen) : AppendBytes(data)
    \/ \E n \in 0..MaxLen : EnsureWritable(n)
    \/ \E n \in 0..MaxLen : Extend(n)
    \/ \E n \in 0..MaxLen : ReadToString(n)
    \/ \E n \in 0..MaxLen : Discard(n)
    \/ \E d \in Delimiters : Find(d)
    \/ Clear
    \/ \E data \in SeqOf(Byte, ReadChunk) : Receive(data)

Spec == Init /\ [][Next]_vars
=============================================================================
