------------------------------- MODULE Buffer -------------------------------
(***************************************************************************)
(* tornado::Buffer (src/tornado/Buffer.h, src/tornado/Buffer.cpp): an array *)
(* and two indexes.                                                        *)
(*                                                                         *)
(*        0  <=  read_index  <=  write_index  <=  Capacity                 *)
(*                                                                         *)
(* The cells below read_index are discardable, those up to write_index are  *)
(* the contents, the rest is writable.  An operation that needs more room   *)
(* behind write_index than there is moves the contents to the front.        *)
(*                                                                         *)
(* The operations are functions of a buffer record, so that a component     *)
(* that owns buffers can use them; the state machine calls them in any      *)
(* order, and implements ByteQueue.                                        *)
(***************************************************************************)
EXTENDS Integers, SequencesExt

CONSTANTS
    Byte,        \* the byte values the clients tell apart
    Junk,        \* the value of a cell `new char[]` leaves uninitialised
    Capacity,    \* buff_len_
    ReadChunk,   \* IOStream::READ_CHUNK_SIZE
    MaxLen,      \* bound: the longest data or length a client passes
    Delimiters   \* the delimiters a client looks for

ASSUME BufferAssumption ==
    /\ Capacity \in Nat \ {0}
    /\ ReadChunk \in Nat \ {0}
    /\ MaxLen \in Nat
    /\ Delimiters \subseteq Seq(Byte)

VARIABLES
    buf,         \* the object: buff_, read_index_, write_index_
    out          \* what the last call returned

vars == <<buf, out>>

-----------------------------------------------------------------------------
(* The buffer as a value.                                                  *)

Cell == Byte \cup {Junk}
Addr == 0..(Capacity - 1)

Buffers == [buff : [Addr -> Cell], read_index : 0..Capacity, write_index : 0..Capacity]

EmptyBuffer == [buff |-> [a \in Addr |-> Junk], read_index |-> 0, write_index |-> 0]

WritableBytes(b) == Capacity - b.write_index
PrependableBytes(b) == b.read_index
ReadableBytes(b) == b.write_index - b.read_index

\* The readable bytes, oldest first.
Contents(b) == [i \in 1..ReadableBytes(b) |-> b.buff[b.read_index + i - 1]]

\* std::copy of data to the cells that start at address `at`.
CopyTo(b, at, data) ==
    [b EXCEPT !.buff = [a \in Addr |-> IF a \in at..(at + Len(data) - 1)
                                         THEN data[a - at + 1]
                                         ELSE b.buff[a]]]

MakeSpace(b) ==
    [CopyTo(b, 0, Contents(b)) EXCEPT !.read_index = 0,
                                      !.write_index = ReadableBytes(b)]

\* Mutant of CanWrite: the discarded bytes in front are never reclaimed.
CanWriteBehindEnd(b, n) == WritableBytes(b) >= n

CanWrite(b, n) == WritableBytes(b) + PrependableBytes(b) >= n

\* The buffer after ensureWritableBytes(n) returned CanWrite(b, n).
EnsureWritableBytes(b, n) ==
    IF WritableBytes(b) < n /\ CanWrite(b, n) THEN MakeSpace(b) ELSE b

Grow(b, n) == [b EXCEPT !.write_index = @ + n]
Drop(b, n) == [b EXCEPT !.read_index = @ + n]

\* std::search over [begin(), end()): the delimiter occurs at index i.
MatchAt(b, d, i) ==
    /\ i + Len(d) <= ReadableBytes(b)
    /\ \A k \in 1..Len(d) : b.buff[b.read_index + i + k - 1] = d[k]

-----------------------------------------------------------------------------
(* The operations.                                                         *)

Ret(op, ok, index, data) == [op |-> op, ok |-> ok, index |-> index, data |-> data]

Init == /\ buf = EmptyBuffer
        /\ out = Ret("none", TRUE, 0, << >>)

AppendBytes(data) ==
    LET b == EnsureWritableBytes(buf, Len(data)) IN
    IF CanWrite(buf, Len(data))
      THEN /\ buf' = Grow(CopyTo(b, b.write_index, data), Len(data))
           /\ out' = Ret("append", TRUE, 0, << >>)
      ELSE /\ out' = Ret("append", FALSE, 0, << >>)
           /\ UNCHANGED buf

EnsureWritable(n) ==
    IF CanWrite(buf, n)
      THEN /\ buf' = EnsureWritableBytes(buf, n)
           /\ out' = Ret("ensureWritableBytes", TRUE, 0, << >>)
      ELSE /\ out' = Ret("ensureWritableBytes", FALSE, 0, << >>)
           /\ UNCHANGED buf

ExtendReadBytes(n) ==
    IF WritableBytes(buf) < n
      THEN /\ out' = Ret("extendReadBytes", FALSE, 0, << >>)
           /\ UNCHANGED buf
      ELSE /\ buf' = Grow(buf, n)
           /\ out' = Ret("extendReadBytes", TRUE, 0, << >>)

ReadBytesToString(n) ==
    IF n > ReadableBytes(buf)
      THEN /\ out' = Ret("readBytesToString", FALSE, 0, << >>)
           /\ UNCHANGED buf
      ELSE /\ buf' = Drop(buf, n)
           /\ out' = Ret("readBytesToString", TRUE, 0, SubSeq(Contents(buf), 1, n))

ReadBytes(n) ==
    IF n > ReadableBytes(buf)
      THEN /\ out' = Ret("readBytes", FALSE, 0, << >>)
           /\ UNCHANGED buf
      ELSE /\ buf' = Drop(buf, n)
           /\ out' = Ret("readBytes", TRUE, 0, << >>)

Find(d) ==
    /\ UNCHANGED buf
    /\ \/ \E i \in 0..(ReadableBytes(buf) - 1) :
             /\ MatchAt(buf, d, i)
             /\ \A j \in 0..(i - 1) : ~MatchAt(buf, d, j)
             /\ out' = Ret("find", TRUE, i, << >>)
       \/ /\ \A i \in 0..(ReadableBytes(buf) - 1) : ~MatchAt(buf, d, i)
          /\ out' = Ret("find", FALSE, -1, << >>)

Clear ==
    /\ buf' = [buff |-> buf.buff, read_index |-> 0, write_index |-> 0]
    /\ out' = Ret("clear", TRUE, 0, << >>)

\* IOStream::readToBuffer when read(2) returns the bytes of data: room for a
\* chunk, the bytes stored at data(), the end moved by their number.
ReadToBuffer(data) ==
    LET b == EnsureWritableBytes(buf, ReadChunk) IN
    IF CanWrite(buf, ReadChunk)
      THEN /\ buf' = Grow(CopyTo(b, b.read_index, data), Len(data))
           /\ out' = Ret("readToBuffer", TRUE, 0, << >>)
      ELSE /\ out' = Ret("readToBuffer", FALSE, 0, << >>)
           /\ UNCHANGED buf

Next ==
    \/ \E data \in SeqOf(Byte, MaxLen) : AppendBytes(data)
    \/ \E n \in 0..MaxLen : EnsureWritable(n)
    \/ \E n \in 0..MaxLen : ExtendReadBytes(n)
    \/ \E n \in 0..MaxLen : ReadBytesToString(n)
    \/ \E n \in 0..MaxLen : ReadBytes(n)
    \/ \E d \in Delimiters : Find(d)
    \/ Clear
    \/ \E data \in SeqOf(Byte, ReadChunk) : ReadToBuffer(data)

Spec == Init /\ [][Next]_vars

-----------------------------------------------------------------------------
(* Correctness.                                                            *)

\* The object is well formed: the two indexes stay in order and within the
\* array through every sequence of calls, compaction included, which is what
\* makes every unsigned subtraction of Buffer.h:52-65 and the asserts of
\* Buffer.cpp:53 and 69 safe.
TypeOK ==
    /\ buf \in Buffers
    /\ buf.read_index <= buf.write_index

BQ == INSTANCE ByteQueue WITH queue <- Contents(buf)

\* Whatever the layout, the clients see a byte FIFO of the whole capacity:
\* appended bytes come out once, in order, compaction moves none of them, an
\* append is refused only when the bytes really do not fit, and find gives the
\* first occurrence in the unread bytes.
RefinesByteQueue == BQ!Spec

=============================================================================
