------------------------------ MODULE IOStream ------------------------------
(***************************************************************************)
(* tornado::IOStream (src/tornado/IOStream.h, IOStream.cpp): one TCP        *)
(* connection over the IOLoop, with a read and a write Buffer.              *)
(*                                                                         *)
(* The stream never calls application code itself: it posts callbacks to    *)
(* the IOLoop (module IOLoop runs them in order).  So a call of the API and *)
(* a call of handleEvents are atomic to each other, but not to the peer:    *)
(* the loops of readToBufferLoop and handleWrite are steps of their own,    *)
(* one per read(2) or write(2).  The bytes the peer sends are numbered      *)
(* 1, 2, ...; the read buffer is a record of module Buffer, of the write    *)
(* buffer only the length matters.                                         *)
(***************************************************************************)
EXTENDS Integers, FiniteSets, SequencesExt

CONSTANTS
    Capacity,    \* Buffer::DEFAULT_BUFF_LEN, of either buffer
    ReadChunk,   \* READ_CHUNK_SIZE
    WriteChunk,  \* WRITE_CHUNK_SIZE
    SendBuffer,  \* bytes the kernel takes that the peer has not received
    PeerBytes,   \* bound: the bytes the peer sends
    Delimiters,  \* which of them are a delimiter
    ReadSizes,   \* the lengths readBytes is called with
    WriteSizes,  \* the lengths writeBytes is called with
    MaxReads,    \* bound: calls that read
    MaxWrites    \* bound: calls that write

ASSUME IOStreamAssumption ==
    /\ Capacity \in Nat \ {0}
    /\ ReadChunk \in 1..Capacity
    /\ WriteChunk \in Nat \ {0}
    /\ SendBuffer \in Nat \ {0}
    /\ PeerBytes \in Nat
    /\ Delimiters \subseteq 1..PeerBytes
    /\ ReadSizes \subseteq Nat \ {0}
    /\ WriteSizes \subseteq Nat \ {0}
    /\ MaxReads \in Nat
    /\ MaxWrites \in Nat

VARIABLES
    s,           \* the members of the IOStream, see Streams, and `posted`:
                 \*   the callbacks it has given to IOLoop::addCallback
    pc,          \* "idle", or the loop that runs: "reading", "writing"
    caller,      \* who runs it: {"api"}, or the events of handleEvents
    reported,    \* the events epoll_wait has reported and not dispatched
    conn,        \* kernel: fresh, connecting, up, failed or reset
    sent,        \* kernel: bytes the peer has sent
    got,         \* kernel: bytes read(2) has returned
    fin,         \* kernel: the peer has closed its side
    outq,        \* kernel: bytes written that the peer has not received
    reads,       \* history: calls of readBytes and readUntil taken on
    writes,      \* history: calls that wrote
    overlaid     \* history: read(2) has stored bytes over unread ones

kernelVars == <<conn, sent, fin, outq>>
history == <<reads, writes, overlaid>>
vars == <<s, pc, caller, reported, conn, sent, got, fin, outq, reads, writes, overlaid>>

\* What the cells of a new buffer hold; the second value looks like a delimiter.
Junk == {0, PeerBytes + 1}

B == INSTANCE Buffer WITH Byte <- 1..(PeerBytes + 1), Junk <- 0, MaxLen <- 0,
                          Delimiters <- {}, buf <- s.read_buffer, out <- 0

Event == {"READ", "WRITE", "ERROR"}

Callback == [kind : {"read", "rest", "write", "connect", "connect failed", "close"},
             data : Seq(0..(PeerBytes + 1))]

Streams ==
    [closed : BOOLEAN, connecting : BOOLEAN, state : SUBSET Event,
     connect_callback : BOOLEAN, read_callback : BOOLEAN,
     write_callback : BOOLEAN, close_callback : BOOLEAN,
     read_buffer : B!Buffers, write_len : 0..Capacity,
     read_bytes : Nat, read_delimiter : BOOLEAN, read_until_close : BOOLEAN,
     posted : Seq(Callback)]

NewStream(junk) ==
    [closed |-> FALSE, connecting |-> FALSE, state |-> {},
     connect_callback |-> FALSE, read_callback |-> FALSE,
     write_callback |-> FALSE, close_callback |-> FALSE,
     read_buffer |-> [B!EmptyBuffer EXCEPT !.buff = [a \in B!Addr |-> junk]],
     write_len |-> 0, read_bytes |-> 0, read_delimiter |-> FALSE,
     read_until_close |-> FALSE, posted |-> << >>]

Init ==
    /\ \E junk \in Junk : s = NewStream(junk)
    /\ pc = "idle"
    /\ caller = {}
    /\ reported = {}
    /\ conn \in {"fresh", "up"}      \* a client's socket, an accepted one
    /\ sent = 0
    /\ got = 0
    /\ fin = FALSE
    /\ outq = 0
    /\ reads = 0
    /\ writes = 0
    /\ overlaid = FALSE

-----------------------------------------------------------------------------
(* The methods that do not wait, as functions of the stream.               *)

Unread(t) == B!ReadableBytes(t.read_buffer)

Post(t, kind, data) ==
    [t EXCEPT !.posted = Append(@, [kind |-> kind, data |-> data])]

PostIf(wanted, t, kind) == IF wanted THEN Post(t, kind, << >>) ELSE t

Kind(t) == IF t.read_until_close THEN "rest" ELSE "read"

\* Mutant of HandOut: the bytes are copied out but stay in the buffer.
HandOutCopy(t, n) ==
    LET data == SubSeq(B!Contents(t.read_buffer), 1, n)
    IN  IF t.read_callback THEN Post(t, Kind(t), data) ELSE t

\* readBytesToString(n), the result bound to the read callback if there is one.
HandOut(t, n) ==
    LET data == SubSeq(B!Contents(t.read_buffer), 1, n)
        rest == [t EXCEPT !.read_buffer = B!Drop(@, n)]
    IN  IF t.read_callback THEN Post(rest, Kind(t), data) ELSE rest

\* Mutant of Close: the test of closed_ is missing.
CloseAgain(t) ==
    LET rest == IF t.read_until_close /\ Unread(t) > 0 THEN HandOut(t, Unread(t)) ELSE t
    IN  [PostIf(t.close_callback, rest, "close")
             EXCEPT !.closed = TRUE, !.state = {}, !.read_until_close = FALSE,
                    !.connect_callback = FALSE, !.read_callback = FALSE,
                    !.write_callback = FALSE, !.close_callback = FALSE]

\* Mutant of Close: what a readUntilClose has buffered is not handed out.
CloseDropsRest(t) ==
    IF t.closed THEN t
    ELSE [PostIf(t.close_callback, t, "close")
             EXCEPT !.closed = TRUE, !.state = {}, !.read_until_close = FALSE,
                    !.connect_callback = FALSE, !.read_callback = FALSE,
                    !.write_callback = FALSE, !.close_callback = FALSE]

\* close().  The other fields of a pending read, read_bytes_ and
\* read_delimiter_, keep their value.
Close(t) ==
    LET rest == IF t.read_until_close /\ Unread(t) > 0 THEN HandOut(t, Unread(t)) ELSE t
    IN  IF t.closed THEN t
        ELSE [PostIf(t.close_callback, rest, "close")
                 EXCEPT !.closed = TRUE, !.state = {}, !.read_until_close = FALSE,
                        !.connect_callback = FALSE, !.read_callback = FALSE,
                        !.write_callback = FALSE, !.close_callback = FALSE]

\* Mutant of AddIOState: a handler that is registered is not updated.
RegisterOnly(t, event) ==
    IF t.closed \/ t.state # {} THEN t ELSE [t EXCEPT !.state = {event, "ERROR"}]

\* addIOState(): the first call registers the handler.
AddIOState(t, event) ==
    IF t.closed THEN t ELSE [t EXCEPT !.state = @ \cup {event, "ERROR"}]

\* Where read_buffer_.find(delimiter) ends, 0 when there is none.
DelimiterEnd(t) ==
    LET data == B!Contents(t.read_buffer)
        At == {i \in DOMAIN data : data[i] \in Delimiters \cup {PeerBytes + 1}}
    IN  IF At = {} THEN 0 ELSE CHOOSE i \in At : \A j \in At : i <= j

\* Mutant of Answer: the request is not cleared with its callback.
AnswerKeepsRequest(t) ==
    IF t.read_bytes > 0 /\ Unread(t) >= t.read_bytes
      THEN [HandOut(t, t.read_bytes) EXCEPT !.read_callback = FALSE]
    ELSE IF t.read_delimiter /\ DelimiterEnd(t) > 0
      THEN [HandOut(t, DelimiterEnd(t)) EXCEPT !.read_callback = FALSE]
    ELSE IF t.read_until_close /\ Unread(t) > 0 THEN HandOut(t, Unread(t))
    ELSE t

\* Mutant of Answer: waits for one byte more than was asked for.
AnswerStrict(t) ==
    IF t.read_bytes > 0 /\ Unread(t) > t.read_bytes
      THEN [HandOut(t, t.read_bytes) EXCEPT !.read_bytes = 0, !.read_callback = FALSE]
    ELSE t

\* Mutant of Answer: a pending read is answered with what there is.
AnswerShort(t) ==
    IF t.read_callback /\ Unread(t) > 0
      THEN HandOut(t, 1)
    ELSE t

\* The rest of handleRead(), once nothing more can be read.
Answer(t) ==
    IF t.read_bytes > 0 /\ Unread(t) >= t.read_bytes
      THEN [HandOut(t, t.read_bytes) EXCEPT !.read_bytes = 0, !.read_callback = FALSE]
    ELSE IF t.read_delimiter /\ DelimiterEnd(t) > 0
      THEN [HandOut(t, DelimiterEnd(t)) EXCEPT !.read_delimiter = FALSE,
                                               !.read_callback = FALSE]
    ELSE IF t.read_until_close /\ Unread(t) > 0 THEN HandOut(t, Unread(t))
    ELSE t

Reading(t) == t.read_bytes > 0
Writing(t) == t.write_len > 0

\* Mutant of Watch: an idle stream is watched for errors only.
WatchWhatIsPending(t) ==
    {"ERROR"} \cup (IF Reading(t) THEN {"READ"} ELSE {})
              \cup (IF Writing(t) THEN {"WRITE"} ELSE {})

\* The events handleEvents asks for when it ends.
Watch(t) ==
    {"ERROR"} \cup (IF Reading(t) \/ ~Writing(t) THEN {"READ"} ELSE {})
              \cup (IF Writing(t) THEN {"WRITE"} ELSE {})

\* The end of handleEvents.
EndEvents(t, events) ==
    IF "ERROR" \in events THEN Close(t) ELSE [t EXCEPT !.state = Watch(t)]

-----------------------------------------------------------------------------
(* The API.                                                                *)

Idle == pc = "idle"

\* What the code asserts of a call that reads.
MayRead ==
    /\ Idle
    /\ conn # "fresh"
    /\ ~s.read_callback
    /\ s.read_bytes = 0 /\ ~s.read_delimiter /\ ~s.read_until_close

\* A read that the local buffer can answer is answered from it; another goes
\* to the socket.
ReadRequest(n, request) ==
    /\ MayRead
    /\ reads' = reads + 1
    /\ \/ /\ n > 0
          /\ s' = [HandOut([s EXCEPT !.read_callback = TRUE], n)
                      EXCEPT !.read_callback = FALSE]
          /\ UNCHANGED <<pc, caller>>
       \/ /\ n = 0
          /\ s' = request
          /\ pc' = "reading"
          /\ caller' = {"api"}
    /\ UNCHANGED <<reported, kernelVars, got, writes, overlaid>>

ReadBytes(n) ==
    ReadRequest(IF Unread(s) >= n THEN n ELSE 0,
                [s EXCEPT !.read_bytes = n, !.read_callback = TRUE])

ReadUntil ==
    ReadRequest(DelimiterEnd(s),
                [s EXCEPT !.read_delimiter = TRUE, !.read_callback = TRUE])

ReadUntilClose ==
    /\ MayRead
    /\ s' = [s EXCEPT !.read_until_close = TRUE, !.read_callback = TRUE]
    /\ pc' = "reading"
    /\ caller' = {"api"}
    /\ UNCHANGED <<reported, kernelVars, got, history>>

\* append(), which closes the stream when the data does not fit.
AppendOrClose(n, t) ==
    IF t.write_len + n <= Capacity THEN [t EXCEPT !.write_len = @ + n] ELSE Close(t)

\* writeBytes, with or without a callback, on an open stream.  While the stream
\* connects the data waits; otherwise handleWrite runs.
WriteBytes(n, callback) ==
    LET t == AppendOrClose(n, s) IN
    /\ Idle
    /\ conn # "fresh"
    /\ ~s.closed
    /\ callback => ~s.write_callback
    /\ s' = IF callback /\ ~t.closed THEN [t EXCEPT !.write_callback = TRUE] ELSE t
    /\ pc' = IF t.closed \/ t.connecting THEN "idle" ELSE "writing"
    /\ caller' = IF t.closed \/ t.connecting THEN {} ELSE {"api"}
    /\ writes' = writes + 1
    /\ UNCHANGED <<reported, kernelVars, got, reads, overlaid>>

JustWriteBytesToBuff(n) ==
    /\ Idle
    /\ ~s.closed
    /\ s' = AppendOrClose(n, s)
    /\ writes' = writes + 1
    /\ UNCHANGED <<pc, caller, reported, kernelVars, got, reads, overlaid>>

SetCloseCallback ==
    /\ Idle
    /\ s' = [s EXCEPT !.close_callback = TRUE]
    /\ UNCHANGED <<pc, caller, reported, kernelVars, got, history>>

\* connect(): under way, or refused at once.  The callback is set only then.
Connect(callback) ==
    /\ Idle
    /\ conn = "fresh"
    /\ ~s.closed
    /\ \/ /\ conn' = "connecting"
          /\ s' = [AddIOState(s, "WRITE") EXCEPT !.connecting = TRUE,
                                                 !.connect_callback = callback]
       \/ /\ conn' = "failed"
          /\ s' = [Close(s) EXCEPT !.connecting = TRUE]
    /\ UNCHANGED <<pc, caller, reported, sent, got, fin, outq, history>>

\* close() by the application, or by the destructor.
CloseStream ==
    /\ Idle
    /\ s' = Close(s)
    /\ UNCHANGED <<pc, caller, reported, kernelVars, got, history>>

-----------------------------------------------------------------------------
(* handleRead: read(2) until it would block, then answer.                  *)

\* The read buffer with room for a chunk.
Roomy(t) == [t EXCEPT !.read_buffer = B!EnsureWritableBytes(@, ReadChunk)]

HasRoom == B!CanWrite(s.read_buffer, ReadChunk)

LowerOf(a, b) == IF a < b THEN a ELSE b

\* read(socket_, read_buffer_.data(), ...) and extendReadBytes.
Stored(t, chunk) ==
    [t EXCEPT !.read_buffer = B!Grow(B!CopyTo(@, @.read_index, chunk), Len(chunk))]

ReadSome ==
    /\ pc = "reading"
    /\ ~s.closed
    /\ HasRoom
    /\ got < sent
    /\ LET n == LowerOf(ReadChunk, sent - got) IN
       /\ s' = Stored(Roomy(s), [i \in 1..n |-> got + i])
       /\ got' = got + n
    /\ overlaid' = (overlaid \/ Unread(s) > 0)
    /\ UNCHANGED <<pc, caller, reported, kernelVars, reads, writes>>

\* The buffer is full, the peer has closed, or read(2) has failed (EBADF once
\* the stream is closed): the caller closes the stream, whatever was read.
ReadFails ==
    /\ pc = "reading"
    /\ \/ s.closed
       \/ ~HasRoom
       \/ got = sent /\ (fin \/ conn \in {"failed", "reset"})
    /\ s' = Close(IF s.closed THEN s ELSE Roomy(s))
    /\ pc' = "idle"
    /\ caller' = {}
    /\ UNCHANGED <<reported, kernelVars, got, history>>

\* read(2) would block.
ReadBlocks ==
    /\ pc = "reading"
    /\ ~s.closed
    /\ HasRoom
    /\ got = sent /\ ~fin /\ conn \in {"connecting", "up"}
    /\ LET t == Answer(Roomy(s)) IN
       \/ /\ caller = {"api"}
          /\ s' = AddIOState(t, "READ")
          /\ pc' = "idle" /\ caller' = {}
       \/ /\ caller # {"api"} /\ "WRITE" \in caller
          /\ s' = t
          /\ pc' = "writing" /\ UNCHANGED caller
       \/ /\ caller # {"api"} /\ "WRITE" \notin caller
          /\ s' = EndEvents(t, caller)
          /\ pc' = "idle" /\ caller' = {}
    /\ UNCHANGED <<reported, kernelVars, got, history>>

-----------------------------------------------------------------------------
(* handleWrite: write(2) until the buffer is empty or it would block.      *)

WriteSome ==
    /\ pc = "writing"
    /\ Writing(s)
    /\ conn = "up"
    /\ outq < SendBuffer
    /\ LET n == LowerOf(LowerOf(WriteChunk, s.write_len), SendBuffer - outq) IN
       /\ s' = [s EXCEPT !.write_len = @ - n]
       /\ outq' = outq + n
    /\ UNCHANGED <<pc, caller, reported, conn, sent, got, fin, history>>

WriteFails ==
    /\ pc = "writing"
    /\ Writing(s)
    /\ conn = "reset"
    /\ s' = Close(s)
    /\ pc' = "idle"
    /\ caller' = {}
    /\ UNCHANGED <<reported, kernelVars, got, history>>

\* The callback goes when the buffer is empty.
Written(t) ==
    IF ~Writing(t) /\ t.write_callback
      THEN [Post(t, "write", << >>) EXCEPT !.write_callback = FALSE]
      ELSE t

WriteBlocksOrEnds ==
    /\ pc = "writing"
    /\ ~Writing(s) \/ (conn = "up" /\ outq = SendBuffer)
    /\ LET t == Written(s) IN
       \/ /\ caller = {"api"}
          /\ s' = IF Writing(t) THEN AddIOState(t, "WRITE") ELSE t
       \/ /\ caller # {"api"}
          /\ s' = EndEvents(t, caller)
    /\ pc' = "idle"
    /\ caller' = {}
    /\ UNCHANGED <<reported, kernelVars, got, history>>

-----------------------------------------------------------------------------
(* The loop and handleEvents.                                              *)

\* What the kernel has to tell: an error or hang-up is told unasked.
Raised ==
    {e \in s.state :
        \/ e = "READ" /\ (got < sent \/ fin \/ conn \in {"failed", "reset"})
        \/ e = "WRITE" /\ (conn \in {"failed", "reset"} \/ (conn = "up" /\ outq < SendBuffer))
        \/ e = "ERROR" /\ conn \in {"failed", "reset"}}

Poll ==
    /\ Idle
    /\ reported = {}
    /\ Raised # {}
    /\ reported' = Raised
    /\ UNCHANGED <<s, pc, caller, kernelVars, got, history>>

\* handleConnect().
Connected(t) ==
    [PostIf(t.connect_callback, t, "connect")
        EXCEPT !.connect_callback = FALSE, !.connecting = FALSE]

ConnectFailed(t) ==
    Close([PostIf(t.connect_callback, t, "connect failed")
              EXCEPT !.connect_callback = FALSE])

\* handleEvents() up to its first system call.  The loop skips a stream that
\* was closed since the events were reported.
Dispatch ==
    LET t == IF s.connecting THEN Connected(s) ELSE s IN
    /\ Idle
    /\ reported # {}
    /\ reported' = {}
    /\ \/ /\ s.closed
          /\ UNCHANGED <<s, pc, caller>>
       \/ /\ ~s.closed /\ s.connecting /\ conn = "failed"
          /\ s' = ConnectFailed(s)
          /\ UNCHANGED <<pc, caller>>
       \/ /\ ~s.closed /\ ~(s.connecting /\ conn = "failed")
          /\ "READ" \in reported
          /\ s' = t /\ pc' = "reading" /\ caller' = reported
       \/ /\ ~s.closed /\ ~(s.connecting /\ conn = "failed")
          /\ "READ" \notin reported /\ "WRITE" \in reported
          /\ s' = t /\ pc' = "writing" /\ caller' = reported
       \/ /\ ~s.closed /\ ~(s.connecting /\ conn = "failed")
          /\ reported = {"ERROR"}
          /\ s' = EndEvents(t, reported) /\ UNCHANGED <<pc, caller>>
    /\ UNCHANGED <<kernelVars, got, history>>

-----------------------------------------------------------------------------
(* The network and the peer.                                               *)

Peer == ~s.closed /\ UNCHANGED <<s, pc, caller, reported, got, history>>

ConnectEnds ==
    /\ conn = "connecting"
    /\ conn' \in {"up", "failed"}
    /\ Peer /\ UNCHANGED <<sent, fin, outq>>

PeerSends ==
    /\ conn = "up" /\ ~fin
    /\ sent < PeerBytes
    /\ sent' = sent + 1
    /\ Peer /\ UNCHANGED <<conn, fin, outq>>

PeerCloses ==
    /\ conn = "up" /\ ~fin
    /\ fin' = TRUE
    /\ Peer /\ UNCHANGED <<conn, sent, outq>>

\* A reset may take with it what was not read yet.
PeerResets ==
    /\ conn = "up"
    /\ conn' = "reset"
    /\ sent' \in {got, sent}
    /\ Peer /\ UNCHANGED <<fin, outq>>

PeerReceives ==
    /\ conn = "up"
    /\ outq > 0
    /\ outq' = 0
    /\ Peer /\ UNCHANGED <<conn, sent, fin>>

-----------------------------------------------------------------------------

ApiStep ==
    \/ reads < MaxReads /\ \E n \in ReadSizes : ReadBytes(n)
    \/ reads < MaxReads /\ ReadUntil
    \/ ReadUntilClose
    \/ \E n \in WriteSizes, callback \in BOOLEAN :
          writes < MaxWrites /\ WriteBytes(n, callback)
    \/ \E n \in WriteSizes : writes < MaxWrites /\ JustWriteBytesToBuff(n)
    \/ SetCloseCallback
    \/ \E callback \in BOOLEAN : Connect(callback)
    \/ CloseStream

StreamStep ==
    \/ ReadSome
    \/ ReadFails
    \/ ReadBlocks
    \/ WriteSome
    \/ WriteFails
    \/ WriteBlocksOrEnds
    \/ Poll
    \/ Dispatch

NetworkStep ==
    \/ ConnectEnds
    \/ PeerSends
    \/ PeerCloses
    \/ PeerResets
    \/ PeerReceives

Next == ApiStep \/ StreamStep \/ NetworkStep

Spec == Init /\ [][Next]_vars

\* The loop is scheduled (IOLoop!ReadyIsDispatched), a connection attempt ends
\* (the kernel gives up at last) and the peer takes what it is sent.
Fairness ==
    /\ WF_vars(StreamStep)
    /\ WF_vars(ConnectEnds)
    /\ WF_vars(PeerReceives)

FairSpec == Spec /\ Fairness

-----------------------------------------------------------------------------
(* Correctness.                                                            *)

TypeOK ==
    /\ s \in Streams
    /\ pc \in {"idle", "reading", "writing"}
    /\ caller = {"api"} \/ caller \subseteq Event
    /\ reported \subseteq Event
    /\ conn \in {"fresh", "connecting", "up", "failed", "reset"}
    /\ sent \in 0..PeerBytes
    /\ got \in 0..sent
    /\ outq \in 0..SendBuffer
    /\ reads \in Nat /\ writes \in Nat
    /\ overlaid \in BOOLEAN

\* What these callbacks carry, one after the other.
Joined(callbacks) ==
    LET bytes[n \in 0..Len(callbacks)] ==
          IF n = 0 THEN << >> ELSE bytes[n - 1] \o callbacks[n].data
    IN  bytes[Len(callbacks)]

\* The bytes handed to read callbacks so far, and the answers they came in.
Delivered(t) == Joined(t.posted)
Answers(t) == Cardinality({i \in DOMAIN t.posted : t.posted[i].kind = "read"})

\* An open stream that waits for something has asked the loop to be told: a
\* pending connect or write callback is never left without WRITE, a pending
\* read never without READ, except (IOStream::reading counts readBytes only)
\* while a write is pending too.
NoLostInterest ==
    Idle /\ ~s.closed =>
      /\ s.connecting \/ s.write_callback => "WRITE" \in s.state
      /\ s.read_callback => "READ" \in s.state \/ "WRITE" \in s.state
      /\ s.read_callback /\ s.read_bytes > 0 => "READ" \in s.state

\* Every readBytes and readUntil gets one answer or, if the stream closes
\* first, none; and when the answer is posted the request is cleared with it,
\* so that the callback may read again (the asserts of IOStream.cpp:202-203).
OneAnswerPerRead ==
    /\ Answers(s) <= reads
    /\ ~s.closed =>
         /\ reads = Answers(s) + Cardinality({f \in {s.read_callback} : f /\ ~s.read_until_close})
         /\ s.read_callback = (s.read_bytes > 0 \/ s.read_delimiter \/ s.read_until_close)

\* No byte is lost inside the stream: as many as were read from the socket are
\* handed to a callback or in the buffer, after errors and close() too.
BytesAccounted == got = Len(Delivered(s)) + Unread(s)

\* The application gets the bytes in the order they were sent, none twice and
\* none skipped, as long as no read(2) found unread bytes in the buffer.
IntactUnlessOverlaid ==
    ~overlaid => \A i \in 1..Len(Delivered(s)) : Delivered(s)[i] = i

\* readUntilClose is given everything that was read when the stream closes, and
\* everything the peer sent when it closes because the peer did.
UntilCloseComplete ==
    [][s.read_until_close /\ ~s.closed /\ s'.closed =>
         /\ Len(Delivered(s')) = got
         /\ pc = "reading" /\ HasRoom /\ conn = "up" => fin /\ got = sent]_vars

\* The close callback is the last thing an open stream posts.  A closed one
\* stays closed, watches nothing and posts no more than what readBytes or
\* readUntil still finds in the local buffer.
CloseIsFinal ==
    [][/\ ~s.closed /\ s'.closed /\ s.close_callback =>
             s'.posted # s.posted /\ Last(s'.posted).kind = "close"
       /\ s.closed =>
             /\ s'.closed
             /\ s'.state = {}
             /\ \/ s'.posted = s.posted
                \/ /\ Front(s'.posted) = s.posted
                   /\ Last(s'.posted).kind = "read"]_vars

\* A readBytes whose bytes have come is answered, or the stream is closed.
ReadResolves ==
    (~s.closed /\ s.read_bytes > 0 /\ Unread(s) + (sent - got) >= s.read_bytes)
      ~> (s.closed \/ s.read_bytes = 0)

\* A write callback is called once the peer has taken the data, or the stream
\* is closed; a stream that connects gets there too.
WriteResolves == s.write_callback ~> ~s.write_callback

\* When the peer closes or resets the connection the stream notices, and
\* closes, unless it was never registered with the loop; also while a blocked
\* write has taken READ out of the events it watches.
PeerCloseNoticed == ((fin \/ conn = "reset") /\ s.state # {}) ~> s.closed

\* "400 bytes to the server, and the server sends the 400 bytes it received
\* back" (test/ReadMe.md:29): what arrives is what was sent.
DeliveredIntact == \A i \in 1..Len(Delivered(s)) : Delivered(s)[i] = i

=============================================================================
