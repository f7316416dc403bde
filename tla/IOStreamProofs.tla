--------------------------- MODULE IOStreamProofs ---------------------------
(***************************************************************************)
(* The IOStream never forgets what it waits for (NoLostInterest), answers    *)
(* every read once (OneAnswerPerRead), closes once and for good              *)
(* (CloseIsFinal), keeps its indexes within its arrays (TypeOK), loses no    *)
(* byte (BytesAccounted), hands the bytes out in their order                *)
(* (IntactUnlessOverlaid) and cuts no readUntilClose short                  *)
(* (UntilCloseComplete), for any capacity, chunk, delimiters, lengths and    *)
(* number of calls.                                                        *)
(*                                                                         *)
(* What the loops of handleRead and handleWrite leave open between two      *)
(* system calls is what the invariant adds: while a call of the API is in    *)
(* one, only what it has just asked for may lack its event; while            *)
(* handleEvents is, everything may, because it sets all events at its end,   *)
(* and that is enough because a write callback waits for bytes that are      *)
(* still in the buffer.  For the bytes it is the stock, what was handed out  *)
(* followed by what is in the buffer: every method but the store of a        *)
(* read(2) keeps it, by the lemmas of BufferProofs.                         *)
(***************************************************************************)
EXTENDS IOStream, FiniteSetTheorems, SequenceTheorems, WellFoundedInduction, TLAPS

\* The fields of a stream; its read buffer and what it has posted may be anything.
Shape(t) ==
    t \in [closed : BOOLEAN, connecting : BOOLEAN, state : SUBSET Event,
           connect_callback : BOOLEAN, read_callback : BOOLEAN,
           write_callback : BOOLEAN, close_callback : BOOLEAN,
           read_buffer : {t.read_buffer}, write_len : Nat,
           read_bytes : Nat, read_delimiter : BOOLEAN, read_until_close : BOOLEAN,
           posted : {t.posted}]

-----------------------------------------------------------------------------
(* What the methods do to the fields.                                      *)

\* u is t, but for the bytes it has handed out and the callback it has posted.
SameRequests(t, u) ==
    /\ u.closed = t.closed
    /\ u.connecting = t.connecting
    /\ u.state = t.state
    /\ u.read_callback = t.read_callback
    /\ u.write_callback = t.write_callback
    /\ u.close_callback = t.close_callback
    /\ u.write_len = t.write_len
    /\ u.read_bytes = t.read_bytes
    /\ u.read_delimiter = t.read_delimiter
    /\ u.read_until_close = t.read_until_close

LEMMA PostShape ==
  ASSUME NEW t, Shape(t), NEW kind, NEW data
  PROVE  /\ Shape(Post(t, kind, data)) /\ SameRequests(t, Post(t, kind, data))
         /\ Post(t, kind, data).posted = Append(t.posted, [kind |-> kind, data |-> data])
BY DEF Shape, Post, SameRequests

LEMMA HandOutShape ==
  ASSUME NEW t, Shape(t), NEW n
  PROVE  /\ Shape(HandOut(t, n)) /\ SameRequests(t, HandOut(t, n))
         /\ \E data : HandOut(t, n).posted = IF t.read_callback
                         THEN Append(t.posted, [kind |-> Kind(t), data |-> data])
                         ELSE t.posted
<1>. DEFINE data == SubSeq(B!Contents(t.read_buffer), 1, n)
            rest == [t EXCEPT !.read_buffer = B!Drop(@, n)]
<1>1. /\ Shape(rest) /\ SameRequests(t, rest) /\ rest.posted = t.posted
      /\ Kind(rest) = Kind(t)
  BY DEF Shape, SameRequests, Kind
<1>2. HandOut(t, n) = IF t.read_callback THEN Post(rest, Kind(t), data) ELSE rest
  BY DEF HandOut
<1>. HIDE DEF data, rest
<1>3. /\ Shape(Post(rest, Kind(t), data)) /\ SameRequests(rest, Post(rest, Kind(t), data))
      /\ Post(rest, Kind(t), data).posted = Append(rest.posted, [kind |-> Kind(t), data |-> data])
  BY <1>1, PostShape
<1>. QED  BY <1>1, <1>2, <1>3 DEF SameRequests

LEMMA CloseShape ==
  ASSUME NEW t, Shape(t)
  PROVE  /\ Shape(Close(t)) /\ Close(t).closed
         /\ t.closed => Close(t) = t
         /\ ~t.closed => \E data : \E rest, last :
              /\ Close(t).posted = last
              /\ rest = IF t.read_until_close /\ Unread(t) > 0 /\ t.read_callback
                          THEN Append(t.posted, [kind |-> "rest", data |-> data])
                          ELSE t.posted
              /\ last = IF t.close_callback
                          THEN Append(rest, [kind |-> "close", data |-> << >>])
                          ELSE rest
<1>. DEFINE rest == IF t.read_until_close /\ Unread(t) > 0 THEN HandOut(t, Unread(t)) ELSE t
            last == PostIf(t.close_callback, rest, "close")
<1>1. Shape(rest) /\ rest.closed = t.closed
  BY HandOutShape DEF SameRequests
<1>2. PICK data : rest.posted = IF t.read_until_close /\ Unread(t) > 0 /\ t.read_callback
                                  THEN Append(t.posted, [kind |-> "rest", data |-> data])
                                  ELSE t.posted
  BY HandOutShape DEF Kind
<1>. HIDE DEF rest
<1>3. /\ Shape(last)
      /\ last.posted = IF t.close_callback
                         THEN Append(rest.posted, [kind |-> "close", data |-> << >>])
                         ELSE rest.posted
  BY <1>1, PostShape DEF PostIf
<1>4. Close(t) = IF t.closed THEN t
                 ELSE [last EXCEPT !.closed = TRUE, !.state = {}, !.read_until_close = FALSE,
                          !.connect_callback = FALSE, !.read_callback = FALSE,
                          !.write_callback = FALSE, !.close_callback = FALSE]
  BY DEF Close, rest
<1>. HIDE DEF last
<1>5. Shape(Close(t)) /\ Close(t).closed
  BY <1>3, <1>4 DEF Shape
<1>6. ~t.closed => Close(t).posted = last.posted
  BY <1>3, <1>4 DEF Shape
<1>. QED  BY <1>2, <1>3, <1>4, <1>5, <1>6

LEMMA AddIOStateShape ==
  ASSUME NEW t, Shape(t), NEW event \in Event
  PROVE  LET u == AddIOState(t, event) IN
         /\ Shape(u)
         /\ u = [t EXCEPT !.state = u.state]
         /\ t.state \subseteq u.state
         /\ ~t.closed => event \in u.state
BY DEF Shape, AddIOState, Event

LEMMA EndEventsShape ==
  ASSUME NEW t, Shape(t), NEW events
  PROVE  /\ Shape(EndEvents(t, events))
         /\ \/ EndEvents(t, events) = Close(t)
            \/ EndEvents(t, events) = [t EXCEPT !.state = Watch(t)]
<1>1. Shape([t EXCEPT !.state = Watch(t)])
  BY DEF Shape, Watch, Event
<1>. QED  BY <1>1, CloseShape DEF EndEvents

LEMMA AppendOrCloseShape ==
  ASSUME NEW t, Shape(t), NEW n \in Nat
  PROVE  LET u == AppendOrClose(n, t) IN
         /\ Shape(u)
         /\ \/ u = Close(t)
            \/ u = [t EXCEPT !.write_len = t.write_len + n]
<1>1. Shape([t EXCEPT !.write_len = t.write_len + n])
  BY DEF Shape
<1>. QED  BY <1>1, CloseShape DEF AppendOrClose

LEMMA StoredShape ==
  ASSUME NEW t, Shape(t), NEW chunk
  PROVE  /\ Shape(Roomy(t)) /\ SameRequests(t, Roomy(t)) /\ Roomy(t).posted = t.posted
         /\ Shape(Stored(t, chunk)) /\ SameRequests(t, Stored(t, chunk))
         /\ Stored(t, chunk).posted = t.posted
BY DEF Shape, SameRequests, Roomy, Stored

LEMMA WrittenShape ==
  ASSUME NEW t, Shape(t)
  PROVE  LET u == Written(t) IN
         /\ Shape(u)
         /\ u.write_callback => t.write_callback /\ u.write_len > 0
         /\ SameRequests([t EXCEPT !.write_callback = u.write_callback], u)
         /\ u.posted \in {t.posted, Append(t.posted, [kind |-> "write", data |-> << >>])}
<1>. DEFINE p == Post(t, "write", << >>)
<1>1. CASE ~Writing(t) /\ t.write_callback
  <2>1. /\ Shape(p) /\ SameRequests(t, p)
        /\ p.posted = Append(t.posted, [kind |-> "write", data |-> << >>])
    BY PostShape
  <2>2. Written(t) = [p EXCEPT !.write_callback = FALSE]
    BY <1>1 DEF Written
  <2>. HIDE DEF p
  <2>. QED  BY <2>1, <2>2 DEF Shape, SameRequests
<1>2. CASE ~(~Writing(t) /\ t.write_callback)
  <2>1. Written(t) = t
    BY <1>2 DEF Written
  <2>2. t.write_callback => t.write_len > 0
    BY <1>2 DEF Writing, Shape
  <2>. QED  BY <2>1, <2>2 DEF Shape, SameRequests
<1>. QED  BY <1>1, <1>2

LEMMA ConnectedShape ==
  ASSUME NEW t, Shape(t)
  PROVE  LET u == Connected(t) IN
         /\ Shape(u) /\ ~u.connecting
         /\ SameRequests([t EXCEPT !.connecting = FALSE], u)
         /\ u.posted \in {t.posted, Append(t.posted, [kind |-> "connect", data |-> << >>])}
<1>. DEFINE p == PostIf(t.connect_callback, t, "connect")
<1>1. /\ Shape(p) /\ SameRequests(t, p)
      /\ p.posted \in {t.posted, Append(t.posted, [kind |-> "connect", data |-> << >>])}
  BY PostShape DEF PostIf, SameRequests
<1>2. Connected(t) = [p EXCEPT !.connect_callback = FALSE, !.connecting = FALSE]
  BY DEF Connected
<1>. HIDE DEF p
<1>. QED  BY <1>1, <1>2 DEF Shape, SameRequests

\* What Answer leaves of a request.
LEMMA AnswerShape ==
  ASSUME NEW t, Shape(t)
  PROVE  LET u == Answer(t) IN
         /\ Shape(u)
         /\ u.closed = t.closed /\ u.connecting = t.connecting /\ u.state = t.state
         /\ u.write_callback = t.write_callback /\ u.write_len = t.write_len
         /\ u.read_until_close = t.read_until_close /\ u.close_callback = t.close_callback
         /\ \/ /\ SameRequests(t, u) /\ u.posted = t.posted
            \/ /\ t.read_until_close
               /\ SameRequests(t, u)
               /\ \E data : u.posted = IF t.read_callback
                      THEN Append(t.posted, [kind |-> "rest", data |-> data]) ELSE t.posted
            \/ /\ \/ /\ t.read_bytes > 0
                     /\ u.read_bytes = 0 /\ u.read_delimiter = t.read_delimiter
                  \/ /\ t.read_delimiter
                     /\ ~u.read_delimiter /\ u.read_bytes = t.read_bytes
               /\ ~u.read_callback
               /\ \E data : u.posted = IF t.read_callback
                      THEN Append(t.posted, [kind |-> Kind(t), data |-> data]) ELSE t.posted
<1>1. CASE t.read_bytes > 0 /\ Unread(t) >= t.read_bytes
  <2>. DEFINE h == HandOut(t, t.read_bytes)
  <2>1. Answer(t) = [h EXCEPT !.read_bytes = 0, !.read_callback = FALSE]
    BY <1>1 DEF Answer
  <2>2. Shape(h) /\ SameRequests(t, h)
    BY HandOutShape
  <2>3. PICK data : h.posted = IF t.read_callback
           THEN Append(t.posted, [kind |-> Kind(t), data |-> data]) ELSE t.posted
    BY HandOutShape
  <2>. HIDE DEF h
  <2>4. /\ Shape(Answer(t)) /\ ~Answer(t).read_callback
        /\ Answer(t).read_bytes = 0 /\ Answer(t).read_delimiter = t.read_delimiter
        /\ Answer(t).posted = h.posted
    <3>. DEFINE g == [h EXCEPT !.read_bytes = 0]
    <3>0. Shape(g) /\ g.read_bytes = 0 /\ Answer(t) = [g EXCEPT !.read_callback = FALSE]
      BY <2>1, <2>2 DEF Shape
    <3>1. Shape(Answer(t)) /\ ~Answer(t).read_callback /\ Answer(t).read_bytes = 0
      <4>. HIDE DEF g
      <4>. QED  BY <3>0 DEF Shape
    <3>2. Answer(t).read_delimiter = h.read_delimiter /\ Answer(t).posted = h.posted
      BY <2>1, <2>2 DEF Shape
    <3>. QED  BY <2>2, <3>1, <3>2 DEF SameRequests
  <2>5. /\ Answer(t).closed = t.closed /\ Answer(t).connecting = t.connecting
        /\ Answer(t).state = t.state /\ Answer(t).write_callback = t.write_callback
        /\ Answer(t).write_len = t.write_len
        /\ Answer(t).read_until_close = t.read_until_close
        /\ Answer(t).close_callback = t.close_callback
    BY <2>1, <2>2 DEF Shape, SameRequests
  <2>. QED  BY <1>1, <2>3, <2>4, <2>5
<1>2. CASE ~(t.read_bytes > 0 /\ Unread(t) >= t.read_bytes) /\ t.read_delimiter /\ DelimiterEnd(t) > 0
  <2>. DEFINE h == HandOut(t, DelimiterEnd(t))
  <2>1. Answer(t) = [h EXCEPT !.read_delimiter = FALSE, !.read_callback = FALSE]
    BY <1>2 DEF Answer
  <2>2. Shape(h) /\ SameRequests(t, h)
    BY HandOutShape
  <2>3. PICK data : h.posted = IF t.read_callback
           THEN Append(t.posted, [kind |-> Kind(t), data |-> data]) ELSE t.posted
    BY HandOutShape
  <2>. HIDE DEF h
  <2>4. /\ Shape(Answer(t)) /\ ~Answer(t).read_callback
        /\ ~Answer(t).read_delimiter /\ Answer(t).read_bytes = t.read_bytes
        /\ Answer(t).posted = h.posted
    BY <2>1, <2>2 DEF Shape, SameRequests
  <2>5. /\ Answer(t).closed = t.closed /\ Answer(t).connecting = t.connecting
        /\ Answer(t).state = t.state /\ Answer(t).write_callback = t.write_callback
        /\ Answer(t).write_len = t.write_len
        /\ Answer(t).read_until_close = t.read_until_close
        /\ Answer(t).close_callback = t.close_callback
    BY <2>1, <2>2 DEF Shape, SameRequests
  <2>. QED  BY <1>2, <2>3, <2>4, <2>5
<1>3. CASE /\ ~(t.read_bytes > 0 /\ Unread(t) >= t.read_bytes)
           /\ ~(t.read_delimiter /\ DelimiterEnd(t) > 0)
           /\ t.read_until_close /\ Unread(t) > 0
  <2>1. Answer(t) = HandOut(t, Unread(t)) /\ Kind(t) = "rest"
    BY <1>3 DEF Answer, Kind
  <2>2. PICK data : HandOut(t, Unread(t)).posted = IF t.read_callback
           THEN Append(t.posted, [kind |-> "rest", data |-> data]) ELSE t.posted
    BY <2>1, HandOutShape
  <2>3. Shape(HandOut(t, Unread(t))) /\ SameRequests(t, HandOut(t, Unread(t)))
    BY HandOutShape
  <2>. QED  BY <1>3, <2>1, <2>2, <2>3 DEF SameRequests
<1>4. CASE /\ ~(t.read_bytes > 0 /\ Unread(t) >= t.read_bytes)
           /\ ~(t.read_delimiter /\ DelimiterEnd(t) > 0)
           /\ ~(t.read_until_close /\ Unread(t) > 0)
  <2>1. Answer(t) = t
    BY <1>4 DEF Answer
  <2>. QED  BY <2>1 DEF SameRequests
<1>. QED  BY <1>1, <1>2, <1>3, <1>4

-----------------------------------------------------------------------------
(* What the stream waits for.                                              *)

Interest ==
    /\ Shape(s)
    /\ pc \in {"idle", "reading", "writing"}
    /\ reported \subseteq Event
    /\ pc # "idle" => caller = {"api"} \/ caller \subseteq Event
    /\ ~s.closed =>
         /\ s.write_callback => s.write_len > 0 \/ pc = "writing"
         /\ pc # "idle" /\ caller # {"api"} => ~s.connecting
         /\ pc = "idle" \/ caller = {"api"} =>
              /\ s.connecting => "WRITE" \in s.state
              /\ s.write_callback => "WRITE" \in s.state \/ pc = "writing"
              /\ s.read_callback => s.state \cap {"READ", "WRITE"} # {} \/ pc = "reading"
              /\ s.read_callback /\ s.read_bytes > 0 => "READ" \in s.state \/ pc = "reading"

LEMMA WatchEnough ==
  ASSUME NEW t, Shape(t), t.write_callback => t.write_len > 0
  PROVE  /\ t.write_callback => "WRITE" \in Watch(t)
         /\ Watch(t) \cap {"READ", "WRITE"} # {}
         /\ t.read_bytes > 0 => "READ" \in Watch(t)
<1>1. \/ "READ" \in Watch(t) \/ "WRITE" \in Watch(t)
  BY DEF Watch
<1>. QED  BY <1>1 DEF Watch, Reading, Writing, Shape

LEMMA EndEventsInterest ==
  ASSUME NEW t, Shape(t), NEW events, ~t.connecting, t.write_callback => t.write_len > 0,
         s' = EndEvents(t, events), pc' = "idle", reported' \subseteq Event
  PROVE  Interest'
<1>1. CASE s' = Close(t)
  <2>1. Shape(s') /\ s'.closed
    BY <1>1, CloseShape
  <2>2. Shape(s)'
    BY <2>1 DEF Shape
  <2>. QED  BY <2>1, <2>2 DEF Interest
<1>2. CASE s' = [t EXCEPT !.state = Watch(t)]
  <2>1. Shape(s')
    BY EndEventsShape
  <2>2. /\ s'.connecting = t.connecting /\ s'.write_callback = t.write_callback
        /\ s'.write_len = t.write_len /\ s'.read_bytes = t.read_bytes
        /\ s'.state = Watch(t)
    BY <1>2 DEF Shape
  <2>3. Shape(s)'
    BY <2>1 DEF Shape
  <2>. QED  BY <2>1, <2>2, <2>3, WatchEnough DEF Interest
<1>. QED  BY <1>1, <1>2, EndEventsShape

\* A closed stream waits for nothing.
LEMMA ClosedInterest ==
  ASSUME Shape(s'), s'.closed, pc' \in {"idle", "reading", "writing"},
         reported' \subseteq Event,
         pc' # "idle" => caller' = {"api"} \/ caller' \subseteq Event
  PROVE  Interest'
BY DEF Interest, Shape

LEMMA ReadRequestInterest ==
  ASSUME Interest, NEW n, NEW request, ReadRequest(n, request),
         Shape(request), SameRequests([s EXCEPT !.read_callback = request.read_callback,
                                                !.read_bytes = request.read_bytes,
                                                !.read_delimiter = request.read_delimiter], request)
  PROVE  Interest'
<1>1. pc = "idle" /\ UNCHANGED reported
  BY DEF ReadRequest, MayRead, Idle
<1>2. CASE s' = request /\ pc' = "reading" /\ caller' = {"api"}
  <2>1. /\ request.closed = s.closed /\ request.connecting = s.connecting
        /\ request.state = s.state /\ request.write_callback = s.write_callback
        /\ request.write_len = s.write_len
    BY DEF SameRequests, Interest, Shape
  <2>2. Shape(s)'
    BY <1>2 DEF Shape
  <2>. QED  BY <1>1, <1>2, <2>1, <2>2 DEF Interest
<1>3. CASE /\ s' = [HandOut([s EXCEPT !.read_callback = TRUE], n) EXCEPT !.read_callback = FALSE]
           /\ UNCHANGED <<pc, caller>>
  <2>. DEFINE r == [s EXCEPT !.read_callback = TRUE]
              h == HandOut(r, n)
  <2>1. Shape(r) /\ r.closed = s.closed /\ r.connecting = s.connecting /\ r.state = s.state
        /\ r.write_callback = s.write_callback /\ r.write_len = s.write_len
    BY DEF Interest, Shape
  <2>. HIDE DEF r
  <2>2. Shape(h) /\ SameRequests(r, h)
    BY <2>1, HandOutShape
  <2>3. s' = [h EXCEPT !.read_callback = FALSE]
    BY <1>3 DEF r
  <2>. HIDE DEF h
  <2>4. /\ Shape(s') /\ s'.closed = s.closed /\ s'.connecting = s.connecting
        /\ s'.state = s.state /\ s'.write_callback = s.write_callback
        /\ s'.write_len = s.write_len /\ ~s'.read_callback
    BY <2>1, <2>2, <2>3 DEF Shape, SameRequests
  <2>5. Shape(s)'
    BY <2>4 DEF Shape
  <2>. QED  BY <1>1, <1>3, <2>4, <2>5 DEF Interest
<1>. QED  BY <1>2, <1>3 DEF ReadRequest

LEMMA ReadInterest ==
  ASSUME Interest,
         \/ \E n \in ReadSizes : ReadBytes(n)
         \/ ReadUntil
         \/ ReadUntilClose
  PROVE  Interest'
<1>1. ASSUME NEW n \in ReadSizes, ReadBytes(n)
      PROVE  Interest'
  <2>. DEFINE request == [s EXCEPT !.read_bytes = n, !.read_callback = TRUE]
  <2>1. n \in Nat
    BY IOStreamAssumption
  <2>2. /\ Shape(request)
        /\ SameRequests([s EXCEPT !.read_callback = request.read_callback,
                                  !.read_bytes = request.read_bytes,
                                  !.read_delimiter = request.read_delimiter], request)
    BY <2>1 DEF Interest, Shape, SameRequests
  <2>. HIDE DEF request
  <2>3. ReadRequest(IF Unread(s) >= n THEN n ELSE 0, request)
    BY <1>1 DEF ReadBytes, request
  <2>. QED  BY <2>2, <2>3, ReadRequestInterest
<1>2. CASE ReadUntil
  <2>. DEFINE request == [s EXCEPT !.read_delimiter = TRUE, !.read_callback = TRUE]
  <2>1. /\ Shape(request)
        /\ SameRequests([s EXCEPT !.read_callback = request.read_callback,
                                  !.read_bytes = request.read_bytes,
                                  !.read_delimiter = request.read_delimiter], request)
    BY DEF Interest, Shape, SameRequests
  <2>. HIDE DEF request
  <2>2. ReadRequest(DelimiterEnd(s), request)
    BY <1>2 DEF ReadUntil, request
  <2>. QED  BY <2>1, <2>2, ReadRequestInterest
<1>3. CASE ReadUntilClose
  <2>1. /\ s' = [s EXCEPT !.read_until_close = TRUE, !.read_callback = TRUE]
        /\ pc = "idle" /\ pc' = "reading" /\ caller' = {"api"} /\ UNCHANGED reported
    BY <1>3 DEF ReadUntilClose, MayRead, Idle
  <2>2. /\ Shape(s') /\ s'.closed = s.closed /\ s'.connecting = s.connecting
        /\ s'.state = s.state /\ s'.write_callback = s.write_callback
        /\ s'.write_len = s.write_len
    BY <2>1 DEF Interest, Shape
  <2>3. Shape(s)'
    BY <2>2 DEF Shape
  <2>. QED  BY <2>1, <2>2, <2>3 DEF Interest
<1>. QED  BY <1>1, <1>2, <1>3

LEMMA WriteInterest ==
  ASSUME Interest, NEW n \in WriteSizes,
         \/ \E callback \in BOOLEAN : WriteBytes(n, callback)
         \/ JustWriteBytesToBuff(n)
  PROVE  Interest'
<1>. DEFINE t == AppendOrClose(n, s)
<1>1. n \in Nat \ {0}
  BY IOStreamAssumption
<1>2. Shape(t) /\ (t.closed \/ t = [s EXCEPT !.write_len = s.write_len + n])
  BY <1>1, AppendOrCloseShape, CloseShape DEF Interest
<1>3. ~t.closed => /\ t.closed = s.closed /\ t.connecting = s.connecting /\ t.state = s.state
                  /\ t.write_callback = s.write_callback /\ t.write_len = s.write_len + n
                  /\ t.read_callback = s.read_callback /\ t.read_bytes = s.read_bytes
  BY <1>2 DEF Interest, Shape
<1>4. pc = "idle" /\ UNCHANGED reported /\ reported' \subseteq Event
  BY DEF WriteBytes, JustWriteBytesToBuff, Idle, Interest
<1>. s.write_len \in Nat
  BY DEF Interest, Shape
<1>7. ~t.closed => t.write_len > 0
  BY <1>1, <1>3
<1>5. CASE JustWriteBytesToBuff(n)
  <2>1. s' = t /\ UNCHANGED <<pc, caller>>
    BY <1>5 DEF JustWriteBytesToBuff
  <2>. HIDE DEF t
  <2>2. Shape(s)'
    BY <1>2, <2>1 DEF Shape
  <2>3. s'.write_callback => s'.closed \/ s'.write_len > 0
    BY <1>7, <2>1
  <2>. QED  BY <1>3, <1>4, <2>1, <2>2, <2>3 DEF Interest
<1>6. ASSUME NEW callback \in BOOLEAN, WriteBytes(n, callback)
      PROVE  Interest'
  <2>1. /\ s' = IF callback /\ ~t.closed THEN [t EXCEPT !.write_callback = TRUE] ELSE t
        /\ pc' = IF t.closed \/ t.connecting THEN "idle" ELSE "writing"
        /\ caller' = IF t.closed \/ t.connecting THEN {} ELSE {"api"}
    BY <1>6 DEF WriteBytes
  <2>. HIDE DEF t
  <2>2. /\ Shape(s') /\ s'.closed = t.closed /\ s'.connecting = t.connecting
        /\ s'.state = t.state /\ s'.write_len = t.write_len
        /\ s'.read_callback = t.read_callback /\ s'.read_bytes = t.read_bytes
    BY <1>2, <2>1 DEF Shape
  <2>3. Shape(s)'
    BY <2>2 DEF Shape
  <2>4. CASE t.closed
    BY <1>4, <2>1, <2>2, <2>3, <2>4, ClosedInterest
  <2>5. CASE ~t.closed /\ t.connecting
    <3>1. s'.write_len > 0 /\ "WRITE" \in s'.state
      BY <1>3, <1>4, <1>7, <2>2, <2>5 DEF Interest
    <3>. QED  BY <1>3, <1>4, <2>1, <2>2, <2>3, <2>5, <3>1 DEF Interest
  <2>6. CASE ~t.closed /\ ~t.connecting
    BY <1>3, <1>4, <2>1, <2>2, <2>3, <2>6 DEF Interest
  <2>. QED  BY <2>4, <2>5, <2>6
<1>. QED  BY <1>5, <1>6

LEMMA OtherCallsInterest ==
  ASSUME Interest,
         \/ SetCloseCallback
         \/ \E callback \in BOOLEAN : Connect(callback)
         \/ CloseStream
  PROVE  Interest'
<1>1. CASE SetCloseCallback
  <2>1. /\ s' = [s EXCEPT !.close_callback = TRUE]
        /\ UNCHANGED <<pc, caller, reported>>
    BY <1>1 DEF SetCloseCallback
  <2>2. Shape(s') /\ SameRequests([s EXCEPT !.close_callback = TRUE], s')
    BY <2>1 DEF Interest, Shape, SameRequests
  <2>3. Shape(s)'
    BY <2>2 DEF Shape
  <2>. QED  BY <2>1, <2>2, <2>3 DEF Interest, SameRequests
<1>2. ASSUME NEW callback \in BOOLEAN, Connect(callback)
      PROVE  Interest'
  <2>1. /\ pc = "idle" /\ UNCHANGED <<pc, caller, reported>> /\ ~s.closed
        /\ reported' \subseteq Event
    BY <1>2 DEF Connect, Idle, Interest
  <2>2. CASE s' = [AddIOState(s, "WRITE") EXCEPT !.connecting = TRUE,
                                                 !.connect_callback = callback]
    <3>. DEFINE u == AddIOState(s, "WRITE")
    <3>1. "WRITE" \in Event
      BY DEF Event
    <3>2. /\ Shape(u) /\ u = [s EXCEPT !.state = u.state]
          /\ s.state \subseteq u.state /\ "WRITE" \in u.state
      BY <2>1, <3>1, AddIOStateShape DEF Interest
    <3>3. s' = [u EXCEPT !.connecting = TRUE, !.connect_callback = callback]
      BY <2>2
    <3>. HIDE DEF u
    <3>4. /\ u.write_callback = s.write_callback /\ u.write_len = s.write_len
          /\ u.read_callback = s.read_callback /\ u.read_bytes = s.read_bytes
      BY <3>2 DEF Interest, Shape
    <3>5. /\ Shape(s') /\ s'.state = u.state
          /\ s'.write_callback = s.write_callback /\ s'.write_len = s.write_len
          /\ s'.read_callback = s.read_callback /\ s'.read_bytes = s.read_bytes
      BY <3>2, <3>3, <3>4 DEF Shape
    <3>6. Shape(s)'
      BY <3>5 DEF Shape
    <3>. QED  BY <2>1, <3>2, <3>5, <3>6 DEF Interest
  <2>3. CASE s' = [Close(s) EXCEPT !.connecting = TRUE]
    <3>1. Shape(Close(s)) /\ Close(s).closed
      BY CloseShape DEF Interest
    <3>2. Shape(s') /\ s'.closed
      BY <2>3, <3>1 DEF Shape
    <3>. QED  BY <2>1, <3>2, ClosedInterest
  <2>. QED  BY <1>2, <2>2, <2>3 DEF Connect
<1>3. CASE CloseStream
  <2>1. s' = Close(s) /\ UNCHANGED <<pc, caller, reported>>
    BY <1>3 DEF CloseStream
  <2>2. Shape(s') /\ s'.closed
    BY <2>1, CloseShape DEF Interest
  <2>. QED  BY <2>1, <2>2 DEF Interest, Shape
<1>. QED  BY <1>1, <1>2, <1>3

LEMMA ReadingInterest ==
  ASSUME Interest, ReadSome \/ ReadFails \/ ReadBlocks
  PROVE  Interest'
<1>. /\ Shape(s) /\ pc = "reading" /\ UNCHANGED reported /\ reported' \subseteq Event
     /\ caller = {"api"} \/ caller \subseteq Event
  BY DEF Interest, ReadSome, ReadFails, ReadBlocks
<1>1. Shape(Roomy(s)) /\ SameRequests(s, Roomy(s))
  BY StoredShape
<1>2. CASE ReadSome
  <2>1. \E chunk : s' = Stored(Roomy(s), chunk) /\ UNCHANGED <<pc, caller>>
    BY <1>2 DEF ReadSome
  <2>2. Shape(s') /\ SameRequests(Roomy(s), s')
    BY <1>1, <2>1, StoredShape
  <2>3. SameRequests(s, s')
    BY <1>1, <2>2 DEF SameRequests
  <2>4. Shape(s)'
    BY <2>2 DEF Shape
  <2>. QED  BY <2>1, <2>3, <2>4 DEF Interest, SameRequests
<1>3. CASE ReadFails
  <2>1. /\ s' = Close(IF s.closed THEN s ELSE Roomy(s)) /\ pc' = "idle"
    BY <1>3 DEF ReadFails
  <2>2. Shape(s') /\ s'.closed
    BY <1>1, <2>1, CloseShape
  <2>. QED  BY <2>1, <2>2, ClosedInterest
<1>4. CASE ReadBlocks
  <2>. DEFINE t == Answer(Roomy(s))
  <2>1. /\ Shape(t)
        /\ t.closed = s.closed /\ t.connecting = s.connecting /\ t.state = s.state
        /\ t.write_callback = s.write_callback /\ t.write_len = s.write_len
    BY <1>1, AnswerShape DEF SameRequests
  <2>2. ~s.closed
    BY <1>4 DEF ReadBlocks
  <2>. HIDE DEF t
  <2>3. s.write_callback => s.write_len > 0
    BY <2>2 DEF Interest
  <2>4. CASE caller = {"api"} /\ s' = AddIOState(t, "READ") /\ pc' = "idle"
    <3>1. "READ" \in Event
      BY DEF Event
    <3>2. /\ Shape(s') /\ s' = [t EXCEPT !.state = s'.state]
          /\ t.state \subseteq s'.state /\ "READ" \in s'.state
      BY <2>1, <2>2, <2>4, <3>1, AddIOStateShape
    <3>3. /\ s'.connecting = s.connecting /\ s'.write_callback = s.write_callback
          /\ s'.write_len = s.write_len
      BY <2>1, <3>2 DEF Shape
    <3>4. Shape(s)'
      BY <3>2 DEF Shape
    <3>. QED  BY <2>1, <2>2, <2>4, <3>2, <3>3, <3>4 DEF Interest
  <2>5. CASE caller # {"api"} /\ s' = t /\ pc' = "writing" /\ UNCHANGED caller
    <3>1. Shape(s)'
      BY <2>1, <2>5 DEF Shape
    <3>. QED  BY <2>1, <2>2, <2>5, <3>1 DEF Interest
  <2>6. CASE caller # {"api"} /\ s' = EndEvents(t, caller) /\ pc' = "idle"
    <3>1. ~t.connecting
      BY <2>1, <2>2, <2>6 DEF Interest
    <3>. QED  BY <2>1, <2>3, <2>6, <3>1, EndEventsInterest
  <2>. QED  BY <1>4, <2>4, <2>5, <2>6 DEF ReadBlocks, t
<1>. QED  BY <1>2, <1>3, <1>4

LEMMA WritingInterest ==
  ASSUME Interest, outq \in Int, WriteSome \/ WriteFails \/ WriteBlocksOrEnds
  PROVE  Interest'
<1>. /\ Shape(s) /\ pc = "writing" /\ UNCHANGED reported /\ reported' \subseteq Event
     /\ caller = {"api"} \/ caller \subseteq Event
  BY DEF Interest, WriteSome, WriteFails, WriteBlocksOrEnds
<1>1. CASE WriteSome
  <2>. DEFINE n == LowerOf(LowerOf(WriteChunk, s.write_len), SendBuffer - outq)
  <2>1. /\ s' = [s EXCEPT !.write_len = @ - n] /\ UNCHANGED <<pc, caller>>
        /\ outq < SendBuffer
    BY <1>1 DEF WriteSome
  <2>2. s.write_len - n \in Nat
    <3>1. s.write_len \in Nat /\ WriteChunk \in Nat /\ SendBuffer - outq \in Int
      BY IOStreamAssumption DEF Shape
    <3>. QED  BY <3>1 DEF LowerOf
  <2>. HIDE DEF n
  <2>3. /\ Shape(s') /\ s'.closed = s.closed /\ s'.connecting = s.connecting
        /\ s'.state = s.state /\ s'.write_callback = s.write_callback
        /\ s'.read_callback = s.read_callback /\ s'.read_bytes = s.read_bytes
    BY <2>1, <2>2 DEF Shape
  <2>4. Shape(s)'
    BY <2>3 DEF Shape
  <2>. QED  BY <2>1, <2>3, <2>4 DEF Interest
<1>2. CASE WriteFails
  <2>1. s' = Close(s) /\ pc' = "idle"
    BY <1>2 DEF WriteFails
  <2>2. Shape(s') /\ s'.closed
    BY <2>1, CloseShape
  <2>. QED  BY <2>1, <2>2, ClosedInterest
<1>3. CASE WriteBlocksOrEnds
  <2>. DEFINE t == Written(s)
  <2>1. /\ Shape(t)
        /\ t.write_callback => s.write_callback /\ t.write_len > 0
        /\ SameRequests([s EXCEPT !.write_callback = t.write_callback], t)
    BY WrittenShape
  <2>2. /\ t.closed = s.closed /\ t.connecting = s.connecting /\ t.state = s.state
        /\ t.read_callback = s.read_callback /\ t.read_bytes = s.read_bytes
        /\ t.write_len = s.write_len
    BY <2>1 DEF SameRequests, Shape
  <2>. HIDE DEF t
  <2>3. CASE caller # {"api"} /\ s' = EndEvents(t, caller) /\ pc' = "idle"
    <3>1. CASE s.closed
      <4>1. Shape(s') /\ s'.closed
        <5>1. CASE s' = Close(t)
          BY <2>1, <5>1, CloseShape
        <5>2. CASE s' = [t EXCEPT !.state = Watch(t)]
          <6>1. Shape(s')
            BY <2>1, <2>3, EndEventsShape
          <6>2. s'.closed = t.closed
            BY <2>1, <5>2 DEF Shape
          <6>. QED  BY <2>2, <3>1, <6>1, <6>2
        <5>. QED  BY <2>1, <2>3, <5>1, <5>2, EndEventsShape
      <4>. QED  BY <2>3, <4>1, ClosedInterest
    <3>2. CASE ~s.closed
      <4>1. ~t.connecting
        BY <2>2, <2>3, <3>2 DEF Interest
      <4>. QED  BY <2>1, <2>3, <4>1, EndEventsInterest
    <3>. QED  BY <3>1, <3>2
  <2>4. CASE /\ caller = {"api"} /\ pc' = "idle"
             /\ s' = IF Writing(t) THEN AddIOState(t, "WRITE") ELSE t
    <3>1. "WRITE" \in Event
      BY DEF Event
    <3>2. /\ Shape(s') /\ s' = [t EXCEPT !.state = s'.state] /\ t.state \subseteq s'.state
          /\ t.write_callback /\ ~t.closed => "WRITE" \in s'.state
      <4>1. CASE Writing(t)
        BY <2>1, <2>4, <3>1, <4>1, AddIOStateShape
      <4>2. CASE ~Writing(t)
        <5>1. ~t.write_callback
          BY <2>1, <4>2 DEF Writing
        <5>. QED  BY <2>1, <2>4, <4>2, <5>1 DEF Shape
      <4>. QED  BY <4>1, <4>2
    <3>3. /\ s'.closed = t.closed /\ s'.connecting = t.connecting
          /\ s'.write_callback = t.write_callback /\ s'.write_len = t.write_len
          /\ s'.read_callback = t.read_callback /\ s'.read_bytes = t.read_bytes
      BY <2>1, <3>2 DEF Shape
    <3>4. Shape(s)'
      BY <3>2 DEF Shape
    <3>. QED  BY <2>1, <2>2, <2>4, <3>2, <3>3, <3>4 DEF Interest
  <2>. QED  BY <1>3, <2>3, <2>4 DEF WriteBlocksOrEnds, t
<1>. QED  BY <1>1, <1>2, <1>3

LEMMA DispatchInterest ==
  ASSUME Interest, Dispatch
  PROVE  Interest'
<1>. DEFINE t == IF s.connecting THEN Connected(s) ELSE s
<1>. /\ Shape(s) /\ pc = "idle" /\ reported \subseteq Event /\ reported' = {}
     /\ reported' \subseteq Event
  BY DEF Interest, Dispatch, Idle
<1>1. /\ Shape(t) /\ ~t.connecting
      /\ t.closed = s.closed /\ t.state = s.state
      /\ t.write_callback = s.write_callback /\ t.write_len = s.write_len
  <2>1. CASE s.connecting
    <3>1. /\ Shape(Connected(s)) /\ ~Connected(s).connecting
          /\ SameRequests([s EXCEPT !.connecting = FALSE], Connected(s))
      BY ConnectedShape
    <3>. QED  BY <2>1, <3>1 DEF SameRequests, Shape
  <2>2. CASE ~s.connecting
    BY <2>2
  <2>. QED  BY <2>1, <2>2
<1>. HIDE DEF t
<1>2. CASE s.closed /\ UNCHANGED <<s, pc, caller>>
  BY <1>2 DEF Interest, Shape
<1>3. CASE ~s.closed /\ s' = ConnectFailed(s) /\ UNCHANGED <<pc, caller>>
  <2>. DEFINE p == PostIf(s.connect_callback, s, "connect failed")
              c == [p EXCEPT !.connect_callback = FALSE]
  <2>1. Shape(p)
    BY PostShape DEF PostIf
  <2>. HIDE DEF p
  <2>2. Shape(c)
    BY <2>1 DEF Shape
  <2>3. s' = Close(c)
    BY <1>3 DEF ConnectFailed, p
  <2>4. Shape(s') /\ s'.closed
    BY <2>2, <2>3, CloseShape
  <2>. QED  BY <1>3, <2>4, ClosedInterest
<1>4. CASE ~s.closed /\ "READ" \in reported /\ s' = t /\ pc' = "reading" /\ caller' = reported
  <2>1. reported # {"api"}
    BY <1>4
  <2>2. Shape(s)'
    BY <1>1, <1>4 DEF Shape
  <2>3. s.write_callback => s.write_len > 0
    BY <1>4 DEF Interest
  <2>. QED  BY <1>1, <1>4, <2>1, <2>2, <2>3 DEF Interest
<1>5. CASE ~s.closed /\ "WRITE" \in reported /\ s' = t /\ pc' = "writing" /\ caller' = reported
  <2>1. reported # {"api"}
    BY <1>5
  <2>2. Shape(s)'
    BY <1>1, <1>5 DEF Shape
  <2>. QED  BY <1>1, <1>5, <2>1, <2>2 DEF Interest
<1>6. CASE ~s.closed /\ s' = EndEvents(t, reported) /\ UNCHANGED <<pc, caller>>
  <2>1. s.write_callback => s.write_len > 0
    BY <1>6 DEF Interest
  <2>. QED  BY <1>1, <1>6, <2>1, EndEventsInterest
<1>. QED  BY <1>2, <1>3, <1>4, <1>5, <1>6 DEF Dispatch, t

\* The write of WriteSome is a number of bytes.
LEMMA OutqNext == ASSUME Interest, outq \in Int, [Next]_vars PROVE outq' \in Int
<1>1. CASE WriteSome
  <2>1. s.write_len \in Nat /\ WriteChunk \in Nat /\ SendBuffer - outq \in Int
    BY IOStreamAssumption DEF Shape, Interest
  <2>. QED  BY <1>1, <2>1 DEF WriteSome, LowerOf
<1>2. CASE PeerReceives
  BY <1>2 DEF PeerReceives
<1>3. CASE UNCHANGED outq
  BY <1>3
<1>. QED
  BY <1>1, <1>2, <1>3
     DEF Next, ApiStep, StreamStep, NetworkStep, vars, kernelVars, ReadBytes, ReadUntil,
         ReadRequest, ReadUntilClose, WriteBytes, JustWriteBytesToBuff, SetCloseCallback,
         Connect, CloseStream, ReadSome, ReadFails, ReadBlocks, WriteFails, WriteBlocksOrEnds,
         Poll, Dispatch, ConnectEnds, PeerSends, PeerCloses, PeerResets

LEMMA InterestInit == Init => Interest
<1>1. ASSUME NEW junk \in Junk, s = NewStream(junk)
      PROVE  Shape(s) /\ ~s.connecting /\ ~s.write_callback /\ ~s.read_callback
  BY <1>1 DEF NewStream, Shape
<1>. QED  BY <1>1 DEF Init, Interest

LEMMA InterestNext == ASSUME Interest, outq \in Int, [Next]_vars PROVE Interest'
<1>1. CASE UNCHANGED <<s, pc, caller, reported>>
  BY <1>1 DEF Interest, Shape
<1>2. CASE Poll
  <2>1. UNCHANGED <<s, pc, caller>> /\ reported' = Raised
    BY <1>2 DEF Poll
  <2>2. Raised \subseteq Event
    BY DEF Raised, Interest, Shape
  <2>. QED  BY <2>1, <2>2 DEF Interest, Shape
<1>3. CASE NetworkStep
  BY <1>1, <1>3 DEF NetworkStep, ConnectEnds, PeerSends, PeerCloses, PeerResets, PeerReceives, Peer
<1>4. CASE StreamStep
  BY <1>2, <1>4, ReadingInterest, WritingInterest, DispatchInterest DEF StreamStep
<1>5. CASE ApiStep
  BY <1>5, ReadInterest, WriteInterest, OtherCallsInterest DEF ApiStep
<1>6. CASE UNCHANGED vars
  BY <1>1, <1>6 DEF vars
<1>. QED  BY <1>3, <1>4, <1>5, <1>6 DEF Next

LEMMA AlwaysInterest == Spec => [](Interest /\ outq \in Int)
<1>1. Init => Interest /\ outq \in Int
  BY InterestInit DEF Init
<1>2. (Interest /\ outq \in Int) /\ [Next]_vars => (Interest /\ outq \in Int)'
  BY InterestNext, OutqNext
<1>. QED  BY <1>1, <1>2, PTL DEF Spec

\* An open stream never waits for an event the loop does not watch for it, for
\* any capacity and any sequence of calls, events and partial writes.
THEOREM NoInterestLost == Spec => []NoLostInterest
<1>1. Interest => NoLostInterest
  BY DEF Interest, NoLostInterest, Idle
<1>. QED  BY <1>1, AlwaysInterest, PTL

-----------------------------------------------------------------------------
(* The answers that have been posted.                                      *)

IsPosted(q) == \E S : q \in Seq(S)

AnswersIn(q) == Cardinality({i \in DOMAIN q : q[i].kind = "read"})

LEMMA AnswersInNat ==
  ASSUME NEW q, IsPosted(q)
  PROVE  /\ IsFiniteSet({i \in DOMAIN q : q[i].kind = "read"})
         /\ AnswersIn(q) \in Nat
<1>1. PICK S : q \in Seq(S)
  BY DEF IsPosted
<1>2. DOMAIN q = 1..Len(q) /\ Len(q) \in Nat
  BY <1>1
<1>3. IsFiniteSet(1..Len(q))
  BY <1>2, FS_Interval
<1>4. IsFiniteSet({i \in DOMAIN q : q[i].kind = "read"})
  BY <1>2, <1>3, FS_Subset
<1>. QED  BY <1>4, FS_CardinalityType DEF AnswersIn

LEMMA AppendAnswers ==
  ASSUME NEW q, IsPosted(q), NEW kind, NEW data
  PROVE  LET r == Append(q, [kind |-> kind, data |-> data]) IN
         /\ IsPosted(r)
         /\ AnswersIn(r) = AnswersIn(q) + (IF kind = "read" THEN 1 ELSE 0)
<1>. DEFINE e == [kind |-> kind, data |-> data]
            r == Append(q, e)
            Old == {i \in DOMAIN q : q[i].kind = "read"}
            New == {i \in DOMAIN r : r[i].kind = "read"}
<1>1. PICK S : q \in Seq(S)
  BY DEF IsPosted
<1>. e.kind = kind
  OBVIOUS
<1>. HIDE DEF e
<1>2. r \in Seq(S \cup {e}) /\ Len(q) \in Nat
  <2>1. q \in Seq(S \cup {e})
    BY <1>1
  <2>. QED  BY <1>1, <2>1
<1>3. /\ DOMAIN r = DOMAIN q \cup {Len(q) + 1} /\ Len(q) + 1 \notin DOMAIN q
      /\ r[Len(q) + 1] = e /\ \A i \in DOMAIN q : r[i] = q[i]
  BY <1>1
<1>4. IsFiniteSet(Old) /\ Cardinality(Old) \in Nat
  BY AnswersInNat DEF AnswersIn
<1>5. CASE kind = "read"
  <2>1. New = Old \cup {Len(q) + 1} /\ Len(q) + 1 \notin Old
    BY <1>3, <1>5
  <2>2. Cardinality(New) = Cardinality(Old) + 1
    BY <1>4, <2>1, FS_AddElement
  <2>. QED  BY <1>2, <1>5, <2>2 DEF AnswersIn, IsPosted, e
<1>6. CASE kind # "read"
  <2>1. New = Old
    BY <1>3, <1>6
  <2>2. AnswersIn(r) = AnswersIn(q) /\ AnswersIn(q) \in Nat
    BY <1>4, <2>1 DEF AnswersIn
  <2>3. IsPosted(r)
    BY <1>2 DEF IsPosted
  <2>. QED  BY <1>6, <2>2, <2>3 DEF e
<1>. QED  BY <1>5, <1>6

\* Stream t has answered all but the pending one of r reads.
Balanced(t, r) ==
    /\ Shape(t) /\ IsPosted(t.posted)
    /\ r \in Nat /\ AnswersIn(t.posted) <= r
    /\ ~t.closed =>
         /\ r = AnswersIn(t.posted) + (IF t.read_callback /\ ~t.read_until_close THEN 1 ELSE 0)
         /\ t.read_callback <=> t.read_bytes > 0 \/ t.read_delimiter \/ t.read_until_close
         /\ t.read_bytes > 0 => ~t.read_delimiter /\ ~t.read_until_close
         /\ t.read_delimiter => ~t.read_until_close

\* The requests of u are those of t, and so are the answers.
SameReads(t, u) ==
    /\ u.closed = t.closed
    /\ u.read_callback = t.read_callback
    /\ u.read_bytes = t.read_bytes
    /\ u.read_delimiter = t.read_delimiter
    /\ u.read_until_close = t.read_until_close

LEMMA SameBalanced ==
  ASSUME NEW t, NEW r, Balanced(t, r), NEW u, Shape(u), SameReads(t, u),
         \/ u.posted = t.posted
         \/ \E kind, data : kind # "read" /\ u.posted = Append(t.posted, [kind |-> kind, data |-> data])
  PROVE  Balanced(u, r)
<1>1. IsPosted(u.posted) /\ AnswersIn(u.posted) = AnswersIn(t.posted)
  <2>1. CASE u.posted = t.posted
    BY <2>1 DEF Balanced
  <2>2. ASSUME NEW kind, NEW data, kind # "read",
               u.posted = Append(t.posted, [kind |-> kind, data |-> data])
        PROVE  IsPosted(u.posted) /\ AnswersIn(u.posted) = AnswersIn(t.posted)
    <3>1. IsPosted(t.posted)
      BY DEF Balanced
    <3>2. /\ IsPosted(u.posted)
          /\ AnswersIn(u.posted) = AnswersIn(t.posted) + (IF kind = "read" THEN 1 ELSE 0)
      BY <2>2, <3>1, AppendAnswers
    <3>3. AnswersIn(t.posted) \in Nat
      BY <3>1, AnswersInNat
    <3>. QED  BY <2>2, <3>2, <3>3
  <2>. QED  BY <2>1, <2>2
<1>. QED  BY <1>1 DEF Balanced, SameReads

LEMMA CloseBalanced ==
  ASSUME NEW t, NEW r, Balanced(t, r)
  PROVE  Balanced(Close(t), r)
<1>1. Shape(t) /\ IsPosted(t.posted)
  BY DEF Balanced
<1>2. CASE t.closed
  BY <1>1, <1>2, CloseShape
<1>3. CASE ~t.closed
  <2>1. PICK data, rest, last :
           /\ Close(t).posted = last
           /\ rest = IF t.read_until_close /\ Unread(t) > 0 /\ t.read_callback
                       THEN Append(t.posted, [kind |-> "rest", data |-> data])
                       ELSE t.posted
           /\ last = IF t.close_callback
                       THEN Append(rest, [kind |-> "close", data |-> << >>])
                       ELSE rest
    BY <1>1, <1>3, CloseShape
  <2>2. IsPosted(rest) /\ AnswersIn(rest) = AnswersIn(t.posted)
    <3>1. CASE rest = t.posted
      BY <1>1, <3>1
    <3>2. CASE rest = Append(t.posted, [kind |-> "rest", data |-> data])
      <4>1. /\ IsPosted(rest)
            /\ AnswersIn(rest) = AnswersIn(t.posted) + (IF "rest" = "read" THEN 1 ELSE 0)
        BY <1>1, <3>2, AppendAnswers
      <4>2. AnswersIn(t.posted) \in Nat
        BY <1>1, AnswersInNat
      <4>. QED  BY <4>1, <4>2
    <3>. QED  BY <2>1, <3>1, <3>2
  <2>3. IsPosted(last) /\ AnswersIn(last) = AnswersIn(rest)
    <3>1. CASE last = rest
      BY <2>2, <3>1
    <3>2. CASE last = Append(rest, [kind |-> "close", data |-> << >>])
      <4>1. /\ IsPosted(last)
            /\ AnswersIn(last) = AnswersIn(rest) + (IF "close" = "read" THEN 1 ELSE 0)
        BY <2>2, <3>2, AppendAnswers
      <4>2. AnswersIn(rest) \in Nat
        BY <2>2, AnswersInNat
      <4>. QED  BY <4>1, <4>2
    <3>. QED  BY <2>1, <3>1, <3>2
  <2>4. Shape(Close(t)) /\ Close(t).closed
    BY <1>1, CloseShape
  <2>. QED  BY <2>1, <2>2, <2>3, <2>4 DEF Balanced
<1>. QED  BY <1>2, <1>3

LEMMA AnswerBalanced ==
  ASSUME NEW t, NEW r, Balanced(t, r), ~t.closed
  PROVE  Balanced(Answer(t), r)
<1>. DEFINE u == Answer(t)
<1>1. Shape(t) /\ IsPosted(t.posted) /\ AnswersIn(t.posted) \in Nat
  BY AnswersInNat DEF Balanced
<1>2. Shape(u) /\ u.closed = t.closed /\ u.read_until_close = t.read_until_close
  BY <1>1, AnswerShape
<1>3. CASE SameRequests(t, u) /\ u.posted = t.posted
  <2>1. SameReads(t, u)
    BY <1>3 DEF SameRequests, SameReads
  <2>. QED  BY <1>2, <1>3, <2>1, SameBalanced
<1>4. ASSUME NEW data, SameRequests(t, u),
             u.posted = IF t.read_callback
                          THEN Append(t.posted, [kind |-> "rest", data |-> data]) ELSE t.posted
      PROVE  Balanced(u, r)
  <2>1. SameReads(t, u)
    BY <1>4 DEF SameRequests, SameReads
  <2>. HIDE DEF u
  <2>2. \/ u.posted = t.posted
        \/ \E kind, d : kind # "read" /\ u.posted = Append(t.posted, [kind |-> kind, data |-> d])
    BY <1>4
  <2>. QED  BY <1>2, <2>1, <2>2, SameBalanced
<1>5. ASSUME NEW data, ~u.read_callback,
             \/ t.read_bytes > 0 /\ u.read_bytes = 0 /\ u.read_delimiter = t.read_delimiter
             \/ t.read_delimiter /\ ~u.read_delimiter /\ u.read_bytes = t.read_bytes,
             u.posted = IF t.read_callback
                          THEN Append(t.posted, [kind |-> Kind(t), data |-> data]) ELSE t.posted
      PROVE  Balanced(u, r)
  <2>1. t.read_callback /\ Kind(t) = "read" /\ ~t.read_until_close
    BY <1>5 DEF Balanced, Kind
  <2>. HIDE DEF u
  <2>2. u.posted = Append(t.posted, [kind |-> "read", data |-> data])
    BY <1>5, <2>1
  <2>3. IsPosted(u.posted) /\ AnswersIn(u.posted) = AnswersIn(t.posted) + 1
    BY <1>1, <2>2, AppendAnswers
  <2>4. r = AnswersIn(u.posted)
    BY <2>1, <2>3 DEF Balanced
  <2>5. ~(u.read_bytes > 0) /\ ~u.read_delimiter /\ ~u.read_until_close
    BY <1>1, <1>2, <1>5, <2>1 DEF Balanced, Shape
  <2>. QED  BY <1>1, <1>2, <1>5, <2>3, <2>4, <2>5 DEF Balanced
<1>. HIDE DEF u
<1>6. \/ SameRequests(t, u) /\ u.posted = t.posted
      \/ /\ SameRequests(t, u)
         /\ \E data : u.posted = IF t.read_callback
                THEN Append(t.posted, [kind |-> "rest", data |-> data]) ELSE t.posted
      \/ /\ \/ t.read_bytes > 0 /\ u.read_bytes = 0 /\ u.read_delimiter = t.read_delimiter
            \/ t.read_delimiter /\ ~u.read_delimiter /\ u.read_bytes = t.read_bytes
         /\ ~u.read_callback
         /\ \E data : u.posted = IF t.read_callback
                THEN Append(t.posted, [kind |-> Kind(t), data |-> data]) ELSE t.posted
  BY <1>1, AnswerShape DEF u
<1>. QED  BY <1>3, <1>4, <1>5, <1>6 DEF u

LEMMA ReadRequestBalanced ==
  ASSUME Balanced(s, reads), NEW n, NEW request, ReadRequest(n, request),
         Shape(request), request.closed = s.closed, request.posted = s.posted,
         request.read_callback, ~request.read_until_close,
         \/ request.read_bytes > 0 /\ ~request.read_delimiter
         \/ request.read_bytes = 0 /\ request.read_delimiter
  PROVE  Balanced(s, reads)'
<1>1. /\ Shape(s) /\ IsPosted(s.posted) /\ AnswersIn(s.posted) \in Nat /\ reads \in Nat
      /\ reads' = reads + 1
      /\ ~s.read_callback /\ s.read_bytes = 0 /\ ~s.read_delimiter /\ ~s.read_until_close
  BY AnswersInNat DEF Balanced, ReadRequest, MayRead
<1>2. CASE s' = request
  <2>1. Shape(s') /\ s'.posted = s.posted
    BY <1>2
  <2>. QED  BY <1>1, <1>2, <2>1 DEF Balanced, Shape
<1>3. CASE s' = [HandOut([s EXCEPT !.read_callback = TRUE], n) EXCEPT !.read_callback = FALSE]
  <2>. DEFINE p == [s EXCEPT !.read_callback = TRUE]
              h == HandOut(p, n)
  <2>1. /\ Shape(p) /\ p.closed = s.closed /\ p.posted = s.posted /\ p.read_callback
        /\ p.read_bytes = 0 /\ ~p.read_delimiter /\ ~p.read_until_close
    BY <1>1 DEF Shape
  <2>. HIDE DEF p
  <2>2. Shape(h) /\ SameRequests(p, h)
    BY <2>1, HandOutShape
  <2>3. PICK data : h.posted = Append(s.posted, [kind |-> "read", data |-> data])
    BY <2>1, HandOutShape DEF Kind
  <2>4. s' = [h EXCEPT !.read_callback = FALSE]
    BY <1>3 DEF p
  <2>. HIDE DEF h
  <2>5. /\ Shape(s') /\ s'.closed = s.closed /\ ~s'.read_callback
        /\ s'.read_bytes = 0 /\ ~s'.read_delimiter /\ ~s'.read_until_close
        /\ s'.posted = h.posted
    BY <2>1, <2>2, <2>4 DEF Shape, SameRequests
  <2>6. IsPosted(h.posted) /\ AnswersIn(h.posted) = AnswersIn(s.posted) + 1
    BY <1>1, <2>3, AppendAnswers
  <2>. QED  BY <1>1, <2>5, <2>6 DEF Balanced, Shape
<1>. QED  BY <1>2, <1>3 DEF ReadRequest

LEMMA ReadBalanced ==
  ASSUME Balanced(s, reads),
         \/ \E n \in ReadSizes : ReadBytes(n)
         \/ ReadUntil
         \/ ReadUntilClose
  PROVE  Balanced(s, reads)'
<1>. Shape(s)
  BY DEF Balanced
<1>1. ASSUME NEW n \in ReadSizes, ReadBytes(n)
      PROVE  Balanced(s, reads)'
  <2>. DEFINE request == [s EXCEPT !.read_bytes = n, !.read_callback = TRUE]
  <2>1. n \in Nat /\ n > 0
    BY IOStreamAssumption
  <2>2. ~s.read_until_close /\ ~s.read_delimiter
    BY <1>1 DEF ReadBytes, ReadRequest, MayRead
  <2>3. /\ Shape(request) /\ request.closed = s.closed /\ request.posted = s.posted
        /\ request.read_callback /\ ~request.read_until_close
        /\ request.read_bytes > 0 /\ ~request.read_delimiter
    BY <2>1, <2>2 DEF Shape
  <2>4. ReadRequest(IF Unread(s) >= n THEN n ELSE 0, request)
    BY <1>1 DEF ReadBytes
  <2>. HIDE DEF request
  <2>. QED  BY <2>3, <2>4, ReadRequestBalanced
<1>2. CASE ReadUntil
  <2>. DEFINE request == [s EXCEPT !.read_delimiter = TRUE, !.read_callback = TRUE]
  <2>1. ~s.read_until_close /\ s.read_bytes = 0
    BY <1>2 DEF ReadUntil, ReadRequest, MayRead
  <2>2. /\ Shape(request) /\ request.closed = s.closed /\ request.posted = s.posted
        /\ request.read_callback /\ ~request.read_until_close
        /\ request.read_bytes = 0 /\ request.read_delimiter
    BY <2>1 DEF Shape
  <2>3. ReadRequest(DelimiterEnd(s), request)
    BY <1>2 DEF ReadUntil
  <2>. HIDE DEF request
  <2>. QED  BY <2>2, <2>3, ReadRequestBalanced
<1>3. CASE ReadUntilClose
  <2>1. /\ s' = [s EXCEPT !.read_until_close = TRUE, !.read_callback = TRUE]
        /\ ~s.read_callback /\ s.read_bytes = 0 /\ ~s.read_delimiter /\ ~s.read_until_close
        /\ UNCHANGED reads
    BY <1>3 DEF ReadUntilClose, MayRead, history
  <2>2. /\ Shape(s') /\ s'.closed = s.closed /\ s'.posted = s.posted
        /\ s'.read_callback /\ s'.read_until_close
        /\ s'.read_bytes = 0 /\ ~s'.read_delimiter
    BY <2>1 DEF Shape
  <2>. QED  BY <2>1, <2>2 DEF Balanced, Shape
<1>. QED  BY <1>1, <1>2, <1>3

LEMMA EndEventsBalanced ==
  ASSUME NEW t, NEW r, Balanced(t, r), NEW events
  PROVE  Balanced(EndEvents(t, events), r)
<1>. Shape(t)
  BY DEF Balanced
<1>1. CASE EndEvents(t, events) = Close(t)
  BY <1>1, CloseBalanced
<1>2. CASE EndEvents(t, events) = [t EXCEPT !.state = Watch(t)]
  <2>1. Shape([t EXCEPT !.state = Watch(t)])
    BY <1>2, EndEventsShape
  <2>2. SameReads(t, [t EXCEPT !.state = Watch(t)]) /\ [t EXCEPT !.state = Watch(t)].posted = t.posted
    BY DEF SameReads, Shape
  <2>. QED  BY <1>2, <2>1, <2>2, SameBalanced
<1>. QED  BY <1>1, <1>2, EndEventsShape

LEMMA AddIOStateBalanced ==
  ASSUME NEW t, NEW r, Balanced(t, r), NEW event \in Event
  PROVE  Balanced(AddIOState(t, event), r)
<1>. DEFINE u == AddIOState(t, event)
<1>1. Shape(t)
  BY DEF Balanced
<1>2. Shape(u) /\ u = [t EXCEPT !.state = u.state]
  BY <1>1, AddIOStateShape
<1>. HIDE DEF u
<1>3. SameReads(t, u) /\ u.posted = t.posted
  BY <1>1, <1>2 DEF SameReads, Shape
<1>4. Balanced(u, r)
  BY <1>2, <1>3, SameBalanced
<1>. QED  BY <1>4 DEF u

LEMMA RoomyBalanced ==
  ASSUME NEW t, NEW r, Balanced(t, r), NEW chunk
  PROVE  Balanced(Roomy(t), r) /\ Balanced(Stored(t, chunk), r)
<1>1. Shape(t)
  BY DEF Balanced
<1>2. /\ Shape(Roomy(t)) /\ SameRequests(t, Roomy(t)) /\ Roomy(t).posted = t.posted
      /\ Shape(Stored(t, chunk)) /\ SameRequests(t, Stored(t, chunk))
      /\ Stored(t, chunk).posted = t.posted
  BY <1>1, StoredShape
<1>3. SameReads(t, Roomy(t)) /\ SameReads(t, Stored(t, chunk))
  BY <1>2 DEF SameReads, SameRequests
<1>. QED  BY <1>2, <1>3, SameBalanced

LEMMA WrittenBalanced ==
  ASSUME NEW t, NEW r, Balanced(t, r)
  PROVE  Balanced(Written(t), r)
<1>. DEFINE u == Written(t)
<1>1. Shape(t)
  BY DEF Balanced
<1>2. /\ Shape(u)
      /\ SameRequests([t EXCEPT !.write_callback = u.write_callback], u)
      /\ u.posted \in {t.posted, Append(t.posted, [kind |-> "write", data |-> << >>])}
  BY <1>1, WrittenShape
<1>. HIDE DEF u
<1>3. SameReads(t, u)
  BY <1>1, <1>2 DEF SameReads, SameRequests, Shape
<1>4. \/ u.posted = t.posted
      \/ \E kind, data : kind # "read" /\ u.posted = Append(t.posted, [kind |-> kind, data |-> data])
  <2>1. "write" # "read"
    OBVIOUS
  <2>. QED  BY <1>2, <2>1
<1>5. Balanced(u, r)
  BY <1>2, <1>3, <1>4, SameBalanced
<1>. QED  BY <1>5 DEF u

LEMMA ConnectedBalanced ==
  ASSUME NEW t, NEW r, Balanced(t, r)
  PROVE  Balanced(Connected(t), r)
<1>. DEFINE u == Connected(t)
<1>1. Shape(t)
  BY DEF Balanced
<1>2. /\ Shape(u)
      /\ SameRequests([t EXCEPT !.connecting = FALSE], u)
      /\ u.posted \in {t.posted, Append(t.posted, [kind |-> "connect", data |-> << >>])}
  BY <1>1, ConnectedShape
<1>. HIDE DEF u
<1>3. SameReads(t, u)
  BY <1>1, <1>2 DEF SameReads, SameRequests, Shape
<1>4. \/ u.posted = t.posted
      \/ \E kind, data : kind # "read" /\ u.posted = Append(t.posted, [kind |-> kind, data |-> data])
  <2>1. "connect" # "read"
    OBVIOUS
  <2>. QED  BY <1>2, <2>1
<1>5. Balanced(u, r)
  BY <1>2, <1>3, <1>4, SameBalanced
<1>. QED  BY <1>5 DEF u

LEMMA ConnectFailedBalanced ==
  ASSUME NEW t, NEW r, Balanced(t, r)
  PROVE  Balanced(ConnectFailed(t), r)
<1>. DEFINE p == PostIf(t.connect_callback, t, "connect failed")
            c == [p EXCEPT !.connect_callback = FALSE]
<1>1. Shape(t)
  BY DEF Balanced
<1>2. /\ Shape(p) /\ SameRequests(t, p)
      /\ p.posted \in {t.posted, Append(t.posted, [kind |-> "connect failed", data |-> << >>])}
  <2>1. SameRequests(t, t)
    BY DEF SameRequests
  <2>. QED  BY <1>1, <2>1, PostShape DEF PostIf
<1>3. ConnectFailed(t) = Close(c)
  BY DEF ConnectFailed
<1>. HIDE DEF p
<1>4. Shape(c) /\ SameReads(t, c) /\ c.posted = p.posted
  BY <1>2 DEF SameReads, SameRequests, Shape
<1>5. \/ p.posted = t.posted
      \/ \E kind, data : kind # "read" /\ p.posted = Append(t.posted, [kind |-> kind, data |-> data])
  <2>1. "connect failed" # "read"
    OBVIOUS
  <2>. QED  BY <1>2, <2>1
<1>. HIDE DEF c
<1>6. Balanced(c, r)
  BY <1>4, <1>5, SameBalanced
<1>. QED  BY <1>3, <1>6, CloseBalanced

LEMMA AppendOrCloseBalanced ==
  ASSUME NEW t, NEW r, Balanced(t, r), NEW n \in Nat
  PROVE  Balanced(AppendOrClose(n, t), r)
<1>. Shape(t)
  BY DEF Balanced
<1>1. CASE AppendOrClose(n, t) = Close(t)
  BY <1>1, CloseBalanced
<1>2. CASE AppendOrClose(n, t) = [t EXCEPT !.write_len = t.write_len + n]
  <2>. DEFINE u == [t EXCEPT !.write_len = t.write_len + n]
  <2>1. Shape(u) /\ SameReads(t, u) /\ u.posted = t.posted
    BY DEF Shape, SameReads
  <2>. HIDE DEF u
  <2>2. Balanced(u, r)
    BY <2>1, SameBalanced
  <2>. QED  BY <1>2, <2>2 DEF u
<1>. QED  BY <1>1, <1>2, AppendOrCloseShape

LEMMA CallsBalanced ==
  ASSUME Balanced(s, reads), ApiStep
  PROVE  Balanced(s, reads)'
<1>. Shape(s)
  BY DEF Balanced
<1>1. ASSUME NEW n \in WriteSizes, NEW callback \in BOOLEAN, WriteBytes(n, callback)
      PROVE  Balanced(s, reads)'
  <2>. DEFINE t == AppendOrClose(n, s)
  <2>1. Balanced(t, reads)
    BY IOStreamAssumption, AppendOrCloseBalanced
  <2>2. /\ s' = IF callback /\ ~t.closed THEN [t EXCEPT !.write_callback = TRUE] ELSE t
        /\ UNCHANGED reads
    BY <1>1 DEF WriteBytes
  <2>. HIDE DEF t
  <2>3. Shape(s') /\ SameReads(t, s') /\ s'.posted = t.posted
    BY <2>1, <2>2 DEF Balanced, Shape, SameReads
  <2>4. Balanced(s', reads)
    BY <2>1, <2>3, SameBalanced
  <2>. QED  BY <2>2, <2>4
<1>2. ASSUME NEW n \in WriteSizes, JustWriteBytesToBuff(n)
      PROVE  Balanced(s, reads)'
  <2>1. Balanced(AppendOrClose(n, s), reads)
    BY IOStreamAssumption, AppendOrCloseBalanced
  <2>. QED  BY <1>2, <2>1 DEF JustWriteBytesToBuff
<1>3. CASE SetCloseCallback
  <2>1. s' = [s EXCEPT !.close_callback = TRUE] /\ UNCHANGED reads
    BY <1>3 DEF SetCloseCallback, history
  <2>2. Shape(s') /\ SameReads(s, s') /\ s'.posted = s.posted
    BY <2>1 DEF Shape, SameReads
  <2>3. Balanced(s', reads)
    BY <2>2, SameBalanced
  <2>. QED  BY <2>1, <2>3
<1>4. ASSUME NEW callback \in BOOLEAN, Connect(callback)
      PROVE  Balanced(s, reads)'
  <2>. DEFINE u == AddIOState(s, "WRITE")
  <2>1. UNCHANGED reads
    BY <1>4 DEF Connect, history
  <2>2. CASE s' = [u EXCEPT !.connecting = TRUE, !.connect_callback = callback]
    <3>1. "WRITE" \in Event
      BY DEF Event
    <3>2. Balanced(u, reads)
      BY <3>1, AddIOStateBalanced
    <3>. HIDE DEF u
    <3>3. Shape(s') /\ SameReads(u, s') /\ s'.posted = u.posted
      BY <2>2, <3>2 DEF Balanced, Shape, SameReads
    <3>4. Balanced(s', reads)
      BY <3>2, <3>3, SameBalanced
    <3>. QED  BY <2>1, <3>4
  <2>3. CASE s' = [Close(s) EXCEPT !.connecting = TRUE]
    <3>. DEFINE c == Close(s)
    <3>1. Balanced(c, reads)
      BY CloseBalanced
    <3>. HIDE DEF c
    <3>2. s' = [c EXCEPT !.connecting = TRUE]
      BY <2>3 DEF c
    <3>3. Shape(s') /\ SameReads(c, s') /\ s'.posted = c.posted
      BY <3>1, <3>2 DEF Balanced, Shape, SameReads
    <3>4. Balanced(s', reads)
      BY <3>1, <3>3, SameBalanced
    <3>. QED  BY <2>1, <3>4
  <2>. QED  BY <1>4, <2>2, <2>3 DEF Connect
<1>5. CASE CloseStream
  BY <1>5, CloseBalanced DEF CloseStream, history
<1>. QED
  BY <1>1, <1>2, <1>3, <1>4, <1>5, ReadBalanced DEF ApiStep

LEMMA StepsBalanced ==
  ASSUME Balanced(s, reads), outq \in Int, StreamStep
  PROVE  Balanced(s, reads)'
<1>. Shape(s)
  BY DEF Balanced
<1>1. CASE ReadSome
  <2>1. PICK chunk : s' = Stored(Roomy(s), chunk)
    BY <1>1 DEF ReadSome
  <2>2. UNCHANGED reads
    BY <1>1 DEF ReadSome
  <2>. QED  BY <2>1, <2>2, RoomyBalanced
<1>2. CASE ReadFails
  <2>1. Balanced(IF s.closed THEN s ELSE Roomy(s), reads)
    BY RoomyBalanced
  <2>. QED  BY <1>2, <2>1, CloseBalanced DEF ReadFails, history
<1>3. CASE ReadBlocks
  <2>. DEFINE t == Answer(Roomy(s))
  <2>1. Balanced(t, reads)
    <3>1. Balanced(Roomy(s), reads)
      BY RoomyBalanced
    <3>2. ~Roomy(s).closed
      BY <1>3, StoredShape DEF ReadBlocks, SameRequests
    <3>. QED  BY <3>1, <3>2, AnswerBalanced
  <2>2. s' \in {t, AddIOState(t, "READ"), EndEvents(t, caller)} /\ UNCHANGED reads
    BY <1>3 DEF ReadBlocks, history
  <2>. HIDE DEF t
  <2>3. "READ" \in Event
    BY DEF Event
  <2>4. Balanced(AddIOState(t, "READ"), reads) /\ Balanced(EndEvents(t, caller), reads)
    BY <2>1, <2>3, AddIOStateBalanced, EndEventsBalanced
  <2>. QED  BY <2>1, <2>2, <2>4
<1>4. CASE WriteSome
  <2>. DEFINE n == LowerOf(LowerOf(WriteChunk, s.write_len), SendBuffer - outq)
  <2>1. s' = [s EXCEPT !.write_len = @ - n] /\ UNCHANGED reads
    BY <1>4 DEF WriteSome, history
  <2>2. s.write_len - n \in Nat
    <3>1. s.write_len \in Nat /\ WriteChunk \in Nat /\ SendBuffer - outq \in Int
      BY IOStreamAssumption DEF Shape
    <3>2. outq < SendBuffer
      BY <1>4 DEF WriteSome
    <3>. QED  BY <3>1, <3>2 DEF LowerOf
  <2>. HIDE DEF n
  <2>3. Shape(s') /\ SameReads(s, s') /\ s'.posted = s.posted
    BY <2>1, <2>2 DEF Shape, SameReads
  <2>. QED  BY <2>1, <2>3, SameBalanced
<1>5. CASE WriteFails
  BY <1>5, CloseBalanced DEF WriteFails, history
<1>6. CASE WriteBlocksOrEnds
  <2>. DEFINE t == Written(s)
  <2>1. Balanced(t, reads)
    BY WrittenBalanced
  <2>2. s' \in {t, AddIOState(t, "WRITE"), EndEvents(t, caller)} /\ UNCHANGED reads
    BY <1>6 DEF WriteBlocksOrEnds, history
  <2>. HIDE DEF t
  <2>3. "WRITE" \in Event
    BY DEF Event
  <2>4. Balanced(AddIOState(t, "WRITE"), reads) /\ Balanced(EndEvents(t, caller), reads)
    BY <2>1, <2>3, AddIOStateBalanced, EndEventsBalanced
  <2>. QED  BY <2>1, <2>2, <2>4
<1>7. CASE Poll
  BY <1>7 DEF Poll, history, Balanced
<1>8. CASE Dispatch
  <2>. DEFINE t == IF s.connecting THEN Connected(s) ELSE s
  <2>1. Balanced(t, reads) /\ Balanced(ConnectFailed(s), reads)
    BY ConnectedBalanced, ConnectFailedBalanced
  <2>2. s' \in {s, t, ConnectFailed(s), EndEvents(t, reported)} /\ UNCHANGED reads
    BY <1>8 DEF Dispatch, history
  <2>. HIDE DEF t
  <2>3. Balanced(EndEvents(t, reported), reads)
    BY <2>1, EndEventsBalanced
  <2>. QED  BY <2>1, <2>2, <2>3
<1>. QED  BY <1>1, <1>2, <1>3, <1>4, <1>5, <1>6, <1>7, <1>8 DEF StreamStep

LEMMA AlwaysBalanced == Spec => []Balanced(s, reads)
<1>1. Init => Balanced(s, reads)
  <2>1. ASSUME NEW junk \in Junk, s = NewStream(junk), reads = 0
        PROVE  Balanced(s, reads)
    <3>1. /\ Shape(s) /\ s.posted = << >> /\ ~s.read_callback
          /\ s.read_bytes = 0 /\ ~s.read_delimiter /\ ~s.read_until_close
      BY <2>1 DEF NewStream, Shape
    <3>2. IsPosted(s.posted)
      <4>1. << >> \in Seq({})
        OBVIOUS
      <4>. QED  BY <3>1, <4>1 DEF IsPosted
    <3>3. AnswersIn(s.posted) = 0
      <4>1. {i \in DOMAIN s.posted : s.posted[i].kind = "read"} = {}
        BY <3>1
      <4>. QED  BY <4>1, FS_EmptySet DEF AnswersIn
    <3>. QED  BY <2>1, <3>1, <3>2, <3>3 DEF Balanced
  <2>. QED  BY <2>1 DEF Init
<1>2. Balanced(s, reads) /\ outq \in Int /\ [Next]_vars => Balanced(s, reads)'
  <2>. SUFFICES ASSUME Balanced(s, reads), outq \in Int, [Next]_vars
                PROVE  Balanced(s, reads)'
    OBVIOUS
  <2>1. CASE UNCHANGED <<s, reads>>
    BY <2>1 DEF Balanced, Shape
  <2>2. CASE ApiStep
    BY <2>2, CallsBalanced
  <2>3. CASE StreamStep
    BY <2>3, StepsBalanced
  <2>4. CASE NetworkStep
    BY <2>1, <2>4 DEF NetworkStep, ConnectEnds, PeerSends, PeerCloses, PeerResets,
                      PeerReceives, Peer, history
  <2>5. CASE UNCHANGED vars
    BY <2>1, <2>5 DEF vars
  <2>. QED  BY <2>2, <2>3, <2>4, <2>5 DEF Next
<1>. QED  BY <1>1, <1>2, AlwaysInterest, PTL DEF Spec

\* A read is answered once, and its request is cleared with the answer, for any
\* capacity, delimiters and number of reads, closed streams included.
THEOREM OneAnswer == Spec => []OneAnswerPerRead
<1>1. Balanced(s, reads) => OneAnswerPerRead
  <2>. SUFFICES ASSUME Balanced(s, reads)
                PROVE  OneAnswerPerRead
    OBVIOUS
  <2>. DEFINE Pending == {f \in {s.read_callback} : f /\ ~s.read_until_close}
  <2>1. Cardinality(Pending) = IF s.read_callback /\ ~s.read_until_close THEN 1 ELSE 0
    <3>1. CASE s.read_callback /\ ~s.read_until_close
      <4>1. Pending = {s.read_callback}
        BY <3>1
      <4>. QED  BY <3>1, <4>1, FS_Singleton
    <3>2. CASE ~(s.read_callback /\ ~s.read_until_close)
      <4>1. Pending = {}
        BY <3>2
      <4>. QED  BY <3>2, <4>1, FS_EmptySet
    <3>. QED  BY <3>1, <3>2
  <2>2. Answers(s) = AnswersIn(s.posted)
    BY DEF Answers, AnswersIn
  <2>3. (s.read_callback <=> s.read_bytes > 0 \/ s.read_delimiter \/ s.read_until_close)
          => s.read_callback = (s.read_bytes > 0 \/ s.read_delimiter \/ s.read_until_close)
    BY DEF Balanced, Shape
  <2>. QED  BY <2>1, <2>2, <2>3 DEF Balanced, OneAnswerPerRead
<1>. QED  BY <1>1, AlwaysBalanced, PTL
-----------------------------------------------------------------------------
(* Closing.                                                                *)

\* What a method may make of an open stream t: it stays open and keeps the close
\* callback, or it is closed, watches nothing, and has posted that callback last.
Onward(t, u) ==
    /\ Shape(u) /\ IsPosted(u.posted)
    /\ Len(t.posted) <= Len(u.posted)
    /\ ~u.closed /\ t.close_callback => u.close_callback
    /\ u.closed => u.state = {}
    /\ u.closed /\ t.close_callback =>
         Len(t.posted) < Len(u.posted) /\ Last(u.posted).kind = "close"

LEMMA AppendLonger ==
  ASSUME NEW q, IsPosted(q), NEW kind, NEW data
  PROVE  LET r == Append(q, [kind |-> kind, data |-> data]) IN
         /\ IsPosted(r)
         /\ Len(q) \in Nat /\ Len(r) = Len(q) + 1
         /\ Last(r).kind = kind /\ Front(r) = q
<1>. DEFINE e == [kind |-> kind, data |-> data]
            r == Append(q, e)
<1>1. PICK S : q \in Seq(S)
  BY DEF IsPosted
<1>2. e.kind = kind
  OBVIOUS
<1>. HIDE DEF e
<1>3. Len(q) \in Nat /\ Len(r) = Len(q) + 1 /\ r[Len(q) + 1] = e
  BY <1>1
<1>4. Front(r) = q
  <2>1. Front(r) = SubSeq(r, 1, Len(q))
    BY <1>3 DEF Front
  <2>2. q \in Seq(S \cup {e}) /\ r \in Seq(S \cup {e})
    BY <1>1
  <2>3. \A i \in 1..Len(q) : r[i] = q[i]
    BY <1>1
  <2>. QED  BY <1>3, <2>1, <2>2, <2>3
<1>5. IsPosted(r)
  BY AppendAnswers DEF e
<1>. QED  BY <1>2, <1>3, <1>4, <1>5 DEF e, Last

LEMMA OpenOnward ==
  ASSUME NEW t, IsPosted(t.posted), NEW u, Shape(u), ~u.closed,
         t.close_callback => u.close_callback,
         \/ u.posted = t.posted
         \/ \E kind, data : u.posted = Append(t.posted, [kind |-> kind, data |-> data])
  PROVE  Onward(t, u)
<1>1. Len(t.posted) \in Nat
  BY DEF IsPosted
<1>2. IsPosted(u.posted) /\ Len(t.posted) <= Len(u.posted)
  <2>1. CASE u.posted = t.posted
    BY <1>1, <2>1
  <2>2. ASSUME NEW kind, NEW data, u.posted = Append(t.posted, [kind |-> kind, data |-> data])
        PROVE  IsPosted(u.posted) /\ Len(u.posted) = Len(t.posted) + 1
    <3>. DEFINE r == Append(t.posted, [kind |-> kind, data |-> data])
    <3>1. IsPosted(r) /\ Len(r) = Len(t.posted) + 1
      BY AppendLonger
    <3>. QED  BY <2>2, <3>1
  <2>3. /\ IsPosted(u.posted)
        /\ Len(u.posted) = Len(t.posted) \/ Len(u.posted) = Len(t.posted) + 1
    BY <2>1, <2>2, Zenon
  <2>. QED  BY <1>1, <2>3
<1>. QED  BY <1>2 DEF Onward

LEMMA CloseOnward ==
  ASSUME NEW t, Shape(t), IsPosted(t.posted), ~t.closed
  PROVE  Onward(t, Close(t))
<1>1. Shape(Close(t)) /\ Close(t).closed
  BY CloseShape
<1>2. Close(t).state = {}
  <2>. DEFINE rest == IF t.read_until_close /\ Unread(t) > 0 THEN HandOut(t, Unread(t)) ELSE t
              last == PostIf(t.close_callback, rest, "close")
  <2>1. Shape(rest)
    BY HandOutShape
  <2>. HIDE DEF rest
  <2>2. Shape(last)
    BY <2>1, PostShape DEF PostIf
  <2>3. Close(t) = [last EXCEPT !.closed = TRUE, !.state = {}, !.read_until_close = FALSE,
                       !.connect_callback = FALSE, !.read_callback = FALSE,
                       !.write_callback = FALSE, !.close_callback = FALSE]
    BY DEF Close, rest
  <2>. HIDE DEF last
  <2>. QED  BY <2>2, <2>3 DEF Shape
<1>3. PICK data, rest, last :
         /\ Close(t).posted = last
         /\ rest = IF t.read_until_close /\ Unread(t) > 0 /\ t.read_callback
                     THEN Append(t.posted, [kind |-> "rest", data |-> data])
                     ELSE t.posted
         /\ last = IF t.close_callback
                     THEN Append(rest, [kind |-> "close", data |-> << >>])
                     ELSE rest
  BY CloseShape
<1>4. Len(t.posted) \in Nat
  BY DEF IsPosted
<1>5. IsPosted(rest) /\ Len(rest) \in Nat /\ Len(t.posted) <= Len(rest)
  <2>1. CASE rest = t.posted
    BY <1>4, <2>1
  <2>2. CASE rest = Append(t.posted, [kind |-> "rest", data |-> data])
    <3>1. IsPosted(rest) /\ Len(rest) = Len(t.posted) + 1
      BY <2>2, AppendLonger
    <3>. QED  BY <1>4, <3>1
  <2>. QED  BY <1>3, <2>1, <2>2
<1>6. CASE t.close_callback
  <2>1. IsPosted(last) /\ Len(last) = Len(rest) + 1 /\ Last(last).kind = "close"
    <3>. DEFINE r == Append(rest, [kind |-> "close", data |-> << >>])
    <3>1. IsPosted(r) /\ Len(r) = Len(rest) + 1 /\ Last(r).kind = "close"
      BY <1>5, AppendLonger
    <3>2. last = r
      BY <1>3, <1>6
    <3>. HIDE DEF r
    <3>. QED  BY <3>1, <3>2
  <2>. QED  BY <1>1, <1>2, <1>3, <1>4, <1>5, <2>1 DEF Onward
<1>7. CASE ~t.close_callback
  BY <1>1, <1>2, <1>3, <1>5, <1>7 DEF Onward
<1>. QED  BY <1>6, <1>7

LEMMA OnwardAgain ==
  ASSUME NEW t, IsPosted(t.posted), NEW u, ~u.closed, Onward(t, u), NEW v, Onward(u, v)
  PROVE  Onward(t, v)
<1>1. Len(t.posted) \in Nat /\ Len(u.posted) \in Nat /\ Len(v.posted) \in Nat
  BY DEF Onward, IsPosted
<1>. QED  BY <1>1 DEF Onward

LEMMA EndEventsOnward ==
  ASSUME NEW t, Shape(t), IsPosted(t.posted), ~t.closed, NEW events
  PROVE  Onward(t, EndEvents(t, events))
<1>. DEFINE u == EndEvents(t, events)
<1>1. Shape(u) /\ (u = Close(t) \/ u = [t EXCEPT !.state = Watch(t)])
  BY EndEventsShape
<1>. HIDE DEF u
<1>2. CASE u = [t EXCEPT !.state = Watch(t)]
  <2>1. ~u.closed /\ u.close_callback = t.close_callback /\ u.posted = t.posted
    BY <1>2 DEF Shape
  <2>2. Onward(t, u)
    BY <1>1, <2>1, OpenOnward
  <2>. QED  BY <2>2 DEF u
<1>. QED  BY <1>1, <1>2, CloseOnward DEF u

LEMMA AddIOStateOnward ==
  ASSUME NEW t, Shape(t), IsPosted(t.posted), ~t.closed, NEW event \in Event
  PROVE  Onward(t, AddIOState(t, event))
<1>. DEFINE u == AddIOState(t, event)
<1>1. Shape(u) /\ u = [t EXCEPT !.state = u.state]
  BY AddIOStateShape
<1>. HIDE DEF u
<1>2. ~u.closed /\ u.close_callback = t.close_callback /\ u.posted = t.posted
  BY <1>1 DEF Shape
<1>3. Onward(t, u)
  BY <1>1, <1>2, OpenOnward
<1>. QED  BY <1>3 DEF u

LEMMA AppendOrCloseOnward ==
  ASSUME NEW t, Shape(t), IsPosted(t.posted), ~t.closed, NEW n \in Nat
  PROVE  Onward(t, AppendOrClose(n, t))
<1>. DEFINE u == AppendOrClose(n, t)
<1>1. Shape(u) /\ (u = Close(t) \/ u = [t EXCEPT !.write_len = t.write_len + n])
  BY AppendOrCloseShape
<1>. HIDE DEF u
<1>2. CASE u = [t EXCEPT !.write_len = t.write_len + n]
  <2>1. ~u.closed /\ u.close_callback = t.close_callback /\ u.posted = t.posted
    BY <1>2 DEF Shape
  <2>2. Onward(t, u)
    BY <1>1, <2>1, OpenOnward
  <2>. QED  BY <2>2 DEF u
<1>. QED  BY <1>1, <1>2, CloseOnward DEF u

\* A closed stream is at rest: it watches nothing and is not in the write loop.
AtRest == s.closed => s.state = {} /\ pc # "writing"

\* A read that the local buffer answers.
LEMMA LocalRead ==
  ASSUME Shape(s), IsPosted(s.posted), ~s.read_until_close, NEW n,
         s' = [HandOut([s EXCEPT !.read_callback = TRUE], n) EXCEPT !.read_callback = FALSE]
  PROVE  /\ Shape(s') /\ s'.closed = s.closed /\ s'.state = s.state
         /\ s'.close_callback = s.close_callback
         /\ \E data : s'.posted = Append(s.posted, [kind |-> "read", data |-> data])
<1>. DEFINE t == [s EXCEPT !.read_callback = TRUE]
            h == HandOut(t, n)
<1>1. /\ Shape(t) /\ t.closed = s.closed /\ t.state = s.state /\ t.posted = s.posted
      /\ t.close_callback = s.close_callback /\ t.read_callback /\ Kind(t) = "read"
  BY DEF Shape, Kind
<1>. HIDE DEF t
<1>2. Shape(h) /\ SameRequests(t, h)
  BY <1>1, HandOutShape
<1>3. PICK data : h.posted = Append(s.posted, [kind |-> "read", data |-> data])
  BY <1>1, HandOutShape
<1>4. s' = [h EXCEPT !.read_callback = FALSE]
  BY DEF t
<1>. HIDE DEF h
<1>5. /\ Shape(s') /\ s'.closed = h.closed /\ s'.state = h.state
      /\ s'.close_callback = h.close_callback /\ s'.posted = h.posted
  BY <1>2, <1>4 DEF Shape
<1>. QED  BY <1>1, <1>2, <1>3, <1>5 DEF SameRequests

\* A step of a closed stream.
StaysClosed ==
    /\ s'.closed /\ s'.state = {} /\ pc' # "writing"
    /\ \/ s'.posted = s.posted
       \/ /\ Front(s'.posted) = s.posted
          /\ Last(s'.posted).kind = "read"

LEMMA ClosedStep ==
  ASSUME Shape(s), IsPosted(s.posted), s.closed, AtRest, [Next]_vars
  PROVE  StaysClosed
<1>. DEFINE Same == s'.closed /\ s'.state = s.state /\ s'.posted = s.posted
<1>0. s.state = {} /\ pc # "writing" /\ Close(s) = s
  BY CloseShape DEF AtRest
<1>1. ASSUME NEW n, NEW request, ReadRequest(n, request), request.closed = s.closed,
             request.state = s.state, request.posted = s.posted
      PROVE  StaysClosed
  <2>1. CASE n = 0
    <3>1. s' = request /\ pc' = "reading"
      BY <1>1, <2>1 DEF ReadRequest
    <3>. QED  BY <1>0, <1>1, <3>1 DEF StaysClosed
  <2>2. CASE n > 0 /\ n # 0
    <3>1. /\ s' = [HandOut([s EXCEPT !.read_callback = TRUE], n) EXCEPT !.read_callback = FALSE]
          /\ UNCHANGED pc /\ ~s.read_until_close
      BY <1>1, <2>2 DEF ReadRequest, MayRead
    <3>2. s'.closed = s.closed /\ s'.state = s.state
      BY <3>1, LocalRead
    <3>3. PICK data : s'.posted = Append(s.posted, [kind |-> "read", data |-> data])
      BY <3>1, LocalRead
    <3>. DEFINE r == Append(s.posted, [kind |-> "read", data |-> data])
    <3>4. Front(r) = s.posted /\ Last(r).kind = "read"
      BY AppendLonger
    <3>. QED  BY <1>0, <3>1, <3>2, <3>3, <3>4 DEF StaysClosed
  <2>3. CASE ~(n > 0) /\ n # 0
    BY <1>1, <2>3 DEF ReadRequest
  <2>. QED  BY <2>1, <2>2, <2>3
<1>2. ASSUME NEW n \in ReadSizes, ReadBytes(n)
      PROVE  StaysClosed
  <2>. DEFINE request == [s EXCEPT !.read_bytes = n, !.read_callback = TRUE]
  <2>1. request.closed = s.closed /\ request.state = s.state /\ request.posted = s.posted
    BY DEF Shape
  <2>2. ReadRequest(IF Unread(s) >= n THEN n ELSE 0, request)
    BY <1>2 DEF ReadBytes
  <2>. HIDE DEF request
  <2>. QED  BY <1>1, <2>1, <2>2
<1>3. ASSUME ReadUntil
      PROVE  StaysClosed
  <2>. DEFINE request == [s EXCEPT !.read_delimiter = TRUE, !.read_callback = TRUE]
  <2>1. request.closed = s.closed /\ request.state = s.state /\ request.posted = s.posted
    BY DEF Shape
  <2>2. ReadRequest(DelimiterEnd(s), request)
    BY <1>3 DEF ReadUntil
  <2>. HIDE DEF request
  <2>. QED  BY <1>1, <2>1, <2>2
<1>4. ASSUME ReadUntilClose \/ SetCloseCallback PROVE Same /\ pc' # "writing"
  <2>1. \/ s' = [s EXCEPT !.read_until_close = TRUE, !.read_callback = TRUE]
        \/ s' = [s EXCEPT !.close_callback = TRUE]
    BY <1>4 DEF ReadUntilClose, SetCloseCallback
  <2>2. Same
    BY <2>1 DEF Shape
  <2>3. pc' # "writing"
    BY <1>0, <1>4 DEF ReadUntilClose, SetCloseCallback
  <2>. QED  BY <2>2, <2>3
<1>5. ASSUME CloseStream \/ ReadFails PROVE s' = s /\ pc' # "writing"
  BY <1>0, <1>5 DEF CloseStream, ReadFails
<1>6. ASSUME Poll \/ Dispatch \/ NetworkStep \/ UNCHANGED vars
      PROVE  s' = s /\ pc' # "writing"
  BY <1>0, <1>6 DEF Poll, Dispatch, NetworkStep, ConnectEnds, PeerSends, PeerCloses,
                    PeerResets, PeerReceives, Peer, vars
<1>7. ~WriteSome /\ ~WriteFails /\ ~WriteBlocksOrEnds /\ ~ReadSome /\ ~ReadBlocks
  BY <1>0 DEF WriteSome, WriteFails, WriteBlocksOrEnds, ReadSome, ReadBlocks
<1>8. /\ \A n \in WriteSizes, callback \in BOOLEAN : ~WriteBytes(n, callback)
      /\ \A n \in WriteSizes : ~JustWriteBytesToBuff(n)
      /\ \A callback \in BOOLEAN : ~Connect(callback)
  BY DEF WriteBytes, JustWriteBytesToBuff, Connect
<1>. QED
  BY <1>0, <1>2, <1>3, <1>4, <1>5, <1>6, <1>7, <1>8 DEF Next, ApiStep, StreamStep, StaysClosed

LEMMA OpenCall ==
  ASSUME Shape(s), IsPosted(s.posted), ~s.closed, ApiStep
  PROVE  Onward(s, s') /\ (s'.closed => pc' # "writing")
<1>0. Onward(s, s)
  BY OpenOnward
<1>1. ASSUME NEW n, NEW request, ReadRequest(n, request), Shape(request), ~request.closed,
             request.close_callback = s.close_callback, request.posted = s.posted
      PROVE  Onward(s, s') /\ ~s'.closed
  <2>1. CASE n = 0
    <3>1. s' = request
      BY <1>1, <2>1 DEF ReadRequest
    <3>. QED  BY <1>1, <3>1, OpenOnward
  <2>2. CASE n > 0 /\ n # 0
    <3>1. /\ s' = [HandOut([s EXCEPT !.read_callback = TRUE], n) EXCEPT !.read_callback = FALSE]
          /\ ~s.read_until_close
      BY <1>1, <2>2 DEF ReadRequest, MayRead
    <3>2. /\ Shape(s') /\ s'.closed = s.closed /\ s'.close_callback = s.close_callback
          /\ \E data : s'.posted = Append(s.posted, [kind |-> "read", data |-> data])
      BY <3>1, LocalRead
    <3>. QED  BY <3>2, OpenOnward
  <2>3. CASE ~(n > 0) /\ n # 0
    BY <1>1, <2>3 DEF ReadRequest
  <2>. QED  BY <2>1, <2>2, <2>3
<1>2. ASSUME NEW n \in ReadSizes, ReadBytes(n) PROVE Onward(s, s') /\ ~s'.closed
  <2>. DEFINE request == [s EXCEPT !.read_bytes = n, !.read_callback = TRUE]
  <2>1. /\ Shape(request) /\ ~request.closed /\ request.posted = s.posted
        /\ request.close_callback = s.close_callback
    BY IOStreamAssumption DEF Shape
  <2>2. ReadRequest(IF Unread(s) >= n THEN n ELSE 0, request)
    BY <1>2 DEF ReadBytes
  <2>. HIDE DEF request
  <2>. QED  BY <1>1, <2>1, <2>2
<1>3. CASE ReadUntil
  <2>. DEFINE request == [s EXCEPT !.read_delimiter = TRUE, !.read_callback = TRUE]
  <2>1. /\ Shape(request) /\ ~request.closed /\ request.posted = s.posted
        /\ request.close_callback = s.close_callback
    BY DEF Shape
  <2>2. ReadRequest(DelimiterEnd(s), request)
    BY <1>3 DEF ReadUntil
  <2>. HIDE DEF request
  <2>. QED  BY <1>1, <2>1, <2>2
<1>4. CASE ReadUntilClose \/ SetCloseCallback
  <2>1. \/ s' = [s EXCEPT !.read_until_close = TRUE, !.read_callback = TRUE]
        \/ s' = [s EXCEPT !.close_callback = TRUE]
    BY <1>4 DEF ReadUntilClose, SetCloseCallback
  <2>2. /\ Shape(s') /\ ~s'.closed /\ s'.posted = s.posted
        /\ s.close_callback => s'.close_callback
    BY <2>1 DEF Shape
  <2>. QED  BY <2>2, OpenOnward
<1>5. CASE CloseStream
  BY <1>5, CloseOnward DEF CloseStream, Idle
<1>6. ASSUME NEW n \in WriteSizes, JustWriteBytesToBuff(n)
      PROVE  Onward(s, s') /\ (s'.closed => pc' # "writing")
  <2>1. n \in Nat
    BY IOStreamAssumption
  <2>. QED  BY <1>6, <2>1, AppendOrCloseOnward DEF JustWriteBytesToBuff, Idle
<1>7. ASSUME NEW n \in WriteSizes, NEW callback \in BOOLEAN, WriteBytes(n, callback)
      PROVE  Onward(s, s') /\ (s'.closed => pc' # "writing")
  <2>. DEFINE t == AppendOrClose(n, s)
  <2>1. Onward(s, t)
    BY IOStreamAssumption, AppendOrCloseOnward
  <2>2. /\ s' = IF callback /\ ~t.closed THEN [t EXCEPT !.write_callback = TRUE] ELSE t
        /\ pc' = IF t.closed \/ t.connecting THEN "idle" ELSE "writing"
    BY <1>7 DEF WriteBytes
  <2>. HIDE DEF t
  <2>3. /\ Shape(s') /\ s'.closed = t.closed /\ s'.state = t.state
        /\ s'.posted = t.posted /\ s'.close_callback = t.close_callback
    BY <2>1, <2>2 DEF Onward, Shape
  <2>. QED  BY <2>1, <2>2, <2>3 DEF Onward
<1>8. ASSUME NEW callback \in BOOLEAN, Connect(callback)
      PROVE  Onward(s, s') /\ (s'.closed => pc' # "writing")
  <2>. DEFINE a == AddIOState(s, "WRITE")
              c == Close(s)
  <2>1. Onward(s, a) /\ Onward(s, c)
    BY CloseOnward, AddIOStateOnward DEF Event
  <2>2. /\ pc' # "writing"
        /\ \/ s' = [a EXCEPT !.connecting = TRUE, !.connect_callback = callback]
           \/ s' = [c EXCEPT !.connecting = TRUE]
    BY <1>8 DEF Connect, Idle
  <2>. HIDE DEF a, c
  <2>3. ASSUME NEW t, Onward(s, t),
               \/ s' = [t EXCEPT !.connecting = TRUE, !.connect_callback = callback]
               \/ s' = [t EXCEPT !.connecting = TRUE]
        PROVE  Onward(s, s')
    <3>1. /\ Shape(s') /\ s'.closed = t.closed /\ s'.state = t.state
          /\ s'.posted = t.posted /\ s'.close_callback = t.close_callback
      BY <2>3 DEF Onward, Shape
    <3>. QED  BY <2>3, <3>1 DEF Onward
  <2>. QED  BY <2>1, <2>2, <2>3
<1>. QED
  BY <1>2, <1>3, <1>4, <1>5, <1>6, <1>7, <1>8 DEF ApiStep

\* An open stream that has been read from, answered, written or connected.
LEMMA MethodsOnward ==
  ASSUME NEW t, Shape(t), IsPosted(t.posted), ~t.closed
  PROVE  /\ Onward(t, Roomy(t)) /\ ~Roomy(t).closed
         /\ \A chunk : Onward(t, Stored(t, chunk)) /\ ~Stored(t, chunk).closed
         /\ Onward(t, Answer(t)) /\ ~Answer(t).closed
         /\ Onward(t, Written(t)) /\ ~Written(t).closed
         /\ Onward(t, Connected(t)) /\ ~Connected(t).closed
         /\ Onward(t, ConnectFailed(t))
<1>1. Onward(t, Roomy(t)) /\ ~Roomy(t).closed
  BY StoredShape, OpenOnward DEF SameRequests
<1>2. ASSUME NEW chunk PROVE Onward(t, Stored(t, chunk)) /\ ~Stored(t, chunk).closed
  BY StoredShape, OpenOnward DEF SameRequests
<1>3. Onward(t, Answer(t)) /\ ~Answer(t).closed
  <2>. DEFINE u == Answer(t)
  <2>1. /\ Shape(u) /\ u.closed = t.closed /\ u.close_callback = t.close_callback
        /\ \/ u.posted = t.posted
           \/ \E data : u.posted = IF t.read_callback
                  THEN Append(t.posted, [kind |-> "rest", data |-> data]) ELSE t.posted
           \/ \E data : u.posted = IF t.read_callback
                  THEN Append(t.posted, [kind |-> Kind(t), data |-> data]) ELSE t.posted
    BY AnswerShape
  <2>. HIDE DEF u
  <2>2. \/ u.posted = t.posted
        \/ \E kind, data : u.posted = Append(t.posted, [kind |-> kind, data |-> data])
    BY <2>1
  <2>3. Onward(t, u) /\ ~u.closed
    BY <2>1, <2>2, OpenOnward
  <2>. QED  BY <2>3 DEF u
<1>4. Onward(t, Written(t)) /\ ~Written(t).closed
  <2>. DEFINE u == Written(t)
  <2>1. /\ Shape(u)
        /\ SameRequests([t EXCEPT !.write_callback = u.write_callback], u)
        /\ u.posted \in {t.posted, Append(t.posted, [kind |-> "write", data |-> << >>])}
    BY WrittenShape
  <2>. HIDE DEF u
  <2>2. u.closed = t.closed /\ u.close_callback = t.close_callback
    BY <2>1 DEF SameRequests, Shape
  <2>3. Onward(t, u) /\ ~u.closed
    BY <2>1, <2>2, OpenOnward
  <2>. QED  BY <2>3 DEF u
<1>5. Onward(t, Connected(t)) /\ ~Connected(t).closed
  <2>. DEFINE u == Connected(t)
  <2>1. /\ Shape(u)
        /\ SameRequests([t EXCEPT !.connecting = FALSE], u)
        /\ u.posted \in {t.posted, Append(t.posted, [kind |-> "connect", data |-> << >>])}
    BY ConnectedShape
  <2>. HIDE DEF u
  <2>2. u.closed = t.closed /\ u.close_callback = t.close_callback
    BY <2>1 DEF SameRequests, Shape
  <2>3. Onward(t, u) /\ ~u.closed
    BY <2>1, <2>2, OpenOnward
  <2>. QED  BY <2>3 DEF u
<1>6. Onward(t, ConnectFailed(t))
  <2>. DEFINE p == PostIf(t.connect_callback, t, "connect failed")
              c == [p EXCEPT !.connect_callback = FALSE]
  <2>1. /\ Shape(p) /\ SameRequests(t, p)
        /\ \/ p.posted = t.posted
           \/ p.posted = Append(t.posted, [kind |-> "connect failed", data |-> << >>])
    <3>1. SameRequests(t, t)
      BY DEF SameRequests
    <3>. QED  BY <3>1, PostShape DEF PostIf
  <2>2. ConnectFailed(t) = Close(c)
    BY DEF ConnectFailed
  <2>. HIDE DEF p
  <2>3. /\ Shape(c) /\ c.closed = t.closed /\ c.close_callback = t.close_callback
        /\ c.posted = p.posted
    BY <2>1 DEF SameRequests, Shape
  <2>. HIDE DEF c
  <2>4. Onward(t, c) /\ ~c.closed
    BY <2>1, <2>3, OpenOnward
  <2>5. Onward(c, Close(c))
    BY <2>4, CloseOnward DEF Onward
  <2>. QED  BY <2>2, <2>4, <2>5, OnwardAgain
<1>. QED  BY <1>1, <1>2, <1>3, <1>4, <1>5, <1>6

LEMMA OpenStep ==
  ASSUME Shape(s), IsPosted(s.posted), ~s.closed, outq \in Int, StreamStep
  PROVE  Onward(s, s') /\ (s'.closed => pc' # "writing")
<1>0. Onward(s, s)
  BY OpenOnward
<1>1. ASSUME NEW t, Onward(s, t), ~t.closed, NEW u,
             \/ \E event \in Event : u = AddIOState(t, event)
             \/ \E events : u = EndEvents(t, events)
             \/ u = Close(t)
      PROVE  Onward(s, u)
  <2>1. Shape(t) /\ IsPosted(t.posted)
    BY <1>1 DEF Onward
  <2>2. Onward(t, u)
    BY <1>1, <2>1, AddIOStateOnward, EndEventsOnward, CloseOnward
  <2>. QED  BY <1>1, <2>2, OnwardAgain
<1>2. CASE ReadSome
  <2>1. PICK chunk : s' = Stored(Roomy(s), chunk)
    BY <1>2 DEF ReadSome
  <2>2. /\ Onward(s, Roomy(s)) /\ ~Roomy(s).closed
        /\ Shape(Roomy(s)) /\ IsPosted(Roomy(s).posted)
    BY MethodsOnward DEF Onward
  <2>3. Onward(Roomy(s), s') /\ ~s'.closed
    BY <2>1, <2>2, MethodsOnward
  <2>. QED  BY <2>2, <2>3, OnwardAgain
<1>3. CASE ReadFails
  <2>1. s' = Close(Roomy(s)) /\ pc' # "writing"
    BY <1>3 DEF ReadFails
  <2>2. Onward(s, Roomy(s)) /\ ~Roomy(s).closed
    BY MethodsOnward
  <2>. QED  BY <1>1, <2>1, <2>2
<1>4. CASE ReadBlocks
  <2>. DEFINE t == Answer(Roomy(s))
  <2>1. /\ Onward(s, Roomy(s)) /\ ~Roomy(s).closed
        /\ Shape(Roomy(s)) /\ IsPosted(Roomy(s).posted)
    BY MethodsOnward DEF Onward
  <2>2. Onward(Roomy(s), t) /\ ~t.closed
    BY <2>1, MethodsOnward
  <2>3. Onward(s, t)
    BY <2>1, <2>2, OnwardAgain
  <2>4. \/ s' = t
        \/ s' \in {AddIOState(t, "READ"), EndEvents(t, caller)} /\ pc' # "writing"
    BY <1>4 DEF ReadBlocks
  <2>5. "READ" \in Event
    BY DEF Event
  <2>. HIDE DEF t
  <2>. QED  BY <1>1, <2>2, <2>3, <2>4, <2>5
<1>5. CASE WriteSome
  <2>. DEFINE n == LowerOf(LowerOf(WriteChunk, s.write_len), SendBuffer - outq)
  <2>1. s' = [s EXCEPT !.write_len = @ - n]
    BY <1>5 DEF WriteSome
  <2>2. s.write_len - n \in Nat
    <3>1. s.write_len \in Nat /\ WriteChunk \in Nat /\ SendBuffer - outq \in Int
      BY IOStreamAssumption DEF Shape
    <3>2. outq < SendBuffer
      BY <1>5 DEF WriteSome
    <3>. QED  BY <3>1, <3>2 DEF LowerOf
  <2>. HIDE DEF n
  <2>3. /\ Shape(s') /\ ~s'.closed /\ s'.close_callback = s.close_callback
        /\ s'.posted = s.posted
    BY <2>1, <2>2 DEF Shape
  <2>. QED  BY <2>3, OpenOnward
<1>6. CASE WriteFails
  BY <1>6, CloseOnward DEF WriteFails
<1>7. CASE WriteBlocksOrEnds
  <2>. DEFINE t == Written(s)
  <2>1. Onward(s, t) /\ ~t.closed
    BY MethodsOnward
  <2>2. s' \in {t, AddIOState(t, "WRITE"), EndEvents(t, caller)} /\ pc' # "writing"
    BY <1>7 DEF WriteBlocksOrEnds
  <2>3. "WRITE" \in Event
    BY DEF Event
  <2>. HIDE DEF t
  <2>. QED  BY <1>1, <2>1, <2>2, <2>3
<1>8. CASE Poll
  BY <1>0, <1>8 DEF Poll, Idle
<1>9. CASE Dispatch
  <2>. DEFINE t == IF s.connecting THEN Connected(s) ELSE s
  <2>1. Onward(s, t) /\ ~t.closed /\ Onward(s, ConnectFailed(s))
    BY <1>0, MethodsOnward
  <2>2. \/ s' = t
        \/ s' \in {ConnectFailed(s), EndEvents(t, reported)} /\ pc' # "writing"
    BY <1>9 DEF Dispatch, Idle
  <2>. HIDE DEF t
  <2>. QED  BY <1>1, <2>1, <2>2
<1>. QED
  BY <1>2, <1>3, <1>4, <1>5, <1>6, <1>7, <1>8, <1>9 DEF StreamStep

\* A stream closes once: the close callback is the last callback an open stream
\* posts, and what the application, the loop and the peer do afterwards neither
\* opens it again, nor asks the loop for an event, nor posts anything but the
\* answer of a read from the local buffer.
THEOREM ClosedForGood == Spec => CloseIsFinal
<1>. DEFINE Final == /\ ~s.closed /\ s'.closed /\ s.close_callback =>
                          s'.posted # s.posted /\ Last(s'.posted).kind = "close"
                     /\ s.closed =>
                          /\ s'.closed
                          /\ s'.state = {}
                          /\ \/ s'.posted = s.posted
                             \/ /\ Front(s'.posted) = s.posted
                                /\ Last(s'.posted).kind = "read"
<1>1. Init => AtRest
  <2>1. ASSUME NEW junk \in Junk, s = NewStream(junk) PROVE ~s.closed
    BY <2>1 DEF NewStream
  <2>. QED  BY <2>1 DEF Init, AtRest
<1>2. ASSUME Interest, outq \in Int, Balanced(s, reads), AtRest, [Next]_vars
      PROVE  Final /\ AtRest'
  <2>1. Shape(s) /\ IsPosted(s.posted)
    BY <1>2 DEF Balanced
  <2>2. CASE s.closed
    <3>1. StaysClosed
      BY <1>2, <2>1, <2>2, ClosedStep
    <3>. QED  BY <2>2, <3>1 DEF AtRest, StaysClosed
  <2>3. CASE ~s.closed
    <3>1. CASE NetworkStep \/ UNCHANGED vars
      <4>1. s' = s
        BY <3>1 DEF NetworkStep, ConnectEnds, PeerSends, PeerCloses, PeerResets,
                    PeerReceives, Peer, vars
      <4>. QED  BY <2>3, <4>1 DEF AtRest
    <3>2. CASE ApiStep \/ StreamStep
      <4>1. Onward(s, s') /\ (s'.closed => pc' # "writing")
        BY <1>2, <2>1, <2>3, <3>2, OpenCall, OpenStep
      <4>2. Len(s.posted) < Len(s'.posted) => s'.posted # s.posted
        BY <2>1 DEF IsPosted
      <4>. QED  BY <2>3, <4>1, <4>2 DEF Onward, AtRest
    <3>. QED  BY <1>2, <3>1, <3>2 DEF Next
  <2>. QED  BY <2>2, <2>3
<1>. QED  BY <1>1, <1>2, AlwaysInterest, AlwaysBalanced, PTL DEF Spec, CloseIsFinal

-----------------------------------------------------------------------------
(* Types: the buffers stay within their arrays.                            *)

Typed(t) ==
    /\ Shape(t)
    /\ t.read_buffer \in B!Buffers
    /\ t.read_buffer.read_index <= t.read_buffer.write_index
    /\ t.write_len <= Capacity
    /\ t.posted \in Seq(Callback)

LEMMA TypedIsStream == ASSUME NEW t, Typed(t) PROVE t \in Streams
BY IOStreamAssumption DEF Typed, Shape, Streams

Bytes == Seq(0..(PeerBytes + 1))

\* What is a sequence over any set, Bytes and the posted callbacks among them.
LEMMA SequenceTypes ==
  ASSUME NEW S
  PROVE  /\ << >> \in Seq(S)
         /\ \A q \in Seq(S), e \in S : Append(q, e) \in Seq(S)
         /\ \A k \in Nat : \A q \in [1..k -> S] : q \in Seq(S) /\ Len(q) = k
         /\ \A q \in Seq(S) : \A n \in 0..Len(q) : SubSeq(q, 1, n) \in Seq(S)
         /\ \A q \in Seq(S) : \A i \in 1..Len(q) : q[i] \in S
OBVIOUS

LEMMA ContentsTyped ==
  ASSUME NEW t, Typed(t)
  PROVE  /\ Unread(t) \in 0..Capacity
         /\ B!Contents(t.read_buffer) \in Bytes
         /\ Len(B!Contents(t.read_buffer)) = Unread(t)
<1>. DEFINE b == t.read_buffer
<1>1. /\ b.read_index \in 0..Capacity /\ b.write_index \in 0..Capacity
      /\ b.read_index <= b.write_index
      /\ b.buff \in [0..(Capacity - 1) -> 0..(PeerBytes + 1)]
      /\ Capacity \in Nat /\ PeerBytes \in Nat
  BY IOStreamAssumption DEF Typed, B!Buffers, B!Addr, B!Cell
<1>2. Unread(t) = b.write_index - b.read_index
  BY DEF Unread, B!ReadableBytes
<1>3. Unread(t) \in 0..Capacity /\ Unread(t) \in Nat
  BY <1>1, <1>2
<1>4. B!Contents(b) = [i \in 1..Unread(t) |-> b.buff[b.read_index + i - 1]]
  BY DEF B!Contents, Unread
<1>5. \A i \in 1..Unread(t) : b.buff[b.read_index + i - 1] \in 0..(PeerBytes + 1)
  BY <1>1, <1>2
<1>. HIDE DEF b
<1>6. B!Contents(b) \in [1..Unread(t) -> 0..(PeerBytes + 1)]
  BY <1>4, <1>5
<1>7. B!Contents(b) \in Bytes /\ Len(B!Contents(b)) = Unread(t)
  BY <1>3, <1>6, SequenceTypes DEF Bytes
<1>. QED  BY <1>3, <1>7 DEF b

\* What BufferProofs shows of the buffer functions holds of the read buffer.
BP == INSTANCE BufferProofs WITH Byte <- 1..(PeerBytes + 1), Junk <- 0, MaxLen <- 0,
                                 Delimiters <- {}, buf <- s.read_buffer, out <- 0

LEMMA BufferAssumed == BP!BufferAssumption
BY IOStreamAssumption DEF BP!BufferAssumption

\* B and BP are instances of one module.
LEMMA SameBuffer ==
  /\ \A b : BP!WellFormed(b) <=> b \in B!Buffers /\ b.read_index <= b.write_index
  /\ \A b : BP!ReadableBytes(b) = B!ReadableBytes(b) /\ BP!Contents(b) = B!Contents(b)
  /\ \A b : BP!WritableBytes(b) = Capacity - b.write_index
  /\ \A b, n : BP!Drop(b, n) = B!Drop(b, n) /\ BP!Grow(b, n) = B!Grow(b, n)
  /\ \A b, n, data : BP!CopyTo(b, n, data) = B!CopyTo(b, n, data)
  /\ \A b, n : BP!EnsureWritableBytes(b, n) = B!EnsureWritableBytes(b, n)
  /\ \A b, n : BP!CanWrite(b, n) = B!CanWrite(b, n)
  /\ BP!Cell = B!Cell
<1>1. BP!Cell = B!Cell /\ BP!Addr = B!Addr
  BY DEF BP!Cell, B!Cell, BP!Addr, B!Addr
<1>2. BP!Buffers = B!Buffers
  BY <1>1, Zenon DEF BP!Buffers, B!Buffers
<1>3. \A b : BP!ReadableBytes(b) = B!ReadableBytes(b)
  BY Zenon DEF BP!ReadableBytes, B!ReadableBytes
<1>4. \A b : BP!Contents(b) = B!Contents(b)
  BY <1>3, Zenon DEF BP!Contents, B!Contents
<1>5. \A b, n : BP!Drop(b, n) = B!Drop(b, n) /\ BP!Grow(b, n) = B!Grow(b, n)
  BY Zenon DEF BP!Drop, B!Drop, BP!Grow, B!Grow
<1>6. \A b, n, data : BP!CopyTo(b, n, data) = B!CopyTo(b, n, data)
  BY <1>1, Zenon DEF BP!CopyTo, B!CopyTo
<1>7. \A b : BP!WritableBytes(b) = Capacity - b.write_index /\ BP!WritableBytes(b) = B!WritableBytes(b)
  BY Zenon DEF BP!WritableBytes, B!WritableBytes
<1>8. \A b, n : BP!CanWrite(b, n) = B!CanWrite(b, n)
  BY <1>7, Zenon DEF BP!CanWrite, B!CanWrite, BP!PrependableBytes, B!PrependableBytes
<1>9. \A b : BP!MakeSpace(b) = B!MakeSpace(b)
  BY <1>3, <1>4, <1>6, Zenon DEF BP!MakeSpace, B!MakeSpace
<1>10. \A b, n : BP!EnsureWritableBytes(b, n) = B!EnsureWritableBytes(b, n)
  BY <1>7, <1>8, <1>9, Zenon DEF BP!EnsureWritableBytes, B!EnsureWritableBytes
<1>11. \A b : BP!WellFormed(b) <=> b \in B!Buffers /\ b.read_index <= b.write_index
  BY <1>2, Zenon DEF BP!WellFormed
<1>. QED  BY <1>1, <1>3, <1>4, <1>5, <1>6, <1>7, <1>8, <1>10, <1>11, Zenon

LEMMA BytesAreCells == ASSUME NEW data \in Bytes PROVE data \in Seq(BP!Cell)
<1>1. 0..(PeerBytes + 1) \subseteq B!Cell
  BY IOStreamAssumption DEF B!Cell
<1>2. data \in Seq(B!Cell)
  BY <1>1, SeqMonotonic, Zenon DEF Bytes
<1>. QED  BY <1>2, SameBuffer, Zenon

\* A set of numbers has a least one: with it, what holds for every length is
\* proved by its smallest counterexample.
LEMMA LeastOf ==
  ASSUME NEW T, T \subseteq Nat, T # {}
  PROVE  \E n \in T : \A m \in T : n <= m
<1>1. PICK n \in T : \A m \in T : ~(<<m, n>> \in OpToRel(<, Nat))
  BY WFMin, NatLessThanWellFounded, Zenon
<1>2. \A m \in T : ~(m < n)
  BY <1>1, Zenon DEF OpToRel
<1>. QED  BY <1>2

\* find() gives a place in the buffer: the least of a set of numbers exists.
LEMMA DelimiterEndTyped ==
  ASSUME NEW t, Typed(t)
  PROVE  DelimiterEnd(t) \in 0..Unread(t)
<1>. DEFINE data == B!Contents(t.read_buffer)
            At == {i \in DOMAIN data : data[i] \in Delimiters \cup {PeerBytes + 1}}
<1>1. At \subseteq 1..Unread(t) /\ Unread(t) \in Nat
  BY ContentsTyped DEF Bytes
<1>2. CASE At = {}
  BY <1>1, <1>2 DEF DelimiterEnd
<1>3. CASE At # {}
  <2>1. At \subseteq Nat
    BY <1>1
  <2>2. PICK i \in At : \A j \in At : i <= j
    <3>. HIDE DEF At
    <3>. QED  BY <1>3, <2>1, LeastOf
  <2>3. DelimiterEnd(t) = CHOOSE k \in At : \A j \in At : k <= j
    BY <1>3 DEF DelimiterEnd
  <2>4. DelimiterEnd(t) \in At
    <3>. HIDE DEF At
    <3>. QED  BY <2>2, <2>3
  <2>. QED  BY <1>1, <2>4
<1>. QED  BY <1>2, <1>3

LEMMA PostTyped ==
  ASSUME NEW t, Typed(t), NEW data \in Bytes,
         NEW kind \in {"read", "rest", "write", "connect", "connect failed", "close"}
  PROVE  Typed(Post(t, kind, data))
<1>1. [kind |-> kind, data |-> data] \in Callback
  BY DEF Callback, Bytes
<1>2. /\ Post(t, kind, data).read_buffer = t.read_buffer
      /\ Post(t, kind, data).write_len = t.write_len
      /\ Post(t, kind, data).posted = Append(t.posted, [kind |-> kind, data |-> data])
      /\ Shape(Post(t, kind, data))
  BY PostShape DEF Typed, Shape, Post
<1>3. Append(t.posted, [kind |-> kind, data |-> data]) \in Seq(Callback)
  BY <1>1, SequenceTypes DEF Typed
<1>. QED  BY <1>2, <1>3 DEF Typed

LEMMA PostIfTyped ==
  ASSUME NEW t, Typed(t), NEW wanted \in BOOLEAN,
         NEW kind \in {"write", "connect", "connect failed", "close"}
  PROVE  Typed(PostIf(wanted, t, kind))
<1>1. << >> \in Bytes
  BY SequenceTypes DEF Bytes
<1>. QED  BY <1>1, PostTyped DEF PostIf

LEMMA HandOutTyped ==
  ASSUME NEW t, Typed(t), NEW n \in 0..Unread(t)
  PROVE  Typed(HandOut(t, n))
<1>. DEFINE data == SubSeq(B!Contents(t.read_buffer), 1, n)
            b == B!Drop(t.read_buffer, n)
            rest == [t EXCEPT !.read_buffer = b]
<1>1. data \in Bytes
  <2>1. B!Contents(t.read_buffer) \in Bytes /\ n \in 0..Len(B!Contents(t.read_buffer))
    BY ContentsTyped
  <2>. QED  BY <2>1, SequenceTypes DEF Bytes
<1>2. b \in B!Buffers /\ b.read_index <= b.write_index
  <2>1. BP!WellFormed(t.read_buffer) /\ n \in 0..BP!ReadableBytes(t.read_buffer)
    BY SameBuffer DEF Typed, Unread
  <2>2. BP!WellFormed(BP!Drop(t.read_buffer, n))
    BY <2>1, BufferAssumed, BP!DropIsSubSeq, Zenon
  <2>. QED  BY <2>2, SameBuffer, Zenon
<1>. HIDE DEF b, data
<1>3. Typed(rest) /\ Kind(rest) = Kind(t) /\ Kind(t) \in {"read", "rest"}
  BY <1>2 DEF Typed, Shape, Kind
<1>4. HandOut(t, n) = IF t.read_callback THEN Post(rest, Kind(t), data) ELSE rest
  BY <1>3 DEF HandOut, data, b
<1>. HIDE DEF rest
<1>. QED  BY <1>1, <1>3, <1>4, PostTyped

LEMMA CloseTyped == ASSUME NEW t, Typed(t) PROVE Typed(Close(t))
<1>. DEFINE rest == IF t.read_until_close /\ Unread(t) > 0 THEN HandOut(t, Unread(t)) ELSE t
            last == PostIf(t.close_callback, rest, "close")
<1>1. Typed(rest)
  BY ContentsTyped, HandOutTyped
<1>. HIDE DEF rest
<1>2. Typed(last)
  BY <1>1, PostIfTyped DEF Typed, Shape
<1>3. Close(t) = IF t.closed THEN t
                 ELSE [last EXCEPT !.closed = TRUE, !.state = {}, !.read_until_close = FALSE,
                          !.connect_callback = FALSE, !.read_callback = FALSE,
                          !.write_callback = FALSE, !.close_callback = FALSE]
  BY DEF Close, rest
<1>. HIDE DEF last
<1>. QED  BY <1>2, <1>3 DEF Typed, Shape

LEMMA EndEventsTyped ==
  ASSUME NEW t, Typed(t), NEW events PROVE Typed(EndEvents(t, events))
<1>1. Typed([t EXCEPT !.state = Watch(t)])
  BY DEF Typed, Shape, Watch, Event
<1>. QED  BY <1>1, CloseTyped DEF EndEvents

LEMMA AddIOStateTyped ==
  ASSUME NEW t, Typed(t), NEW event \in Event PROVE Typed(AddIOState(t, event))
BY DEF Typed, Shape, AddIOState, Event

LEMMA AppendOrCloseTyped ==
  ASSUME NEW t, Typed(t), NEW n \in Nat PROVE Typed(AppendOrClose(n, t))
<1>1. t.write_len + n <= Capacity => Typed([t EXCEPT !.write_len = t.write_len + n])
  BY DEF Typed, Shape
<1>. QED  BY <1>1, CloseTyped DEF AppendOrClose

LEMMA AnswerTyped == ASSUME NEW t, Typed(t) PROVE Typed(Answer(t))
<1>1. Unread(t) \in Nat /\ DelimiterEnd(t) \in 0..Unread(t) /\ t.read_bytes \in Nat
  BY ContentsTyped, DelimiterEndTyped DEF Typed, Shape
<1>2. \A n \in 0..Unread(t) : Typed(HandOut(t, n))
  BY HandOutTyped
<1>3. \A h : Typed(h) => /\ Typed([h EXCEPT !.read_bytes = 0, !.read_callback = FALSE])
                         /\ Typed([h EXCEPT !.read_delimiter = FALSE, !.read_callback = FALSE])
  BY DEF Typed, Shape
<1>4. t.read_bytes > 0 /\ Unread(t) >= t.read_bytes => t.read_bytes \in 0..Unread(t)
  BY <1>1
<1>5. Unread(t) \in 0..Unread(t)
  BY <1>1
<1>. QED  BY <1>1, <1>2, <1>3, <1>4, <1>5 DEF Answer

LEMMA WrittenTyped == ASSUME NEW t, Typed(t) PROVE Typed(Written(t))
<1>1. Typed(Post(t, "write", << >>))
  BY PostTyped, SequenceTypes DEF Bytes
<1>2. \A h : Typed(h) => Typed([h EXCEPT !.write_callback = FALSE])
  BY DEF Typed, Shape
<1>. QED  BY <1>1, <1>2 DEF Written

LEMMA ConnectedTyped ==
  ASSUME NEW t, Typed(t) PROVE Typed(Connected(t)) /\ Typed(ConnectFailed(t))
<1>1. t.connect_callback \in BOOLEAN
  BY DEF Typed, Shape
<1>2. Typed(PostIf(t.connect_callback, t, "connect"))
      /\ Typed(PostIf(t.connect_callback, t, "connect failed"))
  BY <1>1, PostIfTyped
<1>3. \A h : Typed(h) =>
         /\ Typed([h EXCEPT !.connect_callback = FALSE, !.connecting = FALSE])
         /\ Typed([h EXCEPT !.connect_callback = FALSE])
  BY DEF Typed, Shape
<1>. QED  BY <1>2, <1>3, CloseTyped DEF Connected, ConnectFailed

LEMMA RoomyTyped ==
  ASSUME NEW t, Typed(t)
  PROVE  /\ Typed(Roomy(t))
         /\ B!CanWrite(t.read_buffer, ReadChunk) =>
              Roomy(t).read_buffer.write_index + ReadChunk <= Capacity
<1>. DEFINE b == t.read_buffer
            e == B!EnsureWritableBytes(b, ReadChunk)
<1>1. BP!WellFormed(b) /\ ReadChunk \in Nat /\ Capacity \in Nat
  BY SameBuffer, IOStreamAssumption DEF Typed
<1>2. Roomy(t) = [t EXCEPT !.read_buffer = e]
  BY DEF Roomy
<1>. HIDE DEF b
<1>3. /\ BP!WellFormed(BP!EnsureWritableBytes(b, ReadChunk))
      /\ BP!CanWrite(b, ReadChunk) =>
           BP!WritableBytes(BP!EnsureWritableBytes(b, ReadChunk)) >= ReadChunk
  BY <1>1, BufferAssumed, BP!EnsureWritableMakesRoom, Zenon
<1>4. /\ e \in B!Buffers /\ e.read_index <= e.write_index
      /\ B!CanWrite(b, ReadChunk) => Capacity - e.write_index >= ReadChunk
  BY <1>3, SameBuffer, Zenon
<1>. HIDE DEF e
<1>5. Typed(Roomy(t)) /\ Roomy(t).read_buffer = e
  BY <1>2, <1>4 DEF Typed, Shape
<1>6. e.write_index \in Nat
  BY <1>4 DEF B!Buffers
<1>. QED  BY <1>1, <1>4, <1>5, <1>6 DEF b

LEMMA StoredTyped ==
  ASSUME NEW t, Typed(t), NEW n \in Nat, NEW chunk,
         chunk \in [1..n -> 0..(PeerBytes + 1)],
         t.read_buffer.write_index + n <= Capacity
  PROVE  Typed(Stored(t, chunk))
<1>. DEFINE b == t.read_buffer
            g == B!Grow(B!CopyTo(b, b.read_index, chunk), Len(chunk))
<1>1. BP!WellFormed(b) /\ Len(chunk) <= BP!WritableBytes(b) /\ chunk \in Seq(BP!Cell)
  <2>1. chunk \in Bytes /\ Len(chunk) = n
    BY SequenceTypes DEF Bytes
  <2>2. b.write_index \in Nat /\ Capacity \in Nat
    BY IOStreamAssumption DEF Typed, B!Buffers
  <2>3. Len(chunk) <= Capacity - b.write_index
    BY <2>1, <2>2
  <2>. QED  BY <2>1, <2>3, BytesAreCells, SameBuffer DEF Typed
<1>2. Stored(t, chunk) = [t EXCEPT !.read_buffer = g]
  BY Zenon DEF Stored
<1>. HIDE DEF b
<1>3. BP!WellFormed(BP!Grow(BP!CopyTo(b, b.read_index, chunk), Len(chunk)))
  BY <1>1, BufferAssumed, BP!StoreAtDataOverwrites, Zenon
<1>4. g \in B!Buffers /\ g.read_index <= g.write_index
  BY <1>3, SameBuffer, Zenon
<1>. HIDE DEF g
<1>. QED  BY <1>2, <1>4 DEF Typed, Shape

\* The kernel's counters.
Counted ==
    /\ conn \in {"fresh", "connecting", "up", "failed", "reset"}
    /\ sent \in 0..PeerBytes
    /\ got \in 0..sent
    /\ outq \in 0..SendBuffer
    /\ reads \in Nat /\ writes \in Nat
    /\ overlaid \in BOOLEAN

LEMMA CallsTyped == ASSUME Typed(s), ApiStep PROVE Typed(s)'
<1>0. /\ s.read_buffer \in B!Buffers /\ ReadSizes \subseteq Nat \ {0}
      /\ WriteSizes \subseteq Nat \ {0}
  BY IOStreamAssumption DEF Typed
<1>1. \A t, n : Typed(t) /\ n \in Nat => Typed([t EXCEPT !.read_bytes = n, !.read_callback = TRUE])
  BY DEF Typed, Shape
<1>2. Typed([s EXCEPT !.read_callback = TRUE])
  BY DEF Typed, Shape
<1>3. ASSUME NEW n \in 0..Unread(s), NEW request, Typed(request), ReadRequest(n, request)
      PROVE  Typed(s')
  <2>. DEFINE t == [s EXCEPT !.read_callback = TRUE]
  <2>1. Unread(t) = Unread(s)
    BY DEF Unread, Typed, Shape
  <2>2. Typed(HandOut(t, n))
    BY <1>2, <2>1, HandOutTyped
  <2>3. \A h : Typed(h) => Typed([h EXCEPT !.read_callback = FALSE])
    BY DEF Typed, Shape
  <2>4. Typed([HandOut(t, n) EXCEPT !.read_callback = FALSE])
    BY <2>2, <2>3
  <2>. QED  BY <1>3, <2>4 DEF ReadRequest
<1>4. ASSUME NEW n \in ReadSizes, ReadBytes(n) PROVE Typed(s')
  <2>1. (IF Unread(s) >= n THEN n ELSE 0) \in 0..Unread(s) /\ n \in Nat
    BY <1>0, ContentsTyped
  <2>. QED  BY <1>1, <1>3, <1>4, <2>1 DEF ReadBytes
<1>5. ASSUME ReadUntil PROVE Typed(s')
  <2>1. Typed([s EXCEPT !.read_delimiter = TRUE, !.read_callback = TRUE])
    BY DEF Typed, Shape
  <2>. QED  BY <1>3, <1>5, <2>1, DelimiterEndTyped DEF ReadUntil
<1>6. ASSUME ReadUntilClose PROVE Typed(s')
  BY <1>6 DEF ReadUntilClose, Typed, Shape
<1>7. ASSUME NEW n \in WriteSizes, NEW callback \in BOOLEAN, WriteBytes(n, callback)
      PROVE  Typed(s')
  <2>1. Typed(AppendOrClose(n, s))
    BY <1>0, AppendOrCloseTyped
  <2>2. \A t : Typed(t) => Typed([t EXCEPT !.write_callback = TRUE])
    BY DEF Typed, Shape
  <2>. QED  BY <1>7, <2>1, <2>2 DEF WriteBytes
<1>8. ASSUME NEW n \in WriteSizes, JustWriteBytesToBuff(n) PROVE Typed(s')
  BY <1>0, <1>8, AppendOrCloseTyped DEF JustWriteBytesToBuff
<1>9. ASSUME SetCloseCallback PROVE Typed(s')
  BY <1>9 DEF SetCloseCallback, Typed, Shape
<1>10. ASSUME NEW callback \in BOOLEAN, Connect(callback) PROVE Typed(s')
  <2>1. Typed(AddIOState(s, "WRITE")) /\ Typed(Close(s))
    BY AddIOStateTyped, CloseTyped DEF Event
  <2>2. \A t : Typed(t) => /\ Typed([t EXCEPT !.connecting = TRUE, !.connect_callback = callback])
                           /\ Typed([t EXCEPT !.connecting = TRUE])
    BY DEF Typed, Shape
  <2>. QED  BY <1>10, <2>1, <2>2 DEF Connect
<1>11. ASSUME CloseStream PROVE Typed(s')
  BY <1>11, CloseTyped DEF CloseStream
<1>12. Typed(s') <=> Typed(s)'
  BY DEF Typed, Shape
<1>. QED  BY <1>4, <1>5, <1>6, <1>7, <1>8, <1>9, <1>10, <1>11, <1>12 DEF ApiStep

LEMMA LoopsTyped == ASSUME Typed(s), Counted, StreamStep PROVE Typed(s)'
<1>1. ASSUME ReadSome PROVE Typed(s')
  <2>. DEFINE n == LowerOf(ReadChunk, sent - got)
              chunk == [i \in 1..n |-> got + i]
  <2>1. n \in Nat /\ n <= ReadChunk /\ n <= sent - got /\ got \in Nat /\ sent \in Nat
        /\ sent <= PeerBytes /\ PeerBytes \in Nat
    BY <1>1, IOStreamAssumption DEF ReadSome, Counted, LowerOf
  <2>2. s' = Stored(Roomy(s), chunk) /\ B!CanWrite(s.read_buffer, ReadChunk)
    BY <1>1 DEF ReadSome, HasRoom
  <2>3. Typed(Roomy(s)) /\ Roomy(s).read_buffer.write_index + ReadChunk <= Capacity
    BY <2>2, RoomyTyped
  <2>4. Roomy(s).read_buffer.write_index + n <= Capacity
    <3>1. Roomy(s).read_buffer.write_index \in Nat /\ ReadChunk \in Nat /\ Capacity \in Nat
      BY <2>3, IOStreamAssumption DEF Typed, B!Buffers
    <3>. QED  BY <2>1, <2>3, <3>1
  <2>5. chunk \in [1..n -> 0..(PeerBytes + 1)]
    <3>1. \A i \in 1..n : got + i \in 0..(PeerBytes + 1)
      BY <2>1
    <3>. QED  BY <3>1
  <2>. HIDE DEF n, chunk
  <2>. QED  BY <2>1, <2>2, <2>3, <2>4, <2>5, StoredTyped
<1>2. ASSUME ReadFails PROVE Typed(s')
  BY <1>2, RoomyTyped, CloseTyped DEF ReadFails
<1>3. ASSUME ReadBlocks PROVE Typed(s')
  <2>1. Typed(Answer(Roomy(s)))
    BY RoomyTyped, AnswerTyped
  <2>2. "READ" \in Event
    BY DEF Event
  <2>. QED  BY <1>3, <2>1, <2>2, AddIOStateTyped, EndEventsTyped DEF ReadBlocks
<1>4. ASSUME WriteSome PROVE Typed(s')
  <2>. DEFINE n == LowerOf(LowerOf(WriteChunk, s.write_len), SendBuffer - outq)
  <2>1. s' = [s EXCEPT !.write_len = s.write_len - n] /\ outq < SendBuffer
    BY <1>4 DEF WriteSome
  <2>2. n \in Nat /\ n <= s.write_len /\ s.write_len \in Nat
    BY <2>1, IOStreamAssumption DEF LowerOf, Typed, Shape, Counted
  <2>. HIDE DEF n
  <2>3. s.write_len - n \in Nat /\ s.write_len - n <= Capacity
    BY <2>2, IOStreamAssumption DEF Typed
  <2>. QED  BY <2>1, <2>3 DEF Typed, Shape
<1>5. ASSUME WriteFails PROVE Typed(s')
  BY <1>5, CloseTyped DEF WriteFails
<1>6. ASSUME WriteBlocksOrEnds PROVE Typed(s')
  <2>1. "WRITE" \in Event
    BY DEF Event
  <2>. QED  BY <1>6, <2>1, WrittenTyped, AddIOStateTyped, EndEventsTyped DEF WriteBlocksOrEnds
<1>7. ASSUME Poll PROVE Typed(s')
  BY <1>7 DEF Poll
<1>8. ASSUME Dispatch PROVE Typed(s')
  BY <1>8, ConnectedTyped, EndEventsTyped DEF Dispatch
<1>9. Typed(s') <=> Typed(s)'
  BY DEF Typed, Shape
<1>. QED  BY <1>1, <1>2, <1>3, <1>4, <1>5, <1>6, <1>7, <1>8, <1>9 DEF StreamStep

LEMMA CountedNext == ASSUME Typed(s), Counted, [Next]_vars PROVE Counted'
<1>. /\ sent \in Nat /\ got \in Nat /\ got <= sent /\ sent <= PeerBytes /\ PeerBytes \in Nat
     /\ outq \in Nat /\ outq <= SendBuffer /\ SendBuffer \in Nat
     /\ WriteChunk \in Nat /\ ReadChunk \in Nat /\ s.write_len \in Nat
  BY IOStreamAssumption DEF Counted, Typed, Shape
<1>1. CASE ReadSome
  <2>1. got' \in 0..sent /\ UNCHANGED <<conn, sent, outq, reads, writes>> /\ overlaid' \in BOOLEAN
    <3>1. got' = got + LowerOf(ReadChunk, sent - got) /\ got < sent
      BY <1>1 DEF ReadSome
    <3>2. overlaid' = (overlaid \/ Unread(s) > 0) /\ UNCHANGED <<conn, sent, outq, reads, writes>>
      BY <1>1 DEF ReadSome, kernelVars
    <3>3. got' \in 0..sent
      BY <3>1 DEF LowerOf
    <3>4. overlaid' \in BOOLEAN
      BY <3>2
    <3>. QED  BY <3>2, <3>3, <3>4
  <2>. QED  BY <2>1 DEF Counted
<1>2. CASE WriteSome
  <2>1. outq' = outq + LowerOf(LowerOf(WriteChunk, s.write_len), SendBuffer - outq)
        /\ UNCHANGED <<conn, sent, got, reads, writes, overlaid>>
    BY <1>2 DEF WriteSome, history
  <2>2. outq' \in 0..SendBuffer
    BY <2>1 DEF LowerOf
  <2>. QED  BY <2>1, <2>2 DEF Counted
<1>3. CASE NetworkStep
  BY <1>3 DEF NetworkStep, ConnectEnds, PeerSends, PeerCloses, PeerResets, PeerReceives, Peer,
              history, Counted
<1>4. ASSUME UNCHANGED <<sent, got, outq, overlaid>>,
             conn' \in {conn, "connecting", "failed"},
             reads' \in {reads, reads + 1}, writes' \in {writes, writes + 1}
      PROVE  Counted'
  BY <1>4 DEF Counted
<1>5. CASE ApiStep
  BY <1>4, <1>5 DEF ApiStep, ReadBytes, ReadUntil, ReadRequest, ReadUntilClose, WriteBytes,
       JustWriteBytesToBuff, SetCloseCallback, Connect, CloseStream, kernelVars, history
<1>6. CASE ReadFails \/ ReadBlocks \/ WriteFails \/ WriteBlocksOrEnds \/ Poll \/ Dispatch
  BY <1>4, <1>6 DEF ReadFails, ReadBlocks, WriteFails, WriteBlocksOrEnds, Poll, Dispatch,
                    kernelVars, history
<1>7. CASE UNCHANGED vars
  BY <1>4, <1>7 DEF vars
<1>. QED  BY <1>1, <1>2, <1>3, <1>5, <1>6, <1>7 DEF Next, StreamStep

\* The invariant: typed counters and buffers, and what waits.
TypedState == Interest /\ outq \in Int /\ Typed(s) /\ Counted /\ (pc = "idle" => caller = {})

LEMMA AlwaysTyped == Spec => []TypedState
<1>. DEFINE Inv == TypedState
<1>. USE DEF TypedState
<1>1. Init => Inv
  <2>. SUFFICES ASSUME Init PROVE Inv
    OBVIOUS
  <2>0. Interest /\ outq \in Int /\ (pc = "idle" => caller = {})
    <3>1. Interest
      BY InterestInit
    <3>2. outq = 0 /\ caller = {}
      BY DEF Init
    <3>. QED  BY <3>1, <3>2
  <2>1. Counted
    <3>1. /\ conn \in {"fresh", "up"} /\ sent = 0 /\ got = 0 /\ outq = 0
          /\ reads = 0 /\ writes = 0 /\ overlaid = FALSE
      BY DEF Init
    <3>2. 0 \in 0..PeerBytes /\ 0 \in 0..SendBuffer /\ 0 \in 0..0
      BY IOStreamAssumption
    <3>. QED  BY <3>1, <3>2 DEF Counted
  <2>2. PICK junk \in Junk : s = NewStream(junk)
    BY DEF Init
  <2>3. Shape(s) /\ s.write_len = 0 /\ s.posted = << >>
    BY <2>2 DEF NewStream, Shape
  <2>4. s.read_buffer = [B!EmptyBuffer EXCEPT !.buff = [a \in B!Addr |-> junk]]
    BY <2>2 DEF NewStream
  <2>5. [a \in B!Addr |-> junk] \in [B!Addr -> B!Cell]
    BY IOStreamAssumption DEF Junk, B!Cell
  <2>6. s.read_buffer = [buff |-> [a \in B!Addr |-> junk], read_index |-> 0, write_index |-> 0]
    BY <2>4 DEF B!EmptyBuffer
  <2>7. s.read_buffer \in B!Buffers /\ s.read_buffer.read_index <= s.read_buffer.write_index
    BY <2>5, <2>6, IOStreamAssumption DEF B!Buffers
  <2>8. << >> \in Seq(Callback)
    BY SequenceTypes
  <2>9. 0 <= Capacity
    BY IOStreamAssumption
  <2>10. Typed(s)
    BY <2>3, <2>7, <2>8, <2>9 DEF Typed
  <2>. QED  BY <2>0, <2>1, <2>10
<1>2. Inv /\ [Next]_vars => Inv'
  <2>. SUFFICES ASSUME Inv, [Next]_vars PROVE Inv'
    OBVIOUS
  <2>1. (Interest /\ outq \in Int)'
    BY InterestNext, OutqNext
  <2>2. Typed(s)'
    <3>1. ASSUME UNCHANGED s PROVE Typed(s)'
      BY <3>1 DEF Typed, Shape
    <3>2. CASE NetworkStep
      BY <3>1, <3>2 DEF NetworkStep, ConnectEnds, PeerSends, PeerCloses, PeerResets,
                        PeerReceives, Peer
    <3>. QED  BY <3>1, <3>2, CallsTyped, LoopsTyped DEF Next, vars
  <2>3. Counted'
    BY CountedNext
  <2>4. (pc = "idle" => caller = {})'
    BY DEF Next, ApiStep, StreamStep, NetworkStep, vars, ReadBytes, ReadUntil, ReadRequest,
           ReadUntilClose, WriteBytes, JustWriteBytesToBuff, SetCloseCallback, Connect,
           CloseStream, ReadSome, ReadFails, ReadBlocks, WriteSome, WriteFails,
           WriteBlocksOrEnds, Poll, Dispatch, ConnectEnds, PeerSends, PeerCloses, PeerResets,
           PeerReceives, Peer
  <2>. QED  BY <2>1, <2>2, <2>3, <2>4
<1>. QED  BY <1>1, <1>2, PTL DEF Spec

\* The indexes of the read buffer stay in order and within the array through every
\* read(2), compaction and handing out, the write buffer within its length, and
\* no more is read than was sent, whatever the capacity and the calls.
THEOREM TypeCorrect == Spec => []TypeOK
<1>1. TypedState => TypeOK
  BY TypedIsStream DEF TypedState, Interest, Counted, TypeOK, Event
<1>. QED  BY <1>1, AlwaysTyped, PTL

-----------------------------------------------------------------------------
(* The bytes the callbacks carry.  No induction over their number is needed: *)
(* a length for which a claim failed would have a least one.                *)

\* f[n] is what the first n of m callbacks q carry.
IsJoin(f, q, m) ==
    f = [n \in 0..m |-> IF n = 0 THEN << >> ELSE f[n - 1] \o q[n].data]

LEMMA JoinExists == ASSUME NEW q, NEW m \in Nat PROVE \E f : IsJoin(f, q, m)
<1>. DEFINE T == {k \in Nat : ~ \E f : IsJoin(f, q, k)}
<1>1. SUFFICES ASSUME T # {} PROVE FALSE
  OBVIOUS
<1>2. PICK k \in T : \A j \in T : k <= j
  <2>1. T \subseteq Nat
    OBVIOUS
  <2>. HIDE DEF T
  <2>. QED  BY <1>1, <2>1, LeastOf
<1>3. CASE k = 0
  <2>. DEFINE f == [n \in 0..0 |-> << >>]
  <2>1. IsJoin(f, q, 0)
    BY DEF IsJoin
  <2>. QED  BY <1>3, <2>1
<1>4. CASE k > 0
  <2>1. k - 1 \in Nat /\ k - 1 \notin T
    BY <1>2, <1>4
  <2>2. PICK f : IsJoin(f, q, k - 1)
    BY <2>1
  <2>. DEFINE g == [n \in 0..k |-> IF n = k THEN f[k - 1] \o q[k].data ELSE f[n]]
  <2>3. \A n \in 0..(k - 1) : f[n] = IF n = 0 THEN << >> ELSE f[n - 1] \o q[n].data
    BY <2>2 DEF IsJoin
  <2>4. \A n \in 0..k : g[n] = IF n = 0 THEN << >> ELSE g[n - 1] \o q[n].data
    <3>. TAKE n \in 0..k
    <3>1. CASE n = k
      <4>1. k - 1 \in 0..k /\ k - 1 # k /\ k \in 0..k
        BY <1>4, <2>1
      <4>2. g[k - 1] = f[k - 1] /\ g[k] = f[k - 1] \o q[k].data
        BY <4>1
      <4>3. g[k] = IF k = 0 THEN << >> ELSE g[k - 1] \o q[k].data
        <5>1. k # 0
          BY <1>4
        <5>. HIDE DEF g
        <5>. QED  BY <4>2, <5>1, Zenon
      <4>. QED  BY <3>1, <4>3
    <3>2. CASE n # k
      <4>1. n \in 0..(k - 1) /\ g[n] = f[n] /\ (n # 0 => n - 1 \in 0..k /\ n - 1 # k)
        BY <1>4, <2>1, <3>2
      <4>2. n # 0 => g[n - 1] = f[n - 1]
        BY <4>1
      <4>. QED  BY <2>3, <4>1, <4>2
    <3>. QED  BY <3>1, <3>2
  <2>5. IsJoin(g, q, k)
    <3>1. g = [n \in 0..k |-> g[n]]
      OBVIOUS
    <3>. HIDE DEF g
    <3>. QED  BY <2>4, <3>1, Zenon DEF IsJoin
  <2>. QED  BY <2>5
<1>. QED  BY <1>2, <1>3, <1>4

\* Two of them agree as far as their callbacks do.
LEMMA JoinAgrees ==
  ASSUME NEW f, NEW q, NEW m \in Nat, IsJoin(f, q, m),
         NEW g, NEW r, NEW k \in Nat, IsJoin(g, r, k), m <= k,
         \A i \in 1..m : q[i] = r[i]
  PROVE  \A n \in 0..m : f[n] = g[n]
<1>. DEFINE T == {n \in 0..m : f[n] # g[n]}
<1>1. SUFFICES ASSUME T # {} PROVE FALSE
  OBVIOUS
<1>2. PICK n \in T : \A j \in T : n <= j
  <2>1. T \subseteq Nat
    OBVIOUS
  <2>. HIDE DEF T
  <2>. QED  BY <1>1, <2>1, LeastOf
<1>3. /\ f[n] = IF n = 0 THEN << >> ELSE f[n - 1] \o q[n].data
      /\ g[n] = IF n = 0 THEN << >> ELSE g[n - 1] \o r[n].data
  <2>1. \A i \in 0..m : f[i] = IF i = 0 THEN << >> ELSE f[i - 1] \o q[i].data
    BY DEF IsJoin
  <2>2. \A i \in 0..k : g[i] = IF i = 0 THEN << >> ELSE g[i - 1] \o r[i].data
    BY DEF IsJoin
  <2>3. n \in 0..m /\ n \in 0..k
    BY <1>2
  <2>. QED  BY <2>1, <2>2, <2>3
<1>4. n # 0 => n - 1 \in 0..m /\ n - 1 \notin T /\ q[n] = r[n]
  BY <1>2
<1>5. f[n] = g[n]
  BY <1>3, <1>4
<1>. QED  BY <1>2, <1>5

LEMMA JoinedIsJoin ==
  ASSUME NEW q, Len(q) \in Nat
  PROVE  \E f : IsJoin(f, q, Len(q)) /\ Joined(q) = f[Len(q)]
<1>. DEFINE f == CHOOSE f : IsJoin(f, q, Len(q))
<1>1. IsJoin(f, q, Len(q))
  BY JoinExists
<1>2. Joined(q) = f[Len(q)]
  BY DEF Joined, IsJoin
<1>. QED  BY <1>1, <1>2

\* Nothing is carried by no callback, and one more adds what it carries.
LEMMA JoinedEmpty == Joined(<< >>) = << >>
<1>1. Len(<< >>) = 0
  OBVIOUS
<1>2. PICK f : IsJoin(f, << >>, 0) /\ Joined(<< >>) = f[0]
  BY <1>1, JoinedIsJoin
<1>. QED  BY <1>2 DEF IsJoin

LEMMA JoinedAppend ==
  ASSUME NEW S, NEW q \in Seq(S), NEW e
  PROVE  Joined(Append(q, e)) = Joined(q) \o e.data
<1>. DEFINE r == Append(q, e)
            k == Len(q)
<1>1. /\ k \in Nat /\ Len(r) = k + 1 /\ r[k + 1] = e
      /\ \A i \in 1..k : q[i] = r[i]
  OBVIOUS
<1>. HIDE DEF r
<1>2. PICK f : IsJoin(f, q, k) /\ Joined(q) = f[k]
  BY <1>1, JoinedIsJoin
<1>3. PICK g : IsJoin(g, r, k + 1) /\ Joined(r) = g[k + 1]
  BY <1>1, JoinedIsJoin
<1>4. f[k] = g[k]
  <2>1. k + 1 \in Nat /\ k <= k + 1 /\ k \in 0..k
    BY <1>1
  <2>2. \A n \in 0..k : f[n] = g[n]
    BY <1>1, <1>2, <1>3, <2>1, JoinAgrees
  <2>. QED  BY <2>1, <2>2
<1>5. g[k + 1] = g[k] \o r[k + 1].data
  <2>1. k + 1 \in 0..(k + 1) /\ k + 1 # 0 /\ (k + 1) - 1 = k
    BY <1>1
  <2>2. \A n \in 0..(k + 1) : g[n] = IF n = 0 THEN << >> ELSE g[n - 1] \o r[n].data
    BY <1>3 DEF IsJoin
  <2>. QED  BY <2>1, <2>2
<1>. QED  BY <1>1, <1>2, <1>3, <1>4, <1>5 DEF r

\* Callbacks that carry bytes carry bytes together.
LEMMA JoinedType ==
  ASSUME NEW S, NEW q, Len(q) \in Nat, \A i \in 1..Len(q) : q[i].data \in Seq(S)
  PROVE  Joined(q) \in Seq(S)
<1>1. PICK f : IsJoin(f, q, Len(q)) /\ Joined(q) = f[Len(q)]
  BY JoinedIsJoin
<1>. DEFINE T == {n \in 0..Len(q) : f[n] \notin Seq(S)}
<1>2. CASE T = {}
  BY <1>1, <1>2
<1>3. CASE T # {}
  <2>1. PICK n \in T : \A j \in T : n <= j
    <3>1. T \subseteq Nat
      OBVIOUS
    <3>. HIDE DEF T
    <3>. QED  BY <1>3, <3>1, LeastOf
  <2>2. f[n] = IF n = 0 THEN << >> ELSE f[n - 1] \o q[n].data
    <3>1. \A i \in 0..Len(q) : f[i] = IF i = 0 THEN << >> ELSE f[i - 1] \o q[i].data
      BY <1>1 DEF IsJoin
    <3>. QED  BY <2>1, <3>1
  <2>3. n # 0 => n - 1 \in 0..Len(q) /\ n - 1 \notin T /\ n \in 1..Len(q)
    BY <2>1
  <2>4. n # 0 => f[n - 1] \in Seq(S) /\ q[n].data \in Seq(S)
    BY <2>3
  <2>5. f[n] \in Seq(S)
    BY <2>2, <2>4, ConcatProperties
  <2>. QED  BY <2>1, <2>5
<1>. QED  BY <1>2, <1>3

-----------------------------------------------------------------------------
(* What the methods do to the unread bytes.                                *)

LEMMA DropBuffer ==
  ASSUME NEW t, Typed(t), NEW n \in 0..Unread(t)
  PROVE  B!Contents(B!Drop(t.read_buffer, n))
           = SubSeq(B!Contents(t.read_buffer), n + 1, Len(B!Contents(t.read_buffer)))
<1>. DEFINE b == t.read_buffer
<1>1. BP!WellFormed(b) /\ n \in 0..BP!ReadableBytes(b)
  BY SameBuffer DEF Typed, Unread
<1>. HIDE DEF b
<1>2. BP!Contents(BP!Drop(b, n)) = SubSeq(BP!Contents(b), n + 1, Len(BP!Contents(b)))
  BY <1>1, BufferAssumed, BP!DropIsSubSeq, Zenon
<1>. QED  BY <1>2, SameBuffer, Zenon DEF b

LEMMA RoomyBuffer ==
  ASSUME NEW t, Typed(t)
  PROVE  B!Contents(Roomy(t).read_buffer) = B!Contents(t.read_buffer)
<1>. DEFINE b == t.read_buffer
<1>1. BP!WellFormed(b) /\ ReadChunk \in Nat
  BY SameBuffer, IOStreamAssumption DEF Typed
<1>2. Roomy(t).read_buffer = B!EnsureWritableBytes(b, ReadChunk)
  BY DEF Roomy, Typed, Shape
<1>. HIDE DEF b
<1>3. BP!Contents(BP!EnsureWritableBytes(b, ReadChunk)) = BP!Contents(b)
  BY <1>1, BufferAssumed, BP!EnsureWritableMakesRoom, Zenon
<1>. QED  BY <1>2, <1>3, SameBuffer, Zenon DEF b

\* read(2) stores at data(): the new bytes lie over unread ones.
LEMMA StoredBuffer ==
  ASSUME NEW t, Typed(t), NEW chunk \in Bytes,
         t.read_buffer.write_index + Len(chunk) <= Capacity
  PROVE  LET c == B!Contents(Stored(t, chunk).read_buffer) IN
         /\ Len(c) = Unread(t) + Len(chunk)
         /\ \A i \in 1..Len(chunk) : c[i] = chunk[i]
<1>. DEFINE b == t.read_buffer
            c == B!Contents(Stored(t, chunk).read_buffer)
<1>1. BP!WellFormed(b) /\ Len(chunk) <= BP!WritableBytes(b) /\ chunk \in Seq(BP!Cell)
  <2>1. b.write_index \in Nat /\ Capacity \in Nat /\ Len(chunk) \in Nat
    BY IOStreamAssumption DEF Typed, B!Buffers, Bytes
  <2>. QED  BY <2>1, BytesAreCells, SameBuffer DEF Typed
<1>2. Stored(t, chunk).read_buffer = B!Grow(B!CopyTo(b, b.read_index, chunk), Len(chunk))
  <2>. DEFINE g == B!Grow(B!CopyTo(b, b.read_index, chunk), Len(chunk))
  <2>1. Stored(t, chunk) = [t EXCEPT !.read_buffer = g]
    BY Zenon DEF Stored
  <2>. HIDE DEF g
  <2>2. [t EXCEPT !.read_buffer = g].read_buffer = g
    BY DEF Typed, Shape
  <2>. QED  BY <2>1, <2>2 DEF g
<1>. HIDE DEF b
<1>. DEFINE e == BP!Contents(BP!Grow(BP!CopyTo(b, b.read_index, chunk), Len(chunk)))
<1>3. /\ e \in [1..(BP!ReadableBytes(b) + Len(chunk)) -> BP!Cell]
      /\ \A i \in 1..Len(chunk) : e[i] = chunk[i]
  BY <1>1, BufferAssumed, BP!StoreAtDataOverwrites, Zenon
<1>4. e = c /\ BP!ReadableBytes(b) = Unread(t)
  BY <1>2, SameBuffer, Zenon DEF b, Unread
<1>. HIDE DEF e
<1>5. Unread(t) + Len(chunk) \in Nat
  BY ContentsTyped DEF Bytes
<1>6. Len(e) = Unread(t) + Len(chunk)
  BY <1>3, <1>4, <1>5, SequenceTypes
<1>. QED  BY <1>3, <1>4, <1>6

-----------------------------------------------------------------------------
(* No byte gets lost between the socket and the callbacks.                 *)

\* What a stream has of the bytes read from the socket: those it has handed out,
\* then those in its buffer.
Stock(t) == Delivered(t) \o B!Contents(t.read_buffer)

LEMMA StockTyped ==
  ASSUME NEW t, Typed(t)
  PROVE  /\ Delivered(t) \in Bytes /\ Stock(t) \in Bytes
         /\ Len(Stock(t)) = Len(Delivered(t)) + Unread(t)
         /\ Len(Delivered(t)) \in Nat
         /\ \A i \in 1..Len(Delivered(t)) : Stock(t)[i] = Delivered(t)[i]
<1>1. Delivered(t) \in Bytes
  <2>1. t.posted \in Seq(Callback)
    BY DEF Typed
  <2>2. Len(t.posted) \in Nat /\ \A i \in 1..Len(t.posted) : t.posted[i] \in Callback
    BY <2>1
  <2>3. \A i \in 1..Len(t.posted) : t.posted[i].data \in Bytes
    BY <2>2 DEF Callback, Bytes
  <2>. QED  BY <2>2, <2>3, JoinedType, Zenon DEF Delivered, Bytes
<1>2. B!Contents(t.read_buffer) \in Bytes /\ Len(B!Contents(t.read_buffer)) = Unread(t)
      /\ Unread(t) \in Nat
  BY ContentsTyped
<1>. QED  BY <1>1, <1>2, ConcatProperties DEF Stock, Bytes

LEMMA PostStock ==
  ASSUME NEW t, Typed(t), NEW kind, NEW data
  PROVE  /\ Delivered(Post(t, kind, data)) = Delivered(t) \o data
         /\ Post(t, kind, data).read_buffer = t.read_buffer
         /\ data = << >> => Delivered(Post(t, kind, data)) = Delivered(t)
<1>. DEFINE c == [kind |-> kind, data |-> data]
<1>1. Post(t, kind, data).read_buffer = t.read_buffer
      /\ Post(t, kind, data).posted = Append(t.posted, c)
  BY PostShape DEF Typed, Post, Shape
<1>2. t.posted \in Seq(Callback) /\ c.data = data
  BY DEF Typed
<1>. HIDE DEF c
<1>3. Joined(Append(t.posted, c)) = Joined(t.posted) \o c.data
  BY <1>2, JoinedAppend
<1>4. Delivered(Post(t, kind, data)) = Delivered(t) \o data
  BY <1>1, <1>2, <1>3, Zenon DEF Delivered
<1>5. Delivered(t) \o << >> = Delivered(t)
  BY StockTyped, ConcatEmptySeq, Zenon DEF Bytes
<1>. QED  BY <1>1, <1>4, <1>5, Zenon

LEMMA PostIfStock ==
  ASSUME NEW t, Typed(t), NEW wanted, NEW kind
  PROVE  /\ Delivered(PostIf(wanted, t, kind)) = Delivered(t)
         /\ PostIf(wanted, t, kind).read_buffer = t.read_buffer
BY PostStock, Zenon DEF PostIf

\* A sequence cut in two.
LEMMA CutSeq ==
  ASSUME NEW S, NEW p \in Seq(S), NEW q \in Seq(S), NEW n \in 0..Len(q)
  PROVE  /\ (p \o SubSeq(q, 1, n)) \o SubSeq(q, n + 1, Len(q)) = p \o q
         /\ Len(SubSeq(q, n + 1, Len(q))) = Len(q) - n
<1>. DEFINE front == SubSeq(q, 1, n)
            back == SubSeq(q, n + 1, Len(q))
<1>1. 1 \in 1..(Len(q) + 1) /\ n \in (1 - 1)..Len(q) /\ Len(q) \in n..Len(q) /\ n \in Nat
  OBVIOUS
<1>2. front \o back = SubSeq(q, 1, Len(q)) /\ SubSeq(q, 1, Len(q)) = q
  BY <1>1, ConcatAdjacentSubSeq, SubSeqFull, Zenon
<1>3. front \in Seq(S) /\ back \in Seq(S) /\ Len(back) = Len(q) - n
  BY <1>1
<1>. HIDE DEF front, back
<1>4. (p \o front) \o back = p \o (front \o back)
  BY <1>3, ConcatAssociative
<1>. QED  BY <1>2, <1>3, <1>4, Zenon DEF front, back

\* What is handed out leaves the buffer from its front and joins what was handed
\* out before.
LEMMA HandOutStock ==
  ASSUME NEW t, Typed(t), NEW n \in 0..Unread(t), t.read_callback
  PROVE  /\ Stock(HandOut(t, n)) = Stock(t)
         /\ Unread(HandOut(t, n)) = Unread(t) - n
<1>. DEFINE q == B!Contents(t.read_buffer)
            b == B!Drop(t.read_buffer, n)
            rest == [t EXCEPT !.read_buffer = b]
            data == SubSeq(q, 1, n)
            u == HandOut(t, n)
            left == SubSeq(q, n + 1, Len(q))
<1>1. q \in Bytes /\ Len(q) = Unread(t) /\ Unread(t) \in Nat
  BY ContentsTyped
<1>2. B!Contents(b) = left
  BY DropBuffer, Zenon
<1>3. rest.posted = t.posted /\ rest.read_buffer = b
  <2>. HIDE DEF b
  <2>. QED  BY DEF Typed, Shape
<1>4. u = Post(rest, Kind(t), data)
  BY DEF HandOut
<1>5. Typed(rest)
  <2>1. b \in B!Buffers /\ b.read_index <= b.write_index
    <3>1. BP!WellFormed(t.read_buffer) /\ n \in 0..BP!ReadableBytes(t.read_buffer)
      BY SameBuffer DEF Typed, Unread
    <3>2. BP!WellFormed(BP!Drop(t.read_buffer, n))
      BY <3>1, BufferAssumed, BP!DropIsSubSeq, Zenon
    <3>. QED  BY <3>2, SameBuffer, Zenon
  <2>. HIDE DEF b
  <2>. QED  BY <2>1 DEF Typed, Shape
<1>. HIDE DEF b, rest, u
<1>6. Delivered(u) = Delivered(t) \o data /\ B!Contents(u.read_buffer) = left
  <2>1. Delivered(rest) = Delivered(t)
    BY <1>3, Zenon DEF Delivered
  <2>. HIDE DEF q, data, left
  <2>2. Delivered(u) = Delivered(rest) \o data /\ u.read_buffer = rest.read_buffer
    BY <1>4, <1>5, PostStock, Zenon
  <2>. QED  BY <1>2, <1>3, <2>1, <2>2, Zenon
<1>7. (Delivered(t) \o data) \o left = Delivered(t) \o q /\ Len(left) = Unread(t) - n
  <2>1. n \in 0..Len(q) /\ q \in Bytes /\ Delivered(t) \in Bytes
    BY <1>1, StockTyped
  <2>. HIDE DEF q
  <2>. QED  BY <1>1, <2>1, CutSeq, Zenon DEF Bytes
<1>9. Unread(u) = Len(B!Contents(u.read_buffer))
  <2>1. Typed(u)
    BY HandOutTyped DEF u
  <2>. QED  BY <2>1, ContentsTyped
<1>. QED  BY <1>6, <1>7, <1>9, Zenon DEF Stock, u

\* u has the bytes of t; it hands out the rest when it closes while the rest is
\* asked for.
Keeps(t, u) ==
    /\ Stock(u) = Stock(t)
    /\ ~t.closed /\ t.read_until_close =>
         IF u.closed THEN Unread(u) = 0 ELSE u.read_until_close

LEMMA SameKeeps ==
  ASSUME NEW t, NEW u, Delivered(u) = Delivered(t),
         B!Contents(u.read_buffer) = B!Contents(t.read_buffer),
         u.closed = t.closed, u.read_until_close = t.read_until_close
  PROVE  Keeps(t, u)
BY Zenon DEF Keeps, Stock

LEMMA KeepsAgain ==
  ASSUME NEW t, NEW u, NEW v, Keeps(t, u), Keeps(u, v), u.closed => u = v
  PROVE  Keeps(t, v)
BY Zenon DEF Keeps

LEMMA CloseKeeps ==
  ASSUME NEW t, Typed(t), NEW r, Balanced(t, r)
  PROVE  Keeps(t, Close(t))
<1>1. CASE t.closed
  BY <1>1 DEF Close, Keeps
<1>2. CASE ~t.closed
  <2>. DEFINE rest == IF t.read_until_close /\ Unread(t) > 0 THEN HandOut(t, Unread(t)) ELSE t
              last == PostIf(t.close_callback, rest, "close")
  <2>0. Unread(t) \in Nat /\ Unread(t) \in 0..Unread(t) /\ (t.read_until_close => t.read_callback)
    BY <1>2, ContentsTyped DEF Balanced
  <2>1. Typed(rest) /\ Stock(rest) = Stock(t) /\ (t.read_until_close => Unread(rest) = 0)
    BY <2>0, HandOutTyped, HandOutStock
  <2>. HIDE DEF rest
  <2>2. Delivered(last) = Delivered(rest) /\ last.read_buffer = rest.read_buffer /\ Typed(last)
    <3>1. t.close_callback \in BOOLEAN
      BY DEF Typed, Shape
    <3>. QED  BY <2>1, <3>1, PostIfStock, PostIfTyped
  <2>3. Close(t) = [last EXCEPT !.closed = TRUE, !.state = {}, !.read_until_close = FALSE,
                       !.connect_callback = FALSE, !.read_callback = FALSE,
                       !.write_callback = FALSE, !.close_callback = FALSE]
    BY <1>2 DEF Close, rest
  <2>. HIDE DEF last
  <2>4. /\ Close(t).posted = last.posted /\ Close(t).read_buffer = last.read_buffer
        /\ Close(t).closed
    BY <2>2, <2>3 DEF Typed, Shape
  <2>5. Stock(Close(t)) = Stock(t) /\ (t.read_until_close => Unread(Close(t)) = 0)
    BY <2>1, <2>2, <2>4, Zenon DEF Stock, Delivered, Unread
  <2>. QED  BY <2>4, <2>5, Zenon DEF Keeps
<1>. QED  BY <1>1, <1>2

LEMMA EndEventsKeeps ==
  ASSUME NEW t, Typed(t), NEW r, Balanced(t, r), NEW events
  PROVE  Keeps(t, EndEvents(t, events))
<1>1. /\ [t EXCEPT !.state = Watch(t)].posted = t.posted
      /\ [t EXCEPT !.state = Watch(t)].read_buffer = t.read_buffer
      /\ [t EXCEPT !.state = Watch(t)].closed = t.closed
      /\ [t EXCEPT !.state = Watch(t)].read_until_close = t.read_until_close
  BY DEF Typed, Shape
<1>2. Keeps(t, [t EXCEPT !.state = Watch(t)])
  BY <1>1, SameKeeps, Zenon DEF Delivered
<1>. QED  BY <1>2, CloseKeeps, Zenon DEF EndEvents

LEMMA AddIOStateKeeps ==
  ASSUME NEW t, Typed(t), NEW event
  PROVE  Keeps(t, AddIOState(t, event)) /\ (AddIOState(t, event).closed => t.closed)
<1>. DEFINE u == AddIOState(t, event)
<1>1. /\ u.posted = t.posted /\ u.read_buffer = t.read_buffer /\ u.closed = t.closed
      /\ u.read_until_close = t.read_until_close
  BY DEF Typed, Shape, AddIOState
<1>. QED  BY <1>1, SameKeeps, Zenon DEF Delivered

LEMMA AppendOrCloseKeeps ==
  ASSUME NEW t, Typed(t), NEW r, Balanced(t, r), NEW n
  PROVE  Keeps(t, AppendOrClose(n, t))
<1>. DEFINE u == [t EXCEPT !.write_len = @ + n]
<1>1. /\ u.posted = t.posted /\ u.read_buffer = t.read_buffer /\ u.closed = t.closed
      /\ u.read_until_close = t.read_until_close
  BY DEF Typed, Shape
<1>2. AppendOrClose(n, t) = u \/ AppendOrClose(n, t) = Close(t)
  BY DEF AppendOrClose
<1>. HIDE DEF u
<1>. QED  BY <1>1, <1>2, SameKeeps, CloseKeeps, Zenon DEF Delivered

LEMMA RoomyKeeps ==
  ASSUME NEW t, Typed(t)
  PROVE  Keeps(t, Roomy(t))
<1>1. /\ Roomy(t).posted = t.posted /\ Roomy(t).closed = t.closed
      /\ Roomy(t).read_until_close = t.read_until_close
  BY StoredShape DEF Typed, SameRequests
<1>. QED  BY <1>1, RoomyBuffer, SameKeeps, Zenon DEF Delivered

LEMMA AnswerKeeps ==
  ASSUME NEW t, Typed(t), NEW r, Balanced(t, r), ~t.closed
  PROVE  Keeps(t, Answer(t))
<1>. DEFINE u == Answer(t)
<1>1. u.closed = t.closed /\ u.read_until_close = t.read_until_close
  BY AnswerShape DEF Typed
<1>2. Unread(t) \in Nat /\ DelimiterEnd(t) \in 0..Unread(t) /\ t.read_bytes \in Nat
  BY ContentsTyped, DelimiterEndTyped DEF Typed, Shape
<1>3. t.read_bytes > 0 \/ t.read_delimiter \/ t.read_until_close => t.read_callback
  BY DEF Balanced
<1>4. ASSUME NEW h, Typed(h)
      PROVE  /\ Stock([h EXCEPT !.read_bytes = 0, !.read_callback = FALSE]) = Stock(h)
             /\ Stock([h EXCEPT !.read_delimiter = FALSE, !.read_callback = FALSE]) = Stock(h)
  <2>. DEFINE a == [h EXCEPT !.read_bytes = 0, !.read_callback = FALSE]
              b == [h EXCEPT !.read_delimiter = FALSE, !.read_callback = FALSE]
  <2>1. a.posted = h.posted /\ a.read_buffer = h.read_buffer
    BY <1>4 DEF Typed, Shape
  <2>2. b.posted = h.posted /\ b.read_buffer = h.read_buffer
    BY <1>4 DEF Typed, Shape
  <2>. QED  BY <2>1, <2>2, Zenon DEF Stock, Delivered
<1>5. ASSUME NEW n \in 0..Unread(t), t.read_callback
      PROVE  Typed(HandOut(t, n)) /\ Stock(HandOut(t, n)) = Stock(t)
  BY <1>5, HandOutTyped, HandOutStock
<1>6. Stock(u) = Stock(t)
  <2>1. CASE t.read_bytes > 0 /\ Unread(t) >= t.read_bytes
    <3>1. u = [HandOut(t, t.read_bytes) EXCEPT !.read_bytes = 0, !.read_callback = FALSE]
      BY <2>1 DEF Answer
    <3>2. t.read_bytes \in 0..Unread(t)
      BY <1>2, <2>1
    <3>3. Typed(HandOut(t, t.read_bytes)) /\ Stock(HandOut(t, t.read_bytes)) = Stock(t)
      BY <1>3, <1>5, <2>1, <3>2
    <3>. QED  BY <1>4, <3>1, <3>3, Zenon
  <2>2. CASE ~(t.read_bytes > 0 /\ Unread(t) >= t.read_bytes) /\ t.read_delimiter /\ DelimiterEnd(t) > 0
    <3>1. u = [HandOut(t, DelimiterEnd(t)) EXCEPT !.read_delimiter = FALSE, !.read_callback = FALSE]
      BY <2>2 DEF Answer
    <3>2. Typed(HandOut(t, DelimiterEnd(t))) /\ Stock(HandOut(t, DelimiterEnd(t))) = Stock(t)
      BY <1>2, <1>3, <1>5, <2>2
    <3>. QED  BY <1>4, <3>1, <3>2, Zenon
  <2>3. CASE /\ ~(t.read_bytes > 0 /\ Unread(t) >= t.read_bytes)
             /\ ~(t.read_delimiter /\ DelimiterEnd(t) > 0)
             /\ t.read_until_close /\ Unread(t) > 0
    <3>1. u = HandOut(t, Unread(t)) /\ Unread(t) \in 0..Unread(t)
      BY <1>2, <2>3 DEF Answer
    <3>. QED  BY <1>3, <1>5, <2>3, <3>1
  <2>4. CASE /\ ~(t.read_bytes > 0 /\ Unread(t) >= t.read_bytes)
             /\ ~(t.read_delimiter /\ DelimiterEnd(t) > 0)
             /\ ~(t.read_until_close /\ Unread(t) > 0)
    BY <2>4 DEF Answer
  <2>. QED  BY <2>1, <2>2, <2>3, <2>4
<1>. QED  BY <1>1, <1>6, Zenon DEF Keeps

LEMMA WrittenKeeps ==
  ASSUME NEW t, Typed(t)
  PROVE  Keeps(t, Written(t)) /\ Written(t).closed = t.closed
<1>. DEFINE p == Post(t, "write", << >>)
            u == [p EXCEPT !.write_callback = FALSE]
<1>1. /\ Delivered(p) = Delivered(t) /\ p.read_buffer = t.read_buffer
      /\ Shape(p) /\ SameRequests(t, p)
  BY PostStock, PostShape DEF Typed
<1>2. Written(t) = t \/ Written(t) = u
  BY DEF Written
<1>. HIDE DEF p
<1>3. /\ u.posted = p.posted /\ u.read_buffer = p.read_buffer
      /\ u.closed = t.closed /\ u.read_until_close = t.read_until_close
  BY <1>1 DEF Shape, SameRequests
<1>. HIDE DEF u
<1>4. Delivered(u) = Delivered(t) /\ u.read_buffer = t.read_buffer
  BY <1>1, <1>3, Zenon DEF Delivered
<1>. QED  BY <1>2, <1>3, <1>4, SameKeeps, Zenon

LEMMA ConnectedKeeps ==
  ASSUME NEW t, Typed(t), NEW r, Balanced(t, r)
  PROVE  /\ Keeps(t, Connected(t)) /\ Connected(t).closed = t.closed
         /\ Keeps(t, ConnectFailed(t))
<1>. DEFINE p(kind) == PostIf(t.connect_callback, t, kind)
            u == [p("connect") EXCEPT !.connect_callback = FALSE, !.connecting = FALSE]
            v == [p("connect failed") EXCEPT !.connect_callback = FALSE]
<1>1. ASSUME NEW kind
      PROVE  /\ Delivered(p(kind)) = Delivered(t) /\ p(kind).read_buffer = t.read_buffer
             /\ Shape(p(kind)) /\ SameRequests(t, p(kind))
  <2>1. Shape(p(kind)) /\ SameRequests(t, p(kind))
    <3>1. Shape(t) /\ SameRequests(t, t)
      BY DEF Typed, SameRequests
    <3>. QED  BY <3>1, PostShape, Zenon DEF PostIf
  <2>. QED  BY <2>1, PostIfStock
<1>2. Connected(t) = u /\ ConnectFailed(t) = Close(v)
  BY DEF Connected, ConnectFailed
<1>. HIDE DEF p
<1>3. /\ u.posted = p("connect").posted /\ u.read_buffer = p("connect").read_buffer
      /\ u.closed = t.closed /\ u.read_until_close = t.read_until_close
  BY <1>1 DEF Shape, SameRequests
<1>4. /\ v.posted = p("connect failed").posted /\ v.read_buffer = p("connect failed").read_buffer
      /\ v.closed = t.closed /\ v.read_until_close = t.read_until_close
  BY <1>1 DEF Shape, SameRequests
<1>5. Keeps(t, u)
  <2>1. Delivered(u) = Delivered(t) /\ u.read_buffer = t.read_buffer
    BY <1>1, <1>3, Zenon DEF Delivered
  <2>. QED  BY <1>3, <2>1, SameKeeps, Zenon
<1>6. Keeps(t, v)
  <2>1. Delivered(v) = Delivered(t) /\ v.read_buffer = t.read_buffer
    BY <1>1, <1>4, Zenon DEF Delivered
  <2>. QED  BY <1>4, <2>1, SameKeeps, Zenon
<1>7. Keeps(v, Close(v)) /\ (v.closed => Close(v) = v)
  <2>1. Typed(v)
    <3>1. Typed(p("connect failed"))
      <4>1. t.connect_callback \in BOOLEAN
        BY DEF Typed, Shape
      <4>. QED  BY <4>1, PostIfTyped DEF p
    <3>. QED  BY <3>1 DEF Typed, Shape
  <2>2. Balanced(v, r)
    <3>1. SameReads(t, v)
      BY <1>1, <1>4 DEF SameReads, SameRequests, Shape
    <3>2. \/ v.posted = t.posted
          \/ \E kind, data : kind # "read" /\ v.posted = Append(t.posted, [kind |-> kind, data |-> data])
      <4>1. "connect failed" # "read"
        OBVIOUS
      <4>2. PostIf(t.connect_callback, t, "connect failed").posted
              \in {t.posted, Append(t.posted, [kind |-> "connect failed", data |-> << >>])}
        BY PostShape DEF PostIf, Typed
      <4>. QED  BY <1>4, <4>1, <4>2 DEF p
    <3>. QED  BY <2>1, <3>1, <3>2, SameBalanced DEF Typed
  <2>. QED  BY <2>1, <2>2, CloseKeeps, CloseShape DEF Typed
<1>. QED  BY <1>2, <1>3, <1>5, <1>6, <1>7, KeepsAgain, Zenon

\* What a call of the API keeps.
LEMMA CallsKeep ==
  ASSUME Typed(s), Balanced(s, reads), ApiStep
  PROVE  Keeps(s, s')
<1>0. /\ ReadSizes \subseteq Nat \ {0} /\ WriteSizes \subseteq Nat \ {0}
      /\ Shape(s)
  BY IOStreamAssumption DEF Typed
<1>1. ASSUME NEW n \in 0..Unread(s), NEW request, ReadRequest(n, request),
             request.posted = s.posted, request.read_buffer = s.read_buffer
      PROVE  Keeps(s, s')
  <2>. DEFINE t == [s EXCEPT !.read_callback = TRUE]
              h == HandOut(t, n)
              u == [h EXCEPT !.read_callback = FALSE]
  <2>1. /\ Typed(t) /\ t.posted = s.posted /\ t.read_buffer = s.read_buffer /\ t.read_callback
    BY DEF Typed, Shape
  <2>2. Stock(t) = Stock(s) /\ n \in 0..Unread(t)
    BY <2>1, Zenon DEF Stock, Delivered, Unread
  <2>3. Typed(h) /\ Stock(h) = Stock(s)
    <3>. HIDE DEF t
    <3>. QED  BY <2>1, <2>2, HandOutTyped, HandOutStock
  <2>. HIDE DEF h, t
  <2>4. u.posted = h.posted /\ u.read_buffer = h.read_buffer
    BY <2>3 DEF Typed, Shape
  <2>5. Stock(u) = Stock(s) /\ Stock(request) = Stock(s)
    BY <1>1, <2>3, <2>4, Zenon DEF Stock, Delivered
  <2>6. (s' = u \/ s' = request) /\ ~s.read_until_close
    BY <1>1, Zenon DEF ReadRequest, MayRead, u, h, t
  <2>. QED  BY <2>5, <2>6, Zenon DEF Keeps
<1>2. ASSUME NEW n \in ReadSizes, ReadBytes(n) PROVE Keeps(s, s')
  <2>. DEFINE request == [s EXCEPT !.read_bytes = n, !.read_callback = TRUE]
  <2>1. (IF Unread(s) >= n THEN n ELSE 0) \in 0..Unread(s)
    BY <1>0, ContentsTyped
  <2>2. request.posted = s.posted /\ request.read_buffer = s.read_buffer
    BY <1>0 DEF Shape
  <2>. QED  BY <1>1, <1>2, <2>1, <2>2, Zenon DEF ReadBytes
<1>3. ASSUME ReadUntil PROVE Keeps(s, s')
  <2>. DEFINE request == [s EXCEPT !.read_delimiter = TRUE, !.read_callback = TRUE]
  <2>1. request.posted = s.posted /\ request.read_buffer = s.read_buffer
    BY <1>0 DEF Shape
  <2>. QED  BY <1>1, <1>3, <2>1, DelimiterEndTyped, Zenon DEF ReadUntil
<1>4. ASSUME ReadUntilClose PROVE Keeps(s, s')
  <2>1. s'.posted = s.posted /\ s'.read_buffer = s.read_buffer /\ ~s.read_until_close
    BY <1>0, <1>4 DEF ReadUntilClose, MayRead, Shape
  <2>. QED  BY <2>1, Zenon DEF Keeps, Stock, Delivered
<1>5. ASSUME NEW n \in WriteSizes, NEW callback \in BOOLEAN, WriteBytes(n, callback)
      PROVE  Keeps(s, s')
  <2>. DEFINE t == AppendOrClose(n, s)
              u == [t EXCEPT !.write_callback = TRUE]
  <2>1. Keeps(s, t) /\ Typed(t)
    BY <1>0, AppendOrCloseKeeps, AppendOrCloseTyped
  <2>2. s' = t \/ s' = u
    BY <1>5 DEF WriteBytes
  <2>. HIDE DEF t
  <2>3. /\ u.posted = t.posted /\ u.read_buffer = t.read_buffer
        /\ u.closed = t.closed /\ u.read_until_close = t.read_until_close
    BY <2>1 DEF Typed, Shape
  <2>. QED  BY <2>1, <2>2, <2>3, Zenon DEF Keeps, Stock, Delivered, Unread
<1>6. ASSUME NEW n \in WriteSizes, JustWriteBytesToBuff(n) PROVE Keeps(s, s')
  BY <1>0, <1>6, AppendOrCloseKeeps, Zenon DEF JustWriteBytesToBuff
<1>7. ASSUME SetCloseCallback PROVE Keeps(s, s')
  <2>1. /\ s'.posted = s.posted /\ s'.read_buffer = s.read_buffer
        /\ s'.closed = s.closed /\ s'.read_until_close = s.read_until_close
    BY <1>0, <1>7 DEF SetCloseCallback, Shape
  <2>. QED  BY <2>1, SameKeeps, Zenon DEF Delivered
<1>8. ASSUME NEW callback \in BOOLEAN, Connect(callback) PROVE Keeps(s, s')
  <2>. DEFINE t == AddIOState(s, "WRITE")
              c == Close(s)
              u == [t EXCEPT !.connecting = TRUE, !.connect_callback = callback]
              v == [c EXCEPT !.connecting = TRUE]
  <2>1. Keeps(s, t) /\ Keeps(s, c) /\ Typed(t) /\ Typed(c)
    BY AddIOStateKeeps, CloseKeeps, AddIOStateTyped, CloseTyped DEF Event
  <2>2. s' = u \/ s' = v
    BY <1>8 DEF Connect
  <2>. HIDE DEF t, c
  <2>3. /\ u.posted = t.posted /\ u.read_buffer = t.read_buffer
        /\ u.closed = t.closed /\ u.read_until_close = t.read_until_close
    BY <2>1 DEF Typed, Shape
  <2>4. /\ v.posted = c.posted /\ v.read_buffer = c.read_buffer
        /\ v.closed = c.closed /\ v.read_until_close = c.read_until_close
    BY <2>1 DEF Typed, Shape
  <2>. QED  BY <2>1, <2>2, <2>3, <2>4, Zenon DEF Keeps, Stock, Delivered, Unread
<1>9. ASSUME CloseStream PROVE Keeps(s, s')
  BY <1>9, CloseKeeps, Zenon DEF CloseStream
<1>. QED  BY <1>2, <1>3, <1>4, <1>5, <1>6, <1>7, <1>8, <1>9 DEF ApiStep

\* What a step of the loops and of handleEvents keeps that reads nothing.
LEMMA LoopsKeep ==
  ASSUME Typed(s), Balanced(s, reads), StreamStep, ~ReadSome
  PROVE  Keeps(s, s')
<1>1. CASE ReadFails
  <2>1. CASE s.closed
    BY <1>1, <2>1, CloseKeeps DEF ReadFails
  <2>2. CASE ~s.closed
    <3>1. s' = Close(Roomy(s))
      BY <1>1, <2>2 DEF ReadFails
    <3>2. /\ Typed(Roomy(s)) /\ Balanced(Roomy(s), reads) /\ Keeps(s, Roomy(s))
          /\ ~Roomy(s).closed
      <4>1. Roomy(s).closed = s.closed
        BY StoredShape DEF Typed, SameRequests
      <4>. QED  BY <2>2, <4>1, RoomyTyped, RoomyBalanced, RoomyKeeps
    <3>. QED  BY <3>1, <3>2, CloseKeeps, KeepsAgain
  <2>. QED  BY <2>1, <2>2
<1>2. CASE ReadBlocks
  <2>. DEFINE m == Roomy(s)
              t == Answer(m)
  <2>1. Typed(m) /\ Balanced(m, reads) /\ Keeps(s, m) /\ ~m.closed
    <3>1. Roomy(s).closed = s.closed
      BY StoredShape DEF Typed, SameRequests
    <3>. QED  BY <1>2, <3>1, RoomyTyped, RoomyBalanced, RoomyKeeps DEF ReadBlocks
  <2>2. Typed(t) /\ Balanced(t, reads) /\ Keeps(m, t) /\ ~t.closed
    <3>. HIDE DEF m
    <3>1. Answer(m).closed = m.closed
      BY <2>1, AnswerShape DEF Typed
    <3>. QED  BY <2>1, <3>1, AnswerTyped, AnswerBalanced, AnswerKeeps
  <2>3. Keeps(s, t)
    BY <2>1, <2>2, KeepsAgain
  <2>4. s' = t \/ s' = AddIOState(t, "READ") \/ s' = EndEvents(t, caller)
    BY <1>2 DEF ReadBlocks
  <2>. HIDE DEF t
  <2>5. Keeps(t, AddIOState(t, "READ")) /\ Keeps(t, EndEvents(t, caller))
    BY <2>2, AddIOStateKeeps, EndEventsKeeps
  <2>. QED  BY <2>2, <2>3, <2>4, <2>5, KeepsAgain
<1>3. CASE WriteSome
  <2>. DEFINE n == LowerOf(LowerOf(WriteChunk, s.write_len), SendBuffer - outq)
  <2>1. s' = [s EXCEPT !.write_len = @ - n]
    BY <1>3 DEF WriteSome
  <2>. HIDE DEF n
  <2>2. /\ s'.posted = s.posted /\ s'.read_buffer = s.read_buffer
        /\ s'.closed = s.closed /\ s'.read_until_close = s.read_until_close
    BY <2>1 DEF Typed, Shape
  <2>. QED  BY <2>2, SameKeeps, Zenon DEF Delivered
<1>4. CASE WriteFails
  BY <1>4, CloseKeeps DEF WriteFails
<1>5. CASE WriteBlocksOrEnds
  <2>. DEFINE t == Written(s)
  <2>1. Typed(t) /\ Balanced(t, reads) /\ Keeps(s, t) /\ t.closed = s.closed
    BY WrittenTyped, WrittenBalanced, WrittenKeeps
  <2>2. s' = t \/ s' = AddIOState(t, "WRITE") \/ s' = EndEvents(t, caller)
    BY <1>5 DEF WriteBlocksOrEnds
  <2>. HIDE DEF t
  <2>3. /\ Keeps(t, AddIOState(t, "WRITE")) /\ Keeps(t, EndEvents(t, caller))
        /\ t.closed => AddIOState(t, "WRITE") = t
    BY <2>1, AddIOStateKeeps, EndEventsKeeps DEF AddIOState
  <2>4. CASE s.closed
    BY <2>1, <2>2, <2>3, <2>4, Zenon DEF Keeps
  <2>5. CASE ~s.closed
    BY <2>1, <2>2, <2>3, <2>5, KeepsAgain, Zenon
  <2>. QED  BY <2>4, <2>5
<1>6. CASE Poll
  BY <1>6, Zenon DEF Poll, Keeps
<1>7. CASE Dispatch
  <2>. DEFINE t == IF s.connecting THEN Connected(s) ELSE s
  <2>1. CASE UNCHANGED s \/ s' = ConnectFailed(s)
    <3>1. Keeps(s, s)
      BY SameKeeps
    <3>2. Keeps(s, ConnectFailed(s))
      BY ConnectedKeeps
    <3>. QED  BY <2>1, <3>1, <3>2
  <2>2. CASE ~s.closed /\ (s' = t \/ s' = EndEvents(t, reported))
    <3>1. Typed(t) /\ Balanced(t, reads) /\ Keeps(s, t) /\ t.closed = s.closed
      BY ConnectedTyped, ConnectedBalanced, ConnectedKeeps, SameKeeps
    <3>. HIDE DEF t
    <3>2. Keeps(t, EndEvents(t, reported))
      BY <3>1, EndEventsKeeps
    <3>. QED  BY <2>2, <3>1, <3>2, KeepsAgain, Zenon
  <2>3. \/ UNCHANGED s \/ s' = ConnectFailed(s)
        \/ ~s.closed /\ (s' = t \/ s' = EndEvents(t, reported))
    BY <1>7, Zenon DEF Dispatch, t
  <2>. QED  BY <2>1, <2>2, <2>3
<1>. QED  BY <1>1, <1>2, <1>3, <1>4, <1>5, <1>6, <1>7 DEF StreamStep

\* As many bytes as were read are in stock, and they are those that were sent, in
\* their order, until a read(2) has stored some over others.
Stocked ==
    /\ Len(Stock(s)) = got
    /\ ~overlaid => \A i \in 1..got : Stock(s)[i] = i

LEMMA ReadSomeStocked ==
  ASSUME Typed(s), Counted, Stocked, ReadSome
  PROVE  Stocked'
<1>. DEFINE n == LowerOf(ReadChunk, sent - got)
            chunk == [i \in 1..n |-> got + i]
            m == Roomy(s)
            u == Stored(m, chunk)
            d == Delivered(s)
            c == B!Contents(u.read_buffer)
<1>1. /\ n \in Nat /\ n <= ReadChunk /\ n <= sent - got /\ got \in Nat /\ sent \in Nat
      /\ sent <= PeerBytes /\ PeerBytes \in Nat
  BY IOStreamAssumption DEF ReadSome, Counted, LowerOf
<1>2. /\ s' = u /\ got' = got + n /\ overlaid' = (overlaid \/ Unread(s) > 0)
      /\ B!CanWrite(s.read_buffer, ReadChunk)
  BY Zenon DEF ReadSome, HasRoom
<1>3. chunk \in Bytes /\ Len(chunk) = n /\ chunk \in [1..n -> 0..(PeerBytes + 1)]
  <2>1. \A i \in 1..n : got + i \in 0..(PeerBytes + 1)
    BY <1>1
  <2>2. chunk \in [1..n -> 0..(PeerBytes + 1)]
    BY <2>1
  <2>. HIDE DEF n, chunk
  <2>. QED  BY <1>1, <2>2, SequenceTypes DEF Bytes
<1>4. \A i \in 1..n : chunk[i] = got + i
  OBVIOUS
<1>. HIDE DEF n, chunk
<1>5. /\ Typed(m) /\ m.read_buffer.write_index + n <= Capacity
      /\ m.posted = s.posted /\ Unread(m) = Unread(s)
  <2>1. Typed(m) /\ m.read_buffer.write_index + ReadChunk <= Capacity
    BY <1>2, RoomyTyped
  <2>2. m.read_buffer.write_index \in Nat /\ ReadChunk \in Nat /\ Capacity \in Nat
    BY <2>1, IOStreamAssumption DEF Typed, B!Buffers
  <2>3. m.posted = s.posted
    BY StoredShape DEF Typed
  <2>4. Unread(m) = Unread(s)
    BY <2>1, ContentsTyped, RoomyBuffer
  <2>. HIDE DEF m
  <2>. QED  BY <1>1, <2>1, <2>2, <2>3, <2>4
<1>. HIDE DEF m
<1>6. Typed(u) /\ Delivered(u) = d
  <2>1. u.posted = m.posted
    BY <1>5, StoredShape DEF Typed
  <2>. QED  BY <1>1, <1>3, <1>5, <2>1, StoredTyped DEF Delivered
<1>7. Len(c) = Unread(s) + n /\ \A i \in 1..n : c[i] = got + i
  BY <1>3, <1>4, <1>5, StoredBuffer
<1>8. c \in Bytes /\ d \in Bytes /\ Len(d) + Unread(s) = got /\ Unread(s) \in Nat
  BY <1>6, ContentsTyped, StockTyped DEF Stocked
<1>9. Stock(u) = d \o c
  BY <1>6 DEF Stock
<1>10. \A i \in 1..Len(d) : Stock(s)[i] = d[i]
  BY StockTyped
<1>. HIDE DEF u, d, c
<1>11. /\ Len(d \o c) = Len(d) + Len(c) /\ Len(d) \in Nat
       /\ \A i \in 1..(Len(d) + Len(c)) : (d \o c)[i] = IF i <= Len(d) THEN d[i] ELSE c[i - Len(d)]
  BY <1>8, ConcatProperties, LenProperties, Zenon DEF Bytes
<1>12. ASSUME ~overlaid, Unread(s) = 0, NEW i \in 1..(got + n) PROVE (d \o c)[i] = i
  <2>1. Len(d) = got /\ Len(c) = n /\ got \in Nat
    BY <1>1, <1>7, <1>8, <1>11, <1>12
  <2>2. (d \o c)[i] = IF i <= got THEN d[i] ELSE c[i - got]
    BY <1>11, <1>12, <2>1
  <2>3. CASE i <= got
    BY <1>10, <1>12, <2>1, <2>2, <2>3 DEF Stocked
  <2>4. CASE ~(i <= got)
    <3>1. i - got \in 1..n
      BY <1>1, <1>12, <2>4
    <3>2. c[i - got] = got + (i - got)
      BY <1>7, <3>1
    <3>. QED  BY <1>1, <2>2, <2>4, <3>2
  <2>. QED  BY <2>3, <2>4
<1>13. Stock(u) = Stock(s)'
  BY <1>2, Zenon DEF Stock, Delivered
<1>14. Len(d \o c) = got + n
  <2>1. Len(d) + Len(c) = got + n
    <3>1. /\ Len(d) \in Nat /\ Unread(s) \in Nat /\ Len(d) + Unread(s) = got
          /\ Len(c) = Unread(s) + n
      BY <1>7, <1>8, <1>11, Zenon
    <3>2. Len(d) + (Unread(s) + n) = got + n
      BY <1>1, <3>1
    <3>. QED  BY <3>1, <3>2, Zenon
  <2>. QED  BY <1>11, <2>1, Zenon
<1>15. overlaid' \/ (~overlaid /\ Unread(s) = 0)
  <2>1. Unread(s) > 0 \/ Unread(s) = 0
    BY <1>8
  <2>. QED  BY <1>2, <2>1, Zenon
<1>. QED  BY <1>2, <1>9, <1>12, <1>13, <1>14, <1>15 DEF Stocked

\* Every other step leaves the stock as it is, and closes a stream only with
\* nothing left of a rest that was asked for.
LEMMA OthersKeep ==
  ASSUME Typed(s), Balanced(s, reads), [Next]_vars, ~ReadSome
  PROVE  Keeps(s, s') /\ UNCHANGED <<got, overlaid>>
<1>1. CASE NetworkStep \/ UNCHANGED vars
  <2>1. s' = s /\ UNCHANGED <<got, overlaid>>
    BY <1>1 DEF NetworkStep, ConnectEnds, PeerSends, PeerCloses, PeerResets, PeerReceives,
                Peer, vars, history
  <2>. QED  BY <2>1, SameKeeps
<1>2. CASE ApiStep
  <2>1. UNCHANGED <<got, overlaid>>
    BY <1>2 DEF ApiStep, ReadBytes, ReadUntil, ReadRequest, ReadUntilClose, WriteBytes,
                JustWriteBytesToBuff, SetCloseCallback, Connect, CloseStream, history
  <2>. QED  BY <1>2, <2>1, CallsKeep
<1>3. CASE StreamStep
  <2>1. UNCHANGED <<got, overlaid>>
    BY <1>3 DEF StreamStep, ReadFails, ReadBlocks, WriteSome, WriteFails, WriteBlocksOrEnds,
                Poll, Dispatch, history
  <2>. QED  BY <1>3, <2>1, LoopsKeep
<1>. QED  BY <1>1, <1>2, <1>3 DEF Next

LEMMA AlwaysStocked == Spec => []Stocked
<1>1. Init => Stocked
  <2>. SUFFICES ASSUME Init PROVE Stocked
    OBVIOUS
  <2>1. PICK junk \in Junk : s = NewStream(junk)
    BY DEF Init
  <2>2. s.posted = << >> /\ s.read_buffer = [B!EmptyBuffer EXCEPT !.buff = [a \in B!Addr |-> junk]]
    BY <2>1 DEF NewStream
  <2>3. s.read_buffer = [buff |-> [a \in B!Addr |-> junk], read_index |-> 0, write_index |-> 0]
    BY <2>2 DEF B!EmptyBuffer
  <2>4. B!ReadableBytes(s.read_buffer) = 0
    BY <2>3 DEF B!ReadableBytes
  <2>5. B!Contents(s.read_buffer) = << >>
    BY <2>4 DEF B!Contents
  <2>6. Stock(s) = << >> \o << >>
    BY <2>2, <2>5, JoinedEmpty DEF Stock, Delivered
  <2>7. Len(Stock(s)) = 0 /\ got = 0
    BY <2>6 DEF Init
  <2>. QED  BY <2>7 DEF Stocked
<1>2. TypedState /\ Balanced(s, reads) /\ Stocked /\ [Next]_vars => Stocked'
  <2>. SUFFICES ASSUME TypedState, Balanced(s, reads), Stocked, [Next]_vars PROVE Stocked'
    OBVIOUS
  <2>1. CASE ReadSome
    BY <2>1, ReadSomeStocked DEF TypedState
  <2>2. CASE ~ReadSome
    <3>1. Stock(s') = Stock(s) /\ UNCHANGED <<got, overlaid>>
      BY <2>2, OthersKeep DEF TypedState, Keeps
    <3>2. Stock(s') = Stock(s)'
      BY Zenon DEF Stock, Delivered
    <3>. QED  BY <3>1, <3>2 DEF Stocked
  <2>. QED  BY <2>1, <2>2
<1>. QED  BY <1>1, <1>2, AlwaysTyped, AlwaysBalanced, PTL DEF Spec

\* The bytes read from the socket are, all of them, handed to a callback or in the
\* buffer, whatever the capacity, the chunk and the calls, and also after the
\* stream has failed or was closed: neither compaction nor an answer loses one.
THEOREM AllBytesAccounted == Spec => []BytesAccounted
<1>1. TypedState /\ Stocked => BytesAccounted
  BY StockTyped DEF TypedState, Stocked, BytesAccounted
<1>. QED  BY <1>1, AlwaysTyped, AlwaysStocked, PTL

\* What the callbacks get, put together, is what the peer sent from its first byte
\* on, in order, as long as no read(2) found unread bytes to store over.
THEOREM InOrder == Spec => []IntactUnlessOverlaid
<1>1. TypedState /\ Stocked => IntactUnlessOverlaid
  <2>. SUFFICES ASSUME TypedState, Stocked, ~overlaid, NEW i \in 1..Len(Delivered(s))
                PROVE  Delivered(s)[i] = i
    BY DEF IntactUnlessOverlaid
  <2>1. Typed(s) /\ got \in Nat
    BY DEF TypedState, Counted
  <2>2. /\ Len(Delivered(s)) \in Nat /\ got = Len(Delivered(s)) + Unread(s)
        /\ Stock(s)[i] = Delivered(s)[i]
    BY <2>1, StockTyped DEF Stocked
  <2>3. Unread(s) \in Nat
    BY <2>1, ContentsTyped
  <2>4. i \in 1..got
    BY <2>1, <2>2, <2>3
  <2>. QED  BY <2>2, <2>4 DEF Stocked
<1>. QED  BY <1>1, AlwaysTyped, AlwaysStocked, PTL

-----------------------------------------------------------------------------
(* A stream that closes while readUntilClose runs.                         *)

\* handleEvents is told of errors the connection has.
ErrorIsReal == "ERROR" \in caller \cup reported => conn \in {"failed", "reset"}

LEMMA ErrorStaysReal == ASSUME ErrorIsReal, [Next]_vars PROVE ErrorIsReal'
<1>1. CASE NetworkStep \/ UNCHANGED vars
  BY <1>1 DEF NetworkStep, ConnectEnds, PeerSends, PeerCloses, PeerResets, PeerReceives,
              Peer, vars, ErrorIsReal
<1>2. CASE Poll
  BY <1>2 DEF Poll, Raised, kernelVars, ErrorIsReal
<1>3. CASE Dispatch
  BY <1>3 DEF Dispatch, kernelVars, ErrorIsReal
<1>4. CASE ApiStep
  <2>1. ASSUME NEW n, NEW request, ReadRequest(n, request) PROVE ErrorIsReal'
    BY <2>1 DEF ReadRequest, kernelVars, ErrorIsReal
  <2>2. ASSUME NEW n, NEW callback, WriteBytes(n, callback) PROVE ErrorIsReal'
    BY <2>2 DEF WriteBytes, kernelVars, ErrorIsReal
  <2>3. ASSUME NEW callback, Connect(callback) PROVE ErrorIsReal'
    BY <2>3 DEF Connect, ErrorIsReal
  <2>4. ASSUME NEW n, JustWriteBytesToBuff(n) PROVE ErrorIsReal'
    BY <2>4 DEF JustWriteBytesToBuff, kernelVars, ErrorIsReal
  <2>5. CASE ReadUntilClose \/ SetCloseCallback \/ CloseStream
    BY <2>5 DEF ReadUntilClose, SetCloseCallback, CloseStream, kernelVars, ErrorIsReal
  <2>. QED  BY <1>4, <2>1, <2>2, <2>3, <2>4, <2>5, Zenon DEF ApiStep, ReadBytes, ReadUntil
<1>5. CASE StreamStep /\ ~Poll /\ ~Dispatch
  BY <1>5 DEF StreamStep, ReadSome, ReadFails, ReadBlocks, WriteSome, WriteFails,
              WriteBlocksOrEnds, kernelVars, ErrorIsReal
<1>. QED  BY <1>1, <1>2, <1>3, <1>4, <1>5 DEF Next

\* A read loop that ends by closing an open stream has failed.
LEMMA ReadingCloses ==
  ASSUME Typed(s), ErrorIsReal, StreamStep, pc = "reading", ~s.closed, s'.closed
  PROVE  ReadFails \/ conn \in {"failed", "reset"}
<1>1. CASE ReadSome
  <2>1. PICK chunk : s' = Stored(Roomy(s), chunk)
    BY <1>1 DEF ReadSome
  <2>2. Shape(Roomy(s)) /\ Roomy(s).closed = s.closed
    BY StoredShape DEF Typed, SameRequests
  <2>3. s'.closed = s.closed
    BY <2>1, <2>2, StoredShape DEF SameRequests
  <2>. QED  BY <2>3
<1>2. CASE ReadBlocks
  <2>. DEFINE t == Answer(Roomy(s))
  <2>1. Shape(t) /\ ~t.closed
    <3>1. Shape(Roomy(s)) /\ Roomy(s).closed = s.closed
      BY StoredShape DEF Typed, SameRequests
    <3>. QED  BY <3>1, AnswerShape
  <2>2. s' = t \/ s' = AddIOState(t, "READ") \/ s' = EndEvents(t, caller)
    BY <1>2 DEF ReadBlocks
  <2>. HIDE DEF t
  <2>3. ~AddIOState(t, "READ").closed
    BY <2>1 DEF AddIOState, Shape
  <2>4. "ERROR" \notin caller => ~EndEvents(t, caller).closed
    BY <2>1 DEF EndEvents, Shape
  <2>. QED  BY <2>1, <2>2, <2>3, <2>4 DEF ErrorIsReal
<1>. QED  BY <1>1, <1>2 DEF StreamStep, WriteSome, WriteFails, WriteBlocksOrEnds, Poll,
                            Dispatch, Idle

\* A readUntilClose is not cut short: however the stream closes, all that was read
\* has been handed out when it does, and when it closes because the peer did, that
\* is all the peer has sent.
THEOREM RestIsComplete == Spec => UntilCloseComplete
<1>1. Init => ErrorIsReal
  BY DEF Init, ErrorIsReal
<1>2. ASSUME TypedState, Balanced(s, reads), Stocked, ErrorIsReal, [Next]_vars
      PROVE  /\ ErrorIsReal'
             /\ s.read_until_close /\ ~s.closed /\ s'.closed =>
                  /\ Len(Delivered(s')) = got
                  /\ pc = "reading" /\ HasRoom /\ conn = "up" => fin /\ got = sent
  <2>1. ErrorIsReal'
    BY <1>2, ErrorStaysReal
  <2>2. ASSUME s.read_until_close, ~s.closed, s'.closed PROVE Len(Delivered(s')) = got
    <3>1. ~ReadSome
      <4>1. ASSUME ReadSome PROVE FALSE
        <5>1. PICK chunk : s' = Stored(Roomy(s), chunk)
          BY <4>1 DEF ReadSome
        <5>2. Shape(Roomy(s)) /\ Roomy(s).closed = s.closed
          BY <1>2, StoredShape DEF TypedState, Typed, SameRequests
        <5>3. s'.closed = s.closed
          BY <5>1, <5>2, StoredShape DEF SameRequests
        <5>. QED  BY <2>2, <5>3
      <4>. QED  BY <4>1
    <3>2. Stock(s') = Stock(s) /\ Unread(s') = 0
      BY <1>2, <2>2, <3>1, OthersKeep DEF TypedState, Keeps
    <3>3. Typed(s)'
      <4>1. CASE ApiStep \/ StreamStep
        BY <1>2, <4>1, CallsTyped, LoopsTyped DEF TypedState
      <4>2. CASE NetworkStep \/ UNCHANGED vars
        <5>1. s' = s
          BY <4>2 DEF NetworkStep, ConnectEnds, PeerSends, PeerCloses, PeerResets,
                      PeerReceives, Peer, vars
        <5>. QED  BY <2>2, <5>1
      <4>. QED  BY <1>2, <4>1, <4>2 DEF Next
    <3>4. Typed(s')
      BY <3>3 DEF Typed, Shape
    <3>5. Len(Stock(s')) = Len(Delivered(s')) /\ Len(Stock(s)) = got
      BY <1>2, <3>2, <3>4, StockTyped DEF Stocked
    <3>. QED  BY <3>2, <3>5
  <2>3. ASSUME ~s.closed, s'.closed, pc = "reading", HasRoom, conn = "up"
        PROVE  fin /\ got = sent
    <3>1. CASE StreamStep
      <4>1. ReadFails
        BY <1>2, <2>3, <3>1, ReadingCloses DEF TypedState
      <4>. QED  BY <2>3, <4>1 DEF ReadFails
    <3>2. CASE ApiStep
      BY <2>3, <3>2 DEF ApiStep, ReadBytes, ReadUntil, ReadRequest, ReadUntilClose, MayRead,
                        WriteBytes, JustWriteBytesToBuff, SetCloseCallback, Connect,
                        CloseStream, Idle
    <3>3. CASE NetworkStep \/ UNCHANGED vars
      BY <2>3, <3>3 DEF NetworkStep, ConnectEnds, PeerSends, PeerCloses, PeerResets,
                        PeerReceives, Peer, vars
    <3>. QED  BY <1>2, <3>1, <3>2, <3>3 DEF Next
  <2>. QED  BY <2>1, <2>2, <2>3
<1>. QED  BY <1>1, <1>2, AlwaysTyped, AlwaysBalanced, AlwaysStocked, PTL
          DEF Spec, UntilCloseComplete

=============================================================================
