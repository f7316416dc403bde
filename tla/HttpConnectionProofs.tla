------------------------- MODULE HttpConnectionProofs -------------------------
(***************************************************************************)
(* The connection never meets an assert of its stream (AssertsHold), is not  *)
(* called after what owns it is gone (OwnedUntilWritten) and does not cut a  *)
(* response (ResponseNotCut), for any lengths, capacities and delimiters.    *)
(*                                                                         *)
(* Most of what the stream does by itself keeps all three, in the same way:  *)
(* Keeps says what a step from the stream t to u may not do, every method of *)
(* the stream keeps, and Keeps is transitive.                               *)
(***************************************************************************)
EXTENDS HttpConnection, TLAPS

\* The fields of a stream; its read buffer and what it has posted may be anything.
Shape(t) ==
    t \in [closed : BOOLEAN, connecting : BOOLEAN, state : SUBSET Stream!Event,
           connect_callback : BOOLEAN, read_callback : BOOLEAN,
           write_callback : BOOLEAN, close_callback : BOOLEAN,
           read_buffer : {t.read_buffer}, write_len : Nat,
           read_bytes : Nat, read_delimiter : BOOLEAN, read_until_close : BOOLEAN,
           posted : {t.posted}]

-----------------------------------------------------------------------------
(* What has been posted.                                                   *)

IsPosted(q) == \E S : q \in Seq(S)

\* Whatever write callback was posted, the close callback was posted after it.
CloseFollows(q) ==
    \A i \in DOMAIN q : q[i].kind = "write" => \E j \in i..Len(q) : q[j].kind = "close"

HasRead(q) == \E i \in DOMAIN q : q[i].kind = "read"

LEMMA AppendIndexes ==
  ASSUME NEW S, NEW q \in Seq(S), NEW e
  PROVE  LET r == Append(q, e) IN
         /\ r \in Seq(S \cup {e})
         /\ Len(r) = Len(q) + 1 /\ Len(q) \in Nat
         /\ DOMAIN q = 1..Len(q) /\ DOMAIN r = 1..(Len(q) + 1)
         /\ \A i \in 1..Len(q) : r[i] = q[i]
         /\ r[Len(q) + 1] = e
<1>1. q \in Seq(S \cup {e})
  OBVIOUS
<1>. QED  BY <1>1

LEMMA AppendPosted ==
  ASSUME NEW q, IsPosted(q), NEW kind, NEW data
  PROVE  LET r == Append(q, [kind |-> kind, data |-> data]) IN
         /\ IsPosted(r) /\ Len(r) >= Len(q)
         /\ (CloseFollows(q) /\ kind # "write") \/ kind = "close" => CloseFollows(r)
         /\ HasRead(r) => HasRead(q) \/ kind = "read"
<1>. DEFINE e == [kind |-> kind, data |-> data]
            r == Append(q, e)
<1>1. PICK S : q \in Seq(S)
  BY DEF IsPosted
<1>2. /\ r \in Seq(S \cup {e})
      /\ Len(r) = Len(q) + 1 /\ Len(q) \in Nat
      /\ DOMAIN q = 1..Len(q) /\ DOMAIN r = 1..(Len(q) + 1)
      /\ \A i \in 1..Len(q) : r[i] = q[i]
      /\ r[Len(q) + 1] = e
  BY <1>1, AppendIndexes
<1>3. e.kind = kind
  OBVIOUS
<1>. HIDE DEF e, r
<1>4. IsPosted(r) /\ Len(r) >= Len(q)
  BY <1>2 DEF IsPosted
<1>5. ASSUME kind = "close"
      PROVE  CloseFollows(r)
  <2>1. \A i \in DOMAIN r : Len(r) \in i..Len(r)
    BY <1>2
  <2>2. r[Len(r)].kind = "close"
    BY <1>2, <1>3, <1>5
  <2>. QED  BY <2>1, <2>2 DEF CloseFollows
<1>6. ASSUME CloseFollows(q), kind # "write"
      PROVE  CloseFollows(r)
  <2>1. SUFFICES ASSUME NEW i \in DOMAIN r, r[i].kind = "write"
                 PROVE  \E j \in i..Len(r) : r[j].kind = "close"
    BY DEF CloseFollows
  <2>2. i \in DOMAIN q /\ q[i].kind = "write"
    <3>1. i # Len(q) + 1
      BY <2>1, <1>2, <1>3, <1>6
    <3>. QED  BY <2>1, <3>1, <1>2
  <2>3. PICK j \in i..Len(q) : q[j].kind = "close"
    BY <2>2, <1>6 DEF CloseFollows
  <2>4. j \in 1..Len(q) /\ j \in i..Len(r)
    BY <2>2, <2>3, <1>2
  <2>. QED  BY <2>3, <2>4, <1>2
<1>7. ASSUME HasRead(r), kind # "read"
      PROVE  HasRead(q)
  <2>1. PICK i \in DOMAIN r : r[i].kind = "read"
    BY <1>7 DEF HasRead
  <2>2. i \in DOMAIN q /\ q[i].kind = "read"
    <3>1. i # Len(q) + 1
      BY <2>1, <1>2, <1>3, <1>7
    <3>. QED  BY <2>1, <3>1, <1>2
  <2>. QED  BY <2>2 DEF HasRead
<1>. QED  BY <1>4, <1>5, <1>6, <1>7 DEF r, e

-----------------------------------------------------------------------------
(* What the stream keeps.                                                  *)

Good(t) == Shape(t) /\ IsPosted(t.posted) /\ ~t.read_until_close

\* No read is pending.
NoRead(t) == ~t.read_callback /\ t.read_bytes = 0 /\ ~t.read_delimiter

\* The headers are being read, or the callback that takes them has been posted.
HeadersOnly(t) == t.read_bytes = 0 /\ (HasRead(t.posted) => NoRead(t))

\* The close callback is with the stream, or behind the write callback.
Owned(t) ==
    /\ t.closed => ~t.write_callback
    /\ t.closed \/ t.close_callback
    /\ t.close_callback \/ CloseFollows(t.posted)

Keeps(t, u) ==
    /\ Good(u)
    /\ Len(u.posted) >= Len(t.posted)
    /\ Owned(t) => Owned(u)
    /\ NoRead(t) => NoRead(u)
    /\ HeadersOnly(t) => HeadersOnly(u)
    /\ u.write_callback => t.write_callback

LEMMA LenPosted == ASSUME NEW q, IsPosted(q) PROVE Len(q) \in Nat
<1>1. PICK S : q \in Seq(S)
  BY DEF IsPosted
<1>. QED  BY <1>1

LEMMA KeepsSame == ASSUME NEW t, Good(t) PROVE Keeps(t, t)
<1>1. Len(t.posted) \in Nat
  BY LenPosted DEF Good
<1>. QED  BY <1>1 DEF Keeps

LEMMA KeepsTwice ==
  ASSUME NEW t, NEW u, NEW v, Good(t), Keeps(t, u), Keeps(u, v)
  PROVE  Keeps(t, v)
<1>1. Len(t.posted) \in Nat /\ Len(u.posted) \in Nat /\ Len(v.posted) \in Nat
  BY LenPosted DEF Good, Keeps
<1>2. Len(v.posted) >= Len(t.posted)
  BY <1>1 DEF Keeps
<1>. QED  BY <1>2 DEF Keeps

\* What only changes fields that Keeps does not speak of.
LEMMA KeepsFields ==
  ASSUME NEW t, Good(t), NEW u, Shape(u), u.posted = t.posted,
         u.closed = t.closed, u.close_callback = t.close_callback,
         u.write_callback = t.write_callback, u.read_callback = t.read_callback,
         u.read_bytes = t.read_bytes, u.read_delimiter = t.read_delimiter,
         u.read_until_close = t.read_until_close
  PROVE  Keeps(t, u)
<1>1. Len(t.posted) \in Nat
  BY LenPosted DEF Good
<1>2. Good(u) /\ Len(u.posted) >= Len(t.posted)
  BY <1>1 DEF Good
<1>3. (Owned(t) => Owned(u)) /\ (NoRead(t) => NoRead(u))
  BY DEF Owned, NoRead
<1>4. HeadersOnly(t) => HeadersOnly(u)
  BY <1>3 DEF HeadersOnly
<1>. QED  BY <1>2, <1>3, <1>4 DEF Keeps

LEMMA PostShape ==
  ASSUME NEW t, Good(t), NEW kind, NEW data
  PROVE  LET u == Stream!Post(t, kind, data) IN
         /\ Good(u)
         /\ u = [t EXCEPT !.posted = u.posted]
         /\ u.posted = Append(t.posted, [kind |-> kind, data |-> data])
<1>. DEFINE u == Stream!Post(t, kind, data)
<1>1. /\ Shape(u) /\ u = [t EXCEPT !.posted = u.posted]
      /\ u.posted = Append(t.posted, [kind |-> kind, data |-> data])
      /\ ~u.read_until_close
  BY DEF Good, Shape, Stream!Post
<1>2. IsPosted(u.posted)
  BY <1>1, AppendPosted DEF Good
<1>. QED  BY <1>1, <1>2 DEF Good

LEMMA PostKeeps ==
  ASSUME NEW t, Good(t), NEW kind, NEW data,
         kind # "read", kind = "write" => t.close_callback
  PROVE  Keeps(t, Stream!Post(t, kind, data))
<1>. DEFINE u == Stream!Post(t, kind, data)
<1>1. /\ Good(u)
      /\ u = [t EXCEPT !.posted = u.posted]
      /\ u.posted = Append(t.posted, [kind |-> kind, data |-> data])
  BY PostShape
<1>. HIDE DEF u
<1>2. /\ u.closed = t.closed /\ u.close_callback = t.close_callback
      /\ u.write_callback = t.write_callback /\ u.read_callback = t.read_callback
      /\ u.read_bytes = t.read_bytes /\ u.read_delimiter = t.read_delimiter
  BY <1>1 DEF Good, Shape
<1>3. /\ Len(u.posted) >= Len(t.posted)
      /\ CloseFollows(t.posted) /\ kind # "write" => CloseFollows(u.posted)
      /\ HasRead(u.posted) => HasRead(t.posted)
  BY <1>1, AppendPosted DEF Good
<1>4. (Owned(t) => Owned(u)) /\ (NoRead(t) => NoRead(u))
  BY <1>2, <1>3 DEF Owned, NoRead
<1>5. HeadersOnly(t) => HeadersOnly(u)
  BY <1>2, <1>3, <1>4 DEF HeadersOnly
<1>. QED  BY <1>1, <1>2, <1>3, <1>4, <1>5 DEF Keeps, u

LEMMA CloseShape ==
  ASSUME NEW t, Good(t), ~t.closed
  PROVE  LET u == Stream!Close(t) IN
         /\ Good(u)
         /\ u.closed /\ ~u.connect_callback /\ ~u.read_callback
         /\ ~u.write_callback /\ ~u.close_callback
         /\ u.read_bytes = t.read_bytes /\ u.read_delimiter = t.read_delimiter
         /\ u.posted = IF t.close_callback
                         THEN Append(t.posted, [kind |-> "close", data |-> << >>])
                         ELSE t.posted
<1>. DEFINE p == Stream!PostIf(t.close_callback, t, "close")
            u == Stream!Close(t)
<1>1. /\ Good(p) /\ p.read_bytes = t.read_bytes /\ p.read_delimiter = t.read_delimiter
      /\ p.posted = IF t.close_callback
                      THEN Append(t.posted, [kind |-> "close", data |-> << >>])
                      ELSE t.posted
  <2>1. CASE t.close_callback
    <3>. DEFINE v == Stream!Post(t, "close", << >>)
    <3>1. p = v
      BY <2>1 DEF Stream!PostIf
    <3>2. /\ Good(v) /\ v = [t EXCEPT !.posted = v.posted]
          /\ v.posted = Append(t.posted, [kind |-> "close", data |-> << >>])
      BY PostShape
    <3>. HIDE DEF p, v
    <3>. QED  BY <2>1, <3>1, <3>2 DEF Good, Shape
  <2>2. CASE ~t.close_callback
    BY <2>2 DEF Stream!PostIf
  <2>. QED  BY <2>1, <2>2
<1>2. u = [p EXCEPT !.closed = TRUE, !.state = {}, !.read_until_close = FALSE,
                    !.connect_callback = FALSE, !.read_callback = FALSE,
                    !.write_callback = FALSE, !.close_callback = FALSE]
  BY DEF Stream!Close, Good
<1>. HIDE DEF p, u
<1>3. /\ Shape(u) /\ u.closed /\ ~u.read_until_close /\ ~u.connect_callback
      /\ ~u.read_callback /\ ~u.write_callback /\ ~u.close_callback
  BY <1>1, <1>2 DEF Good, Shape
<1>4. u.posted = p.posted /\ u.read_bytes = p.read_bytes /\ u.read_delimiter = p.read_delimiter
  BY <1>1, <1>2 DEF Good, Shape
<1>5. Good(u)
  BY <1>1, <1>3, <1>4 DEF Good
<1>. QED  BY <1>1, <1>3, <1>4, <1>5 DEF u

LEMMA CloseKeeps == ASSUME NEW t, Good(t) PROVE Keeps(t, Stream!Close(t))
<1>. DEFINE u == Stream!Close(t)
<1>1. CASE t.closed
  <2>1. u = t
    BY <1>1 DEF Stream!Close
  <2>. QED  BY <2>1, KeepsSame
<1>2. CASE ~t.closed
  <2>1. /\ Good(u) /\ u.closed /\ ~u.read_callback /\ ~u.write_callback /\ ~u.close_callback
        /\ u.read_bytes = t.read_bytes /\ u.read_delimiter = t.read_delimiter
        /\ u.posted = IF t.close_callback
                        THEN Append(t.posted, [kind |-> "close", data |-> << >>])
                        ELSE t.posted
    BY <1>2, CloseShape
  <2>. HIDE DEF u
  <2>2. /\ IsPosted(t.posted) /\ Len(t.posted) \in Nat
    BY LenPosted DEF Good
  <2>3. /\ Len(u.posted) >= Len(t.posted)
        /\ t.close_callback \/ CloseFollows(t.posted) => CloseFollows(u.posted)
        /\ HasRead(u.posted) => HasRead(t.posted)
    BY <2>1, <2>2, AppendPosted
  <2>4. (Owned(t) => Owned(u)) /\ (NoRead(t) => NoRead(u))
    BY <2>1, <2>3 DEF Owned, NoRead
  <2>5. HeadersOnly(t) => HeadersOnly(u)
    BY <2>1, <2>3, <2>4 DEF HeadersOnly
  <2>. QED  BY <2>1, <2>3, <2>4, <2>5 DEF Keeps, u
<1>. QED  BY <1>1, <1>2

\* With its read callback or without, the bytes go; nothing else does.
LEMMA HandOutShape ==
  ASSUME NEW t, Good(t), NEW n
  PROVE  LET u == Stream!HandOut(t, n) IN
         /\ Good(u)
         /\ u.closed = t.closed /\ u.close_callback = t.close_callback
         /\ u.write_callback = t.write_callback /\ u.read_callback = t.read_callback
         /\ u.read_bytes = t.read_bytes /\ u.read_delimiter = t.read_delimiter
         /\ \E data : u.posted = IF t.read_callback
                THEN Append(t.posted, [kind |-> "read", data |-> data]) ELSE t.posted
<1>. DEFINE data == SubSeq(Stream!B!Contents(t.read_buffer), 1, n)
            rest == [t EXCEPT !.read_buffer = Stream!B!Drop(@, n)]
            u == Stream!HandOut(t, n)
<1>1. /\ Good(rest) /\ rest.posted = t.posted
      /\ rest.closed = t.closed /\ rest.close_callback = t.close_callback
      /\ rest.write_callback = t.write_callback /\ rest.read_callback = t.read_callback
      /\ rest.read_bytes = t.read_bytes /\ rest.read_delimiter = t.read_delimiter
  BY DEF Good, Shape
<1>2. u = IF t.read_callback THEN Stream!Post(rest, "read", data) ELSE rest
  BY DEF Stream!HandOut, Stream!Kind, Good
<1>. HIDE DEF data, rest, u
<1>3. CASE t.read_callback
  <2>1. /\ Good(u) /\ u = [rest EXCEPT !.posted = u.posted]
        /\ u.posted = Append(rest.posted, [kind |-> "read", data |-> data])
    <3>. DEFINE v == Stream!Post(rest, "read", data)
    <3>1. /\ Good(v) /\ v = [rest EXCEPT !.posted = v.posted]
          /\ v.posted = Append(rest.posted, [kind |-> "read", data |-> data])
      BY <1>1, PostShape
    <3>. HIDE DEF v
    <3>2. u = v
      BY <1>2, <1>3 DEF v
    <3>. QED  BY <3>1, <3>2
  <2>2. /\ u.closed = rest.closed /\ u.close_callback = rest.close_callback
        /\ u.write_callback = rest.write_callback /\ u.read_callback = rest.read_callback
        /\ u.read_bytes = rest.read_bytes /\ u.read_delimiter = rest.read_delimiter
    BY <1>1, <2>1 DEF Good, Shape
  <2>. QED  BY <1>1, <1>3, <2>1, <2>2 DEF u
<1>4. CASE ~t.read_callback
  BY <1>1, <1>2, <1>4 DEF u
<1>. QED  BY <1>3, <1>4

\* Clearing a request whose bytes have been handed out.
LEMMA ClearedKeeps ==
  ASSUME NEW t, Good(t), NEW n, NEW u, Shape(u), ~u.read_until_close,
         LET h == Stream!HandOut(t, n) IN
           /\ u.posted = h.posted
           /\ u.closed = h.closed /\ u.close_callback = h.close_callback
           /\ u.write_callback = h.write_callback
           /\ t.read_bytes = 0 => u.read_bytes = 0 /\ ~u.read_delimiter
           /\ ~t.read_delimiter => ~u.read_delimiter,
         ~u.read_callback
  PROVE  Keeps(t, u)
<1>. DEFINE h == Stream!HandOut(t, n)
<1>1. /\ Good(h) /\ h.closed = t.closed /\ h.close_callback = t.close_callback
      /\ h.write_callback = t.write_callback
  BY HandOutShape
<1>2. PICK data : h.posted = IF t.read_callback
         THEN Append(t.posted, [kind |-> "read", data |-> data]) ELSE t.posted
  BY HandOutShape
<1>3. /\ IsPosted(t.posted) /\ Len(t.posted) \in Nat
  BY LenPosted DEF Good
<1>4. /\ u.posted = h.posted
      /\ u.closed = t.closed /\ u.close_callback = t.close_callback
      /\ u.write_callback = t.write_callback
      /\ t.read_bytes = 0 => u.read_bytes = 0 /\ ~u.read_delimiter
      /\ ~t.read_delimiter => ~u.read_delimiter
  BY <1>1
<1>. HIDE DEF h
<1>5. /\ Len(u.posted) >= Len(t.posted)
      /\ CloseFollows(t.posted) => CloseFollows(u.posted)
  BY <1>2, <1>3, <1>4, AppendPosted
<1>6. Good(u)
  BY <1>1, <1>4 DEF Good
<1>7. (Owned(t) => Owned(u)) /\ (NoRead(t) => NoRead(u))
  BY <1>4, <1>5 DEF Owned, NoRead
<1>8. HeadersOnly(t) => HeadersOnly(u)
  BY <1>4 DEF HeadersOnly, NoRead
<1>. QED  BY <1>4, <1>5, <1>6, <1>7, <1>8 DEF Keeps

LEMMA AnswerKeeps == ASSUME NEW t, Good(t) PROVE Keeps(t, Stream!Answer(t))
<1>. DEFINE u == Stream!Answer(t)
<1>1. CASE t.read_bytes > 0 /\ Stream!Unread(t) >= t.read_bytes
  <2>. DEFINE h == Stream!HandOut(t, t.read_bytes)
  <2>1. u = [h EXCEPT !.read_bytes = 0, !.read_callback = FALSE]
    BY <1>1 DEF Stream!Answer
  <2>2. Good(h) /\ h.read_delimiter = t.read_delimiter
    BY HandOutShape
  <2>. HIDE DEF h, u
  <2>3. Shape(u) /\ ~u.read_callback
    <3>. DEFINE g == [h EXCEPT !.read_bytes = 0]
    <3>1. Shape(g) /\ u = [g EXCEPT !.read_callback = FALSE]
      BY <2>1, <2>2 DEF Good, Shape
    <3>. HIDE DEF g
    <3>. QED  BY <3>1 DEF Shape
  <2>4. /\ ~u.read_until_close /\ u.read_delimiter = t.read_delimiter
        /\ u.posted = h.posted
        /\ u.closed = h.closed /\ u.close_callback = h.close_callback
        /\ u.write_callback = h.write_callback
    BY <2>1, <2>2 DEF Good, Shape
  <2>5. t.read_bytes # 0
    BY <1>1 DEF Good, Shape
  <2>. QED  BY <2>3, <2>4, <2>5, ClearedKeeps DEF h, u
<1>2. CASE /\ ~(t.read_bytes > 0 /\ Stream!Unread(t) >= t.read_bytes)
           /\ t.read_delimiter /\ Stream!DelimiterEnd(t) > 0
  <2>. DEFINE h == Stream!HandOut(t, Stream!DelimiterEnd(t))
  <2>1. u = [h EXCEPT !.read_delimiter = FALSE, !.read_callback = FALSE]
    BY <1>2 DEF Stream!Answer
  <2>2. Good(h) /\ h.read_bytes = t.read_bytes
    BY HandOutShape
  <2>. HIDE DEF h, u
  <2>3. Shape(u) /\ ~u.read_callback /\ ~u.read_delimiter
    BY <2>1, <2>2 DEF Good, Shape
  <2>4. /\ ~u.read_until_close /\ u.read_bytes = t.read_bytes
        /\ u.posted = h.posted
        /\ u.closed = h.closed /\ u.close_callback = h.close_callback
        /\ u.write_callback = h.write_callback
    BY <2>1, <2>2 DEF Good, Shape
  <2>. QED  BY <2>3, <2>4, ClearedKeeps DEF h, u
<1>3. CASE /\ ~(t.read_bytes > 0 /\ Stream!Unread(t) >= t.read_bytes)
           /\ ~(t.read_delimiter /\ Stream!DelimiterEnd(t) > 0)
  <2>1. u = t
    BY <1>3 DEF Stream!Answer, Good
  <2>. QED  BY <2>1, KeepsSame
<1>. QED  BY <1>1, <1>2, <1>3

LEMMA AnswerOpen ==
  ASSUME NEW t, Good(t)
  PROVE  Stream!Answer(t).closed = t.closed
<1>1. ASSUME NEW n
      PROVE  LET h == Stream!HandOut(t, n) IN
             /\ h.closed = t.closed
             /\ [h EXCEPT !.read_bytes = 0, !.read_callback = FALSE].closed = t.closed
             /\ [h EXCEPT !.read_delimiter = FALSE, !.read_callback = FALSE].closed = t.closed
  <2>. DEFINE h == Stream!HandOut(t, n)
  <2>1. Good(h) /\ h.closed = t.closed
    BY HandOutShape
  <2>. HIDE DEF h
  <2>2. /\ [h EXCEPT !.read_bytes = 0, !.read_callback = FALSE].closed = t.closed
        /\ [h EXCEPT !.read_delimiter = FALSE, !.read_callback = FALSE].closed = t.closed
    BY <2>1 DEF Good, Shape
  <2>. QED  BY <2>1, <2>2 DEF h
<1>. QED  BY <1>1 DEF Stream!Answer

LEMMA StateKeeps ==
  ASSUME NEW t, Good(t), NEW state \in SUBSET Stream!Event
  PROVE  Keeps(t, [t EXCEPT !.state = state]) /\ [t EXCEPT !.state = state].closed = t.closed
<1>. DEFINE u == [t EXCEPT !.state = state]
<1>1. /\ Shape(u) /\ u.posted = t.posted
      /\ u.closed = t.closed /\ u.close_callback = t.close_callback
      /\ u.write_callback = t.write_callback /\ u.read_callback = t.read_callback
      /\ u.read_bytes = t.read_bytes /\ u.read_delimiter = t.read_delimiter
      /\ u.read_until_close = t.read_until_close
  BY DEF Good, Shape
<1>. HIDE DEF u
<1>2. Keeps(t, u)
  BY <1>1, KeepsFields
<1>. QED  BY <1>1, <1>2 DEF u

LEMMA AddIOStateKeeps ==
  ASSUME NEW t, Good(t), NEW event \in Stream!Event
  PROVE  Keeps(t, Stream!AddIOState(t, event)) /\ Stream!AddIOState(t, event).closed = t.closed
<1>. DEFINE state == t.state \cup {event, "ERROR"}
<1>1. state \in SUBSET Stream!Event
  BY DEF Good, Shape, Stream!Event
<1>2. Stream!AddIOState(t, event) = IF t.closed THEN t ELSE [t EXCEPT !.state = state]
  BY DEF Stream!AddIOState
<1>. HIDE DEF state
<1>. QED  BY <1>1, <1>2, StateKeeps, KeepsSame

LEMMA EndEventsKeeps ==
  ASSUME NEW t, Good(t), NEW events
  PROVE  /\ Keeps(t, Stream!EndEvents(t, events))
         /\ "ERROR" \notin events => Stream!EndEvents(t, events).closed = t.closed
<1>1. Stream!Watch(t) \in SUBSET Stream!Event
  BY DEF Stream!Watch, Stream!Event
<1>. HIDE DEF Stream!Watch
<1>2. CASE "ERROR" \in events
  BY <1>2, CloseKeeps DEF Stream!EndEvents
<1>3. CASE "ERROR" \notin events
  <2>1. Stream!EndEvents(t, events) = [t EXCEPT !.state = Stream!Watch(t)]
    BY <1>3 DEF Stream!EndEvents
  <2>. QED  BY <1>1, <2>1, StateKeeps
<1>. QED  BY <1>2, <1>3

LEMMA WriteLenKeeps ==
  ASSUME NEW t, Good(t), NEW n \in Nat
  PROVE  Keeps(t, [t EXCEPT !.write_len = n]) /\ [t EXCEPT !.write_len = n].closed = t.closed
<1>. DEFINE u == [t EXCEPT !.write_len = n]
<1>1. /\ Shape(u) /\ u.posted = t.posted
      /\ u.closed = t.closed /\ u.close_callback = t.close_callback
      /\ u.write_callback = t.write_callback /\ u.read_callback = t.read_callback
      /\ u.read_bytes = t.read_bytes /\ u.read_delimiter = t.read_delimiter
      /\ u.read_until_close = t.read_until_close
  BY DEF Good, Shape
<1>. HIDE DEF u
<1>2. Keeps(t, u)
  BY <1>1, KeepsFields
<1>. QED  BY <1>1, <1>2 DEF u

LEMMA AppendOrCloseKeeps ==
  ASSUME NEW t, Good(t), NEW n \in Nat
  PROVE  /\ Keeps(t, Stream!AppendOrClose(n, t))
         /\ t.write_len + n <= Capacity => Stream!AppendOrClose(n, t).closed = t.closed
<1>1. CASE t.write_len + n <= Capacity
  <2>1. t.write_len + n \in Nat
    BY DEF Good, Shape
  <2>2. Stream!AppendOrClose(n, t) = [t EXCEPT !.write_len = t.write_len + n]
    BY <1>1 DEF Stream!AppendOrClose
  <2>. QED  BY <2>1, <2>2, WriteLenKeeps
<1>2. CASE ~(t.write_len + n <= Capacity)
  BY <1>2, CloseKeeps DEF Stream!AppendOrClose
<1>. QED  BY <1>1, <1>2

LEMMA BufferKeeps ==
  ASSUME NEW t, Good(t), NEW chunk
  PROVE  /\ Keeps(t, Stream!Roomy(t)) /\ Stream!Roomy(t).closed = t.closed
         /\ Keeps(t, Stream!Stored(t, chunk)) /\ Stream!Stored(t, chunk).closed = t.closed
<1>1. ASSUME NEW buffer
      PROVE  /\ Keeps(t, [t EXCEPT !.read_buffer = buffer])
             /\ [t EXCEPT !.read_buffer = buffer].closed = t.closed
  <2>. DEFINE u == [t EXCEPT !.read_buffer = buffer]
  <2>1. /\ Shape(u) /\ u.posted = t.posted
        /\ u.closed = t.closed /\ u.close_callback = t.close_callback
        /\ u.write_callback = t.write_callback /\ u.read_callback = t.read_callback
        /\ u.read_bytes = t.read_bytes /\ u.read_delimiter = t.read_delimiter
        /\ u.read_until_close = t.read_until_close
    BY DEF Good, Shape
  <2>. HIDE DEF u
  <2>2. Keeps(t, u)
    BY <2>1, KeepsFields
  <2>. QED  BY <2>1, <2>2 DEF u
<1>. QED  BY <1>1 DEF Stream!Roomy, Stream!Stored

\* The write callback goes to the loop, with the close callback still behind it.
LEMMA WrittenKeeps ==
  ASSUME NEW t, Good(t), t.write_callback => t.close_callback
  PROVE  Keeps(t, Stream!Written(t)) /\ Stream!Written(t).closed = t.closed
<1>. DEFINE p == Stream!Post(t, "write", << >>)
            u == [p EXCEPT !.write_callback = FALSE]
<1>1. CASE t.write_callback
  <2>1. Keeps(t, p)
    BY <1>1, PostKeeps
  <2>2. Good(p) /\ p.closed = t.closed
    <3>1. /\ Good(p) /\ p = [t EXCEPT !.posted = p.posted]
          /\ p.posted = Append(t.posted, [kind |-> "write", data |-> << >>])
      BY PostShape
    <3>. HIDE DEF p
    <3>. QED  BY <3>1 DEF Good, Shape
  <2>. HIDE DEF p
  <2>3. /\ Shape(u) /\ ~u.write_callback /\ u.posted = p.posted
        /\ u.closed = p.closed /\ u.close_callback = p.close_callback
        /\ u.read_callback = p.read_callback
        /\ u.read_bytes = p.read_bytes /\ u.read_delimiter = p.read_delimiter
        /\ u.read_until_close = p.read_until_close
    BY <2>2 DEF Good, Shape
  <2>. HIDE DEF u
  <2>4. Good(u) /\ Len(u.posted) >= Len(p.posted)
    BY <2>2, <2>3, LenPosted DEF Good
  <2>5. (Owned(p) => Owned(u)) /\ (NoRead(p) => NoRead(u))
    BY <2>3 DEF Owned, NoRead
  <2>6. HeadersOnly(p) => HeadersOnly(u)
    BY <2>3, <2>5 DEF HeadersOnly
  <2>7. Keeps(t, u) /\ u.closed = t.closed
    <3>1. Keeps(p, u)
      BY <2>3, <2>4, <2>5, <2>6 DEF Keeps
    <3>. QED  BY <2>1, <2>2, <2>3, <3>1, KeepsTwice
  <2>8. Stream!Written(t) \in {t, u}
    BY DEF Stream!Written, u, p
  <2>. QED  BY <2>7, <2>8, KeepsSame
<1>2. CASE ~t.write_callback
  <2>1. Stream!Written(t) = t
    BY <1>2 DEF Stream!Written
  <2>. QED  BY <2>1, KeepsSame
<1>. QED  BY <1>1, <1>2

LEMMA PostIfKeeps ==
  ASSUME NEW t, Good(t), NEW wanted, NEW kind, kind \notin {"read", "write"}
  PROVE  LET u == Stream!PostIf(wanted, t, kind) IN
         Keeps(t, u) /\ u.closed = t.closed
<1>1. CASE wanted
  <2>. DEFINE v == Stream!Post(t, kind, << >>)
  <2>1. Stream!PostIf(wanted, t, kind) = v
    BY <1>1 DEF Stream!PostIf
  <2>2. Good(v) /\ v = [t EXCEPT !.posted = v.posted]
    BY PostShape
  <2>3. Keeps(t, v)
    BY PostKeeps
  <2>. HIDE DEF v
  <2>4. v.closed = t.closed
    BY <2>2 DEF Good, Shape
  <2>. QED  BY <2>1, <2>3, <2>4
<1>2. CASE ~wanted
  BY <1>2, KeepsSame DEF Stream!PostIf
<1>. QED  BY <1>1, <1>2

LEMMA ConnectKeeps ==
  ASSUME NEW t, Good(t)
  PROVE  /\ Keeps(t, Stream!Connected(t)) /\ Stream!Connected(t).closed = t.closed
         /\ Keeps(t, Stream!ConnectFailed(t))
<1>1. ASSUME NEW kind, kind \notin {"read", "write"}, NEW connecting \in BOOLEAN
      PROVE  LET p == Stream!PostIf(t.connect_callback, t, kind)
                 u == [p EXCEPT !.connect_callback = FALSE]
                 v == [p EXCEPT !.connect_callback = FALSE, !.connecting = connecting]
             IN  Keeps(t, u) /\ Keeps(t, v) /\ v.closed = t.closed
  <2>. DEFINE p == Stream!PostIf(t.connect_callback, t, kind)
              u == [p EXCEPT !.connect_callback = FALSE]
              v == [p EXCEPT !.connect_callback = FALSE, !.connecting = connecting]
  <2>1. Keeps(t, p) /\ p.closed = t.closed /\ Good(p)
    BY <1>1, PostIfKeeps DEF Keeps
  <2>. HIDE DEF p
  <2>2. /\ Shape(u) /\ u.posted = p.posted
        /\ u.closed = p.closed /\ u.close_callback = p.close_callback
        /\ u.write_callback = p.write_callback /\ u.read_callback = p.read_callback
        /\ u.read_bytes = p.read_bytes /\ u.read_delimiter = p.read_delimiter
        /\ u.read_until_close = p.read_until_close
    BY <2>1 DEF Good, Shape
  <2>3. /\ Shape(v) /\ v.posted = p.posted
        /\ v.closed = p.closed /\ v.close_callback = p.close_callback
        /\ v.write_callback = p.write_callback /\ v.read_callback = p.read_callback
        /\ v.read_bytes = p.read_bytes /\ v.read_delimiter = p.read_delimiter
        /\ v.read_until_close = p.read_until_close
    BY <2>1 DEF Good, Shape
  <2>. HIDE DEF u, v
  <2>4. Keeps(p, u) /\ Keeps(p, v)
    BY <2>1, <2>2, <2>3, KeepsFields
  <2>5. Keeps(t, u) /\ Keeps(t, v) /\ v.closed = t.closed
    BY <2>1, <2>3, <2>4, KeepsTwice
  <2>. QED  BY <2>5 DEF p, u, v
<1>2. Keeps(t, Stream!Connected(t)) /\ Stream!Connected(t).closed = t.closed
  BY <1>1 DEF Stream!Connected
<1>3. Keeps(t, Stream!ConnectFailed(t))
  <2>. DEFINE u == [Stream!PostIf(t.connect_callback, t, "connect failed")
                       EXCEPT !.connect_callback = FALSE]
  <2>1. Keeps(t, u)
    BY <1>1
  <2>2. Stream!ConnectFailed(t) = Stream!Close(u)
    BY DEF Stream!ConnectFailed
  <2>. HIDE DEF u
  <2>3. Good(u)
    BY <2>1 DEF Keeps
  <2>4. Keeps(u, Stream!Close(u))
    BY <2>3, CloseKeeps
  <2>. QED  BY <2>1, <2>2, <2>4, KeepsTwice
<1>. QED  BY <1>2, <1>3

-----------------------------------------------------------------------------
(* What the stream's steps keep.                                           *)

\* Events that report an error are those of a connection that has one.
Warned == "ERROR" \in reported \cup caller => conn \in {"failed", "reset"}

\* What can have closed a stream whose handleRead or handleWrite runs.
Failed ==
    \/ "ERROR" \in caller \/ conn = "reset"
    \/ pc = "reading" /\ (fin \/ conn = "failed" \/ ~Stream!HasRoom)

LEMMA ReadingKeeps ==
  ASSUME Good(s), Stream!ReadSome \/ Stream!ReadFails \/ Stream!ReadBlocks
  PROVE  Keeps(s, s') /\ (~s.closed /\ s'.closed => Failed)
<1>1. CASE Stream!ReadSome
  <2>. DEFINE n == Stream!LowerOf(ReadChunk, sent - got)
              chunk == [i \in 1..n |-> got + i]
              r == Stream!Roomy(s)
  <2>1. s' = Stream!Stored(r, chunk)
    BY <1>1 DEF Stream!ReadSome
  <2>. HIDE DEF n, chunk, r
  <2>2. Keeps(s, r) /\ r.closed = s.closed
    BY BufferKeeps DEF r
  <2>3. Keeps(r, s') /\ s'.closed = r.closed
    BY <2>1, <2>2, BufferKeeps DEF Keeps
  <2>. QED  BY <2>2, <2>3, KeepsTwice
<1>2. CASE Stream!ReadFails
  <2>. DEFINE r == IF s.closed THEN s ELSE Stream!Roomy(s)
  <2>1. s' = Stream!Close(r)
    BY <1>2 DEF Stream!ReadFails
  <2>2. ~s.closed => Failed
    BY <1>2 DEF Stream!ReadFails, Failed
  <2>3. Keeps(s, r)
    BY BufferKeeps, KeepsSame
  <2>. HIDE DEF r
  <2>4. Keeps(r, s')
    BY <2>1, <2>3, CloseKeeps DEF Keeps
  <2>. QED  BY <2>2, <2>3, <2>4, KeepsTwice
<1>3. CASE Stream!ReadBlocks
  <2>. DEFINE r == Stream!Roomy(s)
              t == Stream!Answer(r)
  <2>1. Keeps(s, r) /\ r.closed = s.closed /\ Good(r)
    BY BufferKeeps DEF Keeps
  <2>2. Keeps(s, t) /\ t.closed = s.closed /\ Good(t)
    <3>. HIDE DEF r
    <3>1. Keeps(r, t)
      BY <2>1, AnswerKeeps
    <3>2. Keeps(s, t)
      BY <2>1, <3>1, KeepsTwice
    <3>3. t.closed = r.closed
      BY <2>1, AnswerOpen
    <3>. QED  BY <2>1, <3>2, <3>3 DEF Keeps
  <2>. HIDE DEF r, t
  <2>3. \/ s' = Stream!AddIOState(t, "READ")
        \/ s' = t
        \/ s' = Stream!EndEvents(t, caller)
    BY <1>3 DEF Stream!ReadBlocks, r, t
  <2>4. Keeps(t, s') /\ ("ERROR" \notin caller => s'.closed = t.closed)
    <3>1. "READ" \in Stream!Event
      BY DEF Stream!Event
    <3>. QED  BY <2>2, <2>3, <3>1, AddIOStateKeeps, EndEventsKeeps, KeepsSame
  <2>. QED  BY <2>2, <2>4, KeepsTwice DEF Failed
<1>. QED  BY <1>1, <1>2, <1>3

LEMMA WritingKeeps ==
  ASSUME Good(s), outq \in Int, s.write_callback => s.close_callback,
         Stream!WriteSome \/ Stream!WriteFails \/ Stream!WriteBlocksOrEnds
  PROVE  Keeps(s, s') /\ (~s.closed /\ s'.closed => Failed)
<1>1. CASE Stream!WriteSome
  <2>. DEFINE n == Stream!LowerOf(Stream!LowerOf(WriteChunk, s.write_len), SendBuffer - outq)
  <2>1. s' = [s EXCEPT !.write_len = s.write_len - n] /\ outq < SendBuffer
    BY <1>1 DEF Stream!WriteSome
  <2>2. s.write_len - n \in Nat
    <3>1. s.write_len \in Nat
      BY DEF Good, Shape
    <3>2. WriteChunk \in Nat /\ SendBuffer - outq \in Int
      BY HttpConnectionAssumption
    <3>. QED  BY <3>1, <3>2 DEF Stream!LowerOf
  <2>. HIDE DEF n
  <2>. QED  BY <2>1, <2>2, WriteLenKeeps
<1>2. CASE Stream!WriteFails
  <2>1. s' = Stream!Close(s) /\ conn = "reset"
    BY <1>2 DEF Stream!WriteFails
  <2>. QED  BY <2>1, CloseKeeps DEF Failed
<1>3. CASE Stream!WriteBlocksOrEnds
  <2>. DEFINE t == Stream!Written(s)
  <2>1. Keeps(s, t) /\ t.closed = s.closed /\ Good(t)
    BY WrittenKeeps DEF Keeps
  <2>. HIDE DEF t
  <2>2. \/ s' = Stream!AddIOState(t, "WRITE")
        \/ s' = t
        \/ s' = Stream!EndEvents(t, caller)
    BY <1>3 DEF Stream!WriteBlocksOrEnds, t
  <2>3. Keeps(t, s') /\ ("ERROR" \notin caller => s'.closed = t.closed)
    <3>1. "WRITE" \in Stream!Event
      BY DEF Stream!Event
    <3>. QED  BY <2>1, <2>2, <3>1, AddIOStateKeeps, EndEventsKeeps, KeepsSame
  <2>. QED  BY <2>1, <2>3, KeepsTwice DEF Failed
<1>. QED  BY <1>1, <1>2, <1>3

LEMMA DispatchKeeps ==
  ASSUME Good(s), Stream!Dispatch
  PROVE  /\ Keeps(s, s')
         /\ ~s.closed /\ s'.closed => "ERROR" \in reported \/ conn = "failed"
<1>. DEFINE t == IF s.connecting THEN Stream!Connected(s) ELSE s
<1>1. Keeps(s, t) /\ t.closed = s.closed /\ Good(t)
  BY ConnectKeeps, KeepsSame DEF Keeps
<1>. HIDE DEF t
<1>2. \/ s' = s
      \/ s' = Stream!ConnectFailed(s) /\ conn = "failed"
      \/ s' = t
      \/ s' = Stream!EndEvents(t, reported)
  BY DEF Stream!Dispatch, t
<1>3. CASE s' = s
  BY <1>3, KeepsSame
<1>4. CASE s' = Stream!ConnectFailed(s) /\ conn = "failed"
  BY <1>4, ConnectKeeps
<1>5. CASE s' = t
  BY <1>1, <1>5
<1>6. CASE s' = Stream!EndEvents(t, reported)
  <2>1. Keeps(t, s') /\ ("ERROR" \notin reported => s'.closed = t.closed)
    BY <1>1, <1>6, EndEventsKeeps
  <2>. QED  BY <1>1, <2>1, KeepsTwice
<1>. QED  BY <1>2, <1>3, <1>4, <1>5, <1>6

\* A read that begins: it is answered from the buffer, or asks for more.
LEMMA ReadRequestKeeps ==
  ASSUME Good(s), NEW n, NEW asked, Stream!ReadRequest(n, asked), Good(asked),
         asked.posted = s.posted, asked.closed = s.closed,
         asked.close_callback = s.close_callback, asked.write_callback = s.write_callback
  PROVE  /\ Good(s') /\ s'.closed = s.closed /\ s'.write_callback = s.write_callback
         /\ Len(s'.posted) >= Len(s.posted)
         /\ Owned(s) => Owned(s')
         /\ s' = asked \/ HeadersOnly(s')
<1>0. Len(s.posted) \in Nat
  BY LenPosted DEF Good
<1>1. CASE s' = asked
  BY <1>0, <1>1 DEF Owned
<1>2. CASE s' = [Stream!HandOut([s EXCEPT !.read_callback = TRUE], n)
                     EXCEPT !.read_callback = FALSE]
  <2>. DEFINE t == [s EXCEPT !.read_callback = TRUE]
              h == Stream!HandOut(t, n)
  <2>1. s.read_bytes = 0 /\ ~s.read_delimiter
    BY DEF Stream!ReadRequest, Stream!MayRead
  <2>2. /\ Good(t) /\ t.read_bytes = 0 /\ ~t.read_delimiter
        /\ t.posted = s.posted /\ t.closed = s.closed
        /\ t.close_callback = s.close_callback /\ t.write_callback = s.write_callback
    BY <2>1 DEF Good, Shape
  <2>. HIDE DEF t
  <2>3. /\ Good(h) /\ h.closed = t.closed /\ h.close_callback = t.close_callback
        /\ h.write_callback = t.write_callback
        /\ h.read_bytes = t.read_bytes /\ h.read_delimiter = t.read_delimiter
    BY <2>2, HandOutShape
  <2>4. s' = [h EXCEPT !.read_callback = FALSE]
    BY <1>2 DEF t
  <2>. HIDE DEF h
  <2>5. /\ Shape(s') /\ ~s'.read_until_close /\ s'.posted = h.posted
        /\ s'.closed = h.closed /\ s'.close_callback = h.close_callback
        /\ s'.write_callback = h.write_callback
        /\ s'.read_bytes = 0 /\ ~s'.read_delimiter /\ ~s'.read_callback
    BY <2>2, <2>3, <2>4 DEF Good, Shape
  <2>6. Keeps(t, s')
    BY <2>2, <2>5, ClearedKeeps DEF h
  <2>7. HeadersOnly(s')
    BY <2>5 DEF HeadersOnly, NoRead
  <2>8. Good(s') /\ Len(s'.posted) >= Len(s.posted)
    BY <2>2, <2>6 DEF Keeps
  <2>9. Owned(s) => Owned(s')
    BY <2>2, <2>6 DEF Keeps, Owned
  <2>. QED  BY <2>2, <2>3, <2>5, <2>7, <2>8, <2>9
<1>. QED  BY <1>1, <1>2 DEF Stream!ReadRequest

\* A write that takes no callback, or sets one on a stream that stays open.
LEMMA WriteBytesKeeps ==
  ASSUME Good(s), NEW n \in Nat, NEW callback \in BOOLEAN, Stream!WriteBytes(n, callback)
  PROVE  /\ Good(s') /\ Len(s'.posted) >= Len(s.posted)
         /\ ~callback => Keeps(s, s')
         /\ Owned(s) => Owned(s')
         /\ s.write_len + n <= Capacity => s'.closed = s.closed
<1>. DEFINE t == Stream!AppendOrClose(n, s)
<1>1. Keeps(s, t) /\ (s.write_len + n <= Capacity => t.closed = s.closed)
  BY AppendOrCloseKeeps
<1>2. s' = IF callback /\ ~t.closed THEN [t EXCEPT !.write_callback = TRUE] ELSE t
  BY DEF Stream!WriteBytes
<1>. HIDE DEF t
<1>3. CASE s' = t /\ (callback => t.closed)
  BY <1>1, <1>3 DEF Keeps
<1>4. CASE callback /\ ~t.closed /\ s' = [t EXCEPT !.write_callback = TRUE]
  <2>1. Good(t)
    BY <1>1 DEF Keeps
  <2>2. /\ Shape(s') /\ ~s'.read_until_close /\ s'.posted = t.posted
        /\ s'.closed = t.closed /\ s'.close_callback = t.close_callback
    BY <1>4, <2>1 DEF Good, Shape
  <2>3. Good(s')
    BY <2>1, <2>2 DEF Good
  <2>4. Owned(t) => Owned(s')
    BY <1>4, <2>2 DEF Owned
  <2>. QED  BY <1>1, <1>4, <2>2, <2>3, <2>4 DEF Keeps
<1>. QED  BY <1>2, <1>3, <1>4

-----------------------------------------------------------------------------
(* The invariant.                                                          *)

\* Before the headers are asked for, the stream is as it was accepted.
Starting ==
    then \in {"start", "read headers"} =>
        /\ pc = "idle" /\ request = "headers"
        /\ ~s.closed /\ ~s.write_callback
        /\ s.posted = << >>
        /\ NoRead(s)

\* No read is pending when the next one begins.
InTurn ==
    /\ request = "headers" => HeadersOnly(s)
    /\ then \in {"continue", "read body"} => request = "body" /\ NoRead(s)

\* Only the body of a response has a write callback, and there is one body.
OneWriteCallback ==
    /\ s.write_callback => request = "finished" /\ then \in {"finish", "return"}
    /\ then \in {"write body", "finish"} => request = "finished"

InQueue == ran \in Nat /\ batch \in Nat /\ batch <= Len(s.posted)

HttpInv ==
    /\ Good(s)
    /\ outq \in Int
    /\ Starting
    /\ InTurn
    /\ OneWriteCallback
    /\ then # "start" => Owned(s)
    /\ InQueue
    /\ Warned

LEMMA OutqNext ==
  ASSUME outq \in Int, Good(s), [Next]_vars
  PROVE  outq' \in Int
<1>1. ASSUME Stream!WriteSome PROVE outq' \in Int
  <2>1. s.write_len \in Nat /\ WriteChunk \in Nat /\ SendBuffer \in Nat
    BY HttpConnectionAssumption DEF Good, Shape
  <2>2. outq' = outq + Stream!LowerOf(Stream!LowerOf(WriteChunk, s.write_len), SendBuffer - outq)
    BY <1>1 DEF Stream!WriteSome
  <2>. QED  BY <2>1, <2>2 DEF Stream!LowerOf
<1>2. ASSUME Stream!PeerReceives PROVE outq' \in Int
  BY <1>2 DEF Stream!PeerReceives
<1>3. ASSUME ~Stream!WriteSome, ~Stream!PeerReceives, Next PROVE outq' = outq
  <2>1. CASE StreamLoops
    BY <1>3, <2>1 DEF StreamLoops, Stream!ReadSome, Stream!ReadFails, Stream!ReadBlocks,
       Stream!WriteFails, Stream!WriteBlocksOrEnds, Stream!kernelVars
  <2>2. CASE Network
    BY <1>3, <2>2 DEF Network, Stream!PeerSends, Stream!PeerCloses, Stream!PeerResets, Stream!Peer
  <2>3. CASE StartRun \/ ReadHeaders \/ OnHeaders
    BY <2>3 DEF StartRun, ReadHeaders, OnHeaders, Refuse, Stream!SetCloseCallback,
       Stream!ReadUntil, Stream!ReadRequest, Stream!CloseStream, Stream!kernelVars, streamVars
  <2>4. CASE Continue \/ ReadBody \/ OnRequestBody
    BY <2>4 DEF Continue, ReadBody, OnRequestBody, Refuse, Stream!WriteBytes,
       Stream!ReadBytes, Stream!ReadRequest, Stream!CloseStream, Stream!kernelVars, streamVars
  <2>5. CASE OnWriteComplete \/ OnStreamClose
    BY <2>5 DEF OnWriteComplete, OnStreamClose, Stream!CloseStream, Stream!kernelVars, streamVars
  <2>6. CASE WriteBody
    BY <2>6 DEF WriteBody, Stream!WriteBytes, Stream!kernelVars, streamVars
  <2>7. CASE ConnectionFinish \/ Finish
    BY <2>7 DEF ConnectionFinish, Finish, Stream!CloseStream, Stream!JustWriteBytesToBuff,
       Stream!kernelVars, streamVars
  <2>8. CASE Poll \/ Dispatch \/ Iterate
    BY <2>8 DEF Poll, Dispatch, Iterate, Stream!Poll, Stream!Dispatch, Stream!kernelVars, streamVars
  <2>. QED  BY <1>3, <2>1, <2>2, <2>3, <2>4, <2>5, <2>6, <2>7, <2>8 DEF Next, ServerStep
<1>. QED  BY <1>1, <1>2, <1>3 DEF vars, streamVars

LEMMA WarnedNext ==
  ASSUME Warned, [Next]_vars
  PROVE  Warned'
<1>1. ASSUME UNCHANGED <<caller, reported, conn>> PROVE Warned'
  BY <1>1 DEF Warned
<1>2. ASSUME UNCHANGED <<reported, conn>>, caller' \in {caller, {}, {"api"}} PROVE Warned'
  BY <1>2 DEF Warned
<1>3. CASE StreamLoops
  <2>1. UNCHANGED <<reported, conn>> /\ caller' \in {caller, {}, {"api"}}
    BY <1>3 DEF StreamLoops, Stream!ReadSome, Stream!ReadFails, Stream!ReadBlocks,
       Stream!WriteSome, Stream!WriteFails, Stream!WriteBlocksOrEnds, Stream!kernelVars
  <2>. QED  BY <2>1, <1>2
<1>4. CASE Network
  <2>1. UNCHANGED <<reported, caller>> /\ conn' \in {conn, "reset"}
    BY <1>4 DEF Network, Stream!PeerSends, Stream!PeerCloses, Stream!PeerResets,
       Stream!PeerReceives, Stream!Peer
  <2>. QED  BY <2>1 DEF Warned
<1>5. CASE StartRun \/ ReadHeaders \/ OnHeaders
  <2>1. UNCHANGED <<reported, conn>> /\ caller' \in {caller, {}, {"api"}}
    BY <1>5 DEF StartRun, ReadHeaders, OnHeaders, Refuse, Stream!SetCloseCallback,
       Stream!ReadUntil, Stream!ReadRequest, Stream!CloseStream, Stream!kernelVars, streamVars
  <2>. QED  BY <2>1, <1>2
<1>6. CASE Continue \/ ReadBody \/ OnRequestBody
  <2>1. UNCHANGED <<reported, conn>> /\ caller' \in {caller, {}, {"api"}}
    BY <1>6 DEF Continue, ReadBody, OnRequestBody, Refuse, Stream!WriteBytes,
       Stream!ReadBytes, Stream!ReadRequest, Stream!CloseStream, Stream!kernelVars, streamVars
  <2>. QED  BY <2>1, <1>2
<1>7. CASE OnWriteComplete \/ OnStreamClose \/ WriteBody
  <2>1. UNCHANGED <<reported, conn>> /\ caller' \in {caller, {}, {"api"}}
    BY <1>7 DEF OnWriteComplete, OnStreamClose, WriteBody, Stream!CloseStream,
       Stream!WriteBytes, Stream!kernelVars, streamVars
  <2>. QED  BY <2>1, <1>2
<1>8. CASE ConnectionFinish \/ Finish \/ Iterate
  <2>1. UNCHANGED <<reported, conn, caller>>
    BY <1>8 DEF ConnectionFinish, Finish, Iterate, Stream!CloseStream,
       Stream!JustWriteBytesToBuff, Stream!kernelVars, streamVars
  <2>. QED  BY <2>1, <1>1
<1>9. CASE Poll
  <2>1. CASE Stream!Poll
    <3>1. UNCHANGED <<caller, conn>> /\ reported' = Stream!Raised
      BY <2>1 DEF Stream!Poll, Stream!kernelVars
    <3>2. "ERROR" \in Stream!Raised => conn \in {"failed", "reset"}
      BY DEF Stream!Raised
    <3>. QED  BY <3>1, <3>2 DEF Warned
  <2>. QED  BY <1>9, <2>1, <1>1 DEF Poll, streamVars
<1>10. CASE Dispatch
  <2>1. UNCHANGED conn /\ reported' = {} /\ caller' \in {caller, reported}
    BY <1>10 DEF Dispatch, Stream!Dispatch, Stream!kernelVars
  <2>. QED  BY <2>1 DEF Warned
<1>11. CASE UNCHANGED vars
  BY <1>11, <1>1 DEF vars, streamVars
<1>. QED  BY <1>3, <1>4, <1>5, <1>6, <1>7, <1>8, <1>9, <1>10, <1>11 DEF Next, ServerStep

LEMMA BatchGrows ==
  ASSUME NEW a \in Nat, NEW b \in Nat, NEW c \in Nat, a <= b, c >= b
  PROVE  a <= c
OBVIOUS

\* A step that the stream keeps, and that begins neither a read nor a response.
LEMMA KeepsInv ==
  ASSUME HttpInv, Keeps(s, s'),
         then \notin {"start", "read headers"}, then' \notin {"start", "read headers"},
         request' = "headers" => request = "headers",
         then' \in {"continue", "read body"} => request' = "body" /\ NoRead(s),
         s'.write_callback => request' = "finished" /\ then' \in {"finish", "return"},
         then' \in {"write body", "finish"} => request' = "finished",
         ran' \in Nat, batch' \in Nat, batch' <= Len(s.posted),
         outq' \in Int, Warned'
  PROVE  HttpInv'
<1>1. Good(s)'
  BY DEF Keeps, Good, Shape
<1>2. Len(s.posted) \in Nat /\ Len(s'.posted) \in Nat /\ Len(s'.posted) >= Len(s.posted)
  BY LenPosted DEF HttpInv, Keeps, Good
<1>3. InQueue'
  <2>1. batch' <= Len(s'.posted)
    BY <1>2, BatchGrows, Zenon
  <2>. QED  BY <2>1 DEF InQueue
<1>4. Owned(s)'
  BY DEF HttpInv, Keeps, Owned
<1>5. InTurn'
  <2>1. request' = "headers" => HeadersOnly(s)'
    BY DEF HttpInv, InTurn, Keeps, HeadersOnly, NoRead
  <2>2. then' \in {"continue", "read body"} => NoRead(s)'
    BY DEF Keeps, NoRead
  <2>. QED  BY <2>1, <2>2 DEF InTurn
<1>6. Starting' /\ OneWriteCallback'
  BY DEF Starting, OneWriteCallback
<1>. QED  BY <1>1, <1>3, <1>4, <1>5, <1>6 DEF HttpInv

LEMMA SameInv ==
  ASSUME HttpInv, UNCHANGED <<s, pc, request, then, ran, batch>>, outq' \in Int, Warned'
  PROVE  HttpInv'
BY DEF HttpInv, Good, Shape, Starting, InTurn, OneWriteCallback, InQueue, Owned,
   HeadersOnly, NoRead, HasRead, CloseFollows, IsPosted

LEMMA HttpInit == Init => HttpInv
<1>. SUFFICES ASSUME Init PROVE HttpInv
  OBVIOUS
<1>1. PICK junk : s = Stream!NewStream(junk)
  BY DEF Init, Stream!Init
<1>2. /\ s.posted = << >> /\ ~s.closed /\ ~s.write_callback /\ ~s.read_callback
      /\ s.read_bytes = 0 /\ ~s.read_delimiter /\ ~s.read_until_close
  BY <1>1 DEF Stream!NewStream
<1>3. Good(s)
  <2>1. Shape(s)
    BY <1>1 DEF Stream!NewStream, Shape
  <2>2. IsPosted(s.posted)
    <3>1. << >> \in Seq({})
      OBVIOUS
    <3>. QED  BY <1>2, <3>1 DEF IsPosted
  <2>. QED  BY <1>2, <2>1, <2>2 DEF Good
<1>4. ~HasRead(s.posted) /\ Len(s.posted) = 0
  BY <1>2 DEF HasRead
<1>5. /\ pc = "idle" /\ caller = {} /\ reported = {} /\ outq = 0
      /\ request = "headers" /\ then = "start" /\ batch = 0 /\ ran = 0
  BY DEF Init, Stream!Init
<1>6. NoRead(s) /\ HeadersOnly(s)
  BY <1>2, <1>4 DEF NoRead, HeadersOnly
<1>7. Starting /\ InTurn /\ OneWriteCallback
  BY <1>2, <1>5, <1>6 DEF Starting, InTurn, OneWriteCallback
<1>8. InQueue /\ Warned
  BY <1>4, <1>5 DEF InQueue, Warned
<1>. QED  BY <1>3, <1>5, <1>7, <1>8 DEF HttpInv

LEMMA StartRunInv ==
  ASSUME HttpInv, StartRun, outq' \in Int, Warned'
  PROVE  HttpInv'
<1>1. /\ s' = [s EXCEPT !.close_callback = TRUE] /\ then = "start" /\ then' = "read headers"
      /\ UNCHANGED <<request, batch, ran, pc>>
  BY DEF StartRun, Goes, Stream!SetCloseCallback
<1>2. /\ Good(s) /\ pc = "idle" /\ request = "headers"
      /\ ~s.closed /\ ~s.write_callback /\ s.posted = << >> /\ NoRead(s) /\ HeadersOnly(s)
      /\ InQueue
  BY <1>1 DEF HttpInv, Starting, InTurn
<1>3. /\ Shape(s') /\ s'.posted = s.posted /\ s'.closed = s.closed /\ s'.close_callback
      /\ s'.write_callback = s.write_callback /\ s'.read_callback = s.read_callback
      /\ s'.read_bytes = s.read_bytes /\ s'.read_delimiter = s.read_delimiter
      /\ s'.read_until_close = s.read_until_close
  BY <1>1, <1>2 DEF Good, Shape
<1>4. Good(s)' /\ Owned(s)'
  BY <1>2, <1>3 DEF Good, Shape, Owned
<1>5. NoRead(s)' /\ HeadersOnly(s)'
  BY <1>2, <1>3 DEF NoRead, HeadersOnly
<1>6. Starting' /\ InTurn' /\ OneWriteCallback' /\ InQueue'
  BY <1>1, <1>2, <1>3, <1>5 DEF Starting, InTurn, OneWriteCallback, InQueue
<1>. QED  BY <1>4, <1>6 DEF HttpInv

\* The two reads, of the headers and of the body.
LEMMA ReadsInv ==
  ASSUME HttpInv, ReadHeaders \/ ReadBody, outq' \in Int, Warned'
  PROVE  HttpInv'
<1>1. /\ then \in {"read headers", "read body"} /\ then' = "return"
      /\ UNCHANGED <<request, batch, ran>>
  BY DEF ReadHeaders, ReadBody, Goes
<1>2. Good(s) /\ Owned(s) /\ InQueue /\ ~s.write_callback
  BY <1>1 DEF HttpInv, OneWriteCallback
<1>3. PICK n, asked :
        /\ Stream!ReadRequest(n, asked)
        /\ \/ /\ ReadHeaders
              /\ asked = [s EXCEPT !.read_delimiter = TRUE, !.read_callback = TRUE]
           \/ /\ ReadBody
              /\ asked = [s EXCEPT !.read_bytes = ContentLength, !.read_callback = TRUE]
  BY DEF ReadHeaders, ReadBody, Stream!ReadUntil, Stream!ReadBytes
<1>4. /\ Shape(asked) /\ asked.posted = s.posted /\ asked.closed = s.closed
      /\ asked.close_callback = s.close_callback /\ asked.write_callback = s.write_callback
      /\ asked.read_until_close = s.read_until_close
  <2>1. ContentLength \in Nat
    BY HttpConnectionAssumption
  <2>2. CASE asked = [s EXCEPT !.read_delimiter = TRUE, !.read_callback = TRUE]
    BY <1>2, <2>2 DEF Good, Shape
  <2>3. CASE asked = [s EXCEPT !.read_bytes = ContentLength, !.read_callback = TRUE]
    BY <1>2, <2>1, <2>3 DEF Good, Shape
  <2>. QED  BY <1>3, <2>2, <2>3
<1>5. Good(asked)
  BY <1>2, <1>4 DEF Good
<1>6. /\ Good(s') /\ s'.closed = s.closed /\ s'.write_callback = s.write_callback
      /\ Len(s'.posted) >= Len(s.posted)
      /\ Owned(s')
      /\ s' = asked \/ HeadersOnly(s')
  BY <1>2, <1>3, <1>4, <1>5, ReadRequestKeeps
<1>7. request = "headers" => HeadersOnly(s')
  <2>1. CASE ReadHeaders /\ asked = [s EXCEPT !.read_delimiter = TRUE, !.read_callback = TRUE]
    <3>1. s.posted = << >> /\ NoRead(s)
      BY <2>1 DEF ReadHeaders, Goes, HttpInv, Starting
    <3>2. asked.read_bytes = s.read_bytes
      BY <1>2, <2>1 DEF Good, Shape
    <3>3. HeadersOnly(asked)
      BY <1>4, <3>1, <3>2 DEF HeadersOnly, NoRead, HasRead
    <3>. QED  BY <1>6, <3>3
  <2>2. CASE ReadBody
    BY <2>2 DEF ReadBody, Goes, HttpInv, InTurn
  <2>. QED  BY <1>3, <2>1, <2>2
<1>8. Good(s)' /\ Owned(s)'
  BY <1>6 DEF Good, Shape, Owned
<1>9. InQueue'
  <2>1. Len(s.posted) \in Nat /\ Len(s'.posted) \in Nat
    BY <1>2, <1>6, LenPosted DEF Good
  <2>2. batch' <= Len(s'.posted)
    BY <1>1, <1>2, <1>6, <2>1, BatchGrows DEF InQueue
  <2>. QED  BY <1>1, <1>2, <2>2 DEF InQueue
<1>10. InTurn'
  BY <1>1, <1>7 DEF InTurn, HeadersOnly, NoRead
<1>11. Starting' /\ OneWriteCallback'
  BY <1>1, <1>2, <1>6 DEF Starting, OneWriteCallback
<1>. QED  BY <1>8, <1>9, <1>10, <1>11 DEF HttpInv

\* The callbacks of the loop's batch.
LEMMA CallbacksInv ==
  ASSUME HttpInv, OnHeaders \/ OnRequestBody \/ OnWriteComplete \/ OnStreamClose,
         outq' \in Int, Warned'
  PROVE  HttpInv'
<1>1. PICK kind : /\ Called(kind)
                  /\ OnHeaders \/ OnRequestBody => kind = "read"
  BY DEF OnHeaders, OnRequestBody, OnWriteComplete, OnStreamClose
<1>2. /\ then = "return" /\ ran < batch /\ s.posted[ran + 1].kind = kind
      /\ ran' = ran + 1 /\ batch' = batch
  BY <1>1 DEF Called, Goes
<1>3. /\ Good(s) /\ ran \in Nat /\ batch \in Nat /\ batch <= Len(s.posted)
  BY DEF HttpInv, InQueue
<1>4. s' = s \/ s' = Stream!Close(s)
  BY DEF OnHeaders, OnRequestBody, OnWriteComplete, OnStreamClose, Refuse,
     Stream!CloseStream, streamVars
<1>5. Keeps(s, s')
  BY <1>3, <1>4, KeepsSame, CloseKeeps
<1>6. s'.write_callback => s.write_callback
  BY <1>5 DEF Keeps
<1>7. ran' \in Nat /\ batch' \in Nat /\ batch' <= Len(s.posted)
  BY <1>2, <1>3
<1>8. CASE OnHeaders
  <2>1. request = "headers" /\ ~s.write_callback
    BY <1>8 DEF OnHeaders, HttpInv, OneWriteCallback
  <2>2. /\ request' \in {"refused", "handling", "body"}
        /\ then' \in {"return", "continue", "read body"}
        /\ then' # "return" => request' = "body"
    BY <1>2, <1>8 DEF OnHeaders, Refuse
  <2>3. NoRead(s)
    <3>1. PICK S : s.posted \in Seq(S)
      BY <1>3 DEF Good, IsPosted
    <3>2. ran + 1 \in DOMAIN s.posted
      BY <1>2, <1>3, <3>1
    <3>3. HasRead(s.posted)
      BY <1>1, <1>2, <1>8, <3>2 DEF HasRead
    <3>. QED  BY <2>1, <3>3 DEF HttpInv, InTurn, HeadersOnly
  <2>. QED  BY <1>2, <1>5, <1>6, <1>7, <2>1, <2>2, <2>3, KeepsInv
<1>9. CASE OnRequestBody
  <2>1. request = "body" /\ ~s.write_callback
    BY <1>9 DEF OnRequestBody, HttpInv, OneWriteCallback
  <2>2. request' \in {"refused", "handling"} /\ then' = "return"
    BY <1>2, <1>9 DEF OnRequestBody, Refuse
  <2>. QED  BY <1>2, <1>5, <1>6, <1>7, <2>1, <2>2, KeepsInv
<1>10. CASE OnWriteComplete \/ OnStreamClose
  <2>1. UNCHANGED <<request, then>>
    BY <1>10 DEF OnWriteComplete, OnStreamClose
  <2>2. s'.write_callback => request' = "finished"
    BY <1>6, <2>1 DEF HttpInv, OneWriteCallback
  <2>. QED  BY <1>2, <1>5, <1>7, <2>1, <2>2, KeepsInv
<1>. QED  BY <1>8, <1>9, <1>10

LEMMA WritesInv ==
  ASSUME HttpInv, Continue \/ Finish \/ WriteBody \/ ConnectionFinish,
         outq' \in Int, Warned'
  PROVE  HttpInv'
<1>1. /\ Good(s) /\ UNCHANGED <<ran, batch>>
      /\ ran' \in Nat /\ batch' \in Nat /\ batch' <= Len(s.posted)
  BY DEF HttpInv, InQueue, Continue, Finish, WriteBody, ConnectionFinish
<1>2. CASE Continue
  <2>1. /\ then = "continue" /\ then' = "read body" /\ UNCHANGED request
        /\ s' = s \/ Stream!WriteBytes(ContinueLen, FALSE)
    BY <1>2 DEF Continue, Goes, streamVars
  <2>2. ContinueLen \in Nat
    BY HttpConnectionAssumption
  <2>3. Keeps(s, s')
    BY <1>1, <2>1, <2>2, WriteBytesKeeps, KeepsSame
  <2>4. request = "body" /\ NoRead(s) /\ ~s'.write_callback
    BY <2>1, <2>3 DEF HttpInv, InTurn, OneWriteCallback, Keeps
  <2>. QED  BY <1>1, <2>1, <2>3, <2>4, KeepsInv
<1>3. CASE Finish
  <2>1. /\ then = "return" /\ then' = "write body"
        /\ request = "handling" /\ request' = "finished"
        /\ s' = s \/ s' = Stream!AppendOrClose(HeaderLen, s)
    BY <1>3 DEF Finish, Goes, streamVars, Stream!JustWriteBytesToBuff
  <2>2. HeaderLen \in Nat
    BY HttpConnectionAssumption
  <2>3. Keeps(s, s')
    BY <1>1, <2>1, <2>2, AppendOrCloseKeeps, KeepsSame
  <2>4. ~s'.write_callback
    BY <2>1, <2>3 DEF HttpInv, OneWriteCallback, Keeps
  <2>. QED  BY <1>1, <2>1, <2>3, <2>4, KeepsInv
<1>4. CASE WriteBody
  <2>1. /\ then = "write body" /\ then' = "finish" /\ UNCHANGED request
        /\ s' = s \/ \E n \in BodyLens : Stream!WriteBytes(n, TRUE)
    BY <1>4 DEF WriteBody, Goes, streamVars
  <2>2. request = "finished" /\ Owned(s)
    BY <2>1 DEF HttpInv, OneWriteCallback
  <2>3. Good(s') /\ Len(s'.posted) >= Len(s.posted) /\ Owned(s')
    <3>1. CASE s' = s
      BY <1>1, <2>2, <3>1, KeepsSame DEF Keeps
    <3>2. CASE \E n \in BodyLens : Stream!WriteBytes(n, TRUE)
      BY <1>1, <2>2, <3>2, WriteBytesKeeps, HttpConnectionAssumption
    <3>. QED  BY <2>1, <3>1, <3>2
  <2>4. Good(s)' /\ Owned(s)'
    BY <2>3 DEF Good, Shape, Owned
  <2>5. InQueue'
    <3>1. Len(s.posted) \in Nat /\ Len(s'.posted) \in Nat
      BY <1>1, <2>3, LenPosted DEF Good
    <3>2. batch' <= Len(s'.posted)
      BY <1>1, <2>3, <3>1, BatchGrows
    <3>. QED  BY <1>1, <3>2 DEF InQueue
  <2>6. Starting' /\ InTurn' /\ OneWriteCallback'
    BY <2>1, <2>2 DEF Starting, InTurn, OneWriteCallback
  <2>. QED  BY <2>4, <2>5, <2>6 DEF HttpInv
<1>5. CASE ConnectionFinish
  <2>1. /\ then = "finish" /\ then' = "return" /\ UNCHANGED request
        /\ s' = s \/ s' = Stream!Close(s)
    BY <1>5 DEF ConnectionFinish, Goes, streamVars, Stream!CloseStream
  <2>2. Keeps(s, s')
    BY <1>1, <2>1, CloseKeeps, KeepsSame
  <2>3. request = "finished"
    BY <2>1 DEF HttpInv, OneWriteCallback
  <2>. QED  BY <1>1, <2>1, <2>2, <2>3, KeepsInv
<1>. QED  BY <1>2, <1>3, <1>4, <1>5

\* The loop, and what the stream does in it.
LEMMA LoopInv ==
  ASSUME HttpInv, Poll \/ Dispatch \/ Iterate \/ StreamLoops, outq' \in Int, Warned'
  PROVE  HttpInv'
<1>1. /\ Good(s) /\ UNCHANGED <<request, then, ran>>
      /\ ran' \in Nat /\ batch \in Nat /\ batch <= Len(s.posted)
      /\ batch' \in {batch, Len(s.posted)}
  BY DEF HttpInv, InQueue, Poll, Dispatch, Iterate, StreamLoops
<1>2. then \notin {"start", "read headers"}
  BY DEF HttpInv, Starting, Poll, Dispatch, Iterate, StreamLoops, Goes,
     Stream!ReadSome, Stream!ReadFails, Stream!ReadBlocks,
     Stream!WriteSome, Stream!WriteFails, Stream!WriteBlocksOrEnds
<1>3. Keeps(s, s')
  <2>1. CASE Poll \/ Iterate
    <3>1. s' = s
      BY <2>1 DEF Poll, Iterate, Stream!Poll, streamVars
    <3>. QED  BY <1>1, <3>1, KeepsSame
  <2>2. CASE Dispatch
    <3>1. Stream!Dispatch
      BY <2>2 DEF Dispatch
    <3>. QED  BY <1>1, <3>1, DispatchKeeps
  <2>3. CASE StreamLoops
    <3>1. s.write_callback => s.close_callback
      BY <1>2 DEF HttpInv, Owned
    <3>2. outq \in Int
      BY DEF HttpInv
    <3>. QED  BY <1>1, <2>3, <3>1, <3>2, ReadingKeeps, WritingKeeps DEF StreamLoops
  <2>. QED  BY <2>1, <2>2, <2>3
<1>4. Len(s.posted) \in Nat
  BY <1>1, LenPosted DEF Good
<1>5. batch' \in Nat /\ batch' <= Len(s.posted)
  BY <1>1, <1>4
<1>6. /\ then' \in {"continue", "read body"} => request' = "body" /\ NoRead(s)
      /\ s'.write_callback => request' = "finished" /\ then' \in {"finish", "return"}
      /\ then' \in {"write body", "finish"} => request' = "finished"
  BY <1>1, <1>3 DEF HttpInv, InTurn, OneWriteCallback, Keeps
<1>. QED  BY <1>1, <1>2, <1>3, <1>5, <1>6, KeepsInv

LEMMA HttpNext == HttpInv /\ [Next]_vars => HttpInv'
<1>. SUFFICES ASSUME HttpInv, [Next]_vars PROVE HttpInv'
  OBVIOUS
<1>1. outq' \in Int /\ Warned'
  BY OutqNext, WarnedNext DEF HttpInv
<1>2. ASSUME UNCHANGED <<s, pc, request, then, ran, batch>> PROVE HttpInv'
  BY <1>1, <1>2, SameInv
<1>3. CASE Network
  <2>1. UNCHANGED <<s, pc, request, then, ran, batch>>
    BY <1>3 DEF Network, Stream!PeerSends, Stream!PeerCloses, Stream!PeerResets,
       Stream!PeerReceives, Stream!Peer
  <2>. QED  BY <1>2, <2>1
<1>4. CASE UNCHANGED vars
  BY <1>2, <1>4 DEF vars, streamVars
<1>. QED  BY <1>1, <1>3, <1>4, StartRunInv, ReadsInv, CallbacksInv, WritesInv, LoopInv
          DEF Next, ServerStep

LEMMA Invariance == Spec => []HttpInv
BY HttpInit, HttpNext, PTL DEF Spec

-----------------------------------------------------------------------------
(* The theorems.                                                           *)

\* Whatever the client and the handlers do, no assert of the stream that the
\* connection can meet fails (IOStream.cpp:170 and 202-203).
THEOREM AssertsNeverFail == Spec => []AssertsHold
<1>1. HttpInv => AssertsHold
  BY DEF HttpInv, AssertsHold, Good, Starting, InTurn, NoRead, OneWriteCallback
<1>. QED  BY <1>1, Invariance, PTL

\* The write callback, bound to a bare `this`, is never called after the
\* callback that owns the connection (HttpServer.cpp:356).
THEOREM OwnerOutlivesWrite == Spec => []OwnedUntilWritten
<1>1. ASSUME HttpInv PROVE OwnedUntilWritten
  <2>1. CASE then = "start"
    <3>1. s.posted = << >> /\ ~s.write_callback
      BY <1>1, <2>1 DEF HttpInv, Starting
    <3>2. ran \in Nat /\ Len(s.posted) = 0
      BY <1>1, <3>1 DEF HttpInv, InQueue
    <3>3. (ran + 1)..Len(s.posted) = {}
      BY <3>2
    <3>. QED  BY <3>1, <3>3 DEF OwnedUntilWritten
  <2>2. CASE then # "start"
    <3>1. Owned(s) /\ Good(s) /\ ran \in Nat
      BY <1>1, <2>2 DEF HttpInv, InQueue
    <3>2. s.write_callback => s.close_callback
      BY <3>1 DEF Owned
    <3>3. (ran + 1)..Len(s.posted) \subseteq DOMAIN s.posted
      <4>1. PICK S : s.posted \in Seq(S)
        BY <3>1 DEF Good, IsPosted
      <4>. QED  BY <3>1, <4>1
    <3>4. \A i \in DOMAIN s.posted : s.posted[i].kind = "write" =>
             s.close_callback \/ \E j \in i..Len(s.posted) : s.posted[j].kind = "close"
      BY <3>1 DEF Owned, CloseFollows
    <3>. QED  BY <3>2, <3>3, <3>4 DEF OwnedUntilWritten
  <2>. QED  BY <2>1, <2>2
<1>. QED  BY <1>1, Invariance, PTL

\* A step that closes the stream of a connection that is handling or finished.
ClosesWhole ==
    \/ s.write_len = 0
    \/ pc = "reading" /\ ~Stream!HasRoom
    \/ then = "return" /\ s.write_len + HeaderLen > Capacity
    \/ then = "write body" /\ \E n \in BodyLens : s.write_len + n > Capacity

LEMMA NothingToWrite ==
  ASSUME NEW t, t.write_len \in Nat, ~Stream!Writing(t)
  PROVE  t.write_len = 0
BY DEF Stream!Writing

LEMMA ClosingStep ==
  ASSUME HttpInv, Next, ~s.closed, s'.closed,
         request \in {"handling", "finished"}, conn = "up", ~fin
  PROVE  ClosesWhole
<1>1. Good(s) /\ Warned
  BY DEF HttpInv
<1>2. s.write_len \in Nat
  BY <1>1 DEF Good, Shape
<1>3. "ERROR" \notin reported \cup caller
  BY <1>1 DEF Warned
<1>4. s' # s
  OBVIOUS
<1>5. ~StartRun /\ ~ReadHeaders
  BY DEF StartRun, ReadHeaders, Goes, HttpInv, Starting
<1>6. ~OnHeaders /\ ~Continue /\ ~ReadBody /\ ~OnRequestBody
  BY DEF OnHeaders, Continue, ReadBody, OnRequestBody, Goes, HttpInv, InTurn
<1>7. ASSUME OnWriteComplete \/ ConnectionFinish PROVE ClosesWhole
  <2>1. ~UNCHANGED streamVars
    BY <1>4 DEF streamVars
  <2>2. ~Stream!Writing(s)
    <3>1. CASE OnWriteComplete
      BY <2>1, <3>1 DEF OnWriteComplete
    <3>2. CASE ConnectionFinish
      BY <2>1, <3>2 DEF ConnectionFinish
    <3>. QED  BY <1>7, <3>1, <3>2
  <2>3. s.write_len = 0
    BY <1>2, <2>2, NothingToWrite
  <2>. QED  BY <2>3, Zenon DEF ClosesWhole
<1>8. ~Poll /\ ~Iterate /\ ~OnStreamClose /\ ~Network
  BY <1>4 DEF Poll, Iterate, OnStreamClose, Network, Stream!Poll, Stream!PeerSends,
     Stream!PeerCloses, Stream!PeerResets, Stream!PeerReceives, Stream!Peer, streamVars
<1>9. ~Dispatch
  BY <1>1, <1>3, DispatchKeeps DEF Dispatch
<1>10. ASSUME StreamLoops PROVE ClosesWhole
  <2>1. then # "start" /\ outq \in Int
    BY <1>10 DEF HttpInv, Starting, StreamLoops, Stream!ReadSome, Stream!ReadFails,
       Stream!ReadBlocks, Stream!WriteSome, Stream!WriteFails, Stream!WriteBlocksOrEnds
  <2>2. s.write_callback => s.close_callback
    BY <2>1 DEF HttpInv, Owned
  <2>3. Failed
    BY <1>1, <1>10, <2>1, <2>2, ReadingKeeps, WritingKeeps DEF StreamLoops
  <2>. QED  BY <1>3, <2>3 DEF Failed, ClosesWhole
<1>11. ASSUME Finish PROVE ClosesWhole
  <2>1. then = "return" /\ s' = Stream!AppendOrClose(HeaderLen, s)
    BY <1>4, <1>11 DEF Finish, Goes, streamVars, Stream!JustWriteBytesToBuff
  <2>2. HeaderLen \in Nat /\ Capacity \in Nat
    BY HttpConnectionAssumption
  <2>3. ~(s.write_len + HeaderLen <= Capacity)
    BY <1>1, <2>1, <2>2, AppendOrCloseKeeps
  <2>4. s.write_len + HeaderLen > Capacity
    BY <1>2, <2>2, <2>3
  <2>. QED  BY <2>1, <2>4 DEF ClosesWhole
<1>12. ASSUME WriteBody PROVE ClosesWhole
  <2>1. then = "write body" /\ \E n \in BodyLens : Stream!WriteBytes(n, TRUE)
    BY <1>4, <1>12 DEF WriteBody, Goes, streamVars
  <2>2. PICK n \in BodyLens : Stream!WriteBytes(n, TRUE)
    BY <2>1
  <2>3. n \in Nat /\ Capacity \in Nat
    BY HttpConnectionAssumption
  <2>4. ~(s.write_len + n <= Capacity)
    BY <1>1, <2>2, <2>3, WriteBytesKeeps
  <2>5. s.write_len + n > Capacity
    BY <1>2, <2>3, <2>4
  <2>. QED  BY <2>1, <2>5 DEF ClosesWhole
<1>. QED  BY <1>5, <1>6, <1>7, <1>8, <1>9, <1>10, <1>11, <1>12 DEF Next, ServerStep

\* To a client that keeps its side open the connection closes only with the
\* response written, or because a buffer is too small (HttpServer.cpp:338).
THEOREM ResponsesAreWhole == Spec => ResponseNotCut
<1>1. HttpInv /\ [Next]_vars =>
        [~s.closed /\ s'.closed /\ request \in {"handling", "finished"} /\ conn = "up" /\ ~fin
           => ClosesWhole]_vars
  BY ClosingStep
<1>2. Spec => [][~s.closed /\ s'.closed /\ request \in {"handling", "finished"}
                   /\ conn = "up" /\ ~fin => ClosesWhole]_vars
  BY <1>1, Invariance, PTL DEF Spec
<1>. QED  BY <1>2 DEF ResponseNotCut, ClosesWhole
=============================================================================
