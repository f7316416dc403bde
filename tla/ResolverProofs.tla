--------------------------- MODULE ResolverProofs ---------------------------
(***************************************************************************)
(* What the Resolver promises of its one cb_, its one timer_ and its one    *)
(* state_, for any number of lookups and sockets and whatever c-ares does.  *)
(*                                                                         *)
(* The invariant has three parts that do not speak of each other: whose     *)
(* callback cb_ is (Answering), where the timers are while no lookup has    *)
(* overlapped or been answered early (Timing), and which socket state_      *)
(* describes while there is one (OneSocket).  What they share is the shape  *)
(* of the calls in progress (Nested): a callback runs inside a call of      *)
(* c-ares, and ares_destroy inside nothing.                                *)
(***************************************************************************)
EXTENDS Resolver, TLAPS

-----------------------------------------------------------------------------
(* The calls in progress.                                                  *)

LEMMA PushIs ==
  ASSUME stack \in Seq(Frames), NEW kind, NEW of, [kind |-> kind, of |-> of] \in Frames,
         Push(kind, of)
  PROVE  /\ stack' \in Seq(Frames)
         /\ stack' # << >> /\ Head(stack') = stack'[1]
         /\ Len(stack) \in Nat /\ Len(stack') = Len(stack) + 1
         /\ DOMAIN stack = 1..Len(stack) /\ DOMAIN stack' = 1..(Len(stack) + 1)
         /\ stack'[1].kind = kind /\ stack'[1].of = of
         /\ \A i \in DOMAIN stack' : i = 1 \/ (i - 1 \in DOMAIN stack /\ stack'[i] = stack[i - 1])
<1>. DEFINE f == [kind |-> kind, of |-> of]
<1>1. f \in Frames /\ f.kind = kind /\ f.of = of /\ stack' = << f >> \o stack
  BY DEF Push
<1>. HIDE DEF f
<1>2. /\ stack' \in Seq(Frames) /\ Len(stack) \in Nat /\ Len(stack') = Len(stack) + 1
      /\ DOMAIN stack = 1..Len(stack) /\ DOMAIN stack' = 1..(Len(stack) + 1)
      /\ stack'[1] = f
      /\ \A i \in 2..(Len(stack) + 1) : stack'[i] = stack[i - 1]
  BY <1>1
<1>3. stack' # << >> /\ Head(stack') = stack'[1]
  BY <1>2
<1>. QED  BY <1>1, <1>2, <1>3

LEMMA PopIs ==
  ASSUME stack \in Seq(Frames), stack # << >>, stack' = Tail(stack)
  PROVE  /\ stack' \in Seq(Frames)
         /\ Len(stack) \in Nat \ {0} /\ Len(stack') = Len(stack) - 1
         /\ DOMAIN stack = 1..Len(stack) /\ DOMAIN stack' = 1..(Len(stack) - 1)
         /\ Head(stack) = stack[1] /\ stack[1] \in Frames
         /\ \A i \in DOMAIN stack' : i + 1 \in DOMAIN stack /\ stack'[i] = stack[i + 1]
OBVIOUS

\* The innermost call is the first of the stack.
LEMMA TopIs ==
  ASSUME stack \in Seq(Frames)
  PROVE  /\ Len(stack) \in Nat /\ DOMAIN stack = 1..Len(stack)
         /\ stack # << >> => 1 \in DOMAIN stack /\ Head(stack) = stack[1] /\ stack[1] \in Frames
         /\ stack = << >> => DOMAIN stack = {}
         /\ \A kind : Top(kind) <=> stack # << >> /\ stack[1].kind = kind
BY DEF Top

\* The frames the actions push.
LEMMA FramesAre ==
  ASSUME NEW n \in Lookups
  PROVE  /\ [kind |-> "lookup", of |-> n] \in Frames
         /\ [kind |-> "callback", of |-> n] \in Frames
         /\ \A k \in {0, 1} : [kind |-> "process", of |-> k] \in Frames
         /\ [kind |-> "destroy", of |-> 0] \in Frames
BY DEF Frames

-----------------------------------------------------------------------------
(* Types.                                                                  *)

LEMMA SockStateType ==
  ASSUME TypeOK, NEW s \in Sockets, NEW wants \in SUBSET {"READ", "WRITE"},
         SockState(s, wants), interest' = Watches(s, wants)
  PROVE  /\ state' \in SUBSET Events
         /\ handlers' \in SUBSET Sockets
         /\ DOMAIN interest' \in SUBSET handlers'
         /\ \A f \in DOMAIN interest' : interest'[f] \in SUBSET Events
         /\ aborted' \in {aborted, "handler"}
<1>. DEFINE events == wants \cup {"ERROR"}
<1>1. events \in SUBSET Events /\ events # {}
  BY DEF Events
<1>2. state' \in SUBSET Events /\ handlers' \in SUBSET Sockets /\ aborted' \in {aborted, "handler"}
  BY <1>1 DEF SockState, TypeOK
<1>3. \/ /\ wants = {} /\ interest' = Without(s)
      \/ /\ wants # {} /\ interest' = With(s, events)
         /\ state = {} \/ s \in DOMAIN interest
      \/ /\ wants # {} /\ state # {} /\ interest' = interest
  BY DEF Watches
<1>. HIDE DEF events
<1>4. CASE wants = {} /\ interest' = Without(s)
  <2>1. DOMAIN interest' = DOMAIN interest \ {s}
        /\ \A f \in DOMAIN interest' : interest'[f] = interest[f]
    BY <1>4 DEF Without
  <2>2. handlers' \in {handlers \ {s}, handlers \cup {s}, handlers}
    BY DEF SockState
  <2>. QED  BY <1>2, <2>1, <2>2 DEF TypeOK
<1>5. CASE wants # {} /\ interest' = With(s, events) /\ (state = {} \/ s \in DOMAIN interest)
  <2>1. DOMAIN interest' = DOMAIN interest \cup {s}
        /\ \A f \in DOMAIN interest' : interest'[f] = IF f = s THEN events ELSE interest[f]
    BY <1>5 DEF With
  <2>2. handlers \subseteq handlers' /\ s \in handlers'
    BY <1>5 DEF SockState, TypeOK
  <2>. QED  BY <1>1, <1>2, <2>1, <2>2 DEF TypeOK
<1>6. CASE wants # {} /\ state # {} /\ interest' = interest
  <2>1. handlers' = handlers
    BY <1>6 DEF SockState
  <2>. QED  BY <1>2, <1>6, <2>1 DEF TypeOK
<1>. QED  BY <1>3, <1>4, <1>5, <1>6

LEMMA RunCallbackType ==
  ASSUME TypeOK, NEW n \in Lookups, RunCallback(n)
  PROVE  /\ timer' = 0 /\ armed' = armed \ {timer} /\ cb' = cb
         /\ called' \in [Lookups -> Seq(Lookups)] /\ stack' \in Seq(Frames)
         /\ \/ /\ cb \in Lookups /\ Push("callback", cb)
               /\ called'[cb] = Append(called[cb], n)
               /\ \A m \in Lookups \ {cb} : called'[m] = called[m]
            \/ cb = 0 /\ UNCHANGED <<called, stack>>
<1>1. timer' = 0 /\ armed' = armed \ {timer} /\ cb' = cb
  BY DEF RunCallback, RemoveTimer
<1>2. CASE cb = 0
  BY <1>1, <1>2 DEF RunCallback, TypeOK
<1>3. CASE cb # 0
  <2>1. cb \in Lookups
    BY <1>3, ResolverAssumption DEF TypeOK, Lookups
  <2>2. Push("callback", cb) /\ called' = [called EXCEPT ![cb] = Append(@, n)]
    BY <1>3 DEF RunCallback
  <2>3. called \in [Lookups -> Seq(Lookups)] /\ stack \in Seq(Frames)
    BY DEF TypeOK
  <2>4. Append(called[cb], n) \in Seq(Lookups)
    BY <2>1, <2>3
  <2>5. /\ called' \in [Lookups -> Seq(Lookups)]
        /\ called'[cb] = Append(called[cb], n)
        /\ \A m \in Lookups \ {cb} : called'[m] = called[m]
    BY <2>1, <2>2, <2>3, <2>4
  <2>6. stack' \in Seq(Frames)
    BY <2>1, <2>2, <2>3, FramesAre, PushIs
  <2>. QED  BY <1>1, <2>1, <2>2, <2>5, <2>6
<1>. QED  BY <1>2, <1>3

LEMMA TypeNext == ASSUME TypeOK, [Next]_vars PROVE TypeOK'
<1>. /\ stack \in Seq(Frames) /\ timer \in 0..MaxLookups /\ MaxLookups \in Nat
     /\ \A n \in Lookups : n \in Nat /\ n >= 1 /\ n <= MaxLookups
  BY ResolverAssumption DEF TypeOK, Lookups
<1>1. CASE InitChannel
  BY <1>1 DEF InitChannel, TypeOK, loopVars
<1>2. CASE GetHostByName
  <2>1. lookups + 1 \in Lookups
    BY <1>2 DEF GetHostByName, TypeOK, Lookups
  <2>2. stack' \in Seq(Frames)
    BY <1>2, <2>1, FramesAre, PushIs DEF GetHostByName
  <2>3. /\ lookups' = lookups + 1 /\ cb' = lookups + 1
        /\ queries' = queries \cup {lookups + 1}
        /\ strained' \in {strained, strained \cup {"overlap"}}
        /\ UNCHANGED <<channel, timer, state, open, loopVars, called, aborted>>
    BY <1>2 DEF GetHostByName
  <2>4. strained' \in SUBSET Strains
    BY <2>3 DEF TypeOK, Strains
  <2>5. /\ lookups' \in 0..MaxLookups /\ cb' \in 0..MaxLookups
        /\ queries' \in SUBSET Lookups
    <3>1. lookups + 1 \in 0..MaxLookups
      BY <2>1 DEF TypeOK
    <3>2. queries \in SUBSET Lookups
      BY DEF TypeOK
    <3>. QED  BY <2>1, <2>3, <3>1, <3>2
  <2>. QED  BY <2>2, <2>3, <2>4, <2>5 DEF TypeOK, loopVars
<1>3. CASE CallbackReturns
  <2>1. stack' \in Seq(Frames)
    BY <1>3, PopIs DEF CallbackReturns, Top
  <2>. QED  BY <1>3, <2>1 DEF CallbackReturns, TypeOK, loopVars
<1>4. CASE Destroy
  <2>1. stack' \in Seq(Frames)
    <3>1. [kind |-> "destroy", of |-> 0] \in Frames
      BY DEF Frames
    <3>. QED  BY <1>4, <3>1, PushIs DEF Destroy
  <2>. QED  BY <1>4, <2>1 DEF Destroy, TypeOK, loopVars
<1>5. CASE AresReturns
  <2>1. stack # << >> /\ stack' = Tail(stack)
    BY <1>5 DEF AresReturns, InAres, Top
  <2>2. stack' \in Seq(Frames) /\ Head(stack) \in Frames
    BY <2>1, PopIs
  <2>3. /\ timer' \in 0..MaxLookups /\ armed' \in SUBSET Lookups
    <3>1. CASE Top("lookup")
      <4>1. Head(stack).of \in Lookups
        BY <2>2, <3>1 DEF Top, Frames
      <4>2. timer' = Head(stack).of /\ armed' = armed \cup {Head(stack).of}
        BY <1>5, <3>1 DEF AresReturns, SetTimer
      <4>3. armed \in SUBSET Lookups /\ Head(stack).of \in 0..MaxLookups
        BY <4>1 DEF TypeOK, Lookups
      <4>. QED  BY <4>1, <4>2, <4>3
    <3>2. CASE ~Top("lookup")
      BY <1>5, <3>2 DEF AresReturns, TypeOK
    <3>. QED  BY <3>1, <3>2
  <2>4. channel' \in {channel, "destroyed"} /\ cb' \in {cb, 0}
    BY <1>5 DEF AresReturns
  <2>5. UNCHANGED <<state, queries, open, due, handlers, interest, lookups, called,
                    strained, aborted>>
    BY <1>5 DEF AresReturns
  <2>. QED  BY <2>2, <2>3, <2>4, <2>5 DEF TypeOK
<1>6. CASE TimersFallDue
  BY <1>6 DEF TimersFallDue, TypeOK
<1>7. ASSUME NEW t \in Lookups, OnTimer(t) PROVE TypeOK'
  <2>1. [kind |-> "process", of |-> 0] \in Frames
    BY DEF Frames
  <2>2. /\ stack' \in Seq(Frames) /\ timer' \in {timer, 0}
        /\ aborted' \in {aborted, "timer", "dangling"}
    BY <1>7, <2>1, PushIs DEF OnTimer
  <2>3. due' = due \ {t} /\ UNCHANGED <<channel, cb, state, queries, open, armed, handlers,
                                        interest, lookups, called, strained>>
    BY <1>7 DEF OnTimer
  <2>. QED  BY <2>2, <2>3 DEF TypeOK
<1>8. ASSUME NEW s \in Sockets, NEW events \in SUBSET Events, ProcessFd(s, events)
      PROVE  TypeOK'
  <2>1. \A k \in {0, 1} : [kind |-> "process", of |-> k] \in Frames
    BY DEF Frames
  <2>2. stack' \in Seq(Frames)
    BY <1>8, <2>1, PushIs DEF ProcessFd
  <2>. QED  BY <1>8, <2>2 DEF ProcessFd, TypeOK, loopVars
<1>9. ASSUME NEW n \in Lookups, EndsQuery(n) PROVE TypeOK'
  <2>1. /\ timer' = 0 /\ armed' = armed \ {timer} /\ cb' = cb
        /\ called' \in [Lookups -> Seq(Lookups)] /\ stack' \in Seq(Frames)
    BY <1>9, RunCallbackType DEF EndsQuery
  <2>2. strained' \in SUBSET Strains
    BY <1>9 DEF EndsQuery, TypeOK, Strains
  <2>3. queries' = queries \ {n}
        /\ UNCHANGED <<channel, state, open, due, handlers, interest, lookups, aborted>>
    BY <1>9 DEF EndsQuery
  <2>. QED  BY <2>1, <2>2, <2>3 DEF TypeOK
<1>10. ASSUME NEW s \in Sockets, OpensSocket(s) PROVE TypeOK'
  <2>1. /\ state' \in SUBSET Events /\ handlers' \in SUBSET Sockets
        /\ DOMAIN interest' \in SUBSET handlers'
        /\ \A f \in DOMAIN interest' : interest'[f] \in SUBSET Events
        /\ aborted' \in {aborted, "handler"}
    BY <1>10, SockStateType DEF OpensSocket
  <2>2. /\ open' = open \cup {s} /\ strained' \in {strained, strained \cup {"sockets"}}
        /\ UNCHANGED <<channel, cb, timer, stack, queries, armed, due, lookups, called>>
    BY <1>10 DEF OpensSocket
  <2>3. strained' \in SUBSET Strains
    BY <2>2 DEF TypeOK, Strains
  <2>. QED  BY <2>1, <2>2, <2>3 DEF TypeOK
<1>11. ASSUME NEW s \in Sockets, ClosesSocket(s) PROVE TypeOK'
  <2>1. /\ state' \in SUBSET Events /\ handlers' \in SUBSET Sockets
        /\ DOMAIN interest' \in SUBSET handlers'
        /\ \A f \in DOMAIN interest' : interest'[f] \in SUBSET Events
        /\ aborted' \in {aborted, "handler"}
    BY <1>11, SockStateType DEF ClosesSocket
  <2>2. /\ open' = open \ {s}
        /\ UNCHANGED <<channel, cb, timer, stack, queries, armed, due, lookups, called,
                       strained>>
    BY <1>11 DEF ClosesSocket
  <2>. QED  BY <2>1, <2>2 DEF TypeOK
<1>12. ASSUME NEW s \in Sockets, NEW wants \in {{"READ"}, {"READ", "WRITE"}},
              WantsEvents(s, wants)
       PROVE  TypeOK'
  <2>1. /\ state' \in SUBSET Events /\ handlers' \in SUBSET Sockets
        /\ DOMAIN interest' \in SUBSET handlers'
        /\ \A f \in DOMAIN interest' : interest'[f] \in SUBSET Events
        /\ aborted' \in {aborted, "handler"}
    BY <1>12, SockStateType DEF WantsEvents
  <2>2. UNCHANGED <<channel, cb, timer, stack, queries, open, armed, due, lookups, called,
                    strained>>
    BY <1>12 DEF WantsEvents
  <2>. QED  BY <2>1, <2>2 DEF TypeOK
<1>13. CASE UNCHANGED vars
  BY <1>13 DEF vars, loopVars, TypeOK
<1>. QED  BY <1>1, <1>2, <1>3, <1>4, <1>5, <1>6, <1>7, <1>8, <1>9, <1>10, <1>11, <1>12, <1>13
          DEF Next

LEMMA TypeInit == Init => TypeOK
BY ResolverAssumption DEF Init, TypeOK

\* Every member of the resolver, the calls on the stack and what the loop and
\* c-ares keep for it have their types, and epoll watches registered sockets only.
THEOREM TypeCorrect == Spec => []TypeOK
BY TypeInit, TypeNext, PTL DEF Spec

-----------------------------------------------------------------------------
(* The shape of the stack, and whose callback cb_ is.                      *)

Nested ==
    \A i \in DOMAIN stack :
       /\ stack[i].kind = "callback" => i < Len(stack)
       /\ stack[i].kind = "destroy" => i = Len(stack)

\* What a step does to the stack.
StackStep ==
    \/ UNCHANGED stack
    \/ stack # << >> /\ stack' = Tail(stack)
    \/ stack = << >> /\ \E of : Push("process", of) \/ Push("destroy", of)
    \/ \E n \in Lookups : \/ (stack = << >> \/ Top("callback")) /\ Push("lookup", n)
                          \/ InAres /\ Push("callback", n)

LEMMA StepOfStack == ASSUME TypeOK, [Next]_vars PROVE StackStep
<1>1. CASE GetHostByName
  <2>1. lookups + 1 \in Lookups
    BY <1>1, ResolverAssumption DEF GetHostByName, TypeOK, Lookups
  <2>. QED  BY <1>1, <2>1 DEF GetHostByName, StackStep
<1>2. ASSUME NEW n \in Lookups, EndsQuery(n) PROVE StackStep
  BY <1>2, RunCallbackType DEF EndsQuery, StackStep
<1>3. CASE CallbackReturns \/ AresReturns
  BY <1>3 DEF CallbackReturns, AresReturns, InAres, Top, StackStep
<1>4. CASE InitChannel \/ TimersFallDue
  BY <1>4 DEF InitChannel, TimersFallDue, StackStep
<1>5. CASE Destroy
  BY <1>5 DEF Destroy, StackStep
<1>6. ASSUME NEW t \in Lookups, OnTimer(t) PROVE StackStep
  BY <1>6 DEF OnTimer, StackStep
<1>7. ASSUME NEW s \in Sockets, NEW events \in SUBSET Events, ProcessFd(s, events)
      PROVE  StackStep
  BY <1>7 DEF ProcessFd, StackStep
<1>8. ASSUME NEW s \in Sockets, NEW wants,
             OpensSocket(s) \/ ClosesSocket(s) \/ WantsEvents(s, wants)
      PROVE  StackStep
  BY <1>8 DEF OpensSocket, ClosesSocket, WantsEvents, StackStep
<1>9. CASE UNCHANGED vars
  BY <1>9 DEF vars, StackStep
<1>. QED  BY <1>1, <1>2, <1>3, <1>4, <1>5, <1>6, <1>7, <1>8, <1>9 DEF Next

LEMMA NestedNext == ASSUME TypeOK, Nested, [Next]_vars PROVE Nested'
<1>. stack \in Seq(Frames)
  BY DEF TypeOK
<1>1. CASE UNCHANGED stack
  BY <1>1 DEF Nested
<1>2. CASE stack # << >> /\ stack' = Tail(stack)
  BY <1>2, PopIs DEF Nested
<1>3. ASSUME NEW kind, NEW of, Push(kind, of), [kind |-> kind, of |-> of] \in Frames,
             kind = "callback" => stack # << >>, kind = "destroy" => stack = << >>
      PROVE  Nested'
  <2>. SUFFICES ASSUME NEW i \in DOMAIN stack'
                PROVE  /\ stack'[i].kind = "callback" => i < Len(stack')
                       /\ stack'[i].kind = "destroy" => i = Len(stack')
    BY DEF Nested
  <2>1. /\ Len(stack) \in Nat /\ Len(stack') = Len(stack) + 1
        /\ DOMAIN stack = 1..Len(stack) /\ DOMAIN stack' = 1..(Len(stack) + 1)
        /\ stack'[1].kind = kind
        /\ i = 1 \/ (i - 1 \in DOMAIN stack /\ stack'[i] = stack[i - 1])
    BY <1>3, PushIs
  <2>2. stack = << >> <=> Len(stack) = 0
    OBVIOUS
  <2>3. CASE i = 1
    BY <1>3, <2>1, <2>2, <2>3
  <2>4. CASE i # 1
    BY <2>1, <2>4 DEF Nested
  <2>. QED  BY <2>3, <2>4
<1>4. ASSUME stack = << >>, NEW of, Push("process", of) \/ Push("destroy", of)
      PROVE  Nested'
  <2>1. \A i \in DOMAIN stack' : i = 1 /\ Len(stack') = 1 /\ stack'[i].kind # "callback"
    BY <1>4 DEF Push
  <2>. QED  BY <2>1 DEF Nested
<1>5. ASSUME NEW n \in Lookups,
             \/ Push("lookup", n)
             \/ InAres /\ Push("callback", n)
      PROVE  Nested'
  BY <1>3, <1>5, FramesAre DEF InAres, Top
<1>. QED  BY <1>1, <1>2, <1>4, <1>5, StepOfStack DEF StackStep

\* cb_ is the callback of a lookup that waits, or of the innermost callback;
\* while lookups do not overlap it is the one query's, and c-ares is called by
\* nothing but the loop and the application.
Answering ==
    /\ \A n \in Lookups : Len(called[n]) <= 1 /\ (called[n] # << >> => n <= lookups)
    /\ cb <= lookups
    /\ cb # 0 /\ called[cb] # << >> => Top("callback")
    /\ "overlap" \notin strained =>
         /\ queries \subseteq {cb}
         /\ Top("callback") => queries = {}
         /\ \A i \in DOMAIN stack : stack[i].kind # "callback" => i = Len(stack)
         /\ \A n \in Lookups : \A i \in DOMAIN called[n] : called[n][i] = n

LEMMA AnsweringFrame ==
  ASSUME TypeOK, Answering, UNCHANGED <<cb, stack, queries, lookups, called>>,
         strained \subseteq strained'
  PROVE  Answering'
BY DEF Answering, Top

LEMMA AnsweringPush ==
  ASSUME TypeOK, Answering, UNCHANGED <<cb, queries, lookups, called, strained>>,
         stack = << >>, NEW kind, NEW of, Push(kind, of), kind # "callback"
  PROVE  Answering'
<1>1. /\ stack' # << >> /\ ~Top("callback")' /\ ~Top("callback")
      /\ \A i \in DOMAIN stack' : i = Len(stack')
  BY DEF Push, Top
<1>. QED  BY <1>1 DEF Answering

LEMMA AnsweringNext == ASSUME TypeOK, Nested, Answering, [Next]_vars PROVE Answering'
<1>. /\ stack \in Seq(Frames) /\ cb \in 0..MaxLookups /\ MaxLookups \in Nat
     /\ lookups \in Nat
     /\ called \in [Lookups -> Seq(Lookups)]
     /\ \A n \in Lookups : n \in Nat /\ n >= 1 /\ n <= MaxLookups
     /\ cb # 0 => cb \in Lookups
  BY ResolverAssumption DEF TypeOK, Lookups
<1>1. CASE GetHostByName
  <2>1. /\ lookups + 1 \in Lookups /\ lookups \in Nat
        /\ lookups' = lookups + 1 /\ cb' = lookups + 1
        /\ queries' = queries \cup {lookups + 1}
        /\ Push("lookup", lookups + 1) /\ UNCHANGED called
        /\ stack = << >> \/ Top("callback")
        /\ strained' = IF stack = << >> /\ queries = {} THEN strained
                       ELSE strained \cup {"overlap"}
    BY <1>1 DEF GetHostByName, TypeOK, Lookups
  <2>2. /\ stack' # << >> /\ stack'[1].kind = "lookup" /\ Head(stack') = stack'[1]
        /\ DOMAIN stack' = 1..(Len(stack) + 1) /\ Len(stack') = Len(stack) + 1
    BY <2>1, FramesAre, PushIs
  <2>3. ~Top("callback")'
    BY <2>2 DEF Top
  <2>4. called[lookups + 1] = << >>
    BY <2>1 DEF Answering
  <2>5. \A n \in Lookups : Len(called'[n]) <= 1 /\ (called'[n] # << >> => n <= lookups')
    BY <2>1 DEF Answering
  <2>6. CASE stack = << >> /\ queries = {}
    BY <2>1, <2>2, <2>3, <2>4, <2>5, <2>6 DEF Answering
  <2>7. CASE ~(stack = << >> /\ queries = {})
    BY <2>1, <2>3, <2>4, <2>5, <2>7 DEF Answering
  <2>. QED  BY <2>6, <2>7
<1>2. CASE CallbackReturns
  <2>1. /\ cb' = 0 /\ stack # << >> /\ stack' = Tail(stack) /\ Top("callback")
        /\ UNCHANGED <<queries, lookups, called, strained>>
    BY <1>2 DEF CallbackReturns, Top
  <2>2. /\ Len(stack) \in Nat /\ Len(stack') = Len(stack) - 1
        /\ \A i \in DOMAIN stack' : i + 1 \in DOMAIN stack /\ stack'[i] = stack[i + 1]
        /\ DOMAIN stack' = 1..(Len(stack) - 1)
    BY <2>1, PopIs
  <2>. QED  BY <2>1, <2>2 DEF Answering
<1>3. CASE AresReturns
  <2>1. /\ stack # << >> /\ stack' = Tail(stack) /\ ~Top("callback")
        /\ cb' = cb \/ (cb' = 0 /\ queries = {})
        /\ UNCHANGED <<queries, lookups, called, strained>>
    BY <1>3 DEF AresReturns, InAres, Top
  <2>2. /\ Len(stack) \in Nat /\ Len(stack') = Len(stack) - 1
        /\ \A i \in DOMAIN stack' : i + 1 \in DOMAIN stack /\ stack'[i] = stack[i + 1]
        /\ DOMAIN stack' = 1..(Len(stack) - 1) /\ DOMAIN stack = 1..Len(stack)
        /\ Head(stack) = stack[1] /\ Len(stack) # 0 /\ stack' \in Seq(Frames)
    BY <2>1, PopIs
  <2>3. cb' # 0 => called[cb'] = << >>
    BY <2>1 DEF Answering
  <2>4. "overlap" \notin strained => stack' = << >>
    <3>1. stack[1].kind # "callback" /\ 1 \in DOMAIN stack
      BY <2>1, <2>2 DEF Top
    <3>2. "overlap" \notin strained => Len(stack) = 1
      BY <2>2, <3>1 DEF Answering
    <3>3. "overlap" \notin strained => Len(stack') = 0
      BY <2>2, <3>2
    <3>. QED  BY <2>2, <3>3
  <2>5. stack' = << >> => ~Top("callback")' /\ DOMAIN stack' = {}
    BY DEF Top
  <2>. QED  BY <2>1, <2>3, <2>4, <2>5 DEF Answering
<1>4. ASSUME NEW n \in Lookups, EndsQuery(n) PROVE Answering'
  <2>1. /\ n \in queries /\ queries' = queries \ {n} /\ strained \subseteq strained'
        /\ "overlap" \in strained' => "overlap" \in strained
        /\ UNCHANGED lookups /\ cb' = cb /\ InAres
    BY <1>4, RunCallbackType DEF EndsQuery, Endable
  <2>2. ~Top("callback") /\ stack # << >>
    BY <2>1 DEF InAres, Top
  <2>3. cb # 0 => called[cb] = << >>
    BY <2>2 DEF Answering
  <2>4. CASE cb = 0 /\ UNCHANGED <<called, stack>>
    BY <2>1, <2>2, <2>4 DEF Answering, Top
  <2>5. CASE /\ cb \in Lookups /\ Push("callback", cb)
             /\ called'[cb] = Append(called[cb], n)
             /\ \A m \in Lookups \ {cb} : called'[m] = called[m]
    <3>1. /\ stack' # << >> /\ stack'[1].kind = "callback" /\ Head(stack') = stack'[1]
          /\ Len(stack) \in Nat /\ Len(stack') = Len(stack) + 1
          /\ \A i \in DOMAIN stack' : i = 1 \/ (i - 1 \in DOMAIN stack /\ stack'[i] = stack[i - 1])
          /\ DOMAIN stack' = 1..(Len(stack) + 1)
      BY <2>5, FramesAre, PushIs
    <3>2. Top("callback")'
      BY <3>1 DEF Top
    <3>3. /\ called'[cb] = << n >> /\ Len(called'[cb]) = 1
          /\ \A i \in DOMAIN called'[cb] : called'[cb][i] = n
      <4>1. called[cb] = << >>
        BY <2>3, <2>5 DEF Lookups
      <4>2. called'[cb] = Append(<< >>, n)
        BY <2>5, <4>1
      <4>3. Append(<< >>, n) = << n >>
        OBVIOUS
      <4>. QED  BY <4>2, <4>3
    <3>4. cb <= lookups
      BY DEF Answering
    <3>5. \A m \in Lookups : Len(called'[m]) <= 1 /\ (called'[m] # << >> => m <= lookups')
      <4>. SUFFICES ASSUME NEW m \in Lookups
                    PROVE  Len(called'[m]) <= 1 /\ (called'[m] # << >> => m <= lookups')
        OBVIOUS
      <4>1. CASE m = cb
        <5>1. Len(called'[m]) <= 1
          <6>1. called'[m] = called'[cb]
            BY <4>1
          <6>2. Len(called'[m]) = 1
            BY <3>3, <6>1
          <6>. QED  BY <6>2
        <5>2. m <= lookups'
          BY <2>1, <3>4, <4>1
        <5>. QED  BY <5>1, <5>2
      <4>2. CASE m # cb
        BY <2>1, <2>5, <4>2 DEF Answering
      <4>. QED  BY <4>1, <4>2
    <3>6. ASSUME "overlap" \notin strained'
          PROVE  /\ queries' = {}
                 /\ \A i \in DOMAIN stack' : stack'[i].kind # "callback" => i = Len(stack')
                 /\ \A m \in Lookups : \A i \in DOMAIN called'[m] : called'[m][i] = m
      <4>1. queries \subseteq {cb} /\ n = cb /\ queries' = {}
        BY <2>1, <3>6 DEF Answering
      <4>2. \A i \in DOMAIN stack' : stack'[i].kind # "callback" => i = Len(stack')
        BY <2>1, <3>1, <3>6 DEF Answering
      <4>3. \A m \in Lookups : \A i \in DOMAIN called'[m] : called'[m][i] = m
        <5>1. \A i \in DOMAIN called'[cb] : called'[cb][i] = cb
          BY <3>3, <4>1
        <5>. QED  BY <2>1, <2>5, <3>6, <5>1 DEF Answering
      <4>. QED  BY <4>1, <4>2, <4>3
    <3>. QED  BY <2>1, <3>2, <3>4, <3>5, <3>6 DEF Answering
  <2>. QED  BY <1>4, <2>4, <2>5, RunCallbackType DEF EndsQuery
<1>5. CASE Destroy
  BY <1>5, AnsweringPush DEF Destroy
<1>6. ASSUME NEW t \in Lookups, OnTimer(t) PROVE Answering'
  BY <1>6, AnsweringPush, AnsweringFrame DEF OnTimer
<1>7. ASSUME NEW s \in Sockets, NEW events \in SUBSET Events, ProcessFd(s, events)
      PROVE  Answering'
  BY <1>7, AnsweringPush DEF ProcessFd
<1>8. ASSUME NEW s \in Sockets, NEW wants,
             OpensSocket(s) \/ ClosesSocket(s) \/ WantsEvents(s, wants)
      PROVE  Answering'
  BY <1>8, AnsweringFrame DEF OpensSocket, ClosesSocket, WantsEvents
<1>9. CASE InitChannel \/ TimersFallDue \/ UNCHANGED vars
  BY <1>9, AnsweringFrame DEF InitChannel, TimersFallDue, vars
<1>. QED  BY <1>1, <1>2, <1>3, <1>4, <1>5, <1>6, <1>7, <1>8, <1>9 DEF Next

LEMMA ShapeInit == Init => Nested /\ Answering
<1>. SUFFICES ASSUME Init PROVE Nested /\ Answering
  OBVIOUS
<1>1. /\ stack = << >> /\ queries = {} /\ cb = 0 /\ lookups = 0
      /\ \A n \in Lookups : called[n] = << >>
  BY DEF Init
<1>2. DOMAIN stack = {} /\ ~Top("callback")
  BY <1>1 DEF Top
<1>3. Len(<< >>) = 0 /\ DOMAIN << >> = {}
  OBVIOUS
<1>. QED  BY <1>1, <1>2, <1>3 DEF Nested, Answering

\* However many lookups there are and in whatever order c-ares answers, a
\* callback is called once at most, and with its own answer while they do not
\* overlap.
THEOREM AnswersAreOwn == Spec => []OwnAnswer
<1>1. TypeOK /\ Nested /\ Answering /\ [Next]_vars => (TypeOK /\ Nested /\ Answering)'
  BY TypeNext, NestedNext, AnsweringNext
<1>2. Answering => OwnAnswer
  BY DEF Answering, OwnAnswer
<1>. QED  BY <1>1, <1>2, TypeInit, ShapeInit, PTL DEF Spec

-----------------------------------------------------------------------------
(* The socket that state_ and the handler are for.                         *)

OneSocket ==
    "sockets" \notin strained =>
      /\ open = {} => handlers = {} /\ state = {}
      /\ \A s \in open : open = {s} /\ handlers = {s} /\ state # {}
      /\ aborted # "handler"

LEMMA OneSocketNext == ASSUME TypeOK, OneSocket, [Next]_vars PROVE OneSocket'
<1>. open \in SUBSET Sockets
  BY DEF TypeOK
<1>1. ASSUME NEW s \in Sockets, OpensSocket(s) PROVE OneSocket'
  <2>1. /\ open' = open \cup {s} /\ SockState(s, {"READ"})
        /\ strained' = IF open = {} THEN strained ELSE strained \cup {"sockets"}
    BY <1>1 DEF OpensSocket
  <2>2. CASE open = {}
    BY <2>1, <2>2 DEF OneSocket, SockState
  <2>3. CASE open # {}
    BY <2>1, <2>3 DEF OneSocket
  <2>. QED  BY <2>2, <2>3
<1>2. ASSUME NEW s \in Sockets, ClosesSocket(s) PROVE OneSocket'
  <2>1. s \in open /\ open' = open \ {s} /\ SockState(s, {}) /\ UNCHANGED strained
    BY <1>2 DEF ClosesSocket
  <2>. QED  BY <2>1 DEF OneSocket, SockState
<1>3. ASSUME NEW s \in Sockets, NEW wants \in {{"READ"}, {"READ", "WRITE"}},
             WantsEvents(s, wants)
      PROVE  OneSocket'
  <2>1. s \in open /\ SockState(s, wants) /\ wants # {} /\ UNCHANGED <<open, strained>>
    BY <1>3 DEF WantsEvents
  <2>. QED  BY <2>1 DEF OneSocket, SockState
<1>4. ASSUME UNCHANGED <<open, handlers, state>>, strained \subseteq strained',
             aborted' = aborted \/ aborted' # "handler"
      PROVE  OneSocket'
  BY <1>4 DEF OneSocket
<1>5. ASSUME NEW t \in Lookups, OnTimer(t) PROVE OneSocket'
  BY <1>4, <1>5 DEF OnTimer
<1>6. ASSUME NEW n \in Lookups, EndsQuery(n) PROVE OneSocket'
  BY <1>4, <1>6 DEF EndsQuery
<1>7. ASSUME NEW s \in Sockets, NEW events \in SUBSET Events, ProcessFd(s, events)
      PROVE  OneSocket'
  BY <1>4, <1>7 DEF ProcessFd, loopVars
<1>8. CASE GetHostByName
  BY <1>4, <1>8 DEF GetHostByName, loopVars
<1>9. CASE InitChannel \/ CallbackReturns \/ Destroy \/ TimersFallDue
  BY <1>4, <1>9 DEF InitChannel, CallbackReturns, Destroy, TimersFallDue, loopVars
<1>10. CASE AresReturns
  BY <1>4, <1>10 DEF AresReturns
<1>11. CASE UNCHANGED vars
  BY <1>4, <1>11 DEF vars, loopVars
<1>. QED  BY <1>1, <1>2, <1>3, <1>5, <1>6, <1>7, <1>8, <1>9, <1>10, <1>11 DEF Next

\* c-ares is called by no one: then it has a socket exactly when it has a query.
Resting == stack = << >> => ((queries = {}) <=> (open = {}))

LEMMA RestingNext == ASSUME TypeOK, Nested, Resting, [Next]_vars PROVE Resting'
<1>. stack \in Seq(Frames)
  BY DEF TypeOK
<1>1. CASE UNCHANGED <<stack, queries, open>>
  BY <1>1 DEF Resting
<1>2. CASE stack' # << >>
  BY <1>2 DEF Resting
<1>3. ASSUME NEW kind, NEW of, Push(kind, of)
      PROVE  stack' # << >>
  BY <1>3 DEF Push
<1>4. CASE AresReturns
  <2>1. stack # << >> /\ stack' = Tail(stack) /\ UNCHANGED <<queries, open>>
    BY <1>4 DEF AresReturns, InAres, Top
  <2>2. CASE stack' = << >>
    <3>1. Len(stack) = 1
      <4>1. Len(stack) \in Nat /\ Len(stack') = Len(stack) - 1
        BY <2>1, PopIs
      <4>2. Len(stack') = 0
        BY <2>2
      <4>. QED  BY <4>1, <4>2
    <3>. QED  BY <1>4, <2>1, <3>1 DEF AresReturns, Settled, Resting
  <2>. QED  BY <1>2, <2>2
<1>5. CASE CallbackReturns
  <2>1. stack # << >> /\ stack' = Tail(stack) /\ Head(stack).kind = "callback"
    BY <1>5 DEF CallbackReturns, Top
  <2>2. /\ Len(stack) \in Nat \ {0} /\ Len(stack') = Len(stack) - 1
        /\ 1 \in DOMAIN stack /\ Head(stack) = stack[1]
    BY <2>1, PopIs
  <2>3. Len(stack) # 1
    BY <2>1, <2>2 DEF Nested
  <2>. QED  BY <1>2, <2>2, <2>3
<1>6. InAres => stack # << >>
  BY DEF InAres, Top
<1>7. ASSUME NEW n \in Lookups, EndsQuery(n) PROVE Resting'
  BY <1>2, <1>3, <1>6, <1>7, RunCallbackType DEF EndsQuery
<1>8. ASSUME NEW s \in Sockets, NEW wants,
             OpensSocket(s) \/ ClosesSocket(s) \/ WantsEvents(s, wants)
      PROVE  Resting'
  BY <1>2, <1>6, <1>8 DEF OpensSocket, ClosesSocket, WantsEvents
<1>9. CASE GetHostByName \/ Destroy
  BY <1>2, <1>3, <1>9 DEF GetHostByName, Destroy
<1>10. ASSUME NEW t \in Lookups, OnTimer(t) PROVE Resting'
  BY <1>1, <1>2, <1>3, <1>10 DEF OnTimer
<1>11. ASSUME NEW s \in Sockets, NEW events \in SUBSET Events, ProcessFd(s, events)
       PROVE  Resting'
  BY <1>2, <1>3, <1>11 DEF ProcessFd
<1>12. CASE InitChannel \/ TimersFallDue \/ UNCHANGED vars
  BY <1>1, <1>12 DEF InitChannel, TimersFallDue, vars
<1>. QED  BY <1>4, <1>5, <1>7, <1>8, <1>9, <1>10, <1>11, <1>12 DEF Next

-----------------------------------------------------------------------------
(* Where the timers are.                                                   *)

HasFrame(kind) == \E i \in DOMAIN stack : stack[i].kind = kind

LEMMA FramesPushed ==
  ASSUME stack \in Seq(Frames), NEW kind, NEW of, [kind |-> kind, of |-> of] \in Frames,
         Push(kind, of)
  PROVE  \A k : HasFrame(k)' <=> k = kind \/ HasFrame(k)
<1>. SUFFICES ASSUME NEW k PROVE HasFrame(k)' <=> k = kind \/ HasFrame(k)
  OBVIOUS
<1>1. /\ Len(stack) \in Nat /\ DOMAIN stack = 1..Len(stack)
      /\ DOMAIN stack' = 1..(Len(stack) + 1) /\ stack'[1].kind = kind
      /\ \A i \in DOMAIN stack' : i = 1 \/ (i - 1 \in DOMAIN stack /\ stack'[i] = stack[i - 1])
  BY PushIs
<1>2. ASSUME HasFrame(k)' PROVE k = kind \/ HasFrame(k)
  BY <1>1, <1>2 DEF HasFrame
<1>3. ASSUME HasFrame(k) PROVE HasFrame(k)'
  <2>1. PICK i \in DOMAIN stack : stack[i].kind = k
    BY <1>3 DEF HasFrame
  <2>2. i + 1 \in DOMAIN stack' /\ stack'[i + 1] = stack[i]
    BY <1>1, <2>1
  <2>. QED  BY <2>1, <2>2 DEF HasFrame
<1>4. 1 \in DOMAIN stack'
  BY <1>1
<1>. QED  BY <1>1, <1>2, <1>3, <1>4 DEF HasFrame

LEMMA FramesPopped ==
  ASSUME stack \in Seq(Frames), stack # << >>, stack' = Tail(stack)
  PROVE  /\ \A k : HasFrame(k)' => HasFrame(k)
         /\ \A k : HasFrame(k) => HasFrame(k)' \/ Top(k)
         /\ Len(stack) = 1 => \A k : ~HasFrame(k)'
<1>1. /\ Len(stack) \in Nat \ {0} /\ DOMAIN stack = 1..Len(stack)
      /\ DOMAIN stack' = 1..(Len(stack) - 1) /\ Head(stack) = stack[1]
      /\ \A i \in DOMAIN stack' : i + 1 \in DOMAIN stack /\ stack'[i] = stack[i + 1]
  BY PopIs
<1>2. \A k : HasFrame(k)' => HasFrame(k)
  BY <1>1 DEF HasFrame
<1>3. ASSUME NEW k, HasFrame(k) PROVE HasFrame(k)' \/ Top(k)
  <2>1. PICK i \in DOMAIN stack : stack[i].kind = k
    BY <1>3 DEF HasFrame
  <2>2. i = 1 \/ (i - 1 \in DOMAIN stack' /\ stack'[i - 1] = stack[i])
    BY <1>1, <2>1
  <2>. QED  BY <1>1, <2>1, <2>2 DEF HasFrame, Top
<1>4. ASSUME Len(stack) = 1 PROVE \A k : ~HasFrame(k)'
  <2>1. DOMAIN stack' = {}
    BY <1>1, <1>4
  <2>. QED  BY <2>1 DEF HasFrame
<1>. QED  BY <1>2, <1>3, <1>4

LEMMA FramesOfEmpty ==
  /\ stack = << >> => \A k : ~HasFrame(k) /\ ~Top(k)
  /\ stack \in Seq(Frames) => \A k : Top(k) => HasFrame(k)
BY TopIs DEF HasFrame, Top

\* No lookup has begun during another or been answered in gethostbyname.
Calm == {"overlap", "early"} \cap strained = {}

\* While it is calm, the one timer is set when its lookup has left gethostbyname
\* and is the only one the loop has, until an answer removes it; only ares_destroy
\* can meet a timer that the loop has taken.
Timing ==
    /\ channel = "destroyed" => queries = {}
    /\ aborted = "timer" => ~Calm
    /\ aborted = "dangling" => ~Calm \/ "taken" \in strained
    /\ Calm =>
         /\ HasFrame("lookup") =>
              Len(stack) = 1 /\ Top("lookup") /\ Head(stack).of \in queries /\ timer = 0
         /\ HasFrame("lookup") \/ HasFrame("process") => due = {}
         /\ "taken" \in strained => channel = "destroyed" \/ HasFrame("destroy")
         /\ "taken" \notin strained =>
              /\ armed \cup due \subseteq {timer} /\ armed \cap due = {}
              /\ timer # 0 => timer \in queries

LEMMA TimingFrame ==
  ASSUME Timing, UNCHANGED <<channel, timer, stack, queries, armed, due>>,
         aborted' \in {aborted, "handler"}, strained' \in {strained, strained \cup {"sockets"}}
  PROVE  Timing'
BY DEF Timing, Calm, HasFrame, Top

LEMMA TimingNext ==
  ASSUME TypeOK, Nested, Answering, Timing, [Next]_vars
  PROVE  Timing'
<1>. /\ stack \in Seq(Frames) /\ timer \in 0..MaxLookups /\ MaxLookups \in Nat
     /\ armed \in SUBSET Lookups /\ due \in SUBSET Lookups /\ queries \in SUBSET Lookups
     /\ \A n \in Lookups : n \in Nat /\ n >= 1 /\ n # 0
  BY ResolverAssumption DEF TypeOK, Lookups
<1>1. CASE GetHostByName
  <2>1. /\ lookups + 1 \in Lookups /\ channel = "ready" /\ Alive
        /\ queries' = queries \cup {lookups + 1}
        /\ Push("lookup", lookups + 1)
        /\ UNCHANGED <<channel, timer, armed, due, aborted>>
        /\ strained' = IF stack = << >> /\ queries = {} THEN strained
                       ELSE strained \cup {"overlap"}
    BY <1>1 DEF GetHostByName, TypeOK, Lookups, loopVars
  <2>2. channel' # "destroyed" /\ aborted' = "no"
    BY <2>1 DEF Alive
  <2>3. CASE ~Calm'
    BY <2>2, <2>3 DEF Timing
  <2>4. CASE Calm'
    <3>1. stack = << >> /\ queries = {} /\ strained' = strained /\ Calm
      BY <2>1, <2>4 DEF Calm
    <3>2. \A k : ~HasFrame(k)
      BY <3>1, FramesOfEmpty
    <3>3. "taken" \notin strained
      BY <2>1, <3>1, <3>2 DEF Timing
    <3>4. timer = 0 /\ armed = {} /\ due = {}
      BY <3>1, <3>3 DEF Timing
    <3>5. /\ Len(stack') = 1 /\ stack' # << >> /\ Head(stack').kind = "lookup"
          /\ Head(stack').of = lookups + 1
      BY <2>1, <3>1 DEF Push
    <3>6. /\ Top("lookup")' /\ Head(stack').of \in queries'
      BY <2>1, <3>5 DEF Top
    <3>. QED  BY <2>1, <2>2, <3>1, <3>3, <3>4, <3>5, <3>6 DEF Timing
  <2>. QED  BY <2>3, <2>4
<1>2. CASE CallbackReturns
  <2>1. /\ stack # << >> /\ stack' = Tail(stack) /\ Head(stack).kind = "callback"
        /\ UNCHANGED <<channel, timer, queries, armed, due, aborted, strained>>
    BY <1>2 DEF CallbackReturns, Top, loopVars
  <2>2. ~Top("lookup") /\ ~Top("destroy")
    BY <2>1 DEF Top
  <2>3. /\ HasFrame("lookup")' => HasFrame("lookup")
        /\ HasFrame("process")' => HasFrame("process")
        /\ HasFrame("destroy") => HasFrame("destroy")'
    BY <2>1, <2>2, FramesPopped
  <2>4. Calm' <=> Calm
    BY <2>1 DEF Calm
  <2>. QED  BY <2>1, <2>2, <2>3, <2>4 DEF Timing
<1>3. CASE AresReturns
  <2>1. /\ stack # << >> /\ stack' = Tail(stack) /\ Alive
        /\ UNCHANGED <<queries, due, aborted, strained>>
    BY <1>3 DEF AresReturns, InAres, Top
  <2>2. /\ Top("lookup") => armed' = armed \cup {Head(stack).of} /\ timer' = Head(stack).of
        /\ ~Top("lookup") => UNCHANGED <<armed, timer>>
        /\ Top("destroy") => channel' = "destroyed" /\ queries = {}
        /\ ~Top("destroy") => UNCHANGED channel
    BY <1>3 DEF AresReturns, SetTimer
  <2>3. Calm' <=> Calm
    BY <2>1 DEF Calm
  <2>4. /\ HasFrame("lookup")' => HasFrame("lookup")
        /\ HasFrame("process")' => HasFrame("process")
        /\ HasFrame("destroy") => HasFrame("destroy")' \/ Top("destroy")
        /\ Len(stack) = 1 => ~HasFrame("lookup")'
        /\ Top("lookup") => HasFrame("lookup")
    BY <2>1, FramesPopped, FramesOfEmpty
  <2>5. CASE ~Calm
    BY <2>1, <2>2, <2>3, <2>5 DEF Timing, Alive
  <2>6. CASE Calm /\ Top("lookup")
    <3>1. /\ Len(stack) = 1 /\ Head(stack).of \in queries /\ timer = 0 /\ due = {}
          /\ ~HasFrame("lookup")' /\ ~Top("destroy")
      BY <2>4, <2>6 DEF Timing, Top
    <3>2. "taken" \notin strained => armed = {}
      BY <2>6, <3>1 DEF Timing
    <3>. QED  BY <2>1, <2>2, <2>3, <2>4, <2>6, <3>1, <3>2 DEF Timing
  <2>7. CASE Calm /\ ~Top("lookup")
    <3>1. ~HasFrame("lookup")'
      BY <2>4, <2>7 DEF Timing
    <3>. QED  BY <2>1, <2>2, <2>3, <2>4, <2>7, <3>1 DEF Timing, Alive
  <2>. QED  BY <2>5, <2>6, <2>7
<1>4. ASSUME NEW n \in Lookups, EndsQuery(n) PROVE Timing'
  <2>1. /\ InAres /\ Alive /\ queries' = queries \ {n}
        /\ UNCHANGED <<channel, due, aborted>>
        /\ strained' = strained \cup (IF Top("lookup") THEN {"early"} ELSE {})
                                \cup (IF timer \in due THEN {"taken"} ELSE {})
    BY <1>4 DEF EndsQuery, InAres
  <2>2. timer' = 0 /\ armed' = armed \ {timer}
    BY <1>4, RunCallbackType DEF EndsQuery
  <2>3. aborted' = "no" /\ (channel' = "destroyed" => queries' = {})
    BY <2>1 DEF Alive, Timing
  <2>4. CASE ~Calm'
    BY <2>3, <2>4 DEF Timing
  <2>5. CASE Calm'
    <3>1. Calm /\ ~Top("lookup")
      BY <2>1, <2>5 DEF Calm
    <3>2. ~HasFrame("lookup")
      BY <3>1 DEF Timing
    <3>3. \A k \in {"lookup", "process", "destroy"} : HasFrame(k)' <=> HasFrame(k)
      <4>1. (cb \in Lookups /\ Push("callback", cb)) \/ UNCHANGED stack
        BY <1>4, RunCallbackType DEF EndsQuery
      <4>2. CASE UNCHANGED stack
        BY <4>2 DEF HasFrame
      <4>3. CASE cb \in Lookups /\ Push("callback", cb)
        BY <4>3, FramesAre, FramesPushed
      <4>. QED  BY <4>1, <4>2, <4>3
    <3>4. "taken" \in strained' => "taken" \in strained \/ (timer \in due /\ Top("destroy"))
      <4>1. Top("process") => HasFrame("process")
        BY FramesOfEmpty
      <4>2. Top("process") => due = {}
        BY <3>1, <4>1 DEF Timing
      <4>. QED  BY <2>1, <3>1, <4>2 DEF InAres
    <3>5. "taken" \in strained' => channel = "destroyed" \/ HasFrame("destroy")
      BY <3>1, <3>4, FramesOfEmpty DEF Timing
    <3>6. "taken" \notin strained' => "taken" \notin strained /\ armed' = {} /\ due = {}
      <4>1. "taken" \notin strained' => "taken" \notin strained /\ timer \notin due
        BY <2>1
      <4>. QED  BY <2>2, <3>1, <4>1 DEF Timing
    <3>. QED  BY <2>1, <2>2, <2>3, <3>1, <3>2, <3>3, <3>5, <3>6 DEF Timing
  <2>. QED  BY <2>4, <2>5
<1>5. CASE Destroy
  <2>1. /\ stack = << >> /\ Alive /\ channel = "ready" /\ Push("destroy", 0)
        /\ UNCHANGED <<channel, timer, queries, armed, due, aborted, strained>>
    BY <1>5 DEF Destroy, loopVars
  <2>2. \A k : HasFrame(k)' <=> k = "destroy" \/ HasFrame(k)
    BY <2>1, FramesAre, FramesPushed DEF Frames
  <2>3. ~HasFrame("lookup")' /\ ~HasFrame("process")' /\ HasFrame("destroy")'
    BY <2>1, <2>2, FramesOfEmpty
  <2>4. Calm' <=> Calm
    BY <2>1 DEF Calm
  <2>. QED  BY <2>1, <2>3, <2>4 DEF Timing, Alive
<1>6. ASSUME NEW t \in Lookups, OnTimer(t) PROVE Timing'
  <2>1. /\ stack = << >> /\ t \in due /\ due' = due \ {t} /\ Alive
        /\ UNCHANGED <<channel, queries, armed, strained>>
        /\ channel = "ready" \/ channel = "destroyed"
    BY <1>6 DEF OnTimer
  <2>2. \A k : ~HasFrame(k) /\ ~Top(k)
    BY <2>1, FramesOfEmpty
  <2>3. Calm' <=> Calm
    BY <2>1 DEF Calm
  <2>4. CASE ~Calm
    BY <2>1, <2>3, <2>4 DEF Timing
  <2>5. CASE Calm /\ channel = "destroyed"
    <3>1. "taken" \in strained
      <4>1. queries = {}
        BY <2>5 DEF Timing
      <4>. QED  BY <2>1, <2>5, <4>1 DEF Timing
    <3>2. aborted' = "dangling" /\ UNCHANGED <<timer, stack>>
      BY <1>6, <2>5 DEF OnTimer
    <3>3. \A k : ~HasFrame(k)'
      BY <2>2, <3>2 DEF HasFrame
    <3>. QED  BY <2>1, <2>3, <2>5, <3>1, <3>2, <3>3 DEF Timing
  <2>6. CASE Calm /\ channel = "ready"
    <3>1. "taken" \notin strained
      BY <2>2, <2>6 DEF Timing
    <3>2. t = timer /\ due' = {} /\ armed = {}
      BY <2>1, <2>6, <3>1 DEF Timing
    <3>3. timer' = 0 /\ Push("process", 0) /\ UNCHANGED aborted
      BY <1>6, <2>6, <3>2 DEF OnTimer
    <3>4. [kind |-> "process", of |-> 0] \in Frames
      BY DEF Frames
    <3>5. ~HasFrame("lookup")'
      BY <2>2, <3>3, <3>4, FramesPushed
    <3>. QED  BY <2>1, <2>3, <2>6, <3>1, <3>2, <3>3, <3>5 DEF Timing, Alive
  <2>. QED  BY <2>1, <2>4, <2>5, <2>6
<1>7. ASSUME NEW s \in Sockets, NEW events \in SUBSET Events, ProcessFd(s, events)
      PROVE  Timing'
  <2>1. /\ stack = << >> /\ due = {} /\ Alive
        /\ UNCHANGED <<channel, timer, queries, armed, due, aborted, strained>>
    BY <1>7 DEF ProcessFd, loopVars
  <2>2. ~HasFrame("lookup")' /\ ~HasFrame("destroy")
    <3>1. PICK k \in {0, 1} : Push("process", k)
      BY <1>7 DEF ProcessFd
    <3>2. [kind |-> "process", of |-> k] \in Frames
      BY DEF Frames
    <3>. QED  BY <2>1, <3>1, <3>2, FramesOfEmpty, FramesPushed
  <2>3. Calm' <=> Calm
    BY <2>1 DEF Calm
  <2>. QED  BY <2>1, <2>2, <2>3 DEF Timing, Alive
<1>8. CASE TimersFallDue
  <2>1. /\ stack = << >> /\ due = {} /\ Alive
        /\ UNCHANGED <<channel, timer, stack, queries, aborted, strained>>
    BY <1>8 DEF TimersFallDue
  <2>2. PICK some \in SUBSET armed : due' = some /\ armed' = armed \ some
    BY <1>8 DEF TimersFallDue
  <2>3. armed' \cup due' = armed \cup due /\ armed' \cap due' = {}
    BY <2>1, <2>2
  <2>4. \A k : ~HasFrame(k) /\ ~HasFrame(k)'
    BY <2>1, FramesOfEmpty DEF HasFrame
  <2>5. Calm' <=> Calm
    BY <2>1 DEF Calm
  <2>. QED  BY <2>1, <2>3, <2>4, <2>5 DEF Timing
<1>9. CASE InitChannel
  <2>1. /\ stack = << >> /\ Alive /\ channel = "none" /\ channel' = "ready"
        /\ UNCHANGED <<timer, stack, queries, armed, due, aborted, strained>>
    BY <1>9 DEF InitChannel, loopVars
  <2>2. \A k : ~HasFrame(k) /\ ~HasFrame(k)'
    BY <2>1, FramesOfEmpty DEF HasFrame
  <2>3. Calm' <=> Calm
    BY <2>1 DEF Calm
  <2>. QED  BY <2>1, <2>2, <2>3 DEF Timing
<1>10. ASSUME NEW s \in Sockets, OpensSocket(s) PROVE Timing'
  <2>1. aborted' \in {aborted, "handler"}
    BY <1>10 DEF OpensSocket, SockState
  <2>. QED  BY <1>10, <2>1, TimingFrame DEF OpensSocket
<1>11. ASSUME NEW s \in Sockets, NEW wants, ClosesSocket(s) \/ WantsEvents(s, wants)
       PROVE  Timing'
  <2>1. aborted' \in {aborted, "handler"}
    BY <1>11 DEF ClosesSocket, WantsEvents, SockState
  <2>. QED  BY <1>11, <2>1, TimingFrame DEF ClosesSocket, WantsEvents
<1>12. CASE UNCHANGED vars
  BY <1>12, TimingFrame DEF vars, loopVars
<1>. QED  BY <1>1, <1>2, <1>3, <1>4, <1>5, <1>6, <1>7, <1>8, <1>9, <1>10, <1>11, <1>12 DEF Next

-----------------------------------------------------------------------------
(* The invariant, and what it promises.                                    *)

ResolverInv == TypeOK /\ Nested /\ Answering /\ OneSocket /\ Resting /\ Timing

LEMMA ResolverInvInit == Init => ResolverInv
<1>. SUFFICES ASSUME Init PROVE OneSocket /\ Resting /\ Timing
  BY TypeInit, ShapeInit DEF ResolverInv
<1>1. \A k : ~HasFrame(k)
  BY FramesOfEmpty DEF Init
<1>. QED  BY <1>1 DEF Init, OneSocket, Resting, Timing

LEMMA ResolverInvNext == ASSUME ResolverInv, [Next]_vars PROVE ResolverInv'
BY TypeNext, NestedNext, AnsweringNext, OneSocketNext, RestingNext, TimingNext
   DEF ResolverInv

\* The asserts of on_timer and addHandler fail, and a timer is called after
\* ~Resolver, for the reasons named and no other: with one lookup at a time,
\* answered by the network, none of them can.
THEOREM AssertsAreExplained == Spec => []AssertsExplained
<1>1. ResolverInv => AssertsExplained
  BY DEF ResolverInv, Timing, Calm, OneSocket, AssertsExplained
<1>. QED  BY <1>1, ResolverInvInit, ResolverInvNext, PTL DEF Spec

\* Between lookups nothing of the resolver is left in the loop.
THEOREM IdleStaysClean == Spec => []IdleIsClean
<1>1. ASSUME ResolverInv PROVE IdleIsClean
  <2>. SUFFICES ASSUME stack = << >>, queries = {}
                PROVE  /\ "sockets" \notin strained => handlers = {} /\ state = {}
                       /\ strained = {} => armed = {} /\ timer = 0
    BY DEF IdleIsClean
  <2>1. open = {}
    BY <1>1 DEF ResolverInv, Resting
  <2>2. strained = {} => armed \subseteq {timer} /\ timer = 0
    BY <1>1 DEF ResolverInv, Timing, Calm
  <2>3. armed \subseteq Lookups /\ 0 \notin Lookups
    BY <1>1 DEF ResolverInv, TypeOK, Lookups
  <2>. QED  BY <1>1, <2>1, <2>2, <2>3 DEF ResolverInv, OneSocket
<1>. QED  BY <1>1, ResolverInvInit, ResolverInvNext, PTL DEF Spec
=============================================================================
