---------------------------- MODULE IOLoopProofs ----------------------------
(***************************************************************************)
(* The IOLoop counts its handlers, runs callbacks in the order they were    *)
(* queued and ends only for a reason, for any number of descriptors,        *)
(* callbacks and timers.  The invariant needs one fact that the properties  *)
(* do not state: outside of the callbacks phase start()'s local batch is     *)
(* empty, so that the swap cannot overtake a callback.                     *)
(*                                                                         *)
(* The last two parts are about the modules that run in such a loop: App     *)
(* ends stopped (EndsStopped), and every handler of the loop of a TcpServer  *)
(* is for the file it was registered for (HandlersOwnTheirFiles).           *)
(***************************************************************************)
EXTENDS App, TcpServer, FiniteSetTheorems, TLAPS

LoopInv ==
    /\ callbacks \in Seq(Callbacks)
    /\ cbBatch \in Seq(Callbacks)
    /\ phase # "callbacks" => cbBatch = << >>
    /\ IsFiniteSet(handlers)
    /\ HandlersCounted

-----------------------------------------------------------------------------
(* The handler table.                                                      *)

LEMMA AddHandlerCounts ==
  ASSUME LoopInv, NEW fd, NEW request, NEW watched \in BOOLEAN,
         AddHandler(fd, request, watched)
  PROVE  LoopInv'
<1>1. /\ fd \notin handlers
      /\ handlers' = handlers \cup {fd}
      /\ handle_num' = handle_num + 1
      /\ UNCHANGED <<callbacks, cbBatch, phase>>
  BY DEF AddHandler
<1>2. IsFiniteSet(handlers') /\ Cardinality(handlers') = Cardinality(handlers) + 1
  BY <1>1, FS_AddElement DEF LoopInv
<1>3. Watched' \subseteq Watched \cup {fd}
  BY DEF AddHandler, Watched
<1>. QED  BY <1>1, <1>2, <1>3 DEF LoopInv, HandlersCounted

LEMMA RemoveHandlerCounts ==
  ASSUME LoopInv, NEW fd, RemoveHandler(fd)
  PROVE  LoopInv'
<1>1. /\ fd \in handlers
      /\ handlers' = handlers \ {fd}
      /\ handle_num' = handle_num - 1
      /\ UNCHANGED <<callbacks, cbBatch, phase>>
  BY DEF RemoveHandler
<1>2. IsFiniteSet(handlers') /\ Cardinality(handlers') = Cardinality(handlers) - 1
  BY <1>1, FS_RemoveElement DEF LoopInv
<1>3. Watched' = Watched \ {fd}
  BY DEF RemoveHandler, Watched
<1>. QED  BY <1>1, <1>2, <1>3 DEF LoopInv, HandlersCounted

LEMMA UpdateHandlerCounts ==
  ASSUME LoopInv, NEW fd, NEW request, UpdateHandler(fd, request)
  PROVE  LoopInv'
<1>1. Watched' = Watched
  BY DEF UpdateHandler, Watched
<1>2. UNCHANGED <<callbacks, cbBatch, phase, handlers, handle_num>>
  BY DEF UpdateHandler, loopVars
<1>. QED  BY <1>1, <1>2 DEF LoopInv, HandlersCounted

-----------------------------------------------------------------------------
(* The callbacks.                                                          *)

LEMMA AddCallbackAppends ==
  ASSUME LoopInv, NEW cb \in Callbacks, AddCallback(cb)
  PROVE  LoopInv' /\ Pending' = Append(Pending, cb)
<1>1. /\ callbacks' = Append(callbacks, cb)
      /\ UNCHANGED <<cbBatch, phase, handlers, handle_num, interest>>
  BY DEF AddCallback, kernelVars
<1>2. LoopInv'
  BY <1>1 DEF LoopInv, HandlersCounted, Watched
<1>3. Pending' = Append(Pending, cb)
  BY <1>1 DEF LoopInv, Pending
<1>. QED  BY <1>2, <1>3

LEMMA SwapKeepsPending ==
  ASSUME LoopInv, SwapCallbacks
  PROVE  LoopInv' /\ Pending' = Pending
<1>1. /\ cbBatch = << >>
      /\ cbBatch' = callbacks /\ callbacks' = << >>
      /\ phase' = "callbacks"
      /\ UNCHANGED <<handlers, handle_num, interest>>
  BY DEF LoopInv, SwapCallbacks, At, kernelVars
<1>2. LoopInv'
  BY <1>1 DEF LoopInv, HandlersCounted, Watched
<1>3. Pending' = Pending
  BY <1>1 DEF LoopInv, Pending
<1>. QED  BY <1>2, <1>3

LEMMA RunCallbackTakesFirst ==
  ASSUME LoopInv, RunCallback
  PROVE  /\ LoopInv'
         /\ Pending # << >> /\ Pending' = Tail(Pending)
         /\ frame' = "callback" /\ current' = Head(Pending)
<1>1. /\ cbBatch # << >> /\ cbBatch' = Tail(cbBatch)
      /\ phase = "callbacks"
      /\ frame' = "callback" /\ current' = Head(cbBatch)
      /\ UNCHANGED <<callbacks, phase, handlers, handle_num, interest>>
  BY DEF RunCallback, At, kernelVars
<1>2. LoopInv'
  BY <1>1 DEF LoopInv, HandlersCounted, Watched
<1>3. Pending # << >> /\ Pending' = Tail(Pending) /\ Head(Pending) = Head(cbBatch)
  BY <1>1 DEF LoopInv, Pending
<1>. QED  BY <1>1, <1>2, <1>3

-----------------------------------------------------------------------------
(* The other steps.                                                        *)

\* A step that leaves the callbacks and the handlers alone and does not leave
\* the callbacks phase with some of the batch to run.
LEMMA Elsewhere ==
  ASSUME LoopInv, UNCHANGED <<callbacks, cbBatch, handlers, handle_num, interest>>,
         phase' = phase \/ cbBatch = << >>
  PROVE  LoopInv' /\ Pending' = Pending
BY DEF LoopInv, HandlersCounted, Watched, Pending

Quiet ==
    /\ UNCHANGED <<callbacks, cbBatch, handlers, handle_num, interest>>
    /\ phase' = phase \/ cbBatch = << >>

LEMMA ApiElsewhere ==
  ASSUME LoopInv,
         \/ \E delay \in Delays : AddTimeout(delay)
         \/ \E id \in 1..(IdModulus - 1) : RemoveTimeout(id)
         \/ Stop \/ Start \/ Return
  PROVE  Quiet /\ (phase = "out" \/ phase' # "out")
BY DEF LoopInv, Quiet, AddTimeout, RemoveTimeout, Stop, Start, Return,
       loopVars, kernelVars

LEMMA LoopElsewhere ==
  ASSUME LoopInv,
         \/ RunTimers \/ FireTimer \/ TimersDone \/ Exit \/ EnterPoll \/ PollEvents
         \/ PollTimedOut \/ PollInterrupted \/ Dispatch \/ DispatchDone
  PROVE  Quiet
BY DEF LoopInv, Quiet, RunTimers, FireTimer, TimersDone, Exit, EnterPoll, PollEvents,
       PollTimedOut, PollInterrupted, PollNothing, Dispatch, DispatchDone, At, kernelVars

LEMMA KernelElsewhere ==
  ASSUME LoopInv, KernelStep
  PROVE  Quiet /\ phase' = phase
BY DEF LoopInv, Quiet, KernelStep, Tick, BecomesReady, Drain, loopVars

\* What a step of the loop does to the callbacks: the three forms of
\* CallbacksFIFO.
FIFOStep ==
    \/ Pending' = Pending
    \/ \E cb \in Callbacks : Pending' = Append(Pending, cb)
    \/ /\ Pending # << >>
       /\ Pending' = Tail(Pending)
       /\ frame' = "callback"
       /\ current' = Head(Pending)

LEMMA HandlersAside ==
  ASSUME \/ \E fd \in FDs, request \in Requests, watched \in BOOLEAN :
               AddHandler(fd, request, watched)
         \/ \E fd \in FDs : AddSignalHandler(fd)
         \/ \E fd \in FDs, request \in Requests : UpdateHandler(fd, request)
         \/ \E fd \in FDs : RemoveHandler(fd)
  PROVE  Pending' = Pending /\ phase' = phase
BY DEF AddHandler, AddSignalHandler, UpdateHandler, RemoveHandler, loopVars, Pending

LEMMA NextInv ==
  ASSUME LoopInv, [Next]_vars
  PROVE  LoopInv' /\ FIFOStep
<1>1. ASSUME NEW fd \in FDs, NEW request \in Requests, NEW watched \in BOOLEAN,
             AddHandler(fd, request, watched)
      PROVE  LoopInv' /\ FIFOStep
  BY <1>1, AddHandlerCounts, HandlersAside DEF FIFOStep
<1>2. ASSUME NEW fd \in FDs, AddSignalHandler(fd)
      PROVE  LoopInv' /\ FIFOStep
  BY <1>2, AddHandlerCounts, HandlersAside DEF FIFOStep, AddSignalHandler
<1>3. ASSUME NEW fd \in FDs, NEW request \in Requests, UpdateHandler(fd, request)
      PROVE  LoopInv' /\ FIFOStep
  BY <1>3, UpdateHandlerCounts, HandlersAside DEF FIFOStep
<1>4. ASSUME NEW fd \in FDs, RemoveHandler(fd)
      PROVE  LoopInv' /\ FIFOStep
  BY <1>4, RemoveHandlerCounts, HandlersAside DEF FIFOStep
<1>5. ASSUME NEW cb \in Callbacks, AddCallback(cb)
      PROVE  LoopInv' /\ FIFOStep
  BY <1>5, AddCallbackAppends DEF FIFOStep
<1>6. CASE SwapCallbacks
  BY <1>6, SwapKeepsPending DEF FIFOStep
<1>7. CASE RunCallback
  BY <1>7, RunCallbackTakesFirst DEF FIFOStep
<1>8. CASE Quiet
  BY <1>8, Elsewhere DEF FIFOStep, Quiet
<1>9. CASE UNCHANGED vars
  BY <1>9, Elsewhere DEF FIFOStep, vars, loopVars, kernelVars
<1>10. CASE ApiStep
  <2>1. CASE \/ \E delay \in Delays : AddTimeout(delay)
             \/ \E id \in 1..(IdModulus - 1) : RemoveTimeout(id)
             \/ Stop \/ Start
    BY <2>1, <1>8, ApiElsewhere
  <2>. QED  BY <1>10, <2>1, <1>1, <1>2, <1>3, <1>4, <1>5 DEF ApiStep
<1>11. CASE Return
  BY <1>11, <1>8, ApiElsewhere
<1>12. CASE LoopStep \/ PollInterrupted
  BY <1>12, <1>6, <1>7, <1>8, LoopElsewhere DEF LoopStep
<1>13. CASE KernelStep
  BY <1>13, <1>8, KernelElsewhere
<1>. QED  BY <1>9, <1>10, <1>11, <1>12, <1>13 DEF Next

LEMMA InitLoopInv == Init => LoopInv
<1>. SUFFICES ASSUME Init PROVE LoopInv
  OBVIOUS
<1>1. IsFiniteSet({}) /\ Cardinality({}) = 0
  BY FS_EmptySet
<1>2. Watched = {}
  BY DEF Init, Watched
<1>. QED  BY <1>1, <1>2 DEF Init, LoopInv, HandlersCounted

THEOREM Invariance == Spec => []LoopInv
<1>1. LoopInv /\ [Next]_vars => LoopInv'
  BY NextInv
<1>. QED  BY <1>1, InitLoopInv, PTL DEF Spec

-----------------------------------------------------------------------------

\* handle_num_ is the number of registered handlers, and epoll watches none but
\* them, through every order of registrations, failures and removals.
THEOREM CountIsRight == Spec => []HandlersCounted
<1>1. LoopInv => HandlersCounted
  BY DEF LoopInv
<1>. QED  BY <1>1, Invariance, PTL

\* Callbacks run once each and in the order they were queued.
THEOREM CallbacksInOrder == Spec => CallbacksFIFO
<1>1. LoopInv /\ [Next]_vars => FIFOStep
  BY NextInv
<1>. QED  BY <1>1, Invariance, PTL DEF Spec, CallbacksFIFO, FIFOStep

\* start() returns only after stop(), or with no handler, callback or timer left.
THEOREM EndsForAReason == Spec => ExitsForAReason
<1>1. ASSUME LoopInv, [Next]_vars, InLoop, phase' = "out"
      PROVE  ~running \/ (handlers = {} /\ Pending = << >> /\ timeouts = {})
  <2>1. Exit
    <3>1. CASE ApiStep
      BY <1>1, <3>1, HandlersAside, ApiElsewhere DEF ApiStep, InLoop, AddCallback
    <3>2. CASE Return
      BY <1>1, <3>2, ApiElsewhere DEF InLoop
    <3>3. CASE LoopStep \/ PollInterrupted
      BY <1>1, <3>3 DEF LoopStep, SwapCallbacks, RunCallback, RunTimers, FireTimer,
         TimersDone, EnterPoll, PollEvents, PollTimedOut, PollInterrupted, PollNothing,
         Dispatch, DispatchDone, At, InLoop
    <3>4. CASE KernelStep
      BY <1>1, <3>4, KernelElsewhere DEF InLoop
    <3>5. CASE UNCHANGED vars
      BY <1>1, <3>5 DEF InLoop, vars, loopVars
    <3>. QED  BY <1>1, <3>1, <3>2, <3>3, <3>4, <3>5 DEF Next
  <2>2. cbBatch = << >>
    BY <1>1, <2>1 DEF Exit, At, LoopInv
  <2>3. CASE NothingToDo
    <3>1. handlers = {}
      <4>1. Cardinality(handlers) \in Nat /\ Cardinality(handlers) <= 0
        BY <1>1, <2>3, FS_CardinalityType DEF LoopInv, HandlersCounted, NothingToDo
      <4>2. Cardinality(handlers) = 0
        BY <4>1
      <4>. QED  BY <1>1, <4>2, FS_EmptySet DEF LoopInv
    <3>. QED  BY <2>2, <2>3, <3>1 DEF NothingToDo, Pending
  <2>. QED  BY <2>1, <2>3 DEF Exit
<1>. QED  BY <1>1, Invariance, PTL DEF Spec, ExitsForAReason

-----------------------------------------------------------------------------
(* The timers of the loop are a TimeoutQueue.                              *)

LEMMA AddType ==
  ASSUME TQ!TypeOK, clock \in Int, NEW delay \in Delays, TQ!Add(clock, delay)
  PROVE  TQ!TypeOK'
<1>. USE IOLoopAssumption
<1>. DEFINE e == [id |-> TQ!IdOf(nextId), expiration |-> clock + delay, stamp |-> adds + 1]
<1>3. e \in TQ!Event /\ TQ!After(e.id) \in 0..(IdModulus - 1)
  BY DEF TQ!TypeOK, TQ!Event, TQ!IdOf, TQ!After
<1>4. TQ!TypeOK'
  <2>1. /\ timeouts' \in {timeouts, timeouts \cup {e}} /\ dropped' \in {dropped, dropped \cup {e}}
        /\ nextId' = TQ!After(e.id) /\ adds' = adds + 1
        /\ during' \in {{}, during \cup {adds + 1}}
        /\ UNCHANGED <<run, batch, called, done, erased>>
    BY DEF TQ!Add
  <2>. HIDE DEF e
  <2>2. timeouts' \subseteq TQ!Event /\ dropped' \subseteq TQ!Event
    BY <1>3, <2>1 DEF TQ!TypeOK
  <2>3. adds' \in Nat /\ nextId' \in 0..(IdModulus - 1)
    BY <1>3, <2>1 DEF TQ!TypeOK
  <2>4. during' \subseteq Nat
    <3>1. during \subseteq Nat /\ adds + 1 \in Nat
      BY DEF TQ!TypeOK
    <3>2. during' = {} \/ during' = during \cup {adds + 1}
      BY <2>1
    <3>. QED  BY <3>1, <3>2
  <2>. QED  BY <2>1, <2>2, <2>3, <2>4 DEF TQ!TypeOK
<1>. QED  BY <1>4

LEMMA TimersType ==
  ASSUME TQ!TypeOK,
         \/ \E id \in Int : TQ!Erase(id)
         \/ TQ!StartRun("once", clock) /\ clock \in Int
         \/ TQ!Fire
         \/ TQ!EndRun
         \/ UNCHANGED tqVars
  PROVE  TQ!TypeOK'
<1>1. ASSUME NEW id \in Int, TQ!Erase(id) PROVE TQ!TypeOK'
  BY <1>1 DEF TQ!Erase, TQ!TypeOK
<1>2. CASE TQ!StartRun("once", clock) /\ clock \in Int
  BY <1>2 DEF TQ!StartRun, TQ!TypeOK, TQ!Due, TQ!history
<1>3. CASE TQ!Fire
  <2>1. PICK e \in batch : batch' = batch \ {e} /\ called' = Append(called, e)
    BY <1>3 DEF TQ!Fire
  <2>2. called' \in Seq(TQ!Event) /\ batch' \subseteq TQ!Event
    BY <2>1 DEF TQ!TypeOK
  <2>3. run' = [run EXCEPT !.calling = TRUE]
        /\ UNCHANGED <<timeouts, nextId, adds, during, done, erased, dropped>>
    BY <1>3 DEF TQ!Fire
  <2>. QED  BY <2>2, <2>3 DEF TQ!TypeOK
<1>4. CASE TQ!EndRun
  <2>1. TQ!CalledEvents \subseteq TQ!Event
    BY DEF TQ!CalledEvents, TQ!TypeOK
  <2>. QED  BY <1>4, <2>1 DEF TQ!EndRun, TQ!TypeOK, TQ!Idle
<1>5. CASE UNCHANGED tqVars
  BY <1>5 DEF tqVars, TQ!TypeOK
<1>. QED  BY <1>1, <1>2, <1>3, <1>4, <1>5

\* The part of TypeOK that is about the loop itself; epoll_wait is not
\* entered with application code on the stack.
LoopType ==
    /\ running \in BOOLEAN
    /\ callbacks \in Seq(Callbacks)
    /\ handlers \subseteq FDs
    /\ handle_num \in Int
    /\ phase \in {"out", "top", "callbacks", "timers", "check", "poll", "dispatch"}
    /\ frame \in {None, "main", "callback", "timer", "handler"}
    /\ current \in FDs \cup Callbacks \cup {None}
    /\ cbBatch \in Seq(Callbacks)
    /\ deadline \in Int
    /\ clock \in 0..MaxTime
    /\ phase = "poll" => frame = None

KernelType ==
    /\ Watched \subseteq FDs
    /\ \A fd \in Watched : interest[fd] \subseteq {"READ", "WRITE", "ERROR"}
    /\ ready \in [FDs -> SUBSET Conditions]

LEMMA InterestType ==
  ASSUME KernelType, [Next]_vars
  PROVE  KernelType'
<1>. USE IOLoopAssumption DEF KernelType, Watched
<1>1. ASSUME NEW fd \in FDs, NEW request \in Requests \cup {{"READ"}}, NEW watched \in BOOLEAN,
             AddHandler(fd, request, watched)
      PROVE  KernelType'
  <2>1. request \subseteq {"READ", "WRITE"} /\ UNCHANGED ready
    BY <1>1 DEF AddHandler
  <2>. QED  BY <1>1, <2>1 DEF AddHandler
<1>2. ASSUME NEW fd \in FDs, NEW request \in Requests, UpdateHandler(fd, request)
      PROVE  KernelType'
  <2>1. request \subseteq {"READ", "WRITE"} /\ UNCHANGED ready
    BY <1>2 DEF UpdateHandler
  <2>. QED  BY <1>2, <2>1 DEF UpdateHandler
<1>3. ASSUME NEW fd \in FDs, RemoveHandler(fd)
      PROVE  KernelType'
  BY <1>3 DEF RemoveHandler
<1>4. CASE UNCHANGED <<interest, ready>>
  BY <1>4
<1>5. ASSUME NEW fd \in FDs, NEW e \in Conditions, BecomesReady(fd, e)
      PROVE  KernelType'
  BY <1>5 DEF BecomesReady
<1>6. ASSUME NEW fd \in FDs, Drain(fd)
      PROVE  KernelType'
  BY <1>6 DEF Drain
<1>7. CASE ApiStep
  <2>1. CASE \/ \E cb \in Callbacks : AddCallback(cb)
             \/ \E delay \in Delays : AddTimeout(delay)
             \/ \E id \in 1..(IdModulus - 1) : RemoveTimeout(id)
             \/ Stop \/ Start
    BY <2>1, <1>4 DEF AddCallback, AddTimeout, RemoveTimeout, Stop, Start, kernelVars
  <2>2. ASSUME NEW fd \in FDs, AddSignalHandler(fd)
        PROVE  KernelType'
    <3>1. AddHandler(fd, {"READ"}, TRUE)
      BY <2>2 DEF AddSignalHandler
    <3>. QED  BY <1>1, <3>1
  <2>3. ASSUME NEW fd \in FDs, NEW request \in Requests, NEW watched \in BOOLEAN,
               AddHandler(fd, request, watched)
        PROVE  KernelType'
    BY <1>1, <2>3
  <2>. HIDE DEF KernelType
  <2>. QED  BY <1>7, <2>1, <2>2, <2>3, <1>2, <1>3 DEF ApiStep
<1>8. CASE Return \/ LoopStep \/ PollInterrupted
  BY <1>8, <1>4 DEF LoopStep, Return, SwapCallbacks, RunCallback, RunTimers, FireTimer,
     TimersDone, Exit, EnterPoll, PollEvents, PollTimedOut, PollInterrupted, PollNothing,
     Dispatch, DispatchDone, kernelVars
<1>9. CASE KernelStep
  BY <1>9, <1>4, <1>5, <1>6 DEF KernelStep, Tick
<1>10. CASE UNCHANGED vars
  BY <1>10, <1>4 DEF vars, kernelVars
<1>. QED  BY <1>7, <1>8, <1>9, <1>10 DEF Next

LEMMA NextExpirationType ==
  ASSUME TQ!TypeOK, \A T \in SUBSET timeouts :
                      T # {} => \E m \in T : \A e \in T : m.expiration <= e.expiration
  PROVE  /\ TQ!NextExpiration \in Int
         /\ \A e \in timeouts : TQ!NextExpiration <= e.expiration
<1>1. CASE timeouts = {}
  BY <1>1, IOLoopAssumption DEF TQ!NextExpiration
<1>2. CASE timeouts # {}
  <2>1. PICK m \in timeouts : \A e \in timeouts : m.expiration <= e.expiration
    BY <1>2
  <2>. DEFINE Ts == {e.expiration : e \in timeouts}
              t == CHOOSE t \in Ts : \A e \in timeouts : t <= e.expiration
  <2>2. t \in Ts /\ \A e \in timeouts : t <= e.expiration
    BY <2>1
  <2>3. Ts \subseteq Int
    BY DEF TQ!TypeOK, TQ!Event
  <2>4. TQ!NextExpiration = t
    BY <1>2 DEF TQ!NextExpiration
  <2>. HIDE DEF t, Ts
  <2>. QED  BY <2>2, <2>3, <2>4
<1>. QED  BY <1>1, <1>2

LEMMA LoopTypeNext ==
  ASSUME LoopType, TQ!NextExpiration \in Int, [Next]_vars
  PROVE  LoopType'
<1>. USE IOLoopAssumption DEF LoopType
<1>1. CASE ApiStep
  <2>1. ASSUME NEW cb \in Callbacks, AddCallback(cb)
        PROVE  LoopType'
    <3>1. callbacks' = Append(callbacks, cb)
          /\ UNCHANGED <<running, handlers, handle_num, phase, frame, current, cbBatch,
                         deadline, clock>>
      BY <2>1 DEF AddCallback, kernelVars
    <3>. QED  BY <3>1
  <2>2. ASSUME NEW fd \in FDs, NEW request, NEW watched, AddHandler(fd, request, watched)
        PROVE  LoopType'
    BY <2>2 DEF AddHandler
  <2>3. ASSUME NEW fd \in FDs, RemoveHandler(fd)
        PROVE  LoopType'
    BY <2>3 DEF RemoveHandler
  <2>4. CASE \/ \E fd \in FDs, request \in Requests : UpdateHandler(fd, request)
             \/ \E delay \in Delays : AddTimeout(delay)
             \/ \E id \in 1..(IdModulus - 1) : RemoveTimeout(id)
    BY <2>4 DEF UpdateHandler, AddTimeout, RemoveTimeout, loopVars, kernelVars
  <2>5. CASE Stop \/ Start
    BY <2>5 DEF Stop, Start, kernelVars
  <2>. QED  BY <1>1, <2>1, <2>2, <2>3, <2>4, <2>5 DEF ApiStep, AddSignalHandler
<1>2. CASE SwapCallbacks
  BY <1>2 DEF SwapCallbacks, At, kernelVars
<1>3. CASE RunCallback
  BY <1>3 DEF RunCallback, At, kernelVars
<1>4. CASE EnterPoll
  <2>1. PollTimeout \in Int
    BY DEF PollTimeout
  <2>. QED  BY <1>4, <2>1 DEF EnterPoll, At, kernelVars
<1>5. CASE Dispatch
  BY <1>5 DEF Dispatch, At, kernelVars
<1>6. CASE RunTimers \/ FireTimer \/ TimersDone \/ Exit \/ DispatchDone
  <2>1. CASE FireTimer
    BY <2>1 DEF FireTimer, At, kernelVars
  <2>2. CASE Exit \/ DispatchDone
    <3>1. /\ phase' \in {"out", "top"}
          /\ frame' \in {frame, "main"}
          /\ UNCHANGED <<running, callbacks, handlers, handle_num, current, cbBatch,
                         deadline, clock>>
      BY <2>2 DEF Exit, DispatchDone, kernelVars
    <3>. QED  BY <3>1
  <2>3. CASE RunTimers \/ TimersDone
    <3>1. /\ phase' \in {"timers", "check"}
          /\ UNCHANGED <<running, callbacks, handlers, handle_num, frame, current, cbBatch,
                         deadline, clock>>
      BY <2>3 DEF RunTimers, TimersDone, kernelVars
    <3>. QED  BY <3>1
  <2>. QED  BY <1>6, <2>1, <2>2, <2>3
<1>7. CASE PollEvents \/ PollTimedOut \/ PollInterrupted
  <2>1. /\ phase' \in {"dispatch", "top"} /\ deadline' = 0
        /\ UNCHANGED <<running, callbacks, handlers, handle_num, frame, current, cbBatch,
                       clock>>
    BY <1>7 DEF PollEvents, PollTimedOut, PollInterrupted, PollNothing, kernelVars
  <2>. QED  BY <2>1
<1>8. CASE Return
  BY <1>8 DEF Return, kernelVars
<1>9. CASE KernelStep
  BY <1>9 DEF KernelStep, Tick, BecomesReady, Drain, loopVars
<1>10. CASE UNCHANGED vars
  BY <1>10 DEF vars, loopVars, kernelVars
<1>. QED  BY <1>1, <1>2, <1>3, <1>4, <1>5, <1>6, <1>7, <1>8, <1>9, <1>10 DEF Next, LoopStep

\* What a step of the loop does to the timers.
TimersStep ==
    \/ \E delay \in Delays : adds < MaxAdds /\ TQ!Add(clock, delay)
    \/ \E id \in 1..(IdModulus - 1) : TQ!Erase(id)
    \/ TQ!StartRun("once", clock)
    \/ TQ!Fire
    \/ TQ!EndRun
    \/ UNCHANGED tqVars

LEMMA StepOfTimers == ASSUME [Next]_vars PROVE TimersStep
<1>1. CASE ApiStep
  <2>1. CASE \E delay \in Delays :
                adds < MaxAdds /\ clock + delay <= MaxTime /\ AddTimeout(delay)
    BY <2>1 DEF AddTimeout, TimersStep
  <2>2. CASE \E id \in 1..(IdModulus - 1) : RemoveTimeout(id)
    BY <2>2 DEF RemoveTimeout, TimersStep
  <2>. QED
    BY <1>1, <2>1, <2>2
       DEF ApiStep, AddHandler, AddSignalHandler, UpdateHandler, RemoveHandler,
           AddCallback, Stop, Start, TimersStep
<1>2. CASE Return \/ LoopStep \/ PollInterrupted
  BY <1>2 DEF LoopStep, Return, SwapCallbacks, RunCallback, RunTimers, FireTimer,
     TimersDone, Exit, EnterPoll, PollEvents, PollTimedOut, PollInterrupted, PollNothing,
     Dispatch, DispatchDone, TimersStep
<1>3. CASE KernelStep
  BY <1>3 DEF KernelStep, Tick, BecomesReady, Drain, TimersStep
<1>4. CASE UNCHANGED vars
  BY <1>4 DEF vars, TimersStep
<1>. QED  BY <1>1, <1>2, <1>3, <1>4 DEF Next

\* Every set of timers has one that is due first.  (All the sets: a timer that
\* is erased or fires leaves the others theirs.)
HasFirst ==
    \A T \in SUBSET timeouts : T # {} => \E m \in T : \A e \in T : m.expiration <= e.expiration

LEMMA HasFirstNext ==
  ASSUME TQ!TypeOK, TQ!TypeOK', HasFirst, TimersStep
  PROVE  HasFirst'
<1>1. CASE timeouts' \subseteq timeouts
  BY <1>1 DEF HasFirst
<1>2. ASSUME NEW e, timeouts' = timeouts \cup {e}
      PROVE  HasFirst'
  <2>. SUFFICES ASSUME NEW T \in SUBSET timeouts', T # {}
                PROVE  \E m \in T : \A f \in T : m.expiration <= f.expiration
    BY DEF HasFirst
  <2>1. \A f \in T : f.expiration \in Int
    BY DEF TQ!TypeOK, TQ!Event
  <2>2. T \ {e} \in SUBSET timeouts
    BY <1>2
  <2>3. CASE T \ {e} = {}
    BY <2>1, <2>3
  <2>4. CASE T \ {e} # {}
    <3>1. PICK m \in T \ {e} : \A f \in T \ {e} : m.expiration <= f.expiration
      BY <2>2, <2>4 DEF HasFirst
    <3>. QED  BY <2>1, <3>1
  <2>. QED  BY <2>3, <2>4
<1>3. timeouts' \subseteq timeouts \/ \E e : timeouts' = timeouts \cup {e}
  BY DEF TimersStep, TQ!Add, TQ!Erase, TQ!StartRun, TQ!Fire, TQ!EndRun, tqVars
<1>. QED  BY <1>1, <1>2, <1>3

\* While the loop waits, nothing is queued without the wait being over, and no
\* timer becomes due before it is.
Awake ==
    phase = "poll" =>
      /\ callbacks # << >> => deadline <= clock
      /\ \A e \in timeouts : deadline <= clock \/ deadline <= e.expiration
      /\ deadline <= clock + PollCap

LoopTimersInv == LoopType /\ KernelType /\ TQ!TypeOK /\ HasFirst /\ Awake

LEMMA AwakeNext ==
  ASSUME LoopTimersInv, [Next]_vars
  PROVE  Awake'
<1>. /\ LoopType /\ TQ!TypeOK /\ HasFirst /\ Awake
     /\ clock \in Int /\ deadline \in Int /\ PollCap \in Nat
  BY IOLoopAssumption DEF LoopTimersInv, LoopType
<1>1. CASE EnterPoll
  <2>1. /\ deadline' = clock + PollTimeout
        /\ UNCHANGED <<clock, callbacks, timeouts>>
    BY <1>1 DEF EnterPoll, kernelVars, tqVars
  <2>2. /\ TQ!NextExpiration \in Int
        /\ \A e \in timeouts : TQ!NextExpiration <= e.expiration
    BY NextExpirationType DEF HasFirst
  <2>3. \A e \in timeouts : e.expiration \in Int
    BY DEF TQ!TypeOK, TQ!Event
  <2>4. PollTimeout = 0
          \/ /\ callbacks = << >> /\ PollTimeout \in Int /\ PollTimeout <= PollCap
             /\ PollTimeout <= TQ!NextExpiration - clock
    BY <2>2 DEF PollTimeout
  <2>5. \A e \in timeouts : deadline' <= clock \/ deadline' <= e.expiration
    BY <2>1, <2>2, <2>3, <2>4
  <2>6. deadline' <= clock + PollCap /\ (callbacks # << >> => deadline' <= clock)
    BY <2>1, <2>4
  <2>. QED  BY <2>1, <2>5, <2>6 DEF Awake
<1>2. CASE phase = "poll" /\ Tick
  <2>1. clock' = clock + 1 /\ UNCHANGED <<phase, deadline, callbacks, timeouts>>
    BY <1>2 DEF Tick, loopVars, tqVars
  <2>2. \A e \in timeouts : e.expiration \in Int
    BY DEF TQ!TypeOK, TQ!Event
  <2>. QED  BY <1>2, <2>1, <2>2 DEF Awake
<1>3. CASE UNCHANGED <<phase, deadline, clock, callbacks, timeouts>>
  BY <1>3 DEF Awake
<1>4. CASE phase' # "poll"
  BY <1>4 DEF Awake
<1>5. phase = "poll" => frame = None
  BY DEF LoopType
<1>6. CASE ApiStep \/ Return
  BY <1>4, <1>5, <1>6
     DEF ApiStep, AddHandler, AddSignalHandler, UpdateHandler, RemoveHandler, AddCallback,
         AddTimeout, RemoveTimeout, Stop, Start, Return, loopVars, AppCode, None
<1>7. CASE LoopStep \/ PollInterrupted
  BY <1>1, <1>3, <1>4, <1>5, <1>7
     DEF LoopStep, SwapCallbacks, RunCallback, RunTimers, FireTimer, TimersDone, Exit,
         PollEvents, PollTimedOut, PollInterrupted, PollNothing, Dispatch, DispatchDone, At
<1>8. CASE KernelStep
  BY <1>2, <1>3, <1>4, <1>8 DEF KernelStep, Tick, BecomesReady, Drain, loopVars, tqVars
<1>9. CASE UNCHANGED vars
  BY <1>3, <1>9 DEF vars, loopVars, kernelVars, tqVars
<1>. QED  BY <1>6, <1>7, <1>8, <1>9 DEF Next

LEMMA LoopTimersInit == Init => LoopTimersInv
<1>. SUFFICES ASSUME Init PROVE LoopTimersInv
  OBVIOUS
<1>1. LoopType /\ KernelType
  <2>1. LoopType
    <3>. running \in BOOLEAN
      BY DEF Init
    <3>1. /\ callbacks = << >> /\ handlers = {} /\ handle_num = 0
          /\ phase = "out" /\ frame = "main" /\ current = None /\ cbBatch = << >>
          /\ deadline = 0 /\ clock = 0
      BY DEF Init
    <3>2. 0 \in 0..MaxTime
      BY IOLoopAssumption
    <3>3. handlers \subseteq FDs /\ handle_num \in Int
      BY <3>1
    <3>4. callbacks \in Seq(Callbacks) /\ cbBatch \in Seq(Callbacks)
      BY <3>1
    <3>5. /\ phase \in {"out", "top", "callbacks", "timers", "check", "poll", "dispatch"}
          /\ phase # "poll"
          /\ frame \in {None, "main", "callback", "timer", "handler"}
      BY <3>1
    <3>6. deadline \in Int /\ clock \in 0..MaxTime /\ current \in FDs \cup Callbacks \cup {None}
      BY <3>1, <3>2
    <3>. QED  BY <3>3, <3>4, <3>5, <3>6 DEF LoopType
  <2>2. Watched = {} /\ ready = [fd \in FDs |-> {}]
    BY DEF Init, Watched
  <2>3. ready \in [FDs -> SUBSET Conditions]
    BY <2>2
  <2>. QED  BY <2>1, <2>2, <2>3 DEF KernelType
<1>2. TQ!TypeOK /\ HasFirst
  BY IOLoopAssumption DEF Init, TQ!Init, TQ!TypeOK, TQ!Idle, HasFirst
<1>3. Awake
  BY DEF Init, Awake
<1>. QED  BY <1>1, <1>2, <1>3 DEF LoopTimersInv

LEMMA LoopTimersNext ==
  ASSUME LoopTimersInv, [Next]_vars
  PROVE  LoopTimersInv'
<1>. LoopType /\ KernelType /\ TQ!TypeOK /\ HasFirst /\ clock \in Int
  BY IOLoopAssumption DEF LoopTimersInv, LoopType
<1>1. LoopType'
  BY LoopTypeNext, NextExpirationType DEF HasFirst
<1>2. KernelType'
  BY InterestType
<1>3. TQ!TypeOK'
  <2>1. CASE \E delay \in Delays : TQ!Add(clock, delay)
    BY <2>1, AddType
  <2>2. CASE \E id \in 1..(IdModulus - 1) : TQ!Erase(id)
    BY <2>2, TimersType, IOLoopAssumption
  <2>. QED  BY <2>1, <2>2, TimersType, StepOfTimers DEF TimersStep
<1>4. HasFirst'
  BY <1>3, HasFirstNext, StepOfTimers
<1>. QED  BY <1>1, <1>2, <1>3, <1>4, AwakeNext DEF LoopTimersInv

LEMMA AlwaysLoopTimers == Spec => []LoopTimersInv
BY LoopTimersInit, LoopTimersNext, PTL DEF Spec

\* Every member of the loop has its type, the clock its bound, and epoll is
\* asked for the events it knows, on registered numbers, whatever calls come.
THEOREM TypeCorrect == Spec => []TypeOK
<1>1. LoopTimersInv => TypeOK
  BY DEF LoopTimersInv, LoopType, KernelType, TypeOK
<1>. QED  BY <1>1, AlwaysLoopTimers, PTL

\* For any timers, callbacks and cap, the loop does not sleep past what is due:
\* epoll_wait is over when a timer is, at once if a callback is queued.
THEOREM NeverOversleeps == Spec => []NoOversleep
<1>1. ASSUME LoopTimersInv
      PROVE  NoOversleep
  <2>1. /\ clock \in Int /\ deadline \in Int
        /\ \A e \in timeouts : e.expiration \in Int
    BY <1>1, IOLoopAssumption DEF LoopTimersInv, LoopType, TQ!TypeOK, TQ!Event
  <2>. QED  BY <1>1, <2>1 DEF LoopTimersInv, Awake, NoOversleep
<1>. QED  BY <1>1, AlwaysLoopTimers, PTL

\* Whatever the application, the handlers and the kernel do, the loop uses its
\* timers as module TimeoutQueue says callers do: so all that is proved there of
\* one fate, unique ids and the order of firing is true inside the loop.
THEOREM TimersAreAQueue == Spec => TQ!Spec
<1>1. Init => TQ!Init
  BY DEF Init
<1>2. ASSUME LoopTimersInv, [Next]_vars
      PROVE  [TQ!Next]_(TQ!vars)
  <2>1. clock \in 0..MaxTime
    BY <1>2 DEF LoopTimersInv, LoopType
  <2>2. CASE UNCHANGED tqVars
    BY <2>2 DEF tqVars, TQ!vars, TQ!history
  <2>. QED  BY <1>2, <2>1, <2>2, StepOfTimers DEF TimersStep, TQ!Next
<1>. QED  BY <1>1, <1>2, AlwaysLoopTimers, PTL DEF Spec, TQ!Spec

-----------------------------------------------------------------------------
(* App, the application of module App, in the loop.                        *)

\* The loop that no stop() of its own has ended runs; App that runs has its
\* signal handler, except between the handler's removal and its stop().
AppInv ==
    /\ LoopInv
    /\ InLoop /\ ~loopStopped => running
    /\ app_at = "set" \/ app_running => handlers # {} \/ app_at = "stop"
    /\ app_at = "stop" => frame = "handler"

\* A step that leaves alone what AppInv relates.
LEMMA AppElsewhere ==
  ASSUME AppInv, Quiet, UNCHANGED <<handlers, app_running, app_at, loopStopped>>,
         running' = running, phase' = "out" \/ InLoop,
         frame' = frame \/ app_at # "stop"
  PROVE  AppInv'
<1>1. LoopInv'
  BY Elsewhere DEF AppInv, Quiet
<1>. QED  BY <1>1 DEF AppInv, InLoop

LEMMA AppStarts ==
  ASSUME AppInv, StartApp \/ SetFirstTimer \/ RunLoop
  PROVE  AppInv'
<1>1. CASE StartApp
  <2>1. CASE UNCHANGED <<vars, app_at, starts>>
    <3>1. Quiet /\ UNCHANGED <<running, phase, frame, app_running, app_at, loopStopped>>
      BY <1>1, <2>1 DEF StartApp, Quiet, vars, loopVars, kernelVars
    <3>. QED  BY <3>1, <2>1, AppElsewhere DEF Quiet, InLoop
  <2>2. ASSUME NEW fd \in FDs, AddSignalHandler(fd), app_at' = "set"
        PROVE  AppInv'
    <3>1. /\ handlers' = handlers \cup {fd}
          /\ UNCHANGED <<running, phase, frame, app_running, loopStopped>>
      BY <1>1, <2>2 DEF StartApp, AddSignalHandler, AddHandler
    <3>2. LoopInv'
      BY <2>2, AddHandlerCounts DEF AppInv, AddSignalHandler
    <3>. QED  BY <2>2, <3>1, <3>2 DEF AppInv, InLoop
  <2>. QED  BY <1>1, <2>1, <2>2 DEF StartApp, AppGoes
<1>2. CASE SetFirstTimer
  <2>1. /\ Quiet /\ UNCHANGED <<running, phase, frame, handlers, loopStopped>>
        /\ app_at = "set" /\ app_at' = "run"
    BY <1>2 DEF SetFirstTimer, AppGoes, AddTimeout, Quiet, loopVars, kernelVars
  <2>2. LoopInv'
    BY <2>1, Elsewhere DEF AppInv, Quiet
  <2>. QED  BY <2>1, <2>2 DEF AppInv, InLoop
<1>3. CASE RunLoop
  <2>1. /\ Quiet /\ UNCHANGED <<handlers, loopStopped, app_running>>
        /\ app_at = "run" /\ app_at' = "idle"
        /\ running' \/ UNCHANGED <<running, phase>>
    BY <1>3 DEF RunLoop, AppGoes, Start, Quiet, AppInv, LoopInv, vars, loopVars, kernelVars
  <2>2. LoopInv'
    BY <2>1, Elsewhere DEF AppInv, Quiet
  <2>. QED  BY <2>1, <2>2 DEF AppInv, InLoop
<1>. QED  BY <1>1, <1>2, <1>3

LEMMA AppStops ==
  ASSUME AppInv, AppSignalHandler \/ SignalHandlerStops \/ ProcessStopsApp \/ ProcessStopsLoop
  PROVE  AppInv'
<1>1. ASSUME StopApp
      PROVE  /\ Quiet /\ UNCHANGED <<running, phase, frame>> /\ ~app_running' /\ LoopInv'
  <2>1. /\ Quiet /\ UNCHANGED <<running, phase, frame>> /\ ~app_running'
    BY <1>1 DEF StopApp, RemoveTimeout, Quiet, vars, loopVars, kernelVars
  <2>. QED  BY <2>1, Elsewhere DEF AppInv, Quiet
<1>2. CASE AppSignalHandler
  <2>1. /\ UNCHANGED <<running, phase, frame, loopStopped>>
        /\ frame = "handler" /\ app_at' = "stop"
    BY <1>2 DEF AppSignalHandler, AppGoes, RemoveHandler
  <2>2. LoopInv'
    BY <1>2, RemoveHandlerCounts DEF AppSignalHandler, AppInv
  <2>. QED  BY <2>1, <2>2 DEF AppInv, InLoop
<1>3. CASE SignalHandlerStops
  BY <1>1, <1>3 DEF SignalHandlerStops, AppGoes, AppInv, InLoop
<1>4. CASE ProcessStopsApp
  BY <1>1, <1>4 DEF ProcessStopsApp, AppInv, InLoop
<1>5. CASE ProcessStopsLoop
  <2>1. /\ Quiet /\ UNCHANGED <<phase, frame, handlers, app_at, app_running>> /\ loopStopped'
    BY <1>5 DEF ProcessStopsLoop, Stop, Quiet, kernelVars
  <2>2. LoopInv'
    BY <2>1, Elsewhere DEF AppInv, Quiet
  <2>. QED  BY <2>1, <2>2 DEF AppInv, InLoop
<1>. QED  BY <1>2, <1>3, <1>4, <1>5

LEMMA AppGoesOn ==
  ASSUME AppInv, RunOneLoop \/ SetNextTimer \/ AppReturns \/ AppSigterm
  PROVE  AppInv'
<1>1. CASE RunOneLoop
  <2>1. /\ Quiet /\ UNCHANGED <<running, phase, frame, handlers, app_running, loopStopped>>
        /\ app_at = "idle" /\ app_at' \in {"process", "return"}
    BY <1>1 DEF RunOneLoop, AppGoes, Quiet, vars, loopVars, kernelVars
  <2>2. LoopInv'
    BY <2>1, Elsewhere DEF AppInv, Quiet
  <2>. QED  BY <2>1, <2>2 DEF AppInv, InLoop
<1>2. CASE SetNextTimer
  <2>1. /\ Quiet /\ UNCHANGED <<running, phase, frame, handlers, app_running, loopStopped>>
        /\ app_at = "process" /\ app_at' = "return"
    BY <1>2 DEF SetNextTimer, AppGoes, AddTimeout, Quiet, loopVars, kernelVars
  <2>2. LoopInv'
    BY <2>1, Elsewhere DEF AppInv, Quiet
  <2>. QED  BY <2>1, <2>2 DEF AppInv, InLoop
<1>3. CASE AppReturns
  <2>1. /\ Quiet /\ UNCHANGED <<running, phase, handlers, app_running, loopStopped>>
        /\ app_at = "return" /\ app_at' = "idle"
    BY <1>3 DEF AppReturns, AppGoes, Return, Quiet, kernelVars
  <2>2. LoopInv'
    BY <2>1, Elsewhere DEF AppInv, Quiet
  <2>. QED  BY <2>1, <2>2 DEF AppInv, InLoop
<1>4. CASE AppSigterm
  <2>1. Quiet /\ UNCHANGED <<running, phase, frame, handlers, app_running, app_at, loopStopped>>
    BY <1>4 DEF AppSigterm, Quiet, loopVars
  <2>. QED  BY <2>1, AppElsewhere DEF InLoop
<1>. QED  BY <1>1, <1>2, <1>3, <1>4

LEMMA AppLoops ==
  ASSUME AppInv, LoopStep \/ PollInterrupted \/ Tick, UNCHANGED appVars
  PROVE  AppInv'
<1>1. LoopInv'
  <2>1. [Next]_vars
    BY DEF Next, KernelStep
  <2>. QED  BY <2>1, NextInv DEF AppInv
<1>2. /\ UNCHANGED <<running, handlers, app_running, app_at, loopStopped>>
      /\ frame' = frame \/ frame = None
      /\ phase' = phase \/ InLoop
  BY DEF LoopStep, SwapCallbacks, RunCallback, RunTimers, FireTimer, TimersDone, Exit,
         EnterPoll, PollEvents, PollTimedOut, PollInterrupted, PollNothing, Dispatch,
         DispatchDone, Tick, loopVars, appVars, At, InLoop
<1>3. frame = None => app_at # "stop"
  BY DEF AppInv, None
<1>. QED  BY <1>1, <1>2, <1>3 DEF AppInv, InLoop

LEMMA AppNextInv == ASSUME AppInv, [AppNext]_allAppVars PROVE AppInv'
<1>1. CASE UNCHANGED allAppVars
  <2>1. Quiet /\ UNCHANGED <<running, phase, frame, handlers, app_running, app_at, loopStopped>>
    BY <1>1 DEF allAppVars, appVars, vars, loopVars, kernelVars, Quiet
  <2>. QED  BY <2>1, AppElsewhere DEF InLoop
<1>. QED  BY <1>1, AppStarts, AppStops, AppGoesOn, AppLoops DEF AppNext, AppCodeStep

\* For any descriptors, timers and moment of SIGTERM: a loop that its own stop()
\* has not ended ends after App was stopped, and with no handler and no timer left.
THEOREM AppEndsStopped == AppSpec => EndsStopped
<1>1. AppInit => AppInv
  <2>. SUFFICES ASSUME AppInit PROVE AppInv
    OBVIOUS
  <2>1. Init /\ app_running = FALSE /\ app_at = "idle"
    BY DEF AppInit
  <2>. QED  BY <2>1, InitLoopInv DEF AppInv, Init, InLoop
<1>2. ASSUME AppInv, [AppNext]_allAppVars, InLoop, phase' = "out", ~loopStopped
      PROVE  ~app_running /\ handlers = {} /\ timeouts = {}
  <2>1. Exit
    <3>1. CASE StartApp \/ AppCodeStep \/ ProcessStopsApp \/ ProcessStopsLoop \/ AppSigterm
      <4>1. phase' = phase \/ phase' = "top"
        BY <3>1 DEF StartApp, AppCodeStep, SetFirstTimer, RunLoop, AppSignalHandler,
             SignalHandlerStops, RunOneLoop, SetNextTimer, AppReturns, ProcessStopsApp,
             ProcessStopsLoop, AppSigterm, StopApp, AddSignalHandler, AddHandler, RemoveHandler,
             AddTimeout, RemoveTimeout, Start, Stop, Return, vars, loopVars
      <4>. QED  BY <1>2, <4>1 DEF InLoop
    <3>2. CASE LoopStep \/ PollInterrupted \/ Tick
      BY <1>2, <3>2 DEF LoopStep, SwapCallbacks, RunCallback, RunTimers, FireTimer,
         TimersDone, EnterPoll, PollEvents, PollTimedOut, PollInterrupted, PollNothing,
         Dispatch, DispatchDone, Tick, loopVars, At, InLoop
    <3>3. CASE UNCHANGED allAppVars
      BY <1>2, <3>3 DEF InLoop, allAppVars, vars, loopVars
    <3>. QED  BY <1>2, <3>1, <3>2, <3>3 DEF AppNext
  <2>2. NothingToDo /\ frame = None
    BY <1>2, <2>1 DEF Exit, At, AppInv
  <2>3. handlers = {}
    <3>1. Cardinality(handlers) \in Nat /\ Cardinality(handlers) <= 0
      BY <1>2, <2>2, FS_CardinalityType DEF AppInv, LoopInv, HandlersCounted, NothingToDo
    <3>2. Cardinality(handlers) = 0
      BY <3>1
    <3>. QED  BY <1>2, <3>2, FS_EmptySet DEF AppInv, LoopInv
  <2>. QED  BY <1>2, <2>2, <2>3 DEF AppInv, NothingToDo, None
<1>. QED  BY <1>1, <1>2, AppNextInv, PTL DEF AppSpec, EndsStopped

-----------------------------------------------------------------------------
(* TcpServer.                                                              *)
(* A handler may outlive a descriptor only if a close comes before its      *)
(* removal, so the invariant says where the code may be when it closes what *)
(* (Closing), that the listening socket and its handler belong to socket_   *)
(* (Listening), and that the loop does not run while the server's code is   *)
(* in the middle of something (Place): an event is dispatched to a handler  *)
(* that is registered, and stays so until the handler has begun.            *)

ServerType ==
    /\ socket_ \in FDs \cup {None}
    /\ file \in [FDs -> Files]
    /\ owner \in [FDs -> {"none", "signal", "server", "stream"}]
    /\ handlers \subseteq FDs
    /\ \A fd \in handlers : owner[fd] # "none"

\* Where the server's code is, and on top of what.
Place ==
    /\ at \in {"bind", "register"} => frame = "main" /\ socket_ # None
    /\ at \in {"accept", "stream", "streamClose", "return"} => frame = "handler"
    /\ at \in {"stop", "close"} =>
         (then = "idle" /\ frame = "main") \/ (then = "return" /\ frame = "handler")
    /\ at \in {"idle", "bind", "register", "stop", "close", "accept", "stream",
               "streamClose", "return"}
    /\ frame = "handler" /\ at = "idle" => current \in handlers

\* socket_ is the one listening socket, and a handler of the server is for it.
Listening ==
    /\ socket_ # None => file[socket_] \in {"socket", "listening"}
    /\ at = "bind" => file[socket_] = "socket"
    /\ at = "register" => file[socket_] = "listening"
    /\ \A fd \in handlers : owner[fd] = "server" => fd = socket_
    /\ at = "accept" => socket_ # None

\* What is closed next has no handler.
Closing ==
    /\ at = "close" => socket_ # None /\ socket_ \notin handlers
    /\ at = "stream" =>
         accepted \in FDs /\ file[accepted] = "connection" /\ accepted \notin handlers
    /\ at = "streamClose" =>
         current \in FDs /\ file[current] = "connection" /\ current \notin handlers

ServerInv == ServerType /\ Place /\ Listening /\ Closing /\ HandlersOwnTheirFiles

\* A handler has the owner that goes with its file, and no closed file has one.
LEMMA OwnersAre ==
  ASSUME ServerType, HandlersOwnTheirFiles, NEW fd \in handlers
  PROVE  /\ fd \in FDs
         /\ \/ owner[fd] = "signal" /\ file[fd] = "signal"
            \/ owner[fd] = "server" /\ file[fd] = "listening"
            \/ owner[fd] = "stream" /\ file[fd] = "connection"
<1>1. fd \in FDs /\ owner[fd] \in {"signal", "server", "stream"}
  BY DEF ServerType
<1>2. file[fd] \in Owns[owner[fd]]
  BY DEF HandlersOwnTheirFiles
<1>3. /\ Owns["signal"] = {"signal"} /\ Owns["server"] = {"listening"}
      /\ Owns["stream"] = {"connection"}
  BY DEF Owns
<1>. QED  BY <1>1, <1>2, <1>3

\* The converse, for the steps.
Matches(fd, files, owners) ==
    \/ owners[fd] = "signal" /\ files[fd] = "signal"
    \/ owners[fd] = "server" /\ files[fd] = "listening"
    \/ owners[fd] = "stream" /\ files[fd] = "connection"

LEMMA OwnersSuffice ==
  ASSUME HandlersOwnTheirFiles, aborted' # "socket" \/ UNCHANGED aborted,
         \A fd \in handlers' : Matches(fd, file', owner')
  PROVE  HandlersOwnTheirFiles'
<1>1. aborted' # "socket"
  BY DEF HandlersOwnTheirFiles
<1>2. \A fd \in handlers' : file'[fd] \in Owns[owner'[fd]]
  BY DEF Owns, Matches
<1>. QED  BY <1>1, <1>2 DEF HandlersOwnTheirFiles

LEMMA ServerInit == TcpInit => ServerInv
BY TcpServerAssumption
   DEF TcpInit, Init, ServerInv, ServerType, Place, Listening, Closing, HandlersOwnTheirFiles, Files

-----------------------------------------------------------------------------
(* Steps of the loop, the kernel and the clients.                          *)

\* The server's variables stay; so do the handlers, and a handler begins only
\* for a descriptor that has one.
LEMMA LoopInvariant ==
  ASSUME ServerInv,
         UNCHANGED <<socket_, at, then, accepted, file, owner, handlers, aborted>>,
         at # "idle" => UNCHANGED <<frame, current>>,
         frame' = "handler" => current' \in handlers \/ UNCHANGED <<frame, current>>
  PROVE  ServerInv'
BY DEF ServerInv, ServerType, Place, Listening, Closing, HandlersOwnTheirFiles

LEMMA LoopStepInvariant ==
  ASSUME ServerInv, LoopStep \/ PollInterrupted \/ Tick, UNCHANGED tcpVars
  PROVE  ServerInv'
<1>1. at # "idle" => frame # None
  BY DEF ServerInv, Place, None
<1>2. CASE Tick
  BY <1>2, LoopInvariant DEF Tick, loopVars, tcpVars
<1>3. CASE Dispatch
  BY <1>1, <1>3, LoopInvariant DEF Dispatch, At, tcpVars
<1>4. CASE RunCallback \/ FireTimer \/ Exit
  BY <1>1, <1>4, LoopInvariant DEF RunCallback, FireTimer, Exit, At, tcpVars
<1>5. CASE \/ SwapCallbacks \/ RunTimers \/ TimersDone \/ EnterPoll
           \/ PollTimedOut \/ PollInterrupted \/ DispatchDone
  BY <1>5, LoopInvariant
     DEF SwapCallbacks, RunTimers, TimersDone, EnterPoll, PollTimedOut, PollInterrupted,
         PollNothing, DispatchDone, tcpVars
<1>6. CASE PollEvents
  <2>1. UNCHANGED <<handlers, frame, current>>
    BY <1>6 DEF PollEvents
  <2>. QED  BY <2>1, LoopInvariant DEF tcpVars
<1>. QED  BY <1>2, <1>3, <1>4, <1>5, <1>6 DEF LoopStep

LEMMA OutsideInvariant ==
  ASSUME ServerInv, Connect \/ ClientSends \/ Sigterm PROVE ServerInv'
BY LoopInvariant DEF Connect, ClientSends, Sigterm, BecomesReady, loopVars, tcpVars

-----------------------------------------------------------------------------
(* Steps of main() and of the server.                                      *)

LEMMA MainInvariant ==
  ASSUME ServerInv, ListenSocket \/ RegisterSignal \/ StartServer \/ StopServer
  PROVE  ServerInv'
<1>. /\ ServerType /\ HandlersOwnTheirFiles /\ Listening /\ Place
     /\ frame = "main" /\ at = "idle" /\ aborted = "no"
  BY DEF ServerInv, ListenSocket, RegisterSignal, StartServer, StopServer, InMain
<1>. /\ file \in [FDs -> Files] /\ socket_ \in FDs \cup {None} /\ None \notin FDs
     /\ handlers \subseteq FDs
     /\ owner \in [FDs -> {"none", "signal", "server", "stream"}]
     /\ socket_ # None => file[socket_] \in {"socket", "listening"}
  BY TcpServerAssumption DEF ServerType, Listening
<1>1. CASE StopServer
  BY <1>1 DEF StopServer, Goes, vars, loopVars, ServerInv, ServerType, Place, Listening, Closing,
              HandlersOwnTheirFiles
<1>2. CASE StartServer
  BY <1>2, LoopInvariant DEF StartServer, Start, tcpVars, InMain, None
<1>3. CASE ListenSocket
  <2>1. CASE socket_ # None
    BY <1>3, <2>1 DEF ListenSocket, vars, loopVars, ServerInv, ServerType, Place, Listening,
                      Closing, HandlersOwnTheirFiles
  <2>2. CASE socket_ = None
    <3>1. PICK fd \in Free : socket_' = fd /\ file' = [file EXCEPT ![fd] = "socket"]
      BY <1>3, <2>2 DEF ListenSocket, Opens
    <3>2. /\ at' = "bind"
          /\ UNCHANGED <<handlers, frame, current, then, accepted, owner, aborted>>
      BY <1>3, <2>2 DEF ListenSocket, Goes, vars, loopVars
    <3>3. fd \in FDs /\ file[fd] = "closed" /\ fd # None
      BY DEF Free
    <3>4. \A f \in handlers : f # fd /\ owner[f] # "server"
      BY <2>2, <3>3, OwnersAre DEF Listening
    <3>5. file'[fd] = "socket" /\ file' \in [FDs -> Files] /\ \A f \in FDs \ {fd} : file'[f] = file[f]
      BY <3>1, <3>3 DEF Files
    <3>6. HandlersOwnTheirFiles'
      <4>1. \A f \in handlers' : Matches(f, file', owner')
        BY <3>2, <3>4, <3>5, OwnersAre DEF Matches
      <4>. QED  BY <4>1, <3>2, <3>4, <3>5, OwnersSuffice DEF HandlersOwnTheirFiles
    <3>. QED  BY <3>1, <3>2, <3>3, <3>4, <3>5, <3>6 DEF ServerInv, ServerType, Place, Listening, Closing
  <2>. QED  BY <2>1, <2>2
<1>4. CASE RegisterSignal
  <2>1. PICK fd \in Free : /\ AddHandler(fd, {"READ"}, TRUE)
                           /\ file' = [file EXCEPT ![fd] = "signal"]
                           /\ owner' = [owner EXCEPT ![fd] = "signal"]
    BY <1>4 DEF RegisterSignal, AddSignalHandler, Opens
  <2>2. /\ UNCHANGED <<socket_, at, then, accepted, aborted, frame, current>>
        /\ handlers' = handlers \cup {fd}
    BY <1>4, <2>1 DEF RegisterSignal, AddHandler
  <2>3. fd \in FDs /\ file[fd] = "closed" /\ fd # socket_
    BY DEF Free
  <2>4. /\ file'[fd] = "signal" /\ file' \in [FDs -> Files]
        /\ owner'[fd] = "signal" /\ owner' \in [FDs -> {"none", "signal", "server", "stream"}]
        /\ \A f \in FDs \ {fd} : file'[f] = file[f] /\ owner'[f] = owner[f]
    BY <2>1, <2>3 DEF Files
  <2>5. HandlersOwnTheirFiles'
    <3>1. \A f \in handlers' : Matches(f, file', owner')
      BY <2>2, <2>4, OwnersAre DEF Matches
    <3>. QED  BY <3>1, <2>2, <2>4, OwnersSuffice DEF HandlersOwnTheirFiles
  <2>. QED  BY <2>2, <2>3, <2>4, <2>5 DEF ServerInv, ServerType, Place, Listening, Closing
<1>. QED  BY <1>1, <1>2, <1>3, <1>4

LEMMA CodeInvariant ==
  ASSUME ServerInv, ServerStep PROVE ServerInv'
<1>. ServerType /\ HandlersOwnTheirFiles /\ Listening /\ Place /\ Closing
  BY DEF ServerInv
<1>. /\ file \in [FDs -> Files] /\ socket_ \in FDs \cup {None} /\ None \notin FDs
     /\ handlers \subseteq FDs
     /\ owner \in [FDs -> {"none", "signal", "server", "stream"}]
     /\ socket_ # None => file[socket_] \in {"socket", "listening"}
  BY TcpServerAssumption DEF ServerType, Listening
<1>1. CASE BindAndListen
  <2>1. /\ frame = "main" /\ socket_ # None /\ file[socket_] = "socket" /\ socket_ \in FDs
        /\ UNCHANGED <<socket_, then, accepted, owner, aborted, handlers, frame, current>>
    BY <1>1 DEF BindAndListen, Place, Listening, vars, loopVars
  <2>2. \A f \in handlers : f # socket_
    BY <2>1, OwnersAre
  <2>3. \/ at' = "register" /\ file' = [file EXCEPT ![socket_] = "listening"]
        \/ at' = "idle" /\ UNCHANGED file
    BY <1>1 DEF BindAndListen, Goes, Opens
  <2>4. /\ file' \in [FDs -> Files] /\ \A f \in FDs \ {socket_} : file'[f] = file[f]
        /\ at' = "register" => file'[socket_] = "listening"
        /\ file'[socket_] \in {"socket", "listening"}
    BY <2>1, <2>3 DEF Files
  <2>5. HandlersOwnTheirFiles'
    <3>1. \A f \in handlers' : Matches(f, file', owner')
      BY <2>1, <2>2, <2>4, OwnersAre DEF Matches
    <3>. QED  BY <3>1, <2>1, <2>2, <2>4, OwnersSuffice DEF HandlersOwnTheirFiles
  <2>. QED  BY <2>1, <2>2, <2>3, <2>4, <2>5 DEF ServerInv, ServerType, Place, Listening, Closing
<1>2. CASE RegisterSocket
  <2>1. /\ frame = "main" /\ socket_ # None /\ file[socket_] = "listening" /\ socket_ \in FDs
        /\ at' = "idle" /\ UNCHANGED <<socket_, then, accepted, file, aborted, frame, current>>
        /\ handlers' = handlers \cup {socket_}
        /\ owner' = [owner EXCEPT ![socket_] = "server"]
    BY <1>2 DEF RegisterSocket, AddHandler, Goes, Place, Listening
  <2>2. /\ owner' \in [FDs -> {"none", "signal", "server", "stream"}]
        /\ owner'[socket_] = "server" /\ \A f \in FDs \ {socket_} : owner'[f] = owner[f]
    BY <2>1
  <2>3. HandlersOwnTheirFiles'
    <3>1. \A f \in handlers' : Matches(f, file', owner')
      BY <2>1, <2>2, OwnersAre DEF Matches
    <3>. QED  BY <3>1, <2>1, <2>2, OwnersSuffice DEF HandlersOwnTheirFiles
  <2>. QED  BY <2>1, <2>2, <2>3 DEF ServerInv, ServerType, Place, Listening, Closing
<1>3. CASE SignalHandler
  <2>1. /\ frame = "handler" /\ at' = "stop" /\ then' = "return"
        /\ UNCHANGED <<socket_, accepted, file, owner, aborted, frame, current>>
        /\ handlers' = handlers \ {current}
    BY <1>3 DEF SignalHandler, RemoveHandler, Goes
  <2>2. HandlersOwnTheirFiles'
    <3>1. \A f \in handlers' : Matches(f, file', owner')
      BY <2>1, OwnersAre DEF Matches
    <3>. QED  BY <3>1, <2>1, OwnersSuffice DEF HandlersOwnTheirFiles
  <2>. QED  BY <2>1, <2>2 DEF ServerInv, ServerType, Place, Listening, Closing
<1>4. CASE StopRemoves
  <2>1. /\ at = "stop" /\ at' = (IF socket_ = None THEN then ELSE "close")
        /\ UNCHANGED <<socket_, then, accepted, file, owner, aborted, frame, current>>
        /\ handlers' = handlers \ {socket_}
    BY <1>4 DEF StopRemoves, RemoveHandler, Goes, vars, loopVars
  <2>2. HandlersOwnTheirFiles'
    <3>1. \A f \in handlers' : Matches(f, file', owner')
      BY <2>1, OwnersAre DEF Matches
    <3>. QED  BY <3>1, <2>1, OwnersSuffice DEF HandlersOwnTheirFiles
  <2>. QED  BY <2>1, <2>2 DEF ServerInv, ServerType, Place, Listening, Closing
<1>5. CASE StopCloses
  <2>1. /\ at = "close" /\ at' = then /\ socket_' = None /\ socket_ \in FDs
        /\ UNCHANGED <<then, accepted, owner, aborted, handlers, frame, current>>
        /\ socket_ \notin handlers /\ file' = [file EXCEPT ![socket_] = "closed"]
    BY <1>5 DEF StopCloses, Close, Goes, loopVars, Closing
  <2>2. file' \in [FDs -> Files] /\ \A f \in FDs \ {socket_} : file'[f] = file[f]
    BY <2>1 DEF Files
  <2>3. HandlersOwnTheirFiles'
    <3>1. \A f \in handlers' : Matches(f, file', owner')
      BY <2>1, <2>2, OwnersAre DEF Matches
    <3>. QED  BY <3>1, <2>1, <2>2, OwnersSuffice DEF HandlersOwnTheirFiles
  <2>4. \A fd \in handlers : owner[fd] # "server"
    BY <2>1 DEF Listening
  <2>. QED  BY <2>1, <2>2, <2>3, <2>4 DEF ServerInv, ServerType, Place, Listening, Closing
<1>6. CASE HandleConnection
  <2>1. /\ frame = "handler" /\ at = "idle" /\ current \in handlers /\ owner[current] = "server"
        /\ UNCHANGED <<socket_, then, accepted, file, owner, handlers, frame, current>>
    BY <1>6 DEF HandleConnection, Place, vars, loopVars
  <2>2. socket_ = current /\ at' = "accept" /\ UNCHANGED aborted
    BY <1>6, <2>1 DEF HandleConnection, Listening, Goes
  <2>3. socket_ # None
    BY <2>1, <2>2
  <2>4. HandlersOwnTheirFiles'
    BY <2>1, <2>2 DEF HandlersOwnTheirFiles
  <2>. QED  BY <2>1, <2>2, <2>3, <2>4 DEF ServerInv, ServerType, Place, Listening, Closing
<1>7. CASE AcceptFails \/ AcceptAborted
  <2>1. /\ at = "accept" /\ at' \in {"accept", "return"}
        /\ UNCHANGED <<socket_, then, accepted, file, owner, aborted, handlers, frame, current>>
    BY <1>7 DEF AcceptFails, AcceptAborted, Takes, Goes, vars, loopVars
  <2>. QED  BY <2>1 DEF ServerInv, ServerType, Place, Listening, Closing, HandlersOwnTheirFiles
<1>8. CASE Accept
  <2>1. PICK fd \in Free : accepted' = fd /\ file' = [file EXCEPT ![fd] = "connection"]
    BY <1>8 DEF Accept, Opens
  <2>2. /\ at = "accept" /\ at' = "stream"
        /\ UNCHANGED <<socket_, then, owner, aborted, handlers, frame, current>>
    BY <1>8 DEF Accept, Takes, Goes, loopVars
  <2>3. fd \in FDs /\ file[fd] = "closed" /\ fd # socket_ /\ fd \notin handlers
    BY OwnersAre DEF Free
  <2>4. /\ file' \in [FDs -> Files] /\ file'[fd] = "connection"
        /\ \A f \in FDs \ {fd} : file'[f] = file[f]
    BY <2>1, <2>3 DEF Files
  <2>5. HandlersOwnTheirFiles'
    <3>1. \A f \in handlers' : Matches(f, file', owner')
      BY <2>2, <2>3, <2>4, OwnersAre DEF Matches
    <3>. QED  BY <3>1, <2>2, <2>3, <2>4, OwnersSuffice DEF HandlersOwnTheirFiles
  <2>. QED  BY <2>1, <2>2, <2>3, <2>4, <2>5 DEF ServerInv, ServerType, Place, Listening, Closing
<1>9. CASE StreamKept
  <2>1. /\ at = "stream" /\ at' = "return" /\ accepted \in FDs /\ file[accepted] = "connection"
        /\ UNCHANGED <<socket_, then, accepted, file, aborted, frame, current>>
        /\ handlers' = handlers \cup {accepted}
        /\ owner' = [owner EXCEPT ![accepted] = "stream"]
    BY <1>9 DEF StreamKept, AddHandler, Goes, Closing
  <2>2. /\ owner' \in [FDs -> {"none", "signal", "server", "stream"}]
        /\ owner'[accepted] = "stream" /\ \A f \in FDs \ {accepted} : owner'[f] = owner[f]
    BY <2>1
  <2>3. HandlersOwnTheirFiles'
    <3>1. \A f \in handlers' : Matches(f, file', owner')
      BY <2>1, <2>2, OwnersAre DEF Matches
    <3>. QED  BY <3>1, <2>1, <2>2, OwnersSuffice DEF HandlersOwnTheirFiles
  <2>. QED  BY <2>1, <2>2, <2>3 DEF ServerInv, ServerType, Place, Listening, Closing
<1>10. CASE StreamDropped
  <2>1. /\ at = "stream" /\ at' = "return" /\ accepted \in FDs /\ accepted \notin handlers
        /\ file[accepted] = "connection" /\ file' = [file EXCEPT ![accepted] = "closed"]
        /\ UNCHANGED <<socket_, then, accepted, owner, aborted, handlers, frame, current>>
    BY <1>10 DEF StreamDropped, Close, Goes, Closing, loopVars
  <2>2. file' \in [FDs -> Files] /\ \A f \in FDs \ {accepted} : file'[f] = file[f]
    BY <2>1 DEF Files
  <2>3. HandlersOwnTheirFiles'
    <3>1. \A f \in handlers' : Matches(f, file', owner')
      BY <2>1, <2>2, OwnersAre DEF Matches
    <3>. QED  BY <3>1, <2>1, <2>2, OwnersSuffice DEF HandlersOwnTheirFiles
  <2>. QED  BY <2>1, <2>2, <2>3 DEF ServerInv, ServerType, Place, Listening, Closing
<1>11. CASE StreamReads
  <2>1. /\ frame = "handler" /\ current \in handlers /\ owner[current] = "stream"
        /\ UNCHANGED <<socket_, then, accepted, file, owner, aborted, frame, current>>
        /\ \/ at' = "streamClose" /\ handlers' = handlers \ {current}
           \/ at' = "return" /\ handlers' = handlers
    BY <1>11 DEF StreamReads, RemoveHandler, Drain, Goes, Place, loopVars
  <2>2. current \in FDs /\ file[current] = "connection"
    BY <2>1, OwnersAre
  <2>3. HandlersOwnTheirFiles'
    <3>1. \A f \in handlers' : Matches(f, file', owner')
      BY <2>1, OwnersAre DEF Matches
    <3>. QED  BY <3>1, <2>1, OwnersSuffice DEF HandlersOwnTheirFiles
  <2>. QED  BY <2>1, <2>2, <2>3 DEF ServerInv, ServerType, Place, Listening, Closing
<1>12. CASE StreamCloses
  <2>1. /\ at = "streamClose" /\ at' = "return" /\ current \in FDs /\ current \notin handlers
        /\ file[current] = "connection" /\ file' = [file EXCEPT ![current] = "closed"]
        /\ UNCHANGED <<socket_, then, accepted, owner, aborted, handlers, frame, current>>
    BY <1>12 DEF StreamCloses, Close, Goes, Closing, loopVars
  <2>2. file' \in [FDs -> Files] /\ \A f \in FDs \ {current} : file'[f] = file[f]
    BY <2>1 DEF Files
  <2>3. HandlersOwnTheirFiles'
    <3>1. \A f \in handlers' : Matches(f, file', owner')
      BY <2>1, <2>2, OwnersAre DEF Matches
    <3>. QED  BY <3>1, <2>1, <2>2, OwnersSuffice DEF HandlersOwnTheirFiles
  <2>. QED  BY <2>1, <2>2, <2>3 DEF ServerInv, ServerType, Place, Listening, Closing
<1>13. CASE ReturnToLoop
  <2>1. /\ at = "return" /\ at' = "idle" /\ frame' = None
        /\ UNCHANGED <<socket_, then, accepted, file, owner, aborted, handlers>>
    BY <1>13 DEF ReturnToLoop, Return, Goes
  <2>. QED  BY <2>1 DEF ServerInv, ServerType, Place, Listening, Closing, HandlersOwnTheirFiles, None
<1>. QED  BY <1>1, <1>2, <1>3, <1>4, <1>5, <1>6, <1>7, <1>8, <1>9, <1>10, <1>11, <1>12, <1>13
          DEF ServerStep

\* However many descriptors there are and however often their numbers are used
\* again, no handler is left with a closed file or somebody else's, and
\* handleConnection's assert holds.
THEOREM HandlersMatch == TcpSpec => []HandlersOwnTheirFiles
<1>1. ServerInv /\ [TcpNext]_allVars => ServerInv'
  <2>. SUFFICES ASSUME ServerInv, [TcpNext]_allVars PROVE ServerInv'
    OBVIOUS
  <2>1. CASE UNCHANGED allVars
    BY <2>1, LoopInvariant DEF allVars, vars, loopVars, tcpVars
  <2>. QED  BY <2>1, LoopStepInvariant, OutsideInvariant, MainInvariant, CodeInvariant DEF TcpNext
<1>2. ServerInv => HandlersOwnTheirFiles
  BY DEF ServerInv
<1>. QED  BY <1>1, <1>2, ServerInit, PTL DEF TcpSpec
=============================================================================
