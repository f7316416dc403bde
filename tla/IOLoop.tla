------------------------------- MODULE IOLoop -------------------------------
(***************************************************************************)
(* tornado::IOLoop (src/tornado/IOLoop.h, IOLoop.cpp) over EPollImpl        *)
(* (EPoll.cpp) and folly::TimeoutQueue: the one thread everything runs in.  *)
(*                                                                         *)
(* An iteration of start() runs the callbacks that were queued when it      *)
(* began, then the timers that are due, decides whether to go on, sleeps in *)
(* epoll_wait and dispatches what it reports.  Application code runs in     *)
(* `frame`: in main() while the loop is not running, and in a callback,     *)
(* timer or handler that the loop has called.  Only then can the API be     *)
(* called; meanwhile time passes and file descriptors become ready.         *)
(***************************************************************************)
EXTENDS Integers, Sequences, FiniteSets

CONSTANTS
    FDs,          \* the descriptors applications register
    Callbacks,    \* the callbacks applications queue
    Requests,     \* the event sets applications ask for
    Conditions,   \* the events the kernel can raise on a descriptor
    EventsNum,    \* events_num_: how many events one epoll_wait reports
    PollCap,      \* the 60 s an epoll_wait lasts at most, in ticks
    MaxTime,      \* bound: the clock stops here
    MaxPending,   \* bound: callbacks that are queued and have not run
    IdModulus, Never, Delays, MaxAdds   \* of TimeoutQueue

ASSUME IOLoopAssumption ==
    /\ \A r \in Requests : r \subseteq {"READ", "WRITE"}
    /\ Conditions \subseteq {"READ", "WRITE", "ERROR"}
    /\ EventsNum \in Nat \ {0}
    /\ PollCap \in Nat \ {0}
    /\ MaxTime \in Nat
    /\ MaxPending \in Nat
    /\ IdModulus \in Nat /\ IdModulus >= 2
    /\ Never \in Int
    /\ Delays \subseteq Int
    /\ MaxAdds \in Nat

VARIABLES
    running,      \* running_
    callbacks,    \* callbacks_
    handlers,     \* the registered descriptors: handlers_[fd].fd # -1
    handle_num,   \* handle_num_
    phase,        \* where start() is; "out" when it is not running
    frame,        \* the application code on the stack, or "none"
    current,      \* the callback or descriptor that frame belongs to
    cbBatch,      \* start()'s local `callbacks`, less what was called
    events,       \* event_list, less what was dispatched
    deadline,     \* when the epoll_wait in progress times out, 0 outside of it
    clock,        \* TimeUtil::curTimeMS()
    interest,     \* epoll: the events watched for each watched descriptor
    ready,        \* kernel: the condition of each descriptor
    rdlist        \* epoll: the descriptors, least recently reported first

loopVars == <<running, callbacks, handlers, handle_num, phase, frame, current,
              cbBatch, events, deadline>>
kernelVars == <<clock, interest, ready, rdlist>>

VARIABLES timeouts, nextId, run, batch, adds, called, during, done, erased, dropped

tqVars == <<timeouts, nextId, run, batch, adds, called, during, done, erased, dropped>>

TQ == INSTANCE TimeoutQueue WITH Times <- 0..MaxTime

vars == <<loopVars, kernelVars, tqVars>>

None == "none"

Pending == cbBatch \o callbacks

Watched == DOMAIN interest

\* What epoll_wait can report of fd.  ERROR is EPOLLERR and EPOLLHUP, which are
\* watched whatever the caller asked for.
Reportable(fd) == IF fd \in Watched THEN ready[fd] \cap interest[fd] ELSE {}

ReadyList == SelectSeq(rdlist, LAMBDA fd : Reportable(fd) # {})

LowerOf(a, b) == IF a < b THEN a ELSE b

Init ==
    /\ running = FALSE
    /\ callbacks = << >>
    /\ handlers = {}
    /\ handle_num = 0
    /\ phase = "out"
    /\ frame = "main"
    /\ current = None
    /\ cbBatch = << >>
    /\ events = << >>
    /\ deadline = 0
    /\ clock = 0
    /\ interest = << >>
    /\ ready = [fd \in FDs |-> {}]
    /\ rdlist \in {s \in [1..Cardinality(FDs) -> FDs] : \A i, j \in DOMAIN s : s[i] = s[j] => i = j}
    /\ TQ!Init

-----------------------------------------------------------------------------
(* The API, called from application code.                                  *)

AppCode == frame # None

\* The code asserts that the descriptor is free; epoll_ctl may refuse it, and
\* then the handler stays in the table all the same.
AddHandler(fd, request, watched) ==
    /\ AppCode
    /\ fd \notin handlers
    /\ handlers' = handlers \cup {fd}
    /\ handle_num' = handle_num + 1
    /\ interest' = IF watched
                     THEN [f \in Watched \cup {fd} |->
                             IF f = fd THEN request \cup {"ERROR"} ELSE interest[f]]
                     ELSE interest
    /\ UNCHANGED <<running, callbacks, phase, frame, current, cbBatch, events,
                   deadline, clock, ready, rdlist, tqVars>>

\* A signalfd that epoll refuses is removed again and closed: no change.
AddSignalHandler(fd) == AddHandler(fd, {"READ"}, TRUE)

UpdateHandler(fd, request) ==
    /\ AppCode
    /\ fd \in Watched
    /\ interest' = [interest EXCEPT ![fd] = request \cup {"ERROR"}]
    /\ UNCHANGED <<loopVars, clock, ready, rdlist, tqVars>>

\* Mutant of RemoveHandler: epoll is not told.
RemoveHandlerKeepsWatch(fd) ==
    /\ AppCode
    /\ fd \in handlers
    /\ handlers' = handlers \ {fd}
    /\ handle_num' = handle_num - 1
    /\ UNCHANGED <<running, callbacks, phase, frame, current, cbBatch, events,
                   deadline, kernelVars, tqVars>>

\* Of a descriptor that is not registered: no change.
RemoveHandler(fd) ==
    /\ AppCode
    /\ fd \in handlers
    /\ handlers' = handlers \ {fd}
    /\ handle_num' = handle_num - 1
    /\ interest' = [f \in Watched \ {fd} |-> interest[f]]
    /\ UNCHANGED <<running, callbacks, phase, frame, current, cbBatch, events,
                   deadline, clock, ready, rdlist, tqVars>>

AddCallback(cb) ==
    /\ AppCode
    /\ callbacks' = Append(callbacks, cb)
    /\ UNCHANGED <<running, handlers, handle_num, phase, frame, current, cbBatch,
                   events, deadline, kernelVars, tqVars>>

AddTimeout(delay) ==
    /\ AppCode
    /\ TQ!Add(clock, delay)
    /\ UNCHANGED <<loopVars, kernelVars>>

RemoveTimeout(id) ==
    /\ AppCode
    /\ TQ!Erase(id)
    /\ UNCHANGED <<loopVars, kernelVars>>

Stop ==
    /\ AppCode
    /\ running' = FALSE
    /\ UNCHANGED <<callbacks, handlers, handle_num, phase, frame, current,
                   cbBatch, events, deadline, kernelVars, tqVars>>

\* start() in main.  While running_ is set it returns -1: no change.  (From a
\* frame inside the loop it would need a stop() just before it, and would then
\* nest a second loop in the first: not modelled.)
Start ==
    /\ phase = "out"
    /\ ~running
    /\ running' = TRUE
    /\ phase' = "top"
    /\ frame' = None
    /\ UNCHANGED <<callbacks, handlers, handle_num, current, cbBatch, events,
                   deadline, kernelVars, tqVars>>

\* A callback, timer or handler returns to the loop.
Return ==
    /\ frame \in {"callback", "timer", "handler"}
    /\ frame' = None
    /\ current' = None
    /\ UNCHANGED <<running, callbacks, handlers, handle_num, phase, cbBatch,
                   events, deadline, kernelVars, tqVars>>

-----------------------------------------------------------------------------
(* The steps of start().                                                   *)

\* The loop itself runs, at the given point.
At(p) == phase = p /\ frame = None

\* Mutant of SwapCallbacks: the vector is copied, not swapped.
SwapCallbacksCopies ==
    /\ At("top")
    /\ cbBatch' = callbacks
    /\ phase' = "callbacks"
    /\ UNCHANGED <<running, callbacks, handlers, handle_num, frame, current, events,
                   deadline, kernelVars, tqVars>>

\* What is queued from now on waits for the next iteration.
SwapCallbacks ==
    /\ At("top")
    /\ cbBatch' = callbacks
    /\ callbacks' = << >>
    /\ phase' = "callbacks"
    /\ UNCHANGED <<running, handlers, handle_num, frame, current, events, deadline,
                   kernelVars, tqVars>>

RunCallback ==
    /\ At("callbacks")
    /\ cbBatch # << >>
    /\ cbBatch' = Tail(cbBatch)
    /\ frame' = "callback"
    /\ current' = Head(cbBatch)
    /\ UNCHANGED <<running, callbacks, handlers, handle_num, phase, events,
                   deadline, kernelVars, tqVars>>

\* Mutant of RunTimers: the timers wait until no callback is queued.
RunTimersLast ==
    /\ At("callbacks")
    /\ cbBatch = << >>
    /\ \/ /\ timeouts # {} /\ callbacks = << >>
          /\ TQ!StartRun("once", clock)
          /\ phase' = "timers"
       \/ /\ timeouts = {} \/ callbacks # << >>
          /\ phase' = "check"
          /\ UNCHANGED tqVars
    /\ UNCHANGED <<running, callbacks, handlers, handle_num, frame, current,
                   cbBatch, events, deadline, kernelVars>>

\* After the last callback: the timers, if there are any.
RunTimers ==
    /\ At("callbacks")
    /\ cbBatch = << >>
    /\ \/ /\ timeouts # {}
          /\ TQ!StartRun("once", clock)
          /\ phase' = "timers"
       \/ /\ timeouts = {}
          /\ phase' = "check"
          /\ UNCHANGED tqVars
    /\ UNCHANGED <<running, callbacks, handlers, handle_num, frame, current,
                   cbBatch, events, deadline, kernelVars>>

FireTimer ==
    /\ At("timers")
    /\ TQ!Fire
    /\ frame' = "timer"
    /\ UNCHANGED <<running, callbacks, handlers, handle_num, phase, current,
                   cbBatch, events, deadline, kernelVars>>

TimersDone ==
    /\ At("timers")
    /\ TQ!EndRun
    /\ phase' = "check"
    /\ UNCHANGED <<running, callbacks, handlers, handle_num, frame, current,
                   cbBatch, events, deadline, kernelVars>>

\* Mutant of NothingToDo: nor at the timers.
NothingToDoButTimers == handle_num <= 0 /\ callbacks = << >>

NothingToDo == handle_num <= 0 /\ callbacks = << >> /\ timeouts = {}

\* start() returns.  running_ stays set when the loop ends by itself.
Exit ==
    /\ At("check")
    /\ ~running \/ NothingToDo
    /\ phase' = "out"
    /\ frame' = "main"
    /\ UNCHANGED <<running, callbacks, handlers, handle_num, current, cbBatch,
                   events, deadline, kernelVars, tqVars>>

\* Mutant of PollTimeout: a pending callback does not cut the wait short.
PollTimeoutTimersOnly ==
    LET next == TQ!NextExpiration IN
    IF next - clock < PollCap
      THEN IF next <= clock THEN 0 ELSE next - clock
      ELSE PollCap

PollTimeout ==
    LET next == TQ!NextExpiration IN
    IF callbacks # << >> THEN 0
    ELSE IF next - clock < PollCap
      THEN IF next <= clock THEN 0 ELSE next - clock
      ELSE PollCap

\* Mutant of EnterPoll: callbacks that are queued are run without a poll.
EnterPollUnlessCallbacks ==
    /\ At("check")
    /\ running
    /\ ~NothingToDo
    /\ deadline' = clock + PollTimeout
    /\ phase' = IF callbacks = << >> THEN "poll" ELSE "top"
    /\ UNCHANGED <<running, callbacks, handlers, handle_num, frame, current,
                   cbBatch, events, kernelVars, tqVars>>

EnterPoll ==
    /\ At("check")
    /\ running
    /\ ~NothingToDo
    /\ deadline' = clock + PollTimeout
    /\ phase' = "poll"
    /\ UNCHANGED <<running, callbacks, handlers, handle_num, frame, current,
                   cbBatch, events, kernelVars, tqVars>>

\* epoll_wait reports what is ready, EventsNum descriptors at most, those it
\* has not reported for longest first.
PollEvents ==
    /\ At("poll")
    /\ ReadyList # << >>
    /\ LET reported == SubSeq(ReadyList, 1, LowerOf(EventsNum, Len(ReadyList)))
           Late(fd) == \E i \in DOMAIN reported : reported[i] = fd
       IN  /\ events' = [i \in DOMAIN reported |->
                            [fd |-> reported[i], events |-> Reportable(reported[i])]]
           /\ rdlist' = SelectSeq(rdlist, LAMBDA fd : ~Late(fd)) \o reported
    /\ phase' = "dispatch"
    /\ deadline' = 0
    /\ UNCHANGED <<running, callbacks, handlers, handle_num, frame, current,
                   cbBatch, clock, interest, ready, tqVars>>

\* Mutant of PollNothing: the loop goes back to where it polls.
PollNothingPollsAgain ==
    /\ At("poll")
    /\ ReadyList = << >>
    /\ phase' = "check"
    /\ deadline' = 0
    /\ UNCHANGED <<running, callbacks, handlers, handle_num, frame, current,
                   cbBatch, events, kernelVars, tqVars>>

\* Nothing was ready in time, or a signal interrupted the wait (EINTR): poll()
\* returns 0 either way.  Events that are there are reported before either.
PollNothing ==
    /\ At("poll")
    /\ ReadyList = << >>
    /\ phase' = "top"
    /\ deadline' = 0
    /\ UNCHANGED <<running, callbacks, handlers, handle_num, frame, current,
                   cbBatch, events, kernelVars, tqVars>>

PollTimedOut ==
    /\ PollNothing
    /\ clock >= LowerOf(deadline, MaxTime)

PollInterrupted == PollNothing

\* An event whose descriptor is no longer registered is skipped.
Dispatch ==
    /\ At("dispatch")
    /\ events # << >>
    /\ events' = Tail(events)
    /\ LET fd == Head(events).fd IN
       \/ fd \in handlers /\ frame' = "handler" /\ current' = fd
       \/ fd \notin handlers /\ UNCHANGED <<frame, current>>
    /\ UNCHANGED <<running, callbacks, handlers, handle_num, phase, cbBatch,
                   deadline, kernelVars, tqVars>>

DispatchDone ==
    /\ At("dispatch")
    /\ events = << >>
    /\ phase' = "top"
    /\ UNCHANGED <<running, callbacks, handlers, handle_num, frame, current,
                   cbBatch, events, deadline, kernelVars, tqVars>>

-----------------------------------------------------------------------------
(* The kernel.                                                             *)

Tick ==
    /\ clock < MaxTime
    /\ clock' = clock + 1
    /\ UNCHANGED <<loopVars, interest, ready, rdlist, tqVars>>

BecomesReady(fd, e) ==
    /\ e \notin ready[fd]
    /\ ready' = [ready EXCEPT ![fd] = @ \cup {e}]
    /\ UNCHANGED <<loopVars, clock, interest, rdlist, tqVars>>

\* Application code reads or writes until the descriptor would block.
Drain(fd) ==
    /\ AppCode
    /\ ready[fd] \cap {"READ", "WRITE"} # {}
    /\ ready' = [ready EXCEPT ![fd] = @ \cap {"ERROR"}]
    /\ UNCHANGED <<loopVars, clock, interest, rdlist, tqVars>>

-----------------------------------------------------------------------------

ApiStep ==
    \/ \E fd \in FDs, request \in Requests, watched \in BOOLEAN :
          AddHandler(fd, request, watched)
    \/ \E fd \in FDs : AddSignalHandler(fd)
    \/ \E fd \in FDs, request \in Requests : UpdateHandler(fd, request)
    \/ \E fd \in FDs : RemoveHandler(fd)
    \/ \E cb \in Callbacks : Len(Pending) < MaxPending /\ AddCallback(cb)
    \/ \E delay \in Delays :
          adds < MaxAdds /\ clock + delay <= MaxTime /\ AddTimeout(delay)
    \/ \E id \in 1..(IdModulus - 1) : RemoveTimeout(id)
    \/ Stop
    \/ Start

LoopStep ==
    \/ SwapCallbacks
    \/ RunCallback
    \/ RunTimers
    \/ FireTimer
    \/ TimersDone
    \/ Exit
    \/ EnterPoll
    \/ PollEvents
    \/ PollTimedOut
    \/ Dispatch
    \/ DispatchDone

KernelStep ==
    \/ Tick
    \/ \E fd \in FDs, e \in Conditions : BecomesReady(fd, e)
    \/ \E fd \in FDs : Drain(fd)

Next == ApiStep \/ Return \/ LoopStep \/ PollInterrupted \/ KernelStep

Spec == Init /\ [][Next]_vars

\* The thread is scheduled, application code returns to the loop, time passes.
Fairness ==
    /\ WF_vars(LoopStep)
    /\ WF_vars(Return)
    /\ WF_vars(Tick)

FairSpec == Spec /\ Fairness

-----------------------------------------------------------------------------
(* Correctness.                                                            *)

InLoop == phase # "out"

TypeOK ==
    /\ running \in BOOLEAN
    /\ callbacks \in Seq(Callbacks)
    /\ handlers \subseteq FDs
    /\ handle_num \in Int
    /\ phase \in {"out", "top", "callbacks", "timers", "check", "poll", "dispatch"}
    /\ frame \in {None, "main", "callback", "timer", "handler"}
    /\ current \in FDs \cup Callbacks \cup {None}
    /\ cbBatch \in Seq(Callbacks)
    /\ deadline \in Int
    /\ clock \in 0..MaxTime
    /\ Watched \subseteq FDs
    /\ \A fd \in Watched : interest[fd] \subseteq {"READ", "WRITE", "ERROR"}
    /\ ready \in [FDs -> SUBSET Conditions]
    /\ TQ!TypeOK

\* The count that decides whether the loop has anything to wait for is the
\* number of registered handlers, also after failed registrations and removals
\* in the middle of a dispatch; and epoll watches no descriptor without one.
HandlersCounted ==
    /\ handle_num = Cardinality(handlers)
    /\ Watched \subseteq handlers

\* The wait never outlasts what is due: while the loop sleeps, the moment a
\* timer is due the wait is over, a queued callback makes it end at once, and
\* it lasts 60 s at most.
NoOversleep ==
    phase = "poll" =>
      /\ callbacks # << >> => deadline <= clock
      /\ \A e \in timeouts : e.expiration <= clock => deadline <= clock
      /\ deadline <= clock + PollCap

\* Callbacks run once each and in the order they were queued, across the swap,
\* callbacks queued by callbacks, stop() and restart: a step queues one, runs
\* the oldest, or leaves the queue alone.
CallbacksFIFO ==
    [][\/ Pending' = Pending
       \/ \E cb \in Callbacks : Pending' = Append(Pending, cb)
       \/ /\ Pending # << >>
          /\ Pending' = Tail(Pending)
          /\ frame' = "callback"
          /\ current' = Head(Pending)]_vars

\* The loop ends only when it was stopped or has nothing left to wait for.
ExitsForAReason ==
    [][InLoop /\ phase' = "out" =>
         ~running \/ (handlers = {} /\ Pending = << >> /\ timeouts = {})]_vars

\* A queued callback is run, or the loop ends: callbacks that queue themselves
\* again, timers and a flood of events cannot starve it.
CallbackRuns ==
    \A cb \in Callbacks :
      (InLoop /\ \E i \in DOMAIN Pending : Pending[i] = cb)
        ~> (phase = "out" \/ (frame = "callback" /\ current = cb))

\* A timer that is set is called, erased, or the loop ends.
TimerFires ==
    \A n \in 1..MaxAdds :
      (InLoop /\ \E e \in timeouts : e.stamp = n)
        ~> (phase = "out" \/ ~\E e \in timeouts \cup batch : e.stamp = n)

\* A descriptor that stays ready gets its handler called, even when more are
\* ready than one epoll_wait reports and callbacks keep the loop busy.
ReadyIsDispatched ==
    \A fd \in FDs :
      (InLoop /\ Reportable(fd) # {})
        ~> (phase = "out" \/ Reportable(fd) = {} \/ (frame = "handler" /\ current = fd))
=============================================================================
