---------------------------- MODULE TimeoutQueue ----------------------------
(***************************************************************************)
(* folly::TimeoutQueue (src/tornado/TimeoutQueue.h, TimeoutQueue.cpp): the  *)
(* timers of the IOLoop.                                                   *)
(*                                                                         *)
(* A run (runOnce or runLoop) takes every event that is due out of the      *)
(* queue into a local batch, then calls their callbacks one by one; a       *)
(* callback may add and erase events.  The two indexes of the multi_index   *)
(* container are one set here: ids are unique in it, and its order by       *)
(* expiration, events of equal expiration in order of insertion, is the     *)
(* relation Before.                                                        *)
(*                                                                         *)
(* Each event carries a history field the code does not have, its stamp:    *)
(* the number of the add() call that made it.                              *)
(***************************************************************************)
EXTENDS Integers, Sequences, FiniteSets

CONSTANTS
    IdModulus,   \* 2^64: ids are uint64_t
    Times,       \* bound: the times that callers pass as `now`
    Never,       \* the largest int64_t
    Delays,      \* bound: the delays that callers ask for
    MaxAdds      \* bound: calls of add()

ASSUME TimeoutQueueAssumption ==
    /\ IdModulus \in Nat /\ IdModulus >= 2
    /\ Times \subseteq Int
    /\ Never \in Int
    /\ Delays \subseteq Int
    /\ MaxAdds \in Nat

VARIABLES
    timeouts,    \* timeouts_: the pending events
    nextId,      \* nextId_
    run,         \* the runInternal() in progress: mode, now, and calling,
                 \*   which holds while a callback may be on the stack
    batch,       \* the `expired` vector of that run, less what was called
    adds,        \* history: calls of add()
    called,      \* history: the events that run has called back, in order
    during,      \* history: the stamps of the events added during that run
    done,        \* history: the events called back in earlier runs
    erased,      \* history: the events that erase() removed
    dropped      \* history: the events that insert() refused

history == <<adds, called, during, done, erased, dropped>>

vars == <<timeouts, nextId, run, batch, history>>

Event == [id : Nat, expiration : Int, stamp : Nat]

Idle == [mode |-> "idle", now |-> 0, calling |-> FALSE]

\* The order of the BY_EXPIRATION index.
Before(e, f) ==
    \/ e.expiration < f.expiration
    \/ e.expiration = f.expiration /\ e.stamp < f.stamp

\* The events up to upper_bound(now).
Due(now) == {e \in timeouts : e.expiration <= now}

NextExpiration ==
    IF timeouts = {} THEN Never
    ELSE CHOOSE t \in {e.expiration : e \in timeouts} :
            \A e \in timeouts : t <= e.expiration

CalledEvents == {called[i] : i \in DOMAIN called}

IdInUse(id) == \E e \in timeouts : e.id = id

\* Application code runs between two runs, or in a callback of a run.
AppRuns == run.mode = "idle" \/ run.calling

\* Mutant of IdOf: 0, which callers use for "no timer", is handed out.
IdOfNoSkip(n) == n

\* 0 is skipped when the counter wraps.
IdOf(n) == IF n = 0 THEN 1 ELSE n

After(id) == (id + 1) % IdModulus

Init ==
    /\ timeouts = {}
    /\ nextId = 1
    /\ run = Idle
    /\ batch = {}
    /\ adds = 0
    /\ called = << >>
    /\ during = {}
    /\ done = {}
    /\ erased = {}
    /\ dropped = {}

-----------------------------------------------------------------------------
(* The operations.                                                         *)

\* add(now, delay, callback).  The container refuses an id it holds, and the
\* caller gets the id all the same.
Add(now, delay) ==
    LET e == [id |-> IdOf(nextId), expiration |-> now + delay,
              stamp |-> adds + 1]
    IN  /\ AppRuns
        /\ adds' = e.stamp
        /\ during' = IF run.mode = "idle" THEN {} ELSE during \cup {e.stamp}
        /\ nextId' = After(e.id)
        /\ \/ /\ ~IdInUse(e.id)
              /\ timeouts' = timeouts \cup {e}
              /\ UNCHANGED dropped
           \/ /\ IdInUse(e.id)
              /\ dropped' = dropped \cup {e}
              /\ UNCHANGED timeouts
        /\ UNCHANGED <<run, batch, called, done, erased>>

\* erase(id) that returns true.  One that finds no such event in the queue, an
\* event of the batch included, returns false and changes nothing.
Erase(id) ==
    /\ AppRuns
    /\ \E e \in timeouts :
          /\ e.id = id
          /\ timeouts' = timeouts \ {e}
          /\ erased' = erased \cup {e}
    /\ UNCHANGED <<nextId, run, batch, adds, called, during, done, dropped>>

\* Mutant of StartRun: the due events are copied to the batch but stay in the
\* queue until the run has ended.
StartRunKeepsDue(mode, now) ==
    /\ run.mode = "idle"
    /\ run' = [mode |-> mode, now |-> now, calling |-> FALSE]
    /\ batch' = Due(now)
    /\ UNCHANGED <<timeouts, nextId, history>>

\* runInternal: the first pass takes the due events out of the queue.
StartRun(mode, now) ==
    /\ run.mode = "idle"
    /\ run' = [mode |-> mode, now |-> now, calling |-> FALSE]
    /\ batch' = Due(now)
    /\ timeouts' = timeouts \ Due(now)
    /\ UNCHANGED <<nextId, history>>

\* Mutant of Fire: the batch is called in the order of the other index, BY_ID.
FireById ==
    /\ run.mode # "idle"
    /\ \E e \in batch :
          /\ \A f \in batch \ {e} : e.id <= f.id
          /\ batch' = batch \ {e}
          /\ called' = Append(called, e)
    /\ run' = [run EXCEPT !.calling = TRUE]
    /\ UNCHANGED <<timeouts, nextId, adds, during, done, erased, dropped>>

\* The next callback of the batch is called.
Fire ==
    /\ run.mode # "idle"
    /\ \E e \in batch :
          /\ \A f \in batch \ {e} : Before(e, f)
          /\ batch' = batch \ {e}
          /\ called' = Append(called, e)
    /\ run' = [run EXCEPT !.calling = TRUE]
    /\ UNCHANGED <<timeouts, nextId, adds, during, done, erased, dropped>>

\* Mutant of Again: runLoop goes through the queue once too.
AgainNever == FALSE

\* Whether runInternal goes round again: the next expiration is not after now.
Again == run.mode = "loop" /\ Due(run.now) # {}

NextPass ==
    /\ run.mode # "idle"
    /\ batch = {}
    /\ Again
    /\ batch' = Due(run.now)
    /\ timeouts' = timeouts \ Due(run.now)
    /\ run' = [run EXCEPT !.calling = FALSE]
    /\ UNCHANGED <<nextId, history>>

EndRun ==
    /\ run.mode # "idle"
    /\ batch = {}
    /\ ~Again
    /\ run' = Idle
    /\ done' = done \cup CalledEvents
    /\ called' = << >>
    /\ during' = {}
    /\ UNCHANGED <<timeouts, nextId, batch, adds, erased, dropped>>

Next ==
    \/ \E now \in Times, delay \in Delays : adds < MaxAdds /\ Add(now, delay)
    \/ \E id \in 1..(IdModulus - 1) : Erase(id)
    \/ \E mode \in {"once", "loop"}, now \in Times : StartRun(mode, now)
    \/ Fire
    \/ NextPass
    \/ EndRun

Spec == Init /\ [][Next]_vars

-----------------------------------------------------------------------------
(* Correctness.                                                            *)

TypeOK ==
    /\ timeouts \subseteq Event
    /\ nextId \in 0..(IdModulus - 1)
    /\ run \in [mode : {"idle", "once", "loop"}, now : Int, calling : BOOLEAN]
    /\ batch \subseteq Event
    /\ adds \in Nat
    /\ called \in Seq(Event)
    /\ during \subseteq Nat
    /\ done \subseteq Event
    /\ erased \subseteq Event
    /\ dropped \subseteq Event

Everything == timeouts \cup batch \cup CalledEvents \cup done \cup erased \cup dropped

\* Every timer has one fate.  An add() is accounted for by exactly one event,
\* which is pending, in the batch, called, erased or refused, and never two of
\* these: a timer fires at most once, one whose erase() returned true never
\* fires, and none vanishes, however adds, erases and runs interleave.
OneFate ==
    /\ \A n \in 1..adds : \E e \in Everything : e.stamp = n
    /\ \A e, f \in Everything : e.stamp = f.stamp => e = f
    /\ timeouts \cap (batch \cup CalledEvents \cup done \cup erased \cup dropped) = {}
    /\ batch \cap (CalledEvents \cup done \cup erased \cup dropped) = {}
    /\ CalledEvents \cap (done \cup erased \cup dropped) = {}
    /\ done \cap (erased \cup dropped) = {}
    /\ erased \cap dropped = {}
    /\ \A i, j \in DOMAIN called : called[i] = called[j] => i = j

\* An id names one pending timer and is never 0, the callers' "no timer"
\* (App.h, Resolver.h), even after the counter has wrapped.
UniqueIds ==
    /\ \A e \in timeouts : e.id # 0
    /\ \A e, f \in timeouts : e.id = f.id => e = f

\* A timer can be refused only once the ids have gone all the way round.
RefusedOnlyAfterWrap == dropped # {} => adds >= IdModulus

\* What TimeoutQueue.h says of firing: never before the expiration; runOnce
\* goes through the queue once, so what is added during it waits for a later
\* run; and it calls in order of expiration, equal ones in order of add().
FiringDiscipline ==
    /\ \A i \in DOMAIN called : called[i].expiration <= run.now
    /\ run.mode = "once" =>
          /\ \A i \in DOMAIN called : called[i].stamp \notin during
          /\ \A i, j \in DOMAIN called : i < j => Before(called[i], called[j])

\* runLoop returns only when no event is due, and a run of either kind leaves
\* none of the events that were due when it started.
RunsDrain ==
    [][run.mode # "idle" /\ run'.mode = "idle" =>
          /\ run.mode = "loop" => Due(run.now) = {}
          /\ \A e \in Due(run.now) : e.stamp \in during]_vars
=============================================================================
