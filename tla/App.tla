-------------------------------- MODULE App --------------------------------
(***************************************************************************)
(* tornado::App (src/tornado/App.h, App.cpp): a periodic application in an   *)
(* IOLoop, ended by SIGTERM.  One process, one App: its code is the only     *)
(* application code of the loop (module IOLoop), whose descriptors are the   *)
(* signalfds that start() opens and whose timers are those of runOneLoop.    *)
(*                                                                         *)
(* `app_at` says where App's code is; a call it makes of the loop is one step.   *)
(* oneLoopProcessData is the derived class's: it may call stop(), of App or  *)
(* of the loop, and returns any delay.                                      *)
(***************************************************************************)
EXTENDS IOLoop

VARIABLES
    app_running,  \* App::running_
    tid,          \* tid_
    app_at,           \* where the code of App is
    starts,       \* history: calls of start() that got a signalfd, in order
    term_pending,      \* whether SIGTERM is pending: nobody reads the signalfd
    loopStopped,  \* history: oneLoopProcessData called IOLoop::stop
    app_aborted       \* whether the assert of start() has failed

appVars == <<app_running, tid, app_at, starts, term_pending, loopStopped, app_aborted>>
allAppVars == <<vars, appVars>>

AppInit ==
    /\ Init
    /\ app_running = FALSE
    /\ tid = 0
    /\ app_at = "idle"
    /\ starts = << >>
    /\ term_pending = FALSE
    /\ loopStopped = FALSE
    /\ app_aborted = FALSE

SignalFDs == {starts[i] : i \in DOMAIN starts}

AppGoes(place) == app_at' = place

\* The id that addTimeout will return.
NextTid == TQ!IdOf(nextId)

-----------------------------------------------------------------------------
(* start()                                                                 *)

\* assert, then addSignalHandler with a new descriptor, or its failure.
StartApp ==
    /\ frame = "main" /\ app_at = "idle" /\ ~app_aborted
    /\ \/ /\ app_running
          /\ app_aborted' = TRUE
          /\ UNCHANGED <<vars, app_at, starts>>
       \/ /\ ~app_running
          /\ \E fd \in FDs \ SignalFDs :
                /\ AddSignalHandler(fd)
                /\ starts' = Append(starts, fd)
          /\ AppGoes("set")
          /\ UNCHANGED app_aborted
    /\ UNCHANGED <<app_running, tid, term_pending, loopStopped>>

SetFirstTimer ==
    /\ app_at = "set"
    /\ app_running' = TRUE
    /\ adds < MaxAdds
    /\ AddTimeout(0)
    /\ tid' = NextTid
    /\ AppGoes("run")
    /\ UNCHANGED <<starts, term_pending, loopStopped, app_aborted>>

\* ioloop_->start(), which returns at once when the loop's running_ is set.
RunLoop ==
    /\ app_at = "run"
    /\ \/ Start
       \/ running /\ UNCHANGED vars
    /\ AppGoes("idle")
    /\ UNCHANGED <<app_running, tid, starts, term_pending, loopStopped, app_aborted>>

-----------------------------------------------------------------------------
(* stop(), signal_handler and runOneLoop                                   *)

\* A timer that the loop has taken is not found, and stays.
StopApp ==
    /\ app_running' = FALSE
    /\ \/ app_running /\ RemoveTimeout(tid)
       \/ ~app_running /\ UNCHANGED vars
       \/ app_running /\ ~TQ!IdInUse(tid) /\ UNCHANGED vars

AppSignalHandler ==
    /\ frame = "handler" /\ app_at = "idle"
    /\ RemoveHandler(current)
    /\ AppGoes("stop")
    /\ UNCHANGED <<app_running, tid, starts, term_pending, loopStopped, app_aborted>>

SignalHandlerStops ==
    /\ app_at = "stop"
    /\ StopApp
    /\ AppGoes("return")
    /\ UNCHANGED <<tid, starts, term_pending, loopStopped, app_aborted>>

\* Mutant of RunOneLoop: running_ is not asked.
RunOneLoopUnasked ==
    /\ frame = "timer" /\ app_at = "idle"
    /\ AppGoes("process")
    /\ UNCHANGED <<vars, app_running, tid, starts, term_pending, loopStopped, app_aborted>>

RunOneLoop ==
    /\ frame = "timer" /\ app_at = "idle"
    /\ AppGoes(IF app_running THEN "process" ELSE "return")
    /\ UNCHANGED <<vars, app_running, tid, starts, term_pending, loopStopped, app_aborted>>

ProcessStopsApp ==
    /\ app_at = "process"
    /\ app_running
    /\ StopApp
    /\ UNCHANGED <<tid, app_at, starts, term_pending, loopStopped, app_aborted>>

ProcessStopsLoop ==
    /\ app_at = "process"
    /\ ~loopStopped
    /\ Stop
    /\ loopStopped' = TRUE
    /\ UNCHANGED <<app_running, tid, app_at, starts, term_pending, app_aborted>>

\* oneLoopProcessData returns and the next timer is set, stopped or not.  For the
\* bounds, a stopped App's is due before the clock stops, and the last timer of
\* one that goes on is not.
SetNextTimer ==
    /\ app_at = "process"
    /\ adds < MaxAdds
    /\ \E delay \in Delays :
          /\ IF app_running THEN adds + 1 = MaxAdds => clock + delay > MaxTime
             ELSE clock + delay <= MaxTime
          /\ AddTimeout(delay)
    /\ tid' = NextTid
    /\ AppGoes("return")
    /\ UNCHANGED <<app_running, starts, term_pending, loopStopped, app_aborted>>

AppReturns ==
    /\ app_at = "return"
    /\ Return
    /\ AppGoes("idle")
    /\ UNCHANGED <<app_running, tid, starts, term_pending, loopStopped, app_aborted>>

-----------------------------------------------------------------------------

\* SIGTERM is blocked and read by nobody: every signalfd, those of later starts
\* too, is readable from now on.
AppSigterm ==
    /\ ~term_pending
    /\ term_pending' = TRUE
    /\ ready' = [fd \in FDs |-> {"READ"}]
    /\ UNCHANGED <<loopVars, clock, interest, rdlist, tqVars, app_running, tid, app_at,
                   starts, loopStopped, app_aborted>>

AppCodeStep ==
    \/ SetFirstTimer \/ RunLoop \/ AppSignalHandler \/ SignalHandlerStops \/ RunOneLoop
    \/ SetNextTimer \/ AppReturns

AppNext ==
    \/ StartApp
    \/ AppCodeStep
    \/ ProcessStopsApp \/ ProcessStopsLoop
    \/ (LoopStep \/ PollInterrupted \/ Tick) /\ UNCHANGED appVars
    \/ AppSigterm

AppSpec == AppInit /\ [][AppNext]_allAppVars

\* As for the loop; App's code runs, and oneLoopProcessData returns.
AppFairSpec ==
    /\ AppSpec
    /\ WF_allAppVars(AppCodeStep)
    /\ WF_allAppVars(LoopStep /\ UNCHANGED appVars)
    /\ WF_allAppVars(Tick /\ UNCHANGED appVars)

-----------------------------------------------------------------------------
(* Properties.                                                             *)

\* SIGTERM ends the loop, whenever it comes, and also when oneLoopProcessData
\* has called stop() before: the handler takes itself and the next timer out,
\* and then nothing keeps the loop (App.cpp 22-28, 49-57).  (Of the first run: a
\* second one over a timer that IOLoop::stop() has left runs two chains of them.)
SigtermEnds == (InLoop /\ term_pending /\ Len(starts) = 1) ~> ~InLoop

\* Unless it was stopped itself, the loop ends because the App was stopped, and
\* leaves no handler, and no timer that would run in the next loop.
EndsStopped ==
    [][InLoop /\ phase' = "out" /\ ~loopStopped =>
         ~app_running /\ handlers = {} /\ timeouts = {}]_allAppVars
=============================================================================
