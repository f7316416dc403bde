-------------------------- MODULE MCShmTimerQueue --------------------------
(* Instance of ShmTimerQueue for TLC: two processes, two segments, three     *)
(* calls of add(), ids 1 and 2.                                            *)
EXTENDS ShmTimerQueue

MCNames == <<"TimerQueue", "IntNextId">>
MCAsked == <<1, 0, 1>>
=============================================================================
