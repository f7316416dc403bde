--------------------------- MODULE MCTimeoutQueue ---------------------------
(* Five timers over two instants, with ids counted modulo three.             *)
EXTENDS TimeoutQueue
=============================================================================
