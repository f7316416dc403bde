------------------------------- MODULE MCApp -------------------------------
(* Instance of App for TLC: two signalfds, four timers.                    *)
EXTENDS App
=============================================================================
