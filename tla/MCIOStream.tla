----------------------------- MODULE MCIOStream -----------------------------
(* One connection whose buffers hold a little more than one chunk, so that   *)
(* they fill up; all constants are numbers, given in the cfg files.          *)
EXTENDS IOStream
=============================================================================
