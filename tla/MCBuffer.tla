------------------------------ MODULE MCBuffer ------------------------------
(* A buffer of four cells and two byte values, filled by calls of at most   *)
(* two bytes: it fills up, is drained, wraps to the front by compaction and *)
(* refuses what does not fit.                                              *)
EXTENDS Buffer

CONSTANTS a, b0

MCByte == {a, b0}
MCDelimiters == {<<a>>, <<a, b0>>}
=============================================================================
