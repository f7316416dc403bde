----------------------------- MODULE MCResolver -----------------------------
(* Instance of Resolver for TLC: three lookups, two sockets.               *)
EXTENDS Resolver
=============================================================================
