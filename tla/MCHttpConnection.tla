-------------------------- MODULE MCHttpConnection --------------------------
(* Requests of one byte of headers and a body of one byte, with a third byte *)
(* that the client may send too; responses of one byte of headers and one or *)
(* two of body, which a write(2) cannot take at once.                       *)
EXTENDS HttpConnection
=============================================================================
