---------------------------- MODULE MCTcpServer ----------------------------
(* Instance of TcpServer for TLC: three descriptors, two connections.      *)
EXTENDS TcpServer
=============================================================================
