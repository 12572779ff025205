---------------------------- MODULE MCTcpServer ----------------------------
(* Instances of TcpServer for TLC. *)
EXTENDS TcpServer

CONSTANTS io1, io2

\* A pool of up to two threads; with none, the base loop has the connections.
TwoLoops == <<io1, io2>>
=============================================================================
