--------------------------- MODULE MCSocketServer ---------------------------
(* Instances of SocketServer for TLC: connections are model values.        *)
EXTENDS SocketServer
=============================================================================
