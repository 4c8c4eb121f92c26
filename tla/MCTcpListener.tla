----------------------------- MODULE MCTcpListener -----------------------------
(* A small instance of the listener.  Its connections are interchangeable,  *)
(* but TLC takes no symmetry with liveness properties.                      *)
EXTENDS TcpListener
=============================================================================
