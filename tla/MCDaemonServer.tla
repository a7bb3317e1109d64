--------------------------- MODULE MCDaemonServer ---------------------------
(* Small instances of DaemonServer for TLC: a client that sends a request   *)
(* and one that says nothing.                                              *)
EXTENDS DaemonServer

TwoRequests == [k \in Conns |-> IF k = 1 THEN "ping" ELSE "silent"]
=============================================================================
