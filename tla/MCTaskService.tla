--------------------------- MODULE MCTaskService ---------------------------
(* TaskService for TLC: a client that makes calls, and one that connects   *)
(* and stays idle.                                                         *)
EXTENDS TaskService

CONSTANTS k1, k2
MCClients == {k1, k2}
MCMaxCalls == [k \in MCClients |-> IF k = k1 THEN 2 ELSE 0]
=============================================================================
