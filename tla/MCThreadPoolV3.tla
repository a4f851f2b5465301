--------------------------- MODULE MCThreadPoolV3 ---------------------------
(* ThreadPoolV3 for TLC: small sets of threads and tasks. *)
EXTENDS ThreadPoolV3, TLC

(* Threads of one kind, and tasks, are interchangeable. *)
Symmetry ==
  Permutations(Clients) \cup Permutations(Workers) \cup Permutations(Tasks)
=============================================================================
