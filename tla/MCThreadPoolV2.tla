--------------------------- MODULE MCThreadPoolV2 ---------------------------
(* ThreadPoolV2 for TLC: small sets of threads and tasks. *)
EXTENDS ThreadPoolV2, TLC

(* Threads of one kind, and tasks, are interchangeable in safety runs. *)
Symmetry ==
  Permutations(Clients) \cup Permutations(Workers) \cup Permutations(Tasks)
=============================================================================
