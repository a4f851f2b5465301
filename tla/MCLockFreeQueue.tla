-------------------------- MODULE MCLockFreeQueue --------------------------
(* LockFreeQueue for TLC: small sets of threads and items. *)
EXTENDS LockFreeQueue, TLC

(* Threads of one kind, and items, are interchangeable in safety runs. *)
Symmetry ==
  Permutations(Producers) \cup Permutations(Consumers) \cup Permutations(Items)
=============================================================================
