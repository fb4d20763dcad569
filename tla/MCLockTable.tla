---------------------------- MODULE MCLockTable ----------------------------
(* Small instances of LockTable. *)
EXTENDS LockTable, TLC

Symmetry == Permutations(Inflaters) \cup Permutations(Collectors) \cup Permutations(Objects)
=============================================================================
