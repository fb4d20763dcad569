----------------------------- MODULE MCThinMonitor -----------------------------
(* Small instances of ThinMonitor. *)
EXTENDS ThinMonitor, TLC

Symmetry == Permutations(Threads)
===============================================================================
