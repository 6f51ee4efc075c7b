---------------------------- MODULE MCScheduler -----------------------------
(* Instances of Scheduler for TLC. *)
EXTENDS Scheduler, TLC

CONSTANTS n1, n2, r1, r2, r3

Symmetry == Permutations({n1, n2}) \cup Permutations({r1, r2, r3})
=============================================================================
