------------------------------ MODULE MCCatalog -----------------------------
(* Instances of Catalog for TLC. *)
EXTENDS Catalog, TLC

CONSTANTS w1, w2, q1, q2, q3, q4, k1

Symmetry == Permutations({w1, w2}) \cup Permutations({q1, q2, q3, q4})
=============================================================================
