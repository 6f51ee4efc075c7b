----------------------------- MODULE MCExecutor -----------------------------
(* Instances of Executor for TLC. *)
EXTENDS Executor, TLC

CONSTANTS r1, r2, check, gate, deploy

\* check beside the gate, and deploy behind both: a layer of two nodes, then a
\* join; check has a retry.
JoinSteps == {check, deploy}
JoinDeps == (check :> {}) @@ (gate :> {}) @@ (deploy :> {check, gate})
JoinAttempts == (check :> 2) @@ (deploy :> 1)

Symmetry == Permutations({r1, r2})
=============================================================================
