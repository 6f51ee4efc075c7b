------------------------------- MODULE DagRun -------------------------------
(***************************************************************************)
(* What the engine promises about one execution, with no runs, tables or   *)
(* failures in it: each step is begun at most once, nothing is begun       *)
(* before the nodes it depends on are settled, and "succeeded" is a        *)
(* verdict on the whole DAG.  Executor implements it (ExecutorProofs).     *)
(***************************************************************************)
CONSTANTS Steps, Gates, Deps, Conditional, Verdicts

VARIABLES
  begun,    \* the steps whose execution was begun
  settled,  \* the nodes that succeeded, were skipped or were approved
  verdict   \* what the database says of the execution

Init ==
  /\ begun = {}
  /\ settled = {}
  /\ verdict \in Verdicts \ {"succeeded"}

\* A step is begun by one caller, once.
Begin(s) ==
  /\ s \notin begun
  /\ Deps[s] \subseteq settled
  /\ begun' = begun \cup {s}
  /\ UNCHANGED <<settled, verdict>>

\* A step that was begun, a gate, or any node with a condition is settled.
Settle(n) ==
  /\ Deps[n] \subseteq settled
  /\ n \in begun \cup Gates \cup Conditional
  /\ settled' = settled \cup {n}
  /\ UNCHANGED <<begun, verdict>>

Conclude ==
  /\ verdict' \in Verdicts
  /\ verdict' = "succeeded" => settled = Steps \cup Gates
  /\ UNCHANGED <<begun, settled>>

Next ==
  \/ \E s \in Steps : Begin(s)
  \/ \E n \in Steps \cup Gates : Settle(n)
  \/ Conclude

Spec == Init /\ [][Next]_<<begun, settled, verdict>>
=============================================================================
