----------------------------- MODULE Ownership ------------------------------
(***************************************************************************)
(* What the scheduler promises of an execution: it is held by one node at  *)
(* a time, it is worked on by nobody but its holder, work starts only with *)
(* the grant and never again under it, and a hold taken away ends the      *)
(* claim of the work that is still going on.                               *)
(***************************************************************************)
CONSTANTS
  Nodes, Execs,
  Works,      \* the pieces of work
  None

VARIABLES
  holder,     \* the node an execution belongs to
  workers     \* the work on it that counts: who does it, and what

vars == <<holder, workers>>

Init ==
  /\ holder = [e \in Execs |-> None]
  /\ workers = [e \in Execs |-> {}]

\* A free execution goes to a node, which starts to work on it.
Grant(n, e, w) ==
  /\ holder[e] = None
  /\ holder' = [holder EXCEPT ![e] = n]
  /\ workers' = [workers EXCEPT ![e] = {<<n, w>>}]

\* Or it goes to a node that does not learn of it, and is held without work.
Mislay(n, e) ==
  /\ holder[e] = None
  /\ holder' = [holder EXCEPT ![e] = n]
  /\ UNCHANGED workers

\* Work ends, of one execution or of all of a node that dies; they stay held.
End(S) ==
  /\ workers' = [e \in Execs |-> IF e \in S THEN {} ELSE workers[e]]
  /\ UNCHANGED holder

\* What a node holds is taken from it, and its work on it counts no more.
Revoke(n, S) ==
  /\ \A e \in S : holder[e] = n
  /\ holder' = [e \in Execs |-> IF e \in S THEN None ELSE holder[e]]
  /\ workers' = [e \in Execs |-> IF e \in S THEN {} ELSE workers[e]]

Next ==
  \/ \E n \in Nodes, e \in Execs, w \in Works : Grant(n, e, w)
  \/ \E n \in Nodes, e \in Execs : Mislay(n, e)
  \/ \E S \in SUBSET Execs : End(S) \/ \E n \in Nodes : Revoke(n, S)

Spec == Init /\ [][Next]_vars
=============================================================================
