------------------------------ MODULE StepLoop ------------------------------
(***************************************************************************)
(* What the engine promises of the commands of a step, in however many     *)
(* runs and whatever becomes of the processes: a command is launched no    *)
(* more often than the policy says and never after it succeeded, and the   *)
(* compensation is for a step that used up its attempts, which is then not *)
(* launched again.  Executor implements it with rows and runs, Attempts    *)
(* with one run's loop and processes.                                      *)
(***************************************************************************)
EXTENDS Naturals

CONSTANTS
  Steps,
  Max         \* the attempts of each step

VARIABLES
  launches,   \* how often the command was handed to a runner
  succeeded,  \* the steps whose command exited with 0
  undone      \* the steps whose compensation was handed to a runner

vars == <<launches, succeeded, undone>>

Init ==
  /\ launches = [s \in Steps |-> 0]
  /\ succeeded = {}
  /\ undone = {}

Launch(s) ==
  /\ s \notin succeeded \cup undone
  /\ launches[s] < Max[s]
  /\ launches' = [launches EXCEPT ![s] = @ + 1]
  /\ UNCHANGED <<succeeded, undone>>

Succeed(s) ==
  /\ s \notin succeeded \cup undone
  /\ launches[s] > 0
  /\ succeeded' = succeeded \cup {s}
  /\ UNCHANGED <<launches, undone>>

Undo(s) ==
  /\ s \notin succeeded \cup undone
  /\ launches[s] = Max[s]
  /\ undone' = undone \cup {s}
  /\ UNCHANGED <<launches, succeeded>>

Next == \E s \in Steps : Launch(s) \/ Succeed(s) \/ Undo(s)

Spec == Init /\ [][Next]_vars
=============================================================================
