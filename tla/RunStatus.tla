----------------------------- MODULE RunStatus ------------------------------
(***************************************************************************)
(* What the rest of the system can count on of a run, one call of Execute, *)
(* as far as the status column shows it.  A run reads the column once,     *)
(* when it loads the execution; from then on it goes by what it remembers, *)
(* writes over whatever the column says by now, and writes only what the   *)
(* transition table has for what it remembers.  Scheduler's run, one among *)
(* nodes, and Executor's, one among the steps of a DAG, both implement it. *)
(***************************************************************************)
CONSTANTS Execs, Runs

VARIABLES
  status,   \* executions.status; "done" is any terminal one
  run       \* what each run is at, for which execution, and remembers

vars == <<status, run>>

\* Not begun, or gone.
Out == [at |-> "out", exec |-> "none", mem |-> "none"]

Init ==
  /\ status = [e \in Execs |-> "queued"]
  /\ run = [r \in Runs |-> Out]

\* validExecutionTransitions, the terminal statuses taken together.
Valid(from, to) ==
  <<from, to>> \in {<<"queued", "running">>, <<"waiting_approval", "running">>,
                    <<"running", "waiting_approval">>, <<"running", "done">>,
                    <<"queued", "done">>, <<"waiting_approval", "done">>}

Goes(r, place, mem) ==
  run' = [run EXCEPT ![r] = [at |-> place, exec |-> @.exec, mem |-> mem]]

\* The run writes what is valid for what it remembers, and remembers it.
Write(r, to, place) ==
  /\ Valid(run[r].mem, to)
  /\ status' = [status EXCEPT ![run[r].exec] = to]
  /\ Goes(r, place, to)

\* It is over with a last status.
Conclude(r) ==
  /\ Valid(run[r].mem, "done")
  /\ status' = [status EXCEPT ![run[r].exec] = "done"]
  /\ run' = [run EXCEPT ![r] = Out]

Begin(r, e) ==
  /\ run[r] = Out
  /\ run' = [run EXCEPT ![r] = [at |-> "loading", exec |-> e, mem |-> "none"]]
  /\ UNCHANGED status

Load(r) ==
  /\ run[r].at = "loading"
  /\ Goes(r, "entering", status[run[r].exec])
  /\ UNCHANGED status

Enter(r) == run[r].at = "entering" /\ Write(r, "running", "running")

Await(r) == run[r].at = "running" /\ Write(r, "waiting_approval", "waiting")

Resume(r) == run[r].at = "waiting" /\ Write(r, "running", "running")

\* To a gate or on from it without remembering it: the transition is not valid, or
\* its UPDATE fails and the error is dropped.  What the UPDATE would have written
\* may be in the column all the same.
Unmarked(r, to, place) ==
  /\ Goes(r, place, run[r].mem)
  /\ \/ UNCHANGED status
     \/ /\ Valid(run[r].mem, to)
        /\ status' = [status EXCEPT ![run[r].exec] = to]

AwaitUnmarked(r) == run[r].at = "running" /\ Unmarked(r, "waiting_approval", "waiting")

ResumeUnmarked(r) == run[r].at = "waiting" /\ Unmarked(r, "running", "running")

\* Succeeded or failed, which waiting_approval does not lead to; or refused.
Finish(r) == run[r].at = "running" /\ run[r].mem = "running" /\ Conclude(r)

Refuse(r) == run[r].at = "waiting" /\ Conclude(r)

\* Runs that are gone without a word: an error, a crash.
Leave(S) ==
  /\ UNCHANGED status
  /\ run' = [r \in Runs |-> IF r \in S THEN Out ELSE run[r]]

Cancel(e) ==
  /\ status[e] # "done"
  /\ status' = [status EXCEPT ![e] = "done"]
  /\ UNCHANGED run

\* A takeover gives executions back; no run of them is told.
Requeue(E) ==
  /\ \A e \in E : status[e] \in {"queued", "running"}
  /\ status' = [e \in Execs |-> IF e \in E THEN "queued" ELSE status[e]]
  /\ UNCHANGED run

Next ==
  \/ \E S \in SUBSET Runs : Leave(S)
  \/ \E r \in Runs : \/ \E e \in Execs : Begin(r, e)
                     \/ Load(r) \/ Enter(r) \/ Await(r) \/ Resume(r)
                     \/ AwaitUnmarked(r) \/ ResumeUnmarked(r)
                     \/ Finish(r) \/ Refuse(r)
  \/ \E e \in Execs : Cancel(e)
  \/ \E E \in SUBSET Execs : Requeue(E)

Spec == Init /\ [][Next]_vars
=============================================================================
