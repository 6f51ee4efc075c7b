------------------------------ MODULE Executor ------------------------------
(***************************************************************************)
(* One execution of a workflow, as internal/engine/executor.go drives it.  *)
(*                                                                         *)
(* The state is the execution's rows in PostgreSQL (executions,            *)
(* execution_steps, approvals) and the local variables of every run, a run *)
(* being one call of Execute by some scheduler node.  More than one run    *)
(* may be alive: performTakeover hands the execution of a node whose       *)
(* heartbeat is late to another node, and nothing tells the first run.     *)
(* One action is one SQL statement of a run, or one answer of a runner,    *)
(* together with the code up to the next; the API's Cancel, Approve and    *)
(* Reject and the scheduler's takeover come between any two of them.       *)
(***************************************************************************)
EXTENDS ExecStatus, Naturals

CONSTANTS
  Steps,        \* the step nodes of the DAG
  Gates,        \* the approval nodes of the DAG
  Deps,         \* InEdges: the nodes each node depends on
  Conditional,  \* the nodes with a "when" expression
  Compensated,  \* the steps with a compensation
  MaxAttempts,  \* retry.max_attempts of each step, 1 without a retry policy
  Runs,         \* the calls of Execute for this execution
  NoRun, NoNode

Nodes == Steps \cup Gates

\* BuildDAG yields nodes of one type each, with edges between known nodes.
ASSUME GraphAssumption ==
  /\ Steps \cap Gates = {}
  /\ Deps \in [Nodes -> SUBSET Nodes]
  /\ Conditional \subseteq Nodes
  /\ Compensated \subseteq Steps
  /\ NoNode \notin Nodes

\* validateSteps refuses a retry policy with max_attempts < 1.
ASSUME RetryAssumption == MaxAttempts \in [Steps -> Nat \ {0}]

ASSUME RunAssumption == NoRun \notin Runs

VARIABLES
  status,       \* executions.status
  finished,     \* executions.finished_at is set
  owned,        \* executions.scheduler_node is set
  checkpoint,   \* executions.checkpoint: the completed nodes last saved
  row,          \* execution_steps: one row per step at most, and who wrote it
  approval,     \* approvals: the row a run inserted for a gate
  pc,           \* where each run is in Execute
  mem,          \* exec.Status as the run remembers it
  done,         \* completed: the run's completed nodes
  todo,         \* the rest of the layer GetReadyNodes returned
  cur,          \* the node the run is at
  attempt,      \* the attempt counter of executeStep's retry loop
  launches,     \* history: how often each step's command was started
  ok,           \* history: the steps whose command exited with 0
  skipped,      \* history: the nodes whose "when" was false
  undone        \* history: the steps whose compensation was started

execution == <<status, finished, owned, checkpoint>>
locals    == <<done, todo, cur, attempt>>
history   == <<launches, ok, skipped, undone>>
vars == <<execution, row, approval, pc, mem, locals, history>>

Where ==
  {"idle", "load", "enter", "layer", "pick", "attempt", "running", "backoff",
   "recordok", "recordfail", "compensate", "fail", "mark", "await", "save",
   "ended"}

NoRow == [status |-> "none", by |-> NoRun]

Init ==
  /\ status = "queued"
  /\ finished = FALSE
  /\ owned = FALSE
  /\ checkpoint = {}
  /\ row = [s \in Steps |-> NoRow]
  /\ approval = [a \in Runs \X Gates |-> "none"]
  /\ pc = [r \in Runs |-> "idle"]
  /\ mem = [r \in Runs |-> "queued"]
  /\ done = [r \in Runs |-> {}]
  /\ todo = [r \in Runs |-> {}]
  /\ cur = [r \in Runs |-> NoNode]
  /\ attempt = [r \in Runs |-> 0]
  /\ launches = [s \in Steps |-> 0]
  /\ ok = {}
  /\ skipped = {}
  /\ undone = {}

Goto(r, from, to) == pc[r] = from /\ pc' = [pc EXCEPT ![r] = to]

\* Mutant: finished_at is coalesced the way started_at is.
transitionExecutionKeepsFinish(r, to) ==
  IF ValidateExecutionTransition(mem[r], to)
  THEN /\ status' = to
       /\ finished' = (finished \/ to \in Terminal)
       /\ mem' = [mem EXCEPT ![r] = to]
  ELSE UNCHANGED <<status, finished, mem>>

\* Mutant: the transition table is not consulted.
transitionExecutionUnchecked(r, to) ==
  /\ status' = to
  /\ finished' = (to \in Terminal)
  /\ mem' = [mem EXCEPT ![r] = to]

(***************************************************************************)
(* transitionExecution: the guard reads the run's memory, the UPDATE is    *)
(* unconditional.  When the transition is invalid nothing is written.  An  *)
(* UPDATE that returns an error was made or was not; where the caller      *)
(* returns the error, the run is over and only the column tells which.     *)
(***************************************************************************)
transitionExecution(r, to) ==
  IF ValidateExecutionTransition(mem[r], to)
  THEN /\ status' = to
       /\ finished' = (to \in Terminal)
       /\ mem' = [mem EXCEPT ![r] = to]
  ELSE UNCHANGED <<status, finished, mem>>

transitionLost == UNCHANGED <<status, finished, mem>>

\* The UPDATE is committed and its answer lost: the column has the new status,
\* and the run, which only remembers what it was told, still the old one.
transitionUnheard(r, to) ==
  /\ ValidateExecutionTransition(mem[r], to)
  /\ status' = to
  /\ finished' = (to \in Terminal)
  /\ UNCHANGED mem

\* Where the caller drops the error, the run goes on after each of the three.
transitionIgnored(r, to) ==
  transitionExecution(r, to) \/ transitionLost \/ transitionUnheard(r, to)

\* Mutant: one completed dependency is enough.
GetReadyNodesAnyDep(completed) ==
  {n \in Nodes \ completed : Deps[n] = {} \/ Deps[n] \cap completed # {}}

GetReadyNodes(completed) == {n \in Nodes \ completed : Deps[n] \subseteq completed}

-----------------------------------------------------------------------------
(* Execute *)

\* pollForWork read the row as queued and unowned, and tryAcquireExecution
\* sets the owner without looking at the status again.
Dispatch(r) ==
  /\ ~owned
  /\ Goto(r, "idle", "load")
  /\ owned' = TRUE
  /\ UNCHANGED <<status, finished, checkpoint, row, approval, mem, locals, history>>

loadExecution(r) ==
  /\ Goto(r, "load", "enter")
  /\ mem' = [mem EXCEPT ![r] = status]
  /\ done' = [done EXCEPT ![r] = checkpoint]
  /\ UNCHANGED <<execution, row, approval, todo, cur, attempt, history>>

EnterRunning(r) ==
  /\ Goto(r, "enter", IF ValidateExecutionTransition(mem[r], "running")
                      THEN "layer" ELSE "ended")
  /\ transitionExecution(r, "running")
  /\ UNCHANGED <<owned, checkpoint, row, approval, locals, history>>

NextLayer(r) ==
  LET ready == GetReadyNodes(done[r]) IN
  /\ ready # {}
  /\ Goto(r, "layer", "pick")
  /\ todo' = [todo EXCEPT ![r] = ready]
  /\ UNCHANGED <<execution, row, approval, mem, done, cur, attempt, history>>

\* No node is ready: succeeded when all are completed, failed otherwise.
NoNodeReady(r) ==
  /\ GetReadyNodes(done[r]) = {}
  /\ Goto(r, "layer", "ended")
  /\ transitionExecution(r, IF done[r] = Nodes THEN "succeeded" ELSE "failed")
  /\ UNCHANGED <<owned, checkpoint, row, approval, locals, history>>

\* A false "when" completes a step as skipped, and an approval as approved.
SkipNode(r, n) ==
  /\ n \in todo[r] \cap Conditional
  /\ Goto(r, "pick", "save")
  /\ cur' = [cur EXCEPT ![r] = n]
  /\ done' = [done EXCEPT ![r] = @ \cup {n}]
  /\ skipped' = skipped \cup {n}
  /\ UNCHANGED <<execution, row, approval, mem, todo, attempt, launches, ok, undone>>

\* Mutant: the checkpoint is saved with the whole layer in it.
saveCheckpointOfLayer(r) ==
  /\ Goto(r, "save", IF todo[r] = {cur[r]} THEN "layer" ELSE "pick")
  /\ todo' = [todo EXCEPT ![r] = @ \ {cur[r]}]
  /\ checkpoint' \in {checkpoint, done[r] \cup todo[r]}
  /\ UNCHANGED <<status, finished, owned, row, approval, mem, done, cur, attempt, history>>

\* saveCheckpoint overwrites the column; a failed UPDATE is only logged.
saveCheckpoint(r) ==
  /\ Goto(r, "save", IF todo[r] = {cur[r]} THEN "layer" ELSE "pick")
  /\ todo' = [todo EXCEPT ![r] = @ \ {cur[r]}]
  /\ checkpoint' \in {checkpoint, done[r]}
  /\ UNCHANGED <<status, finished, owned, row, approval, mem, done, cur, attempt, history>>

\* handleStepFailure and the transition to failed.
FailExecution(r) ==
  /\ Goto(r, "fail", "ended")
  /\ transitionExecution(r, "failed")
  /\ UNCHANGED <<owned, checkpoint, row, approval, locals, history>>

\* The node crashes, its context is cancelled, or Execute returns the error of
\* a statement: the rows stay as they are and the run is gone.
Abort(r) ==
  /\ pc[r] \notin {"idle", "ended"}
  /\ pc' = [pc EXCEPT ![r] = "ended"]
  /\ UNCHANGED <<execution, row, approval, mem, locals, history>>

-----------------------------------------------------------------------------
(* executeStep *)

\* Mutant: the INSERT takes over an existing row (ON CONFLICT DO UPDATE).
InsertStepUpsert(r, s) ==
  /\ s \in todo[r] \cap Steps
  /\ Goto(r, "pick", "attempt")
  /\ row' = [row EXCEPT ![s] = [status |-> "running", by |-> r]]
  /\ cur' = [cur EXCEPT ![r] = s]
  /\ attempt' = [attempt EXCEPT ![r] = 1]
  /\ UNCHANGED <<execution, approval, mem, done, todo, history>>

\* UNIQUE (execution_id, step_id, attempt), with attempt always 1, admits one
\* row per step over the life of the execution.
InsertStep(r, s) ==
  /\ s \in todo[r] \cap Steps
  /\ row[s] = NoRow
  /\ Goto(r, "pick", "attempt")
  /\ row' = [row EXCEPT ![s] = [status |-> "running", by |-> r]]
  /\ cur' = [cur EXCEPT ![r] = s]
  /\ attempt' = [attempt EXCEPT ![r] = 1]
  /\ UNCHANGED <<execution, approval, mem, done, todo, history>>

\* Mutant: a step that cannot be inserted is passed over.
StepPassedOver(r, s) ==
  /\ s \in todo[r] \cap Steps
  /\ Goto(r, "pick", "layer")
  /\ cur' = [cur EXCEPT ![r] = s]
  /\ UNCHANGED <<execution, row, approval, mem, done, todo, attempt, history>>

\* The expressions do not evaluate, or the INSERT fails: always when the row
\* is already there.
StepNotInserted(r, s) ==
  /\ s \in todo[r] \cap Steps
  /\ Goto(r, "pick", "fail")
  /\ cur' = [cur EXCEPT ![r] = s]
  /\ UNCHANGED <<execution, row, approval, mem, done, todo, attempt, history>>

\* No runner of the step's name: the run fails past the UPDATE of its row, as
\* it does when the INSERT was made and its answer lost.
RunnerMissing(r) ==
  /\ attempt[r] = 1
  /\ Goto(r, "attempt", "fail")
  /\ UNCHANGED <<execution, row, approval, mem, locals, history>>

RunCommand(r) ==
  /\ Goto(r, "attempt", "running")
  /\ launches' = [launches EXCEPT ![cur[r]] = @ + 1]
  /\ UNCHANGED <<execution, row, approval, mem, locals, ok, skipped, undone>>

CommandSucceeds(r) ==
  /\ Goto(r, "running", "recordok")
  /\ ok' = ok \cup {cur[r]}
  /\ UNCHANGED <<execution, row, approval, mem, locals, launches, skipped, undone>>

\* Mutant: the retry loop stops one attempt early.
CommandFailsEarly(r) ==
  /\ Goto(r, "running", IF attempt[r] + 1 < MaxAttempts[cur[r]]
                        THEN "backoff" ELSE "recordfail")
  /\ UNCHANGED <<execution, row, approval, mem, locals, history>>

CommandFails(r) ==
  /\ Goto(r, "running", IF attempt[r] < MaxAttempts[cur[r]]
                        THEN "backoff" ELSE "recordfail")
  /\ UNCHANGED <<execution, row, approval, mem, locals, history>>

\* Mutant: the attempt counter is not advanced.
BackoffElapsesUncounted(r) ==
  /\ Goto(r, "backoff", "attempt")
  /\ UNCHANGED <<execution, row, approval, mem, locals, history>>

BackoffElapses(r) ==
  /\ Goto(r, "backoff", "attempt")
  /\ attempt' = [attempt EXCEPT ![r] = @ + 1]
  /\ UNCHANGED <<execution, row, approval, mem, done, todo, cur, history>>

\* The step's timeout covers every attempt: during a backoff it returns at
\* once, past the UPDATE of the row and past the compensation.
BackoffTimesOut(r) ==
  /\ Goto(r, "backoff", "fail")
  /\ UNCHANGED <<execution, row, approval, mem, locals, history>>

UpdateRow(s, to) == row' = [row EXCEPT ![s] = [status |-> to, by |-> row[s].by]]

\* The UPDATE is by the id of the run's own row, and its error is dropped.
RecordSuccess(r) ==
  /\ Goto(r, "recordok", "save")
  /\ row' = row \/ UpdateRow(cur[r], "succeeded")
  /\ done' = [done EXCEPT ![r] = @ \cup {cur[r]}]
  /\ UNCHANGED <<execution, approval, mem, todo, cur, attempt, history>>

RecordFailure(r) ==
  /\ Goto(r, "recordfail", IF cur[r] \in Compensated THEN "compensate" ELSE "fail")
  /\ row' = row \/ UpdateRow(cur[r], "failed")
  /\ UNCHANGED <<execution, approval, mem, locals, history>>

\* Without a runner the compensation is only logged; its failure always is.
runCompensation(r) ==
  /\ Goto(r, "compensate", "fail")
  /\ undone' \in {undone, undone \cup {cur[r]}}
  /\ UNCHANGED <<execution, row, approval, mem, locals, launches, ok, skipped>>

-----------------------------------------------------------------------------
(* handleApproval *)

InsertApproval(r, g) ==
  /\ g \in todo[r] \cap Gates
  /\ Goto(r, "pick", "mark")
  /\ approval' = [approval EXCEPT ![<<r, g>>] = "pending"]
  /\ cur' = [cur EXCEPT ![r] = g]
  /\ UNCHANGED <<execution, row, mem, done, todo, attempt, history>>

\* The error of the transition is dropped.
MarkWaiting(r) ==
  /\ Goto(r, "mark", "await")
  /\ transitionIgnored(r, "waiting_approval")
  /\ UNCHANGED <<owned, checkpoint, row, approval, locals, history>>

\* checkApprovalStatus finds the run's own row approved; the error of the
\* transition back to running is dropped.
ResumeApproved(r) ==
  /\ Goto(r, "await", "save")
  /\ approval[<<r, cur[r]>>] = "approved"
  /\ transitionIgnored(r, "running")
  /\ done' = [done EXCEPT ![r] = @ \cup {cur[r]}]
  /\ UNCHANGED <<owned, checkpoint, row, approval, todo, cur, attempt, history>>

\* Mutant: a rejected gate is completed like an approved one.
FinishRejectedAsDone(r) ==
  /\ Goto(r, "await", "save")
  /\ approval[<<r, cur[r]>>] = "rejected"
  /\ done' = [done EXCEPT ![r] = @ \cup {cur[r]}]
  /\ UNCHANGED <<execution, row, approval, mem, todo, cur, attempt, history>>

FinishRejected(r) ==
  /\ Goto(r, "await", "ended")
  /\ approval[<<r, cur[r]>>] = "rejected"
  /\ transitionExecution(r, "cancelled")
  /\ UNCHANGED <<owned, checkpoint, row, approval, locals, history>>

-----------------------------------------------------------------------------
(* The API handlers and the scheduler of another node *)

Cancel ==
  /\ status \notin Terminal
  /\ status' = "cancelled"
  /\ finished' = TRUE
  /\ UNCHANGED <<owned, checkpoint, row, approval, pc, mem, locals, history>>

\* Approve and Reject update a pending row, whatever the execution's status.
Respond(r, g, decision) ==
  /\ approval[<<r, g>>] = "pending"
  /\ approval' = [approval EXCEPT ![<<r, g>>] = decision]
  /\ UNCHANGED <<execution, row, pc, mem, locals, history>>

\* Mutant: the takeover marks the execution as retrying.
RequeueRetrying ==
  /\ owned
  /\ status \in {"running", "queued"}
  /\ owned' = FALSE
  /\ status' = "retrying"
  /\ UNCHANGED <<finished, checkpoint, row, approval, pc, mem, locals, history>>

\* performTakeover: the owner's heartbeat is late, whether or not it is dead.
Requeue ==
  /\ owned
  /\ status \in {"running", "queued"}
  /\ owned' = FALSE
  /\ status' = "queued"
  /\ UNCHANGED <<finished, checkpoint, row, approval, pc, mem, locals, history>>

\* What the run does by itself.
OwnStep(r) ==
  \/ loadExecution(r) \/ EnterRunning(r) \/ NextLayer(r) \/ NoNodeReady(r)
  \/ \E n \in Nodes : SkipNode(r, n)
  \/ \E s \in Steps : InsertStep(r, s) \/ StepNotInserted(r, s)
  \/ RunnerMissing(r) \/ RunCommand(r)
  \/ BackoffElapses(r) \/ BackoffTimesOut(r)
  \/ RecordSuccess(r) \/ RecordFailure(r)
  \/ \E g \in Gates : InsertApproval(r, g)
  \/ MarkWaiting(r) \/ saveCheckpoint(r) \/ FailExecution(r)

\* What a command has to answer, or a human and the pool.
Answer(r) ==
  \/ CommandSucceeds(r) \/ CommandFails(r) \/ runCompensation(r)
  \/ ResumeApproved(r) \/ FinishRejected(r)

RunStep(r) == OwnStep(r) \/ Answer(r)

Environment ==
  \/ Cancel
  \/ Requeue
  \/ \E r \in Runs, g \in Gates, decision \in {"approved", "rejected"} :
        Respond(r, g, decision)

Next ==
  \/ \E r \in Runs : Dispatch(r) \/ RunStep(r) \/ Abort(r)
  \/ Environment

Spec == Init /\ [][Next]_vars

\* A run that is not aborted is scheduled by the Go runtime, its timers fire, and
\* its statements are answered, which is Worker's Ample where they wait for a
\* connection of the pool.  Nothing says that a command answers: past the step's
\* timeout, Wait goes on until every holder of the output pipe is gone
\* (local.go:48).  Nor does a gate have to get on: it waits for a human, and then
\* for a second connection without any timeout (executor.go:234, 284).
FairSpec == Spec /\ \A r \in Runs : WF_vars(OwnStep(r))
-----------------------------------------------------------------------------
(* What must hold *)

Approved(g) == \E r \in Runs : approval[<<r, g>>] = "approved"

\* The nodes the workflow is entitled to build on.
Settled == ok \cup skipped \cup {g \in Gates : Approved(g)}

\* The rows of the three tables and the locals of Execute have their types.
TypeOK ==
  /\ status \in {"queued", "running", "waiting_approval"} \cup Terminal
  /\ finished \in BOOLEAN
  /\ owned \in BOOLEAN
  /\ checkpoint \subseteq Nodes
  /\ row \in [Steps -> [status : {"none", "running", "succeeded", "failed"},
                        by : Runs \cup {NoRun}]]
  /\ approval \in [Runs \X Gates -> {"none", "pending", "approved", "rejected"}]
  /\ pc \in [Runs -> Where]
  /\ mem \in [Runs -> {"queued", "running", "waiting_approval"} \cup Terminal]
  /\ done \in [Runs -> SUBSET Nodes]
  /\ todo \in [Runs -> SUBSET Nodes]
  /\ cur \in [Runs -> Nodes \cup {NoNode}]
  /\ attempt \in [Runs -> Nat]
  /\ launches \in [Steps -> Nat]
  /\ ok \subseteq Steps
  /\ skipped \subseteq Nodes
  /\ undone \subseteq Steps

\* However many nodes take the execution over, and whatever a run that was
\* given up still does, a step's command is started no more often than its
\* retry policy allows (executeStep's INSERT, executor.go:121-129).
AttemptsBounded == \A s \in Steps : launches[s] <= MaxAttempts[s]

\* No two runs have the same step's command under way at once, although the
\* advisory lock is not what prevents it (executor.go:121-171).
OneRunPerStep ==
  \A r1, r2 \in Runs :
     pc[r1] = "running" /\ pc[r2] = "running" /\ cur[r1] = cur[r2] => r1 = r2

\* No command starts before each dependency of its step has succeeded, has been
\* skipped, or has been approved by a human: in the first run and in every
\* resumed one (GetReadyNodes on a checkpoint that may be stale).
DependencyOrder ==
  \A s \in Steps : launches[s] > 0 => Deps[s] \subseteq Settled

\* The saved checkpoint is always a consistent cut to resume from: every node
\* of it is settled, and it holds the dependencies of each of its nodes, even
\* when two runs overwrite it in turn (saveCheckpoint, executor.go:390-399).
CheckpointIsCut ==
  /\ checkpoint \subseteq Settled
  /\ \A n \in checkpoint : Deps[n] \subseteq checkpoint

\* An execution recorded as succeeded has every step succeeded or skipped and
\* every gate approved or skipped (executor.go:58-61).
SucceededComplete == status = "succeeded" => Settled = Nodes

\* finished_at is set exactly on terminal executions, whichever of the run, the
\* Cancel handler and the takeover wrote last (executor.go:366-381).
FinishedIffTerminal == finished <=> status \in Terminal

\* A step row never claims an outcome the command did not have: succeeded only
\* after an exit code 0, failed only after the last attempt and without one.
RowTruth ==
  \A s \in Steps :
     /\ row[s].status = "succeeded" => s \in ok
     /\ row[s].status = "failed" => s \notin ok /\ launches[s] = MaxAttempts[s]

\* A compensation undoes only what failed for good: no step that succeeded, in
\* any run, is ever compensated (executor.go:174-189).
CompensationExclusive ==
  \A s \in undone : s \notin ok /\ launches[s] = MaxAttempts[s]

\* What no timeout of the run bounds: a command, its own or the compensation's,
\* and a gate.
HeldUp(r) == pc[r] \in {"running", "compensate", "await"}

\* A run that was started ends, or from some point on stays at one command or one
\* gate: it never spins over the layers, and it never loops between its commands
\* however often they answer, or its nodes (executor.go:50-97, 140-171).
RunProgress ==
  \A r \in Runs : <>[](pc[r] \in {"idle", "ended"} \/ HeldUp(r))

\* Where a run is between its begin and its end, and how far it is from the next
\* completed node.
Stage(r) ==
  CASE pc[r] = "idle"  -> 4
    [] pc[r] = "load"  -> 3
    [] pc[r] = "enter" -> 2
    [] pc[r] = "ended" -> 0
    [] OTHER -> 1

Rank(r) ==
  CASE pc[r] = "save"  -> 6
    [] pc[r] = "layer" -> 5
    [] pc[r] = "pick"  -> 4
    [] pc[r] \in {"attempt", "running", "backoff", "recordok", "recordfail"} -> 3
    [] pc[r] \in {"compensate", "mark"} -> 2
    [] pc[r] \in {"fail", "await"} -> 1
    [] OTHER -> 0

Tries(r) ==
  IF Rank(r) # 3 THEN 0
  ELSE 3 * (MaxAttempts[cur[r]] - attempt[r])
         + CASE pc[r] = "attempt" -> 2 [] pc[r] = "running" -> 1 [] OTHER -> 0

\* A step that is on the way to the end, in the order of four things: the stage,
\* the nodes left, the place between two nodes, the attempts left.
Descends(r) ==
  \/ Stage(r)' < Stage(r)
  \/ /\ Stage(r)' = Stage(r)
     /\ done[r] \subseteq done'[r]
     /\ \/ done'[r] # done[r]
        \/ Rank(r)' < Rank(r)
        \/ Rank(r)' = Rank(r) /\ Tries(r)' \in 0 .. Tries(r) - 1

\* Every step of a run leads to its end: no path through the layers, the gates and
\* the retry loop comes back to where it was, so that with finitely many nodes a
\* run has finitely many steps (executor.go:48-97, 140-171).
RunEnds ==
  [][ \A r \in Runs : UNCHANGED <<pc[r], done[r], cur[r], attempt[r]>> \/ Descends(r) ]_vars

\* Every behaviour of the runs, the takeovers and the handlers is one the
\* abstract DagRun allows: steps begun once and in dependency order, gates
\* settled by their approval, succeeded only for a settled DAG.
Promise == INSTANCE DagRun WITH
  Verdicts <- ExecutionStatus,
  begun    <- {s \in Steps : row[s].status # "none"},
  settled  <- Settled,
  verdict  <- status

KeepsPromise == Promise!Spec

\* The same of the commands: however many nodes take the execution over, and
\* whatever a run that was given up still does, a step's command is started no
\* more often than its policy allows and never after it succeeded, and only a
\* step that used its attempts up is compensated (executor.go:121-191).
Loop == INSTANCE StepLoop WITH Max <- MaxAttempts, succeeded <- ok

KeepsLoop == Loop!Spec

\* To RunStatus the terminal statuses are one, and a run has the places where it
\* has not read the column, not written to it, runs nodes, or waits at a gate.
Ended(st) == IF st \in Terminal THEN "done" ELSE st

Place(r) ==
  CASE pc[r] = "load" -> "loading"
    [] pc[r] = "enter" -> "entering"
    [] pc[r] = "await" -> "waiting"
    [] OTHER -> "running"

Seen(r) ==
  IF pc[r] \in {"idle", "ended"}
  THEN [at |-> "out", exec |-> "none", mem |-> "none"]
  ELSE [at |-> Place(r), exec |-> "this",
        mem |-> IF pc[r] = "load" THEN "none" ELSE Ended(mem[r])]

Col == INSTANCE RunStatus WITH
  Execs  <- {"this"},
  status <- [e \in {"this"} |-> Ended(status)],
  run    <- [r \in Runs |-> Seen(r)]

\* A run through the DAG is to the status column what the run of Scheduler is: it
\* reads it once, and what it writes goes by what it remembers, whoever wrote the
\* column since (executor.go:32-62, 361-388).
KeepsRun == Col!Spec

-----------------------------------------------------------------------------
(* The inductive invariant of ExecutorProofs, in parts *)

\* A run inside the retry loop holds the step's only row, and the row's history
\* is the run's own.
Claim(r) ==
  LET s == cur[r] IN
    /\ pc[r] \in {"attempt", "running", "backoff", "recordok", "recordfail"} =>
         /\ s \in Steps
         /\ row[s] = [status |-> "running", by |-> r]
         /\ s \notin undone
         /\ attempt[r] \in 1 .. MaxAttempts[s]
         /\ launches[s] = IF pc[r] = "attempt" THEN attempt[r] - 1 ELSE attempt[r]
         /\ s \in ok <=> pc[r] = "recordok"
    /\ pc[r] = "backoff" => attempt[r] < MaxAttempts[s]
    /\ pc[r] = "recordfail" => attempt[r] = MaxAttempts[s]
    /\ pc[r] = "compensate" =>
         /\ s \in Steps
         /\ row[s].by = r
         /\ s \notin ok
         /\ launches[s] = MaxAttempts[s]

Claims == \A r \in Runs : Claim(r)

\* A step without a row has no history.
Rowless ==
  \A s \in Steps : row[s].status = "none" =>
     row[s] = NoRow /\ launches[s] = 0 /\ s \notin ok \cup undone

\* A run's completed nodes are a consistent cut, and the rest of its layer lies
\* just outside it.
Layer(r) ==
  /\ done[r] \subseteq Settled
  /\ \A n \in done[r] : Deps[n] \subseteq done[r]
  /\ pc[r] \notin {"idle", "load", "enter", "layer", "ended"} =>
       \A n \in todo[r] : Deps[n] \subseteq done[r]
  /\ pc[r] \in {"pick", "attempt", "running", "backoff", "recordok",
                "recordfail", "mark", "await"} => todo[r] \cap done[r] = {}
  /\ pc[r] = "save" => todo[r] \cap done[r] \subseteq {cur[r]}
  /\ pc[r] \in {"attempt", "running", "backoff", "recordok", "recordfail",
                "mark", "await"} => cur[r] \in todo[r]

Layers == \A r \in Runs : Layer(r)

\* A run inserts one row at most for a gate, with the gate's dependencies settled.
GateRow(r) ==
  /\ pc[r] \in {"mark", "await"} =>
       cur[r] \in Gates /\ approval[<<r, cur[r]>>] # "none"
  /\ \A g \in Gates : approval[<<r, g>>] # "none" =>
       /\ Deps[g] \subseteq Settled
       /\ \/ pc[r] = "ended"
          \/ pc[r] \notin {"idle", "load", "enter"} /\ g \in done[r]
          \/ pc[r] \in {"mark", "await"} /\ cur[r] = g

GateRows == \A r \in Runs : GateRow(r)

\* What has a row was entitled to it.
RowsInOrder == \A s \in Steps : row[s].status # "none" => Deps[s] \subseteq Settled

RowInv == TypeOK /\ Claims /\ Rowless /\ AttemptsBounded /\ RowTruth
            /\ CompensationExclusive
CutInv == Layers /\ GateRows /\ RowsInOrder /\ CheckpointIsCut /\ SucceededComplete
IInv == RowInv /\ CutInv /\ FinishedIffTerminal
=============================================================================
