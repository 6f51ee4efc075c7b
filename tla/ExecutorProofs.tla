--------------------------- MODULE ExecutorProofs ---------------------------
(***************************************************************************)
(* Proofs that Executor keeps its invariants and implements DagRun and     *)
(* StepLoop, for every DAG, every set of runs and every retry policy.  The *)
(* invariant IInv has two halves: on rows (who holds a step's only row,    *)
(* and what that says of its commands) and on cuts (what a run, the        *)
(* checkpoint and the gates count as completed).  TypeStep, RowStep,       *)
(* CutStep and FinishedStep show that Next keeps each, one case per action.*)
(***************************************************************************)
EXTENDS Executor, TLAPS

\* The statuses an execution has between Start and its end.
Live == {"queued", "running", "waiting_approval"}

\* Inside the retry loop the current node is a step, at an approval it is a gate.
LEMMA CurTyped ==
  ASSUME Claims, GateRows, NEW r \in Runs
  PROVE  /\ pc[r] \in {"attempt", "running", "backoff", "recordok", "recordfail",
                        "compensate"} => cur[r] \in Steps
         /\ pc[r] \in {"mark", "await"} => cur[r] \in Gates
BY DEF Claims, Claim, GateRows, GateRow

\* transitionExecution keeps the types of the columns and of the memory.
LEMMA TransitionTyped ==
  ASSUME TypeOK, NEW r \in Runs, NEW to \in Live \cup Terminal,
         transitionExecution(r, to)
  PROVE  /\ status' \in Live \cup Terminal
         /\ finished' \in BOOLEAN
         /\ mem' \in [Runs -> Live \cup Terminal]
<1>1. CASE ValidateExecutionTransition(mem[r], to)
  <2>1. status' = to /\ mem' = [mem EXCEPT ![r] = to] /\ finished' = (to \in Terminal)
    BY <1>1 DEF transitionExecution
  <2>2. finished' \in BOOLEAN
    BY <2>1
  <2> QED
    BY <2>1, <2>2 DEF TypeOK, Live
<1>2. CASE ~ValidateExecutionTransition(mem[r], to)
  BY <1>2 DEF transitionExecution, TypeOK, Live
<1> QED
  BY <1>1, <1>2

\* So does the transition whose error is dropped.
LEMMA IgnoredTyped ==
  ASSUME TypeOK, NEW r \in Runs, NEW to \in Live, transitionIgnored(r, to)
  PROVE  /\ status' \in Live \cup Terminal
         /\ finished' \in BOOLEAN
         /\ mem' \in [Runs -> Live \cup Terminal]
<1>1. CASE transitionExecution(r, to)
  BY <1>1, TransitionTyped
<1>2. CASE transitionLost
  BY <1>2 DEF transitionLost, TypeOK, Live
<1>3. CASE transitionUnheard(r, to)
  <2>1. status' = to /\ mem' = mem /\ finished' = (to \in Terminal)
    BY <1>3 DEF transitionUnheard
  <2>2. finished' \in BOOLEAN
    BY <2>1
  <2> QED
    BY <2>1, <2>2 DEF TypeOK, Live
<1> QED
  BY <1>1, <1>2, <1>3 DEF transitionIgnored

\* The UPDATE of a row keeps the type of the table.
Rows == [Steps -> [status : {"none", "running", "succeeded", "failed"}, by : Runs \cup {NoRun}]]

LEMMA UpdateTyped ==
  ASSUME row \in Rows, NEW s \in Steps, NEW to \in {"succeeded", "failed"},
         row' = row \/ UpdateRow(s, to)
  PROVE  row' \in Rows
BY DEF Rows, UpdateRow

\* Every step keeps the types; what the retry loop and the gates know of the
\* current node keeps launches and approval indexed by steps and gates.
LEMMA TypeStep == TypeOK /\ Claims /\ GateRows /\ [Next]_vars => TypeOK'
<1> SUFFICES ASSUME TypeOK, Claims, GateRows, [Next]_vars PROVE TypeOK'
  OBVIOUS
<1> USE GraphAssumption, RetryAssumption, RunAssumption
      DEF TypeOK, execution, locals, history, Goto, Where, Nodes, Terminal
<1>1. CASE UNCHANGED vars
  BY <1>1 DEF vars
<1>2. CASE Cancel
  BY <1>2 DEF Cancel
<1>3. CASE Requeue
  BY <1>3 DEF Requeue
<1>4. ASSUME NEW r \in Runs, NEW g \in Gates,
             NEW decision \in {"approved", "rejected"}, Respond(r, g, decision)
      PROVE  TypeOK'
  BY <1>4 DEF Respond
<1>5. ASSUME NEW r \in Runs, Dispatch(r) PROVE TypeOK'
  BY <1>5 DEF Dispatch
<1>6. ASSUME NEW r \in Runs, Abort(r) PROVE TypeOK'
  BY <1>6 DEF Abort
<1>7. ASSUME NEW r \in Runs, RunStep(r) PROVE TypeOK'
  <2>1. CASE loadExecution(r)
    BY <2>1 DEF loadExecution
  <2>2. CASE EnterRunning(r)
    BY <2>2, TransitionTyped DEF EnterRunning, Live
  <2>3. CASE NextLayer(r)
    BY <2>3 DEF NextLayer, GetReadyNodes
  <2>4. CASE NoNodeReady(r)
    BY <2>4, TransitionTyped DEF NoNodeReady, Live
  <2>5. ASSUME NEW n \in Nodes, SkipNode(r, n) PROVE TypeOK'
    BY <2>5 DEF SkipNode
  <2>6. ASSUME NEW s \in Steps, InsertStep(r, s) PROVE TypeOK'
    BY <2>6 DEF InsertStep
  <2>7. ASSUME NEW s \in Steps, StepNotInserted(r, s) PROVE TypeOK'
    BY <2>7 DEF StepNotInserted
  <2>8. CASE RunCommand(r)
    BY CurTyped, <2>8 DEF RunCommand
  <2>9. CASE CommandSucceeds(r)
    BY CurTyped, <2>9 DEF CommandSucceeds
  <2>10. CASE CommandFails(r)
    BY <2>10 DEF CommandFails
  <2>11. CASE BackoffElapses(r)
    BY <2>11 DEF BackoffElapses
  <2>12. CASE BackoffTimesOut(r) \/ RunnerMissing(r)
    BY <2>12 DEF BackoffTimesOut, RunnerMissing
  <2>13. CASE RecordSuccess(r)
    <3>0. cur[r] \in Steps
      BY <2>13, CurTyped DEF RecordSuccess
    <3>1. row' \in Rows
      BY <2>13, <3>0, UpdateTyped DEF RecordSuccess, Rows
    <3> QED
      BY <2>13, <3>0, <3>1 DEF RecordSuccess, Rows
  <2>14. CASE RecordFailure(r)
    <3>0. cur[r] \in Steps
      BY <2>14, CurTyped DEF RecordFailure
    <3>1. row' \in Rows
      BY <2>14, <3>0, UpdateTyped DEF RecordFailure, Rows
    <3> QED
      BY <2>14, <3>0, <3>1 DEF RecordFailure, Rows
  <2>15. CASE runCompensation(r)
    BY CurTyped, <2>15 DEF runCompensation
  <2>16. ASSUME NEW g \in Gates, InsertApproval(r, g) PROVE TypeOK'
    BY <2>16 DEF InsertApproval
  <2>17. CASE MarkWaiting(r)
    BY <2>17, IgnoredTyped DEF MarkWaiting, Live
  <2>18. CASE ResumeApproved(r)
    BY <2>18, CurTyped, IgnoredTyped DEF ResumeApproved, Live
  <2>19. CASE FinishRejected(r)
    BY <2>19, TransitionTyped DEF FinishRejected, Live
  <2>20. CASE saveCheckpoint(r)
    BY <2>20 DEF saveCheckpoint
  <2>21. CASE FailExecution(r)
    BY <2>21, TransitionTyped DEF FailExecution, Live
  <2> HIDE DEF TypeOK
  <2> QED
    BY <1>7, <2>1, <2>2, <2>3, <2>4, <2>5, <2>6, <2>7, <2>8, <2>9, <2>10, <2>11,
       <2>12, <2>13, <2>14, <2>15, <2>16, <2>17, <2>18, <2>19, <2>20, <2>21
       DEF RunStep, OwnStep, Answer
<1> HIDE DEF TypeOK
<1> QED
  BY <1>1, <1>2, <1>3, <1>4, <1>5, <1>6, <1>7 DEF Next, Environment

-----------------------------------------------------------------------------
(* Rows, attempts and compensations *)

InLoop == {"attempt", "running", "backoff", "recordok", "recordfail", "compensate"}

\* A step that leaves the history alone, and every run it puts or leaves in the
\* retry loop where it was, keeps the invariant on rows.
LEMMA RowFrame ==
  ASSUME RowInv, TypeOK',
         UNCHANGED <<row, launches, ok, undone>>,
         \A q \in Runs : pc'[q] \in InLoop =>
            pc'[q] = pc[q] /\ cur'[q] = cur[q] /\ attempt'[q] = attempt[q]
  PROVE  RowInv'
<1>1. ASSUME NEW q \in Runs PROVE Claim(q)'
  BY <1>1 DEF RowInv, Claims, Claim, InLoop
<1>2. Rowless' /\ AttemptsBounded' /\ RowTruth' /\ CompensationExclusive'
  BY DEF RowInv, Rowless, AttemptsBounded, RowTruth, CompensationExclusive
<1> QED
  BY <1>1, <1>2 DEF RowInv, Claims

\* Every step keeps the invariant on rows: the INSERT alone creates a row, and
\* only the run that holds it moves its history.
LEMMA RowStep == RowInv /\ GateRows /\ [Next]_vars => RowInv'
<1> SUFFICES ASSUME RowInv, GateRows, [Next]_vars PROVE RowInv'
  OBVIOUS
<1>0. TypeOK /\ Claims /\ TypeOK'
  BY TypeStep DEF RowInv
<1>1. CASE UNCHANGED vars
  BY <1>0, <1>1, RowFrame DEF vars, history, locals
<1>2. CASE Environment
  BY <1>0, <1>2, RowFrame DEF Environment, Cancel, Requeue, Respond, history, locals
<1>3. ASSUME NEW r \in Runs, Dispatch(r) \/ Abort(r) PROVE RowInv'
  BY <1>0, <1>3, RowFrame DEF Dispatch, Abort, Goto, history, locals, InLoop, TypeOK
<1>4. ASSUME NEW r \in Runs, RunStep(r) PROVE RowInv'
  <2>1. CASE loadExecution(r) \/ EnterRunning(r) \/ NextLayer(r) \/ NoNodeReady(r)
               \/ (\E n \in Nodes : SkipNode(r, n)) \/ saveCheckpoint(r)
    BY <1>0, <2>1, RowFrame
       DEF loadExecution, EnterRunning, NextLayer, NoNodeReady, SkipNode,
           saveCheckpoint, Goto, execution, history, locals, InLoop, TypeOK
  <2>2. CASE FailExecution(r) \/ BackoffTimesOut(r) \/ RunnerMissing(r)
               \/ (\E s \in Steps : StepNotInserted(r, s))
    BY <1>0, <2>2, RowFrame
       DEF FailExecution, BackoffTimesOut, RunnerMissing, StepNotInserted, Goto, history, locals,
           InLoop, TypeOK
  <2>3. ASSUME NEW g \in Gates, InsertApproval(r, g) PROVE RowInv'
    BY <1>0, <2>3, RowFrame
       DEF InsertApproval, Goto, execution, history, locals, InLoop, TypeOK
  <2>4. CASE MarkWaiting(r) \/ ResumeApproved(r) \/ FinishRejected(r)
    BY <1>0, <2>4, RowFrame
       DEF MarkWaiting, ResumeApproved, FinishRejected, Goto, history, locals,
           InLoop, TypeOK
  <2>5. ASSUME NEW s \in Steps, InsertStep(r, s) PROVE RowInv'
    <3>1. ASSUME NEW q \in Runs PROVE Claim(q)'
      <4>1. CASE q = r
        <5>1. launches[s] = 0 /\ s \notin ok \cup undone
          BY <2>5 DEF InsertStep, RowInv, Rowless, NoRow
        <5>2. /\ cur'[r] = s /\ attempt'[r] = 1 /\ pc'[r] = "attempt"
              /\ row'[s] = [status |-> "running", by |-> r]
              /\ UNCHANGED history
          BY <1>0, <2>5 DEF InsertStep, Goto, TypeOK
        <5> QED
          BY <4>1, <5>1, <5>2, RetryAssumption DEF Claim, history
      <4>2. CASE q # r
        <5>1. Claim(q) /\ UNCHANGED <<pc[q], cur[q], attempt[q]>>
          BY <1>0, <2>5, <3>1, <4>2 DEF InsertStep, Goto, Claims, TypeOK
        <5>2. pc[q] \in InLoop => cur[q] # s
          BY <2>5, <5>1, RunAssumption DEF InsertStep, Claim, NoRow, InLoop
        <5> QED
          BY <1>0, <2>5, <3>1, <5>1, <5>2
             DEF InsertStep, Claim, TypeOK, history, InLoop
      <4> QED
        BY <4>1, <4>2
    <3>2. Rowless' /\ AttemptsBounded' /\ RowTruth' /\ CompensationExclusive'
      BY <1>0, <2>5
         DEF InsertStep, Goto, RowInv, Rowless, AttemptsBounded, RowTruth,
             CompensationExclusive, TypeOK, history, NoRow
    <3> QED
      BY <1>0, <3>1, <3>2 DEF RowInv, Claims
  <2>6. CASE RunCommand(r)
    <3>0. Claim(r)
      BY <1>0 DEF Claims
    <3>1. ASSUME NEW q \in Runs PROVE Claim(q)'
      BY <1>0, <2>6, <3>0, <3>1, RetryAssumption
         DEF RunCommand, Goto, Claims, Claim, TypeOK, locals, execution
    <3>2. Rowless' /\ AttemptsBounded' /\ RowTruth' /\ CompensationExclusive'
      BY <1>0, <2>6, <3>0, RetryAssumption
         DEF RunCommand, Goto, Claim, RowInv, Rowless, AttemptsBounded, RowTruth,
             CompensationExclusive, TypeOK, locals, execution
    <3> QED
      BY <1>0, <3>1, <3>2 DEF RowInv, Claims
  <2>7. CASE CommandSucceeds(r)
    <3>0. Claim(r)
      BY <1>0 DEF Claims
    <3>1. ASSUME NEW q \in Runs PROVE Claim(q)'
      BY <1>0, <2>7, <3>0, <3>1, RetryAssumption
         DEF CommandSucceeds, Goto, Claims, Claim, TypeOK, locals, execution, history
    <3>2. Rowless' /\ AttemptsBounded' /\ RowTruth' /\ CompensationExclusive'
      BY <1>0, <2>7, <3>0, RetryAssumption
         DEF CommandSucceeds, Goto, Claim, RowInv, Rowless, AttemptsBounded, RowTruth,
             CompensationExclusive, TypeOK, locals, execution, history
    <3> QED
      BY <1>0, <3>1, <3>2 DEF RowInv, Claims
  <2>8. CASE CommandFails(r)
    <3>0. Claim(r)
      BY <1>0 DEF Claims
    <3>1. ASSUME NEW q \in Runs PROVE Claim(q)'
      <4>1. CASE q = r
        <5>1. attempt[r] \in Nat /\ cur[r] \in Steps /\ MaxAttempts[cur[r]] \in Nat
          BY <1>0, <2>8, <3>0, RetryAssumption DEF CommandFails, Goto, Claim, TypeOK
        <5>2. /\ UNCHANGED <<row, cur[r], attempt[r], launches, ok, undone>>
              /\ \/ pc'[r] = "backoff" /\ attempt[r] < MaxAttempts[cur[r]]
                 \/ pc'[r] = "recordfail" /\ ~(attempt[r] < MaxAttempts[cur[r]])
          BY <1>0, <2>8 DEF CommandFails, Goto, TypeOK, locals, history
        <5> QED
          BY <2>8, <3>0, <4>1, <5>1, <5>2 DEF CommandFails, Goto, Claim
      <4>2. CASE q # r
        BY <1>0, <2>8, <3>1, <4>2
           DEF CommandFails, Goto, Claims, Claim, TypeOK, locals, history
      <4> QED
        BY <4>1, <4>2
    <3>2. Rowless' /\ AttemptsBounded' /\ RowTruth' /\ CompensationExclusive'
      BY <1>0, <2>8, <3>0, RetryAssumption
         DEF CommandFails, Goto, Claim, RowInv, Rowless, AttemptsBounded, RowTruth,
             CompensationExclusive, TypeOK, locals, execution, history
    <3> QED
      BY <1>0, <3>1, <3>2 DEF RowInv, Claims
  <2>9. CASE BackoffElapses(r)
    <3>0. Claim(r)
      BY <1>0 DEF Claims
    <3>1. ASSUME NEW q \in Runs PROVE Claim(q)'
      BY <1>0, <2>9, <3>0, <3>1, RetryAssumption
         DEF BackoffElapses, Goto, Claims, Claim, TypeOK, locals, execution, history
    <3>2. Rowless' /\ AttemptsBounded' /\ RowTruth' /\ CompensationExclusive'
      BY <1>0, <2>9, <3>0, RetryAssumption
         DEF BackoffElapses, Goto, Claim, RowInv, Rowless, AttemptsBounded, RowTruth,
             CompensationExclusive, TypeOK, locals, execution, history
    <3> QED
      BY <1>0, <3>1, <3>2 DEF RowInv, Claims
  <2>10. CASE RecordSuccess(r)
    <3>0. Claim(r)
      BY <1>0 DEF Claims
    <3>1. ASSUME NEW q \in Runs PROVE Claim(q)'
      BY <1>0, <2>10, <3>0, <3>1, RetryAssumption
         DEF RecordSuccess, Goto, Claims, Claim, TypeOK, locals, execution, history, UpdateRow
    <3>2. Rowless' /\ AttemptsBounded' /\ RowTruth' /\ CompensationExclusive'
      <4>1. cur[r] \in Steps /\ cur[r] \in ok
        BY <2>10, <3>0 DEF RecordSuccess, Goto, Claim
      <4>2. UNCHANGED <<launches, ok, undone>> /\ (row' = row \/ UpdateRow(cur[r], "succeeded"))
        BY <2>10 DEF RecordSuccess, history
      <4>3. \A s \in Steps :
              row'[s] = row[s] \/ (row'[s].status = "succeeded" /\ s = cur[r])
        <5>1. row \in [Steps -> [status : {"none", "running", "succeeded", "failed"},
                                by : Runs \cup {NoRun}]]
          BY <1>0 DEF TypeOK
        <5> QED
          BY <4>1, <4>2, <5>1 DEF UpdateRow
      <4> QED
        BY <4>1, <4>2, <4>3
           DEF RowInv, Rowless, AttemptsBounded, RowTruth, CompensationExclusive
    <3> QED
      BY <1>0, <3>1, <3>2 DEF RowInv, Claims
  <2>11. CASE RecordFailure(r)
    <3>0. Claim(r)
      BY <1>0 DEF Claims
    <3>1. ASSUME NEW q \in Runs PROVE Claim(q)'
      BY <1>0, <2>11, <3>0, <3>1, RetryAssumption
         DEF RecordFailure, Goto, Claims, Claim, TypeOK, locals, execution, history, UpdateRow
    <3>2. Rowless' /\ AttemptsBounded' /\ RowTruth' /\ CompensationExclusive'
      <4>1. cur[r] \in Steps /\ cur[r] \notin ok /\ launches[cur[r]] = MaxAttempts[cur[r]]
        BY <2>11, <3>0 DEF RecordFailure, Goto, Claim
      <4>2. UNCHANGED <<launches, ok, undone>> /\ (row' = row \/ UpdateRow(cur[r], "failed"))
        BY <2>11 DEF RecordFailure, history
      <4>3. \A s \in Steps :
              row'[s] = row[s] \/ (row'[s].status = "failed" /\ s = cur[r])
        <5>1. row \in [Steps -> [status : {"none", "running", "succeeded", "failed"},
                                by : Runs \cup {NoRun}]]
          BY <1>0 DEF TypeOK
        <5> QED
          BY <4>1, <4>2, <5>1 DEF UpdateRow
      <4> QED
        BY <4>1, <4>2, <4>3
           DEF RowInv, Rowless, AttemptsBounded, RowTruth, CompensationExclusive
    <3> QED
      BY <1>0, <3>1, <3>2 DEF RowInv, Claims
  <2>12. CASE runCompensation(r)
    <3>0. Claim(r)
      BY <1>0 DEF Claims
    <3>1. ASSUME NEW q \in Runs PROVE Claim(q)'
      BY <1>0, <2>12, <3>0, <3>1, RetryAssumption
         DEF runCompensation, Goto, Claims, Claim, TypeOK, locals, execution, history
    <3>2. Rowless' /\ AttemptsBounded' /\ RowTruth' /\ CompensationExclusive'
      BY <1>0, <2>12, <3>0, RetryAssumption
         DEF runCompensation, Goto, Claim, RowInv, Rowless, AttemptsBounded, RowTruth,
             CompensationExclusive, TypeOK, locals, execution, history
    <3> QED
      BY <1>0, <3>1, <3>2 DEF RowInv, Claims
  <2> QED
    BY <1>4, <2>1, <2>2, <2>3, <2>4, <2>5, <2>6, <2>7, <2>8, <2>9, <2>10, <2>11, <2>12
       DEF RunStep, OwnStep, Answer
<1> QED
  BY <1>1, <1>2, <1>3, <1>4 DEF Next

-----------------------------------------------------------------------------
(* Settled nodes, layers and checkpoints *)

\* A run opens a gate for the first time: its row for it was not there.
LEMMA GateOpenedOnce ==
  ASSUME Layers, GateRows, NEW r \in Runs, NEW g \in Gates, InsertApproval(r, g)
  PROVE  approval[<<r, g>>] = "none"
BY ZenonT(60) DEF Layers, Layer, GateRows, GateRow, InsertApproval, Goto

\* Answered approvals stay answered, so what is settled stays settled.
LEMMA SettledGrows ==
  ASSUME TypeOK, Layers, GateRows, Next
  PROVE  Settled \subseteq Settled'
<1>1. UNCHANGED approval \/ (\E r \in Runs, g \in Gates : InsertApproval(r, g))
        \/ (\E r \in Runs, g \in Gates, d \in {"approved", "rejected"} : Respond(r, g, d))
  <2>1. CASE Cancel \/ Requeue \/ \E r \in Runs : Dispatch(r) \/ Abort(r)
    BY <2>1 DEF Cancel, Requeue, Dispatch, Abort
  <2>2. ASSUME NEW r \in Runs, RunStep(r), \A g \in Gates : ~InsertApproval(r, g)
        PROVE  UNCHANGED approval
    BY <2>2 DEF RunStep, OwnStep, Answer, loadExecution, EnterRunning, NextLayer, NoNodeReady,
         SkipNode, InsertStep, StepNotInserted, RunCommand, CommandSucceeds,
         CommandFails, BackoffElapses, BackoffTimesOut, RunnerMissing, RecordSuccess,
         RecordFailure, runCompensation, MarkWaiting, ResumeApproved,
         FinishRejected, saveCheckpoint, FailExecution
  <2> QED
    BY <2>1, <2>2 DEF Next, Environment
<1>2. \A g \in Gates : Approved(g) => Approved(g)'
  <2>1. ASSUME NEW r \in Runs, NEW g \in Gates, InsertApproval(r, g)
        PROVE  \A x \in Gates : Approved(x) => Approved(x)'
    <3>1. approval[<<r, g>>] = "none" /\ approval' = [approval EXCEPT ![<<r, g>>] = "pending"]
      BY <2>1, GateOpenedOnce DEF InsertApproval
    <3>2. ASSUME NEW q \in Runs, NEW x \in Gates, approval[<<q, x>>] = "approved"
          PROVE  approval'[<<q, x>>] = "approved"
      <4>1. DOMAIN approval = Runs \X Gates
        BY DEF TypeOK
      <4> QED
        BY <3>1, <3>2, <4>1
    <3> QED
      BY <3>2 DEF Approved
  <2>2. ASSUME NEW r \in Runs, NEW g \in Gates, NEW d \in {"approved", "rejected"},
               Respond(r, g, d)
        PROVE  \A x \in Gates : Approved(x) => Approved(x)'
    BY <2>2 DEF Approved, Respond, TypeOK
  <2> QED
    BY <1>1, <2>1, <2>2 DEF Approved
<1>3. ok \subseteq ok' /\ skipped \subseteq skipped'
  <2>1. CASE Environment \/ \E r \in Runs : Dispatch(r) \/ Abort(r)
    BY <2>1 DEF Environment, Cancel, Requeue, Respond, Dispatch, Abort, history
  <2>2. ASSUME NEW r \in Runs, RunStep(r)
        PROVE  ok \subseteq ok' /\ skipped \subseteq skipped'
    BY <2>2 DEF RunStep, OwnStep, Answer, loadExecution, EnterRunning, NextLayer, NoNodeReady,
         SkipNode, InsertStep, StepNotInserted, RunCommand, CommandSucceeds,
         CommandFails, BackoffElapses, BackoffTimesOut, RunnerMissing, RecordSuccess,
         RecordFailure, runCompensation, InsertApproval, MarkWaiting,
         ResumeApproved, FinishRejected, saveCheckpoint, FailExecution, history
  <2> QED
    BY <2>1, <2>2 DEF Next
<1> QED
  BY <1>2, <1>3 DEF Settled

\* A run that did not move keeps its layer and its gates.
LEMMA OthersKeep ==
  ASSUME Settled \subseteq Settled', NEW q \in Runs,
         UNCHANGED <<pc[q], done[q], todo[q], cur[q]>>,
         \A g \in Gates : approval'[<<q, g>>] = "none" <=> approval[<<q, g>>] = "none",
         Layer(q), GateRow(q)
  PROVE  Layer(q)' /\ GateRow(q)'
<1>1. Layer(q)'
  BY DEF Layer
<1>2. GateRow(q)'
  BY DEF GateRow
<1> QED
  BY <1>1, <1>2

\* What one run does leaves the locals and the approvals of the others alone.
LEMMA OthersUnmoved ==
  ASSUME TypeOK, NEW r \in Runs, Dispatch(r) \/ RunStep(r) \/ Abort(r),
         NEW q \in Runs, q # r
  PROVE  /\ UNCHANGED <<pc[q], done[q], todo[q], cur[q]>>
         /\ \A g \in Gates : approval'[<<q, g>>] = approval[<<q, g>>]
<1> DEFINE Unmoved == /\ UNCHANGED <<pc[q], done[q], todo[q], cur[q]>>
                      /\ \A g \in Gates : approval'[<<q, g>>] = approval[<<q, g>>]
<1> USE DEF Goto, locals
<1>0. /\ pc \in [Runs -> Where] /\ done \in [Runs -> SUBSET Nodes]
      /\ todo \in [Runs -> SUBSET Nodes] /\ cur \in [Runs -> Nodes \cup {NoNode}]
  BY DEF TypeOK
<1>1. CASE Dispatch(r) \/ Abort(r)
  BY <1>0, <1>1 DEF Dispatch, Abort
<1>2. CASE loadExecution(r) \/ EnterRunning(r) \/ NextLayer(r) \/ NoNodeReady(r)
             \/ (\E n \in Nodes : SkipNode(r, n)) \/ saveCheckpoint(r) \/ FailExecution(r)
  BY <1>0, <1>2 DEF loadExecution, EnterRunning, NextLayer, NoNodeReady, SkipNode,
     saveCheckpoint, FailExecution
<1>3. CASE (\E s \in Steps : InsertStep(r, s) \/ StepNotInserted(r, s))
             \/ RunCommand(r) \/ CommandSucceeds(r) \/ CommandFails(r)
             \/ BackoffElapses(r) \/ BackoffTimesOut(r) \/ RunnerMissing(r)
  BY <1>0, <1>3 DEF InsertStep, StepNotInserted, RunCommand, CommandSucceeds,
     CommandFails, BackoffElapses, BackoffTimesOut, RunnerMissing
<1>4. CASE RecordSuccess(r) \/ RecordFailure(r) \/ runCompensation(r)
             \/ MarkWaiting(r) \/ ResumeApproved(r) \/ FinishRejected(r)
  BY <1>0, <1>4 DEF RecordSuccess, RecordFailure, runCompensation, MarkWaiting,
     ResumeApproved, FinishRejected
<1>5. ASSUME NEW h \in Gates, InsertApproval(r, h) PROVE Unmoved
  <2>1. DOMAIN approval = Runs \X Gates
    BY DEF TypeOK
  <2> QED
    BY <1>0, <1>5, <2>1 DEF InsertApproval
<1> QED
  BY <1>1, <1>2, <1>3, <1>4, <1>5 DEF RunStep, OwnStep, Answer

\* The run that moves keeps its completed nodes a cut and its layer beside it.
LEMMA MoverKeeps ==
  ASSUME TypeOK, Claims, Layers, GateRows, CheckpointIsCut,
         NEW r \in Runs, Dispatch(r) \/ RunStep(r) \/ Abort(r),
         Settled \subseteq Settled'
  PROVE  Layer(r)' /\ GateRow(r)'
<1> USE DEF Goto, locals, execution, Layer, GateRow
<1>0. /\ Layer(r) /\ GateRow(r)
      /\ pc \in [Runs -> Where] /\ done \in [Runs -> SUBSET Nodes]
      /\ todo \in [Runs -> SUBSET Nodes] /\ cur \in [Runs -> Nodes \cup {NoNode}]
      /\ DOMAIN approval = Runs \X Gates
  BY DEF Layers, GateRows, TypeOK
<1>1. CASE Dispatch(r)
  BY <1>0, <1>1 DEF Dispatch
<1>2. CASE Abort(r)
  BY <1>0, <1>2 DEF Abort
<1>3. CASE loadExecution(r)
  BY <1>0, <1>3 DEF loadExecution, CheckpointIsCut
<1>4. CASE EnterRunning(r)
  BY <1>0, <1>4 DEF EnterRunning
<1>5. CASE NextLayer(r)
  BY <1>0, <1>5 DEF NextLayer, GetReadyNodes
<1>6. CASE NoNodeReady(r)
  BY <1>0, <1>6 DEF NoNodeReady
<1>7. ASSUME NEW n \in Nodes, SkipNode(r, n) PROVE Layer(r)' /\ GateRow(r)'
  BY <1>0, <1>7 DEF SkipNode, Settled
<1>8. CASE saveCheckpoint(r)
  BY <1>0, <1>8 DEF saveCheckpoint
<1>9. CASE FailExecution(r)
  BY <1>0, <1>9 DEF FailExecution
<1>10. ASSUME NEW s \in Steps, InsertStep(r, s) PROVE Layer(r)' /\ GateRow(r)'
  BY <1>0, <1>10 DEF InsertStep
<1>11. ASSUME NEW s \in Steps, StepNotInserted(r, s) PROVE Layer(r)' /\ GateRow(r)'
  BY <1>0, <1>11 DEF StepNotInserted
<1>12. CASE RunCommand(r) \/ CommandSucceeds(r) \/ CommandFails(r)
  BY <1>0, <1>12 DEF RunCommand, CommandSucceeds, CommandFails
<1>13. CASE BackoffElapses(r) \/ BackoffTimesOut(r) \/ RunnerMissing(r)
  BY <1>0, <1>13 DEF BackoffElapses, BackoffTimesOut, RunnerMissing
<1>14. CASE RecordSuccess(r)
  <2>1. cur[r] \in ok
    BY <1>14 DEF RecordSuccess, Claims, Claim
  <2>2. cur[r] \in Settled'
    BY <1>14, <2>1 DEF RecordSuccess, history, Settled
  <2> QED
    BY <1>0, <1>14, <2>2 DEF RecordSuccess
<1>15. CASE RecordFailure(r) \/ runCompensation(r)
  BY <1>0, <1>15 DEF RecordFailure, runCompensation
<1>16. ASSUME NEW g \in Gates, InsertApproval(r, g) PROVE Layer(r)' /\ GateRow(r)'
  BY <1>0, <1>16 DEF InsertApproval
<1>17. CASE MarkWaiting(r)
  BY <1>0, <1>17 DEF MarkWaiting
<1>18. CASE ResumeApproved(r)
  <2>1. cur[r] \in Settled'
    BY <1>0, <1>18 DEF ResumeApproved, Settled, Approved
  <2> QED
    BY <1>0, <1>18, <2>1 DEF ResumeApproved
<1>19. CASE FinishRejected(r)
  BY <1>0, <1>19 DEF FinishRejected
<1> HIDE DEF Layer, GateRow
<1> QED
  BY <1>1, <1>2, <1>3, <1>4, <1>5, <1>6, <1>7, <1>8, <1>9, <1>10, <1>11, <1>12,
     <1>13, <1>14, <1>15, <1>16, <1>17, <1>18, <1>19 DEF RunStep, OwnStep, Answer

\* A step keeps a row's emptiness, unless it is the INSERT of an entitled step.
LEMMA RowsInserted ==
  ASSUME RowInv, Layers, Next, NEW s \in Steps, row'[s].status # "none"
  PROVE  row[s].status # "none" \/ Deps[s] \subseteq Settled
<1>1. CASE row' = row
  BY <1>1
<1>2. ASSUME NEW r \in Runs, NEW x \in Steps, InsertStep(r, x)
      PROVE  row[s].status # "none" \/ Deps[s] \subseteq Settled
  BY <1>2 DEF InsertStep, Goto, Layers, Layer, RowInv, TypeOK
<1>3. ASSUME NEW r \in Runs, RecordSuccess(r) \/ RecordFailure(r)
      PROVE  row[s].status # "none" \/ Deps[s] \subseteq Settled
  <2>1. cur[r] \in Steps /\ row[cur[r]].status = "running"
    <3>1. Claim(r) /\ pc[r] \in {"recordok", "recordfail"}
      BY <1>3 DEF RecordSuccess, RecordFailure, Goto, RowInv, Claims
    <3> QED
      BY <3>1 DEF Claim
  <2>2. row \in [Steps -> [status : {"none", "running", "succeeded", "failed"},
                           by : Runs \cup {NoRun}]]
    BY DEF RowInv, TypeOK
  <2> QED
    BY <1>3, <2>1, <2>2 DEF RecordSuccess, RecordFailure, UpdateRow
<1>4. CASE Environment \/ \E r \in Runs : Dispatch(r) \/ Abort(r)
  BY <1>1, <1>4 DEF Environment, Cancel, Requeue, Respond, Dispatch, Abort
<1>5. ASSUME NEW r \in Runs, RunStep(r)
      PROVE  \/ row' = row
             \/ \E x \in Steps : InsertStep(r, x)
             \/ RecordSuccess(r) \/ RecordFailure(r)
  BY <1>5 DEF RunStep, OwnStep, Answer, loadExecution, EnterRunning, NextLayer, NoNodeReady,
     SkipNode, StepNotInserted, RunCommand, CommandSucceeds, CommandFails,
     BackoffElapses, BackoffTimesOut, RunnerMissing, runCompensation, InsertApproval,
     MarkWaiting, ResumeApproved, FinishRejected, saveCheckpoint, FailExecution
<1> QED
  BY <1>1, <1>2, <1>3, <1>4, <1>5 DEF Next

\* Only a run that completed every node writes "succeeded".
LEMMA SucceededWritten ==
  ASSUME Next, status' = "succeeded"
  PROVE  status = "succeeded" \/ \E r \in Runs : done[r] = Nodes
<1>1. CASE Environment \/ \E r \in Runs : Dispatch(r) \/ Abort(r)
  BY <1>1 DEF Environment, Cancel, Requeue, Respond, Dispatch, Abort, execution
<1>2. ASSUME NEW r \in Runs, RunStep(r)
      PROVE  status = "succeeded" \/ done[r] = Nodes
  <2>1. CASE NoNodeReady(r)
    BY <1>2, <2>1 DEF NoNodeReady, transitionExecution
  <2>2. CASE EnterRunning(r) \/ FailExecution(r) \/ MarkWaiting(r)
               \/ ResumeApproved(r) \/ FinishRejected(r)
    BY <2>2 DEF EnterRunning, FailExecution, MarkWaiting, ResumeApproved,
       FinishRejected, transitionIgnored, transitionExecution, transitionLost,
       transitionUnheard
  <2>3. CASE UNCHANGED status
    BY <2>3
  <2> QED
    BY <1>2, <2>1, <2>2, <2>3 DEF RunStep, OwnStep, Answer, loadExecution, NextLayer, SkipNode,
       InsertStep, StepNotInserted, RunCommand, CommandSucceeds, CommandFails,
       BackoffElapses, BackoffTimesOut, RunnerMissing, RecordSuccess, RecordFailure,
       runCompensation, InsertApproval, saveCheckpoint, execution
<1> QED
  BY <1>1, <1>2 DEF Next

\* The checkpoint only ever takes the completed nodes of a run.
LEMMA CheckpointWritten ==
  ASSUME Next
  PROVE  checkpoint' = checkpoint \/ \E r \in Runs : checkpoint' = done[r]
<1>1. CASE Environment \/ \E r \in Runs : Dispatch(r) \/ Abort(r)
  BY <1>1 DEF Environment, Cancel, Requeue, Respond, Dispatch, Abort, execution
<1>2. ASSUME NEW r \in Runs, RunStep(r)
      PROVE  checkpoint' = checkpoint \/ checkpoint' = done[r]
  BY <1>2 DEF RunStep, OwnStep, Answer, loadExecution, EnterRunning, NextLayer, NoNodeReady,
     SkipNode, InsertStep, StepNotInserted, RunCommand, CommandSucceeds,
     CommandFails, BackoffElapses, BackoffTimesOut, RunnerMissing, RecordSuccess,
     RecordFailure, runCompensation, InsertApproval, MarkWaiting,
     ResumeApproved, FinishRejected, saveCheckpoint, FailExecution, execution
<1> QED
  BY <1>1, <1>2 DEF Next

\* Every step keeps what is completed a consistent cut of what is settled.
LEMMA CutStep == RowInv /\ CutInv /\ [Next]_vars => CutInv'
<1> SUFFICES ASSUME RowInv, CutInv, [Next]_vars PROVE CutInv'
  OBVIOUS
<1>1. CASE UNCHANGED vars
  BY <1>1, SMTT(30) DEF CutInv, Layers, Layer, GateRows, GateRow, RowsInOrder, CheckpointIsCut,
     SucceededComplete, Settled, Approved, vars, execution, locals, history
<1>2. CASE Next
  <2>0. TypeOK /\ Claims /\ Layers /\ GateRows /\ CheckpointIsCut /\ TypeOK'
    BY TypeStep DEF RowInv, CutInv
  <2>1. Settled \subseteq Settled'
    BY <1>2, <2>0, SettledGrows
  <2>2. ASSUME NEW q \in Runs PROVE Layer(q)' /\ GateRow(q)'
    <3>0. Layer(q) /\ GateRow(q)
      BY <2>0 DEF Layers, GateRows
    <3>1. CASE Cancel \/ Requeue
      <4>1. /\ UNCHANGED <<pc[q], done[q], todo[q], cur[q]>>
            /\ \A g \in Gates : approval'[<<q, g>>] = approval[<<q, g>>]
        BY <3>1 DEF Cancel, Requeue, locals
      <4> QED
        BY <2>1, <3>0, <4>1, OthersKeep
    <3>2. ASSUME NEW r \in Runs, NEW h \in Gates, NEW d \in {"approved", "rejected"},
                 Respond(r, h, d)
          PROVE  Layer(q)' /\ GateRow(q)'
      <4>1. UNCHANGED <<pc[q], done[q], todo[q], cur[q]>>
        BY <3>2 DEF Respond, locals
      <4>2. \A g \in Gates : approval'[<<q, g>>] = "none" <=> approval[<<q, g>>] = "none"
        <5>1. DOMAIN approval = Runs \X Gates
          BY <2>0 DEF TypeOK
        <5> QED
          BY <3>2, <5>1 DEF Respond
      <4> QED
        BY <2>1, <3>0, <4>1, <4>2, OthersKeep
    <3>3. ASSUME NEW r \in Runs, Dispatch(r) \/ RunStep(r) \/ Abort(r)
          PROVE  Layer(q)' /\ GateRow(q)'
      <4>1. CASE q = r
        BY <2>0, <2>1, <3>3, <4>1, MoverKeeps
      <4>2. CASE q # r
        BY <2>0, <2>1, <3>0, <3>3, <4>2, OthersUnmoved, OthersKeep
      <4> QED
        BY <4>1, <4>2
    <3> QED
      BY <1>2, <3>1, <3>2, <3>3 DEF Next, Environment
  <2>3. RowsInOrder'
    BY <1>2, <2>0, <2>1, RowsInserted DEF RowsInOrder, CutInv
  <2>4. CheckpointIsCut'
    BY <1>2, <2>0, <2>1, CheckpointWritten DEF CheckpointIsCut, Layers, Layer
  <2>5. SucceededComplete'
    <3>1. SUFFICES ASSUME status' = "succeeded" PROVE Settled' = Nodes
      BY DEF SucceededComplete
    <3>2. Settled = Nodes \/ \E r \in Runs : done[r] = Nodes
      BY <1>2, <3>1, SucceededWritten DEF CutInv, SucceededComplete
    <3>3. Nodes \subseteq Settled'
      BY <2>0, <2>1, <3>2 DEF Layers, Layer
    <3>4. Settled' \subseteq Nodes
      BY <2>0 DEF TypeOK, Settled, Nodes
    <3> QED
      BY <3>3, <3>4
  <2> QED
    BY <2>2, <2>3, <2>4, <2>5 DEF CutInv, Layers, GateRows
<1> QED
  BY <1>1, <1>2

\* Every writer of executions.status writes finished_at to match.
LEMMA FinishedStep == TypeOK /\ FinishedIffTerminal /\ [Next]_vars => FinishedIffTerminal'
<1> SUFFICES ASSUME TypeOK, FinishedIffTerminal, [Next]_vars PROVE FinishedIffTerminal'
  OBVIOUS
<1> USE DEF FinishedIffTerminal, Terminal
<1>1. CASE UNCHANGED <<status, finished>>
  BY <1>1
<1>2. CASE Cancel
  BY <1>2 DEF Cancel
<1>3. CASE Requeue
  BY <1>3 DEF Requeue
<1>4. ASSUME NEW r \in Runs, NEW to \in ExecutionStatus, transitionExecution(r, to)
      PROVE  FinishedIffTerminal'
  BY <1>4 DEF transitionExecution
<1>7. ASSUME NEW r \in Runs, NEW to \in ExecutionStatus, transitionUnheard(r, to)
      PROVE  FinishedIffTerminal'
  BY <1>7 DEF transitionUnheard
<1>5. ASSUME NEW r \in Runs, RunStep(r)
      PROVE  \/ UNCHANGED <<status, finished>>
             \/ \E to \in ExecutionStatus : transitionExecution(r, to) \/ transitionUnheard(r, to)
  BY <1>5 DEF RunStep, OwnStep, Answer, loadExecution, EnterRunning, NextLayer, NoNodeReady,
     SkipNode, InsertStep, StepNotInserted, RunCommand, CommandSucceeds,
     CommandFails, BackoffElapses, BackoffTimesOut, RunnerMissing, RecordSuccess,
     RecordFailure, runCompensation, InsertApproval, MarkWaiting,
     ResumeApproved, FinishRejected, saveCheckpoint, FailExecution, execution,
     transitionIgnored, transitionLost, ExecutionStatus
<1>6. CASE UNCHANGED vars \/ (\E r \in Runs : Dispatch(r) \/ Abort(r))
             \/ (\E r \in Runs, g \in Gates, d \in {"approved", "rejected"} : Respond(r, g, d))
  BY <1>1, <1>6 DEF vars, execution, Dispatch, Abort, Respond
<1> HIDE DEF FinishedIffTerminal
<1> QED
  BY <1>1, <1>2, <1>3, <1>4, <1>5, <1>6, <1>7 DEF Next, Environment

-----------------------------------------------------------------------------
(* The theorems *)

\* Before any run, nothing has a row, a checkpoint or a history.
LEMMA InitIInv == Init => IInv
<1> SUFFICES ASSUME Init PROVE IInv
  OBVIOUS
<1> USE GraphAssumption, RetryAssumption, RunAssumption
<1>1. TypeOK
  BY DEF Init, TypeOK, NoRow, Where, Terminal
<1>2. Claims /\ Rowless /\ AttemptsBounded /\ RowTruth /\ CompensationExclusive
  BY DEF Init, Claims, Claim, Rowless, AttemptsBounded, RowTruth,
     CompensationExclusive, NoRow
<1>3. Layers /\ GateRows /\ RowsInOrder /\ CheckpointIsCut /\ SucceededComplete
  BY DEF Init, Layers, Layer, GateRows, GateRow, RowsInOrder, CheckpointIsCut,
     SucceededComplete, NoRow
<1>4. FinishedIffTerminal
  BY DEF Init, FinishedIffTerminal, Terminal
<1> QED
  BY <1>1, <1>2, <1>3, <1>4 DEF IInv, RowInv, CutInv

\* The inductive invariant behind every theorem below: rows belong to the runs
\* that insert them, completed nodes form a cut, finished_at follows the status.
THEOREM Inductive == Spec => []IInv
<1>1. Init => IInv
  BY InitIInv
<1>2. IInv /\ [Next]_vars => IInv'
  BY RowStep, CutStep, FinishedStep DEF IInv, RowInv, CutInv
<1> QED
  BY <1>1, <1>2, PTL DEF Spec

\* The rows and the locals of Execute keep their types, for every DAG.
THEOREM TypeCorrect == Spec => []TypeOK
<1>1. IInv => TypeOK
  BY DEF IInv, RowInv
<1> QED
  BY <1>1, Inductive, PTL

\* No number of takeovers makes the engine start a step's command more often
\* than its retry policy says.
THEOREM AttemptsAreBounded == Spec => []AttemptsBounded
<1>1. IInv => AttemptsBounded
  BY DEF IInv, RowInv
<1> QED
  BY <1>1, Inductive, PTL

\* Two runs never have the same step under way: the UNIQUE row excludes them.
THEOREM StepsAreExclusive == Spec => []OneRunPerStep
<1>1. IInv => OneRunPerStep
  <2> SUFFICES ASSUME Claims, NEW r1 \in Runs, NEW r2 \in Runs,
                      pc[r1] = "running", pc[r2] = "running", cur[r1] = cur[r2]
               PROVE  r1 = r2
    BY DEF IInv, RowInv, OneRunPerStep
  <2>1. Claim(r1) /\ Claim(r2)
    BY DEF Claims
  <2>2. row[cur[r1]].by = r1 /\ row[cur[r2]].by = r2
    BY <2>1 DEF Claim
  <2> QED
    BY <2>2
<1> QED
  BY <1>1, Inductive, PTL

\* Commands start in dependency order and behind approved gates, in every run.
THEOREM OrderIsKept == Spec => []DependencyOrder
<1>1. IInv => DependencyOrder
  BY DEF IInv, RowInv, CutInv, Rowless, RowsInOrder, DependencyOrder
<1> QED
  BY <1>1, Inductive, PTL

\* Whatever two runs overwrite, the checkpoint is a cut to resume from.
THEOREM CheckpointIsSound == Spec => []CheckpointIsCut
<1>1. IInv => CheckpointIsCut
  BY DEF IInv, CutInv
<1> QED
  BY <1>1, Inductive, PTL

\* A succeeded execution has settled its whole DAG.
THEOREM SuccessIsComplete == Spec => []SucceededComplete
<1>1. IInv => SucceededComplete
  BY DEF IInv, CutInv
<1> QED
  BY <1>1, Inductive, PTL

\* finished_at is set exactly while the status is terminal.
THEOREM FinishedIsTerminal == Spec => []FinishedIffTerminal
<1>1. IInv => FinishedIffTerminal
  BY DEF IInv
<1> QED
  BY <1>1, Inductive, PTL

\* A step row never claims an outcome its command did not have.
THEOREM RowsAreTrue == Spec => []RowTruth
<1>1. IInv => RowTruth
  BY DEF IInv, RowInv
<1> QED
  BY <1>1, Inductive, PTL

\* No step that succeeded is ever compensated.
THEOREM CompensationIsExclusive == Spec => []CompensationExclusive
<1>1. IInv => CompensationExclusive
  BY DEF IInv, RowInv
<1> QED
  BY <1>1, Inductive, PTL

-----------------------------------------------------------------------------
(* Executor implements DagRun *)

Begun == {s \in Steps : row[s].status # "none"}

\* A step that neither begins nor settles anything concludes at most.
LEMMA Concludes ==
  ASSUME IInv', Begun' = Begun, Settled' = Settled
  PROVE  Promise!Conclude
<1>1. status' \in ExecutionStatus /\ (status' = "succeeded" => Settled' = Steps \cup Gates)
  BY DEF IInv, RowInv, CutInv, TypeOK, SucceededComplete, ExecutionStatus, Terminal, Nodes
<1> QED
  BY <1>1 DEF Promise!Conclude, Begun

\* What an action leaves alone, read off its UNCHANGED.
LEMMA QuietSteps ==
  ASSUME NEW r \in Runs, RunStep(r),
         ~\E n \in Nodes : SkipNode(r, n), ~\E s \in Steps : InsertStep(r, s),
         ~CommandSucceeds(r), ~RecordSuccess(r), ~RecordFailure(r),
         ~\E g \in Gates : InsertApproval(r, g)
  PROVE  UNCHANGED <<row, ok, skipped, approval>>
BY DEF RunStep, OwnStep, Answer, loadExecution, EnterRunning, NextLayer, NoNodeReady,
   StepNotInserted, RunCommand, CommandFails, BackoffElapses, BackoffTimesOut, RunnerMissing,
   runCompensation, MarkWaiting, ResumeApproved, FinishRejected, saveCheckpoint,
   FailExecution, history

\* Each step of a run, the API or the takeover is a step of DagRun or a stutter.
LEMMA StepRefines ==
  ASSUME IInv, IInv', Next
  PROVE  Promise!Next
<1>0. TypeOK /\ Claims /\ Layers /\ GateRows /\ RowsInOrder
  BY DEF IInv, RowInv, CutInv
<1>1. CASE UNCHANGED <<row, ok, skipped, approval>>
  BY <1>1, Concludes DEF Begun, Settled, Approved, Promise!Next
<1>2. ASSUME NEW r \in Runs, NEW n \in Nodes, SkipNode(r, n) PROVE Promise!Next
  <2>1. Deps[n] \subseteq Settled
    BY <1>0, <1>2 DEF SkipNode, Goto, Layers, Layer
  <2>2. Settled' = Settled \cup {n} /\ UNCHANGED <<row, status>>
    BY <1>2 DEF SkipNode, Settled, Approved, execution
  <2>3. Promise!Settle(n)
    BY <1>2, <2>1, <2>2 DEF SkipNode, Promise!Settle
  <2> QED
    BY <2>3 DEF Promise!Next, Nodes
<1>3. ASSUME NEW r \in Runs, NEW s \in Steps, InsertStep(r, s) PROVE Promise!Next
  <2>1. Deps[s] \subseteq Settled
    BY <1>0, <1>3 DEF InsertStep, Goto, Layers, Layer
  <2>2. UNCHANGED <<Settled, status>> /\ s \notin Begun
    BY <1>3 DEF InsertStep, Settled, Approved, execution, history, NoRow, Begun
  <2>3. Begun' = Begun \cup {s}
    BY <1>0, <1>3 DEF InsertStep, Begun, TypeOK
  <2>4. Promise!Begin(s)
    BY <2>1, <2>2, <2>3 DEF Promise!Begin, Begun
  <2> QED
    BY <2>4 DEF Promise!Next
<1>4. ASSUME NEW r \in Runs, CommandSucceeds(r) PROVE Promise!Next
  <2>1. Claim(r) /\ pc[r] = "running"
    BY <1>0, <1>4 DEF CommandSucceeds, Goto, Claims
  <2>2. cur[r] \in Begun
    BY <2>1 DEF Claim, Begun
  <2>3. Deps[cur[r]] \subseteq Settled
    BY <1>0, <2>2 DEF RowsInOrder, Begun
  <2>4. Settled' = Settled \cup {cur[r]} /\ UNCHANGED <<row, status>>
    BY <1>4 DEF CommandSucceeds, Settled, Approved, execution
  <2>5. Promise!Settle(cur[r])
    BY <2>2, <2>3, <2>4 DEF Promise!Settle, Begun
  <2> QED
    BY <2>2, <2>5 DEF Promise!Next, Begun
<1>5. ASSUME NEW r \in Runs, RecordSuccess(r) \/ RecordFailure(r) PROVE Promise!Next
  <2>1. Claim(r) /\ pc[r] \in {"recordok", "recordfail"}
    BY <1>0, <1>5 DEF RecordSuccess, RecordFailure, Goto, Claims
  <2>2. cur[r] \in Steps /\ row[cur[r]].status = "running"
    BY <2>1 DEF Claim
  <2>3. row \in [Steps -> [status : {"none", "running", "succeeded", "failed"},
                           by : Runs \cup {NoRun}]]
    BY <1>0 DEF TypeOK
  <2>4. Begun' = Begun
    BY <1>5, <2>2, <2>3 DEF RecordSuccess, RecordFailure, UpdateRow, Begun
  <2>5. Settled' = Settled
    BY <1>5 DEF RecordSuccess, RecordFailure, Settled, Approved, history
  <2> QED
    BY <2>4, <2>5, Concludes DEF Promise!Next
<1>6. ASSUME NEW r \in Runs, NEW g \in Gates, InsertApproval(r, g) PROVE Promise!Next
  <2>1. approval[<<r, g>>] = "none" /\ approval' = [approval EXCEPT ![<<r, g>>] = "pending"]
    BY <1>0, <1>6, GateOpenedOnce DEF InsertApproval
  <2>2. DOMAIN approval = Runs \X Gates
    BY <1>0 DEF TypeOK
  <2>3. \A x \in Gates : Approved(x)' <=> Approved(x)
    BY <2>1, <2>2 DEF Approved
  <2>4. Settled' = Settled /\ Begun' = Begun
    BY <1>6, <2>3 DEF InsertApproval, Settled, Begun, history
  <2> QED
    BY <2>4, Concludes DEF Promise!Next
<1>7. ASSUME NEW r \in Runs, NEW g \in Gates, Respond(r, g, "approved") PROVE Promise!Next
  <2>1. DOMAIN approval = Runs \X Gates
    BY <1>0 DEF TypeOK
  <2>2. \A x \in Gates : Approved(x)' <=> (Approved(x) \/ x = g)
    BY <1>7, <2>1 DEF Approved, Respond
  <2>3. Settled' = Settled \cup {g} /\ UNCHANGED <<row, status>>
    BY <1>7, <2>2 DEF Respond, Settled, execution, history
  <2>4. Deps[g] \subseteq Settled
    BY <1>0, <1>7 DEF Respond, GateRows, GateRow
  <2>5. Promise!Settle(g)
    BY <2>3, <2>4 DEF Promise!Settle
  <2> QED
    BY <2>5 DEF Promise!Next
<1>8. ASSUME NEW r \in Runs, NEW g \in Gates, Respond(r, g, "rejected") PROVE Promise!Next
  <2>1. DOMAIN approval = Runs \X Gates
    BY <1>0 DEF TypeOK
  <2>2. \A x \in Gates : Approved(x)' <=> Approved(x)
    BY <1>8, <2>1 DEF Approved, Respond
  <2>3. Settled' = Settled /\ Begun' = Begun
    BY <1>8, <2>2 DEF Respond, Settled, Begun, history
  <2> QED
    BY <2>3, Concludes DEF Promise!Next
<1>9. CASE Cancel \/ Requeue \/ \E r \in Runs : Dispatch(r) \/ Abort(r)
  BY <1>1, <1>9 DEF Cancel, Requeue, Dispatch, Abort, history
<1> QED
  BY <1>1, <1>2, <1>3, <1>4, <1>5, <1>6, <1>7, <1>8, <1>9, QuietSteps
     DEF Next, Environment

\* The engine keeps the promise of DagRun, through takeovers, crashes, lost
\* updates and two runs at once: it is a refinement, for every DAG.
THEOREM Refinement == Spec => KeepsPromise
<1>1. Init => Promise!Init
  <2> SUFFICES ASSUME Init PROVE Promise!Init
    OBVIOUS
  <2>1. \A g \in Gates : ~Approved(g)
    BY DEF Init, Approved
  <2>2. Settled = {}
    BY <2>1 DEF Init, Settled
  <2>3. {s \in Steps : row[s].status # "none"} = {}
    BY DEF Init, NoRow
  <2> QED
    BY <2>2, <2>3 DEF Init, Promise!Init, ExecutionStatus
<1>2. IInv /\ IInv' /\ [Next]_vars => [Promise!Next]_<<Begun, Settled, status>>
  <2>1. CASE UNCHANGED vars
    BY <2>1 DEF vars, Begun, Settled, Approved, history, execution
  <2> QED
    BY <2>1, StepRefines
<1> QED
  BY <1>1, <1>2, Inductive, PTL DEF Spec, KeepsPromise, Promise!Spec, Begun

-----------------------------------------------------------------------------
(* Executor implements StepLoop *)

\* The other steps of a run leave the commands alone.
LEMMA LoopQuiet ==
  ASSUME NEW r \in Runs, RunStep(r),
         ~RunCommand(r), ~CommandSucceeds(r), ~runCompensation(r)
  PROVE  UNCHANGED <<launches, ok, undone>>
BY DEF RunStep, OwnStep, Answer, loadExecution, EnterRunning, NextLayer, NoNodeReady, SkipNode, InsertStep,
   StepNotInserted, CommandFails, BackoffElapses, BackoffTimesOut, RunnerMissing,
   RecordSuccess, RecordFailure, InsertApproval, MarkWaiting, ResumeApproved,
   FinishRejected, saveCheckpoint, FailExecution, history

\* Each step of a run, the API or the takeover is a step of StepLoop or a stutter:
\* the claim of the run at a step is what the guards of StepLoop ask for.
LEMMA LoopStep ==
  ASSUME IInv, Next
  PROVE  Loop!Next \/ UNCHANGED Loop!vars
<1>0. TypeOK /\ Claims
  BY DEF IInv, RowInv
<1>1. CASE UNCHANGED <<launches, ok, undone>>
  BY <1>1 DEF Loop!vars
<1>2. ASSUME NEW r \in Runs, RunCommand(r) PROVE Loop!Next
  <2>1. Claim(r) /\ pc[r] = "attempt" /\ attempt[r] \in Nat
    BY <1>0, <1>2 DEF RunCommand, Goto, Claims, TypeOK
  <2>2. /\ cur[r] \in Steps /\ cur[r] \notin ok \cup undone
        /\ attempt[r] \in 1 .. MaxAttempts[cur[r]] /\ launches[cur[r]] = attempt[r] - 1
    BY <2>1 DEF Claim
  <2>3. launches[cur[r]] < MaxAttempts[cur[r]]
    BY <2>1, <2>2, RetryAssumption
  <2>4. Loop!Launch(cur[r])
    BY <1>2, <2>2, <2>3 DEF RunCommand, Loop!Launch
  <2> QED
    BY <2>2, <2>4 DEF Loop!Next
<1>3. ASSUME NEW r \in Runs, CommandSucceeds(r) PROVE Loop!Next
  <2>1. Claim(r) /\ pc[r] = "running" /\ attempt[r] \in Nat
    BY <1>0, <1>3 DEF CommandSucceeds, Goto, Claims, TypeOK
  <2>2. /\ cur[r] \in Steps /\ cur[r] \notin ok \cup undone
        /\ attempt[r] \in 1 .. MaxAttempts[cur[r]] /\ launches[cur[r]] = attempt[r]
    BY <2>1 DEF Claim
  <2>3. launches[cur[r]] > 0
    BY <2>1, <2>2
  <2>4. Loop!Succeed(cur[r])
    BY <1>3, <2>2, <2>3 DEF CommandSucceeds, Loop!Succeed
  <2> QED
    BY <2>2, <2>4 DEF Loop!Next
<1>4. ASSUME NEW r \in Runs, runCompensation(r) PROVE Loop!Next \/ UNCHANGED Loop!vars
  <2>1. Claim(r) /\ pc[r] = "compensate"
    BY <1>0, <1>4 DEF runCompensation, Goto, Claims
  <2>2. cur[r] \in Steps /\ cur[r] \notin ok /\ launches[cur[r]] = MaxAttempts[cur[r]]
    BY <2>1 DEF Claim
  <2>3. CASE undone' = undone \cup {cur[r]} /\ cur[r] \notin undone
    <3>1. Loop!Undo(cur[r])
      BY <1>4, <2>2, <2>3 DEF runCompensation, Loop!Undo
    <3> QED
      BY <2>2, <3>1 DEF Loop!Next
  <2>4. CASE ~(undone' = undone \cup {cur[r]} /\ cur[r] \notin undone)
    <3>1. undone' = undone
      BY <1>4, <2>4 DEF runCompensation
    <3> QED
      BY <1>4, <3>1 DEF runCompensation, Loop!vars
  <2> QED
    BY <2>3, <2>4
<1>5. CASE Environment \/ \E r \in Runs : Dispatch(r) \/ Abort(r)
  BY <1>1, <1>5 DEF Environment, Cancel, Requeue, Respond, Dispatch, Abort, history
<1> QED
  BY <1>1, <1>2, <1>3, <1>4, <1>5, LoopQuiet DEF Next

\* The engine keeps the promise of StepLoop, for every DAG, retry policy and number
\* of runs: what the rows of execution_steps do for the commands.
THEOREM LoopRefinement == Spec => KeepsLoop
<1>1. Init => Loop!Init
  BY DEF Init, Loop!Init
<1>2. IInv /\ [Next]_vars => [Loop!Next]_(Loop!vars)
  <2>1. CASE UNCHANGED vars
    BY <2>1 DEF vars, history, Loop!vars
  <2> QED
    BY <2>1, LoopStep
<1> QED
  BY <1>1, <1>2, Inductive, PTL DEF Spec, KeepsLoop, Loop!Spec

-----------------------------------------------------------------------------
\* The runs and the column as RunStatus sees them.
View == [r \in Runs |-> Seen(r)]
Column == [e \in {"this"} |-> Ended(status)]

Gone == [at |-> "out", exec |-> "none", mem |-> "none"]

\* Where a run is at work on the nodes.
Inside == {"layer", "pick", "attempt", "running", "backoff", "recordok", "recordfail",
           "compensate", "fail", "mark", "save"}

\* A run that is in Execute shows its place and what it remembers.
Shown ==
  \A r \in Runs :
     /\ pc[r] \in {"idle", "ended"} => View[r] = Gone
     /\ pc[r] = "load" => View[r] = [at |-> "loading", exec |-> "this", mem |-> "none"]
     /\ pc[r] = "enter" =>
          View[r] = [at |-> "entering", exec |-> "this", mem |-> Ended(mem[r])]
     /\ pc[r] = "await" =>
          View[r] = [at |-> "waiting", exec |-> "this", mem |-> Ended(mem[r])]
     /\ pc[r] \in Inside =>
          View[r] = [at |-> "running", exec |-> "this", mem |-> Ended(mem[r])]

LEMMA ViewOf == Shown
<1> SUFFICES ASSUME NEW r \in Runs
             PROVE  /\ pc[r] \in {"idle", "ended"} => View[r] = Gone
                    /\ pc[r] = "load" =>
                         View[r] = [at |-> "loading", exec |-> "this", mem |-> "none"]
                    /\ pc[r] = "enter" =>
                         View[r] = [at |-> "entering", exec |-> "this", mem |-> Ended(mem[r])]
                    /\ pc[r] = "await" =>
                         View[r] = [at |-> "waiting", exec |-> "this", mem |-> Ended(mem[r])]
                    /\ pc[r] \in Inside =>
                         View[r] = [at |-> "running", exec |-> "this", mem |-> Ended(mem[r])]
  BY DEF Shown
<1>1. Place(r) = CASE pc[r] = "load" -> "loading"
                   [] pc[r] = "enter" -> "entering"
                   [] pc[r] = "await" -> "waiting"
                   [] OTHER -> "running"
  BY DEF Place
<1> QED
  BY <1>1 DEF View, Seen, Gone, Inside

\* A step of one run shows in its own view only.
LEMMA ViewOthers ==
  ASSUME NEW r \in Runs,
         \A q \in Runs \ {r} : pc'[q] = pc[q] /\ mem'[q] = mem[q]
  PROVE  View' = [View EXCEPT ![r] = View'[r]]
BY DEF View, Seen, Place

\* transitionExecution writes what RunStatus finds valid, or nothing.
LEMMA Transits ==
  ASSUME TypeOK, NEW r \in Runs,
         NEW to \in {"running", "waiting_approval", "succeeded", "failed", "cancelled"},
         transitionExecution(r, to)
  PROVE  \/ /\ Col!Valid(Ended(mem[r]), Ended(to))
            /\ to \in {"succeeded", "failed"} => mem[r] = "running"
            /\ status' = to /\ mem' = [mem EXCEPT ![r] = to]
         \/ UNCHANGED <<status, mem>>
<1>1. CASE ValidateExecutionTransition(mem[r], to)
  <2>1. mem[r] \in {"queued", "running", "waiting_approval"} \cup Terminal
    BY DEF TypeOK
  <2>2. <<mem[r], to>> \in validExecutionTransitions
    BY <1>1 DEF ValidateExecutionTransition
  <2>3. /\ to = "running" => mem[r] \in {"queued", "waiting_approval"}
        /\ to \in {"waiting_approval", "succeeded", "failed"} => mem[r] = "running"
        /\ to = "cancelled" => mem[r] \in {"queued", "running", "waiting_approval"}
    BY <2>1, <2>2 DEF validExecutionTransitions, Terminal
  <2>4. Col!Valid(Ended(mem[r]), Ended(to))
    BY <2>3 DEF Col!Valid, Ended, Terminal
  <2> QED
    BY <1>1, <2>3, <2>4 DEF transitionExecution
<1>2. CASE ~ValidateExecutionTransition(mem[r], to)
  BY <1>2 DEF transitionExecution
<1> QED
  BY <1>1, <1>2

LEMMA ValidShows ==
  ASSUME TypeOK, NEW r \in Runs, ValidateExecutionTransition(mem[r], "running")
  PROVE  Col!Valid(Ended(mem[r]), "running")
<1>1. mem[r] \in {"queued", "running", "waiting_approval"} \cup Terminal
  BY DEF TypeOK
<1>2. mem[r] \in {"queued", "waiting_approval"}
  BY <1>1 DEF ValidateExecutionTransition, validExecutionTransitions, Terminal
<1> QED
  BY <1>2 DEF Col!Valid, Ended, Terminal

LEMMA UnheardShows ==
  ASSUME TypeOK, NEW r \in Runs, NEW to \in {"running", "waiting_approval"},
         transitionUnheard(r, to)
  PROVE  Col!Valid(Ended(mem[r]), to)
<1>1. mem[r] \in {"queued", "running", "waiting_approval"} \cup Terminal
  BY DEF TypeOK
<1>2. \/ to = "running" /\ mem[r] \in {"queued", "waiting_approval"}
      \/ to = "waiting_approval" /\ mem[r] = "running"
  BY <1>1 DEF transitionUnheard, ValidateExecutionTransition, validExecutionTransitions, Terminal
<1> QED
  BY <1>2 DEF Col!Valid, Ended, Terminal

\* A step of a run from node to node shows nothing.
LEMMA InsideQuiet ==
  ASSUME TypeOK, NEW r \in Runs,
         \/ NextLayer(r) \/ \E n \in Nodes : SkipNode(r, n)
         \/ \E s \in Steps : InsertStep(r, s) \/ StepNotInserted(r, s)
         \/ RunnerMissing(r) \/ RunCommand(r) \/ CommandSucceeds(r) \/ CommandFails(r)
         \/ BackoffElapses(r) \/ BackoffTimesOut(r) \/ RecordSuccess(r) \/ RecordFailure(r)
         \/ runCompensation(r) \/ saveCheckpoint(r)
         \/ \E g \in Gates : InsertApproval(r, g)
  PROVE  UNCHANGED Col!vars
<1>1. pc \in [Runs -> Where]
  BY DEF TypeOK
<1>2. /\ pc[r] \in Inside /\ \E to \in Inside : pc' = [pc EXCEPT ![r] = to]
      /\ UNCHANGED <<mem, status>>
  BY DEF NextLayer, SkipNode, InsertStep, StepNotInserted, RunnerMissing, RunCommand,
         CommandSucceeds, CommandFails, BackoffElapses, BackoffTimesOut, RecordSuccess,
         RecordFailure, runCompensation, InsertApproval, saveCheckpoint, Goto, Inside, execution
<1>3. pc'[r] \in Inside /\ \A q \in Runs \ {r} : pc'[q] = pc[q] /\ mem'[q] = mem[q]
  BY <1>1, <1>2
<1>4. Shown /\ Shown'
  BY ViewOf, PTL
<1>5. View'[r] = View[r]
  BY <1>2, <1>3, <1>4 DEF Shown, Ended
<1>6. View' = View
  BY <1>3, <1>5, ViewOthers DEF View
<1> QED
  BY <1>2, <1>6 DEF Col!vars, View, Ended

\* A run that ends without a word is gone.
LEMMA GoneQuietly ==
  ASSUME TypeOK, NEW r \in Runs, pc' = [pc EXCEPT ![r] = "ended"], UNCHANGED <<status, mem>>
  PROVE  Col!Next
<1>1. pc'[r] = "ended" /\ \A q \in Runs \ {r} : pc'[q] = pc[q] /\ mem'[q] = mem[q]
  BY DEF TypeOK
<1>2. Shown'
  BY ViewOf, PTL
<1>3. View' = [View EXCEPT ![r] = Gone]
  BY <1>1, <1>2, ViewOthers DEF Shown
<1>4. View' = [q \in Runs |-> IF q \in {r} THEN Gone ELSE View[q]]
  BY <1>3 DEF View
<1>5. Col!Leave({r})
  BY <1>4 DEF Col!Leave, Col!Out, View, Gone, Ended
<1> QED
  BY <1>5 DEF Col!Next

\* A run that ends with a last status is concluded.
LEMMA GoneWithStatus ==
  ASSUME TypeOK, NEW r \in Runs, pc[r] \in Inside \cup {"await"},
         pc' = [pc EXCEPT ![r] = "ended"], NEW to \in Terminal, status' = to,
         mem' = [mem EXCEPT ![r] = to], Col!Valid(Ended(mem[r]), "done"),
         pc[r] # "await" => mem[r] = "running"
  PROVE  Col!Next
<1>1. pc'[r] = "ended" /\ \A q \in Runs \ {r} : pc'[q] = pc[q] /\ mem'[q] = mem[q]
  BY DEF TypeOK
<1>2. Shown /\ Shown'
  BY ViewOf, PTL
<1>3. View' = [View EXCEPT ![r] = Gone]
  BY <1>1, <1>2, ViewOthers DEF Shown
<1>4. Column' = [Column EXCEPT !["this"] = "done"]
  BY DEF Column, Ended
<1>5. /\ View[r].exec = "this" /\ View[r].mem = Ended(mem[r])
      /\ pc[r] = "await" => View[r].at = "waiting"
      /\ pc[r] # "await" => View[r].at = "running"
  <2>1. CASE pc[r] = "await"
    <3>1. View[r] = [at |-> "waiting", exec |-> "this", mem |-> Ended(mem[r])]
      BY <1>2, <2>1 DEF Shown
    <3> QED
      BY <2>1, <3>1
  <2>2. CASE pc[r] \in Inside
    <3>1. View[r] = [at |-> "running", exec |-> "this", mem |-> Ended(mem[r])]
      BY <1>2, <2>2 DEF Shown
    <3> QED
      BY <2>2, <3>1 DEF Inside
  <2> QED
    BY <2>1, <2>2
<1>6. CASE pc[r] = "await"
  <2>1. Col!Refuse(r)
    <3>1. Col!Valid(View[r].mem, "done")
      BY <1>5
    <3>2. Column' = [Column EXCEPT ![View[r].exec] = "done"]
      BY <1>4, <1>5
    <3> QED
      BY <1>3, <1>5, <1>6, <3>1, <3>2
         DEF Col!Refuse, Col!Conclude, Col!Out, View, Column, Gone
  <2> QED
    BY <2>1 DEF Col!Next
<1>7. CASE pc[r] # "await"
  <2>1. View[r].mem = "running"
    BY <1>5, <1>7 DEF Ended, Terminal
  <2>2. Col!Finish(r)
    <3>1. Col!Valid(View[r].mem, "done")
      BY <1>5
    <3>2. Column' = [Column EXCEPT ![View[r].exec] = "done"]
      BY <1>4, <1>5
    <3> QED
      BY <1>3, <1>5, <1>7, <2>1, <3>1, <3>2
         DEF Col!Finish, Col!Conclude, Col!Out, View, Column, Gone
  <2> QED
    BY <2>2 DEF Col!Next
<1> QED
  BY <1>6, <1>7

\* A run that writes the column and goes on does it as RunStatus says.
LEMMA WritesOn ==
  ASSUME TypeOK, NEW r \in Runs, NEW from \in {"enter", "mark", "await"},
         NEW to \in {"layer", "await", "save"}, NEW new \in {"running", "waiting_approval"},
         pc[r] = from, pc' = [pc EXCEPT ![r] = to], status' = new,
         mem' = [mem EXCEPT ![r] = new], Col!Valid(Ended(mem[r]), new),
         \/ from = "enter" /\ to = "layer" /\ new = "running"
         \/ from = "mark" /\ to = "await" /\ new = "waiting_approval"
         \/ from = "await" /\ to = "save" /\ new = "running"
  PROVE  Col!Next
<1> DEFINE place == IF to = "await" THEN "waiting" ELSE "running"
<1>1. /\ pc'[r] = to /\ mem'[r] = new
      /\ \A q \in Runs \ {r} : pc'[q] = pc[q] /\ mem'[q] = mem[q]
  BY DEF TypeOK
<1>2. Shown /\ Shown'
  BY ViewOf, PTL
<1>3. Ended(new) = new
  BY DEF Ended, Terminal
<1>4. View'[r] = [at |-> place, exec |-> "this", mem |-> new]
  <2>1. Ended(mem[r])' = new
    BY <1>1, <1>3
  <2>2. CASE to = "await"
    <3>1. View'[r] = [at |-> "waiting", exec |-> "this", mem |-> Ended(mem[r])']
      BY <1>1, <1>2, <2>2 DEF Shown
    <3> QED
      BY <2>1, <2>2, <3>1
  <2>3. CASE to \in {"layer", "save"}
    <3>1. View'[r] = [at |-> "running", exec |-> "this", mem |-> Ended(mem[r])']
      BY <1>1, <1>2, <2>3 DEF Shown, Inside
    <3> QED
      BY <2>1, <2>3, <3>1
  <2> QED
    BY <2>2, <2>3
<1>5. \E at \in {"entering", "running", "waiting"} :
         /\ View[r] = [at |-> at, exec |-> "this", mem |-> Ended(mem[r])]
         /\ from = "enter" => at = "entering"
         /\ from = "mark" => at = "running"
         /\ from = "await" => at = "waiting"
  <2>1. CASE from = "enter"
    <3>1. View[r] = [at |-> "entering", exec |-> "this", mem |-> Ended(mem[r])]
      BY <1>2, <2>1 DEF Shown
    <3> QED
      BY <2>1, <3>1
  <2>2. CASE from = "mark"
    <3>1. View[r] = [at |-> "running", exec |-> "this", mem |-> Ended(mem[r])]
      BY <1>2, <2>2 DEF Shown, Inside
    <3> QED
      BY <2>2, <3>1
  <2>3. CASE from = "await"
    <3>1. View[r] = [at |-> "waiting", exec |-> "this", mem |-> Ended(mem[r])]
      BY <1>2, <2>3 DEF Shown
    <3> QED
      BY <2>3, <3>1
  <2> QED
    BY <2>1, <2>2, <2>3
<1>6. View' = [View EXCEPT ![r] = [at |-> place, exec |-> View[r].exec, mem |-> new]]
  BY <1>1, <1>4, <1>5, ViewOthers
<1>7. Column' = [Column EXCEPT ![View[r].exec] = new]
  <2>1. View[r].exec = "this"
    BY <1>5
  <2>2. Column' = [e \in {"this"} |-> new] /\ Column = [e \in {"this"} |-> Ended(status)]
    BY <1>3 DEF Column
  <2> QED
    BY <2>1, <2>2
<1>8. Col!Valid(View[r].mem, new)
  BY <1>5
<1>9. Col!Write(r, new, place)
  BY <1>6, <1>7, <1>8 DEF Col!Write, Col!Goes, View, Column
<1>10. Col!Enter(r) \/ Col!Await(r) \/ Col!Resume(r)
  <2>1. CASE from = "enter"
    <3>1. View[r].at = "entering" /\ Col!Write(r, "running", "running")
      BY <1>5, <1>9, <2>1
    <3> QED
      BY <3>1 DEF Col!Enter, View
  <2>2. CASE from = "mark"
    <3>1. View[r].at = "running" /\ Col!Write(r, "waiting_approval", "waiting")
      BY <1>5, <1>9, <2>2
    <3> QED
      BY <3>1 DEF Col!Await, View
  <2>3. CASE from = "await"
    <3>1. View[r].at = "waiting" /\ Col!Write(r, "running", "running")
      BY <1>5, <1>9, <2>3
    <3> QED
      BY <3>1 DEF Col!Resume, View
  <2> QED
    BY <2>1, <2>2, <2>3
<1> QED
  BY <1>10 DEF Col!Next

\* A run that comes to a gate or goes on from it and remembers nothing of it, with
\* or without the column written, does so as RunStatus says.
LEMMA PassesUnmarked ==
  ASSUME TypeOK, NEW r \in Runs, NEW to \in {"await", "save"},
         NEW new \in {"running", "waiting_approval"},
         \/ pc[r] = "mark" /\ to = "await" /\ new = "waiting_approval"
         \/ pc[r] = "await" /\ to = "save" /\ new = "running",
         pc' = [pc EXCEPT ![r] = to], UNCHANGED mem,
         \/ UNCHANGED status
         \/ status' = new /\ Col!Valid(Ended(mem[r]), new)
  PROVE  Col!Next
<1>1. pc'[r] = to /\ \A q \in Runs \ {r} : pc'[q] = pc[q] /\ mem'[q] = mem[q]
  BY DEF TypeOK
<1>2. Shown /\ Shown'
  BY ViewOf, PTL
<1>3. Ended(mem[r])' = Ended(mem[r])
  BY DEF Ended
<1>6. ASSUME View[r].exec = "this", View[r].mem = Ended(mem[r])
      PROVE  \/ UNCHANGED Column
             \/ /\ Col!Valid(View[r].mem, new)
                /\ Column' = [Column EXCEPT ![View[r].exec] = new]
  <2>1. CASE UNCHANGED status
    BY <2>1 DEF Column, Ended
  <2>2. CASE status' = new /\ Col!Valid(Ended(mem[r]), new)
    <3>1. Column' = [e \in {"this"} |-> new] /\ Column = [e \in {"this"} |-> Ended(status)]
      BY <2>2 DEF Column, Ended, Terminal
    <3> QED
      BY <1>6, <2>2, <3>1
  <2> QED
    BY <2>1, <2>2
<1>4. CASE pc[r] = "mark" /\ to = "await"
  <2>1. View[r] = [at |-> "running", exec |-> "this", mem |-> Ended(mem[r])]
    BY <1>2, <1>4 DEF Shown, Inside
  <2>2. View'[r] = [at |-> "waiting", exec |-> "this", mem |-> Ended(mem[r])']
    BY <1>1, <1>2, <1>4 DEF Shown
  <2>3. View' = [View EXCEPT ![r] = [at |-> "waiting", exec |-> View[r].exec,
                                     mem |-> View[r].mem]]
    BY <1>1, <1>3, <2>1, <2>2, ViewOthers
  <2>4. Col!Unmarked(r, "waiting_approval", "waiting")
    BY <1>4, <1>6, <2>1, <2>3 DEF Col!Unmarked, Col!Goes, View, Column
  <2>5. Col!AwaitUnmarked(r)
    BY <2>1, <2>4 DEF Col!AwaitUnmarked, View
  <2> QED
    BY <2>5 DEF Col!Next
<1>5. CASE pc[r] = "await" /\ to = "save"
  <2>1. View[r] = [at |-> "waiting", exec |-> "this", mem |-> Ended(mem[r])]
    BY <1>2, <1>5 DEF Shown
  <2>2. View'[r] = [at |-> "running", exec |-> "this", mem |-> Ended(mem[r])']
    BY <1>1, <1>2, <1>5 DEF Shown, Inside
  <2>3. View' = [View EXCEPT ![r] = [at |-> "running", exec |-> View[r].exec,
                                     mem |-> View[r].mem]]
    BY <1>1, <1>3, <2>1, <2>2, ViewOthers
  <2>4. Col!Unmarked(r, "running", "running")
    BY <1>5, <1>6, <2>1, <2>3 DEF Col!Unmarked, Col!Goes, View, Column
  <2>5. Col!ResumeUnmarked(r)
    BY <2>1, <2>4 DEF Col!ResumeUnmarked, View
  <2> QED
    BY <2>5 DEF Col!Next
<1> QED
  BY <1>4, <1>5

\* What a run does to the column is a step of RunStatus, or none.
LEMMA RunShows ==
  ASSUME TypeOK, NEW r \in Runs, RunStep(r)
  PROVE  Col!Next \/ UNCHANGED Col!vars
<1>1. CASE \/ NextLayer(r) \/ \E n \in Nodes : SkipNode(r, n)
           \/ \E s \in Steps : InsertStep(r, s) \/ StepNotInserted(r, s)
           \/ RunnerMissing(r) \/ RunCommand(r) \/ CommandSucceeds(r) \/ CommandFails(r)
           \/ BackoffElapses(r) \/ BackoffTimesOut(r) \/ RecordSuccess(r) \/ RecordFailure(r)
           \/ runCompensation(r) \/ saveCheckpoint(r)
           \/ \E g \in Gates : InsertApproval(r, g)
  BY <1>1, InsideQuiet
<1>2. CASE loadExecution(r)
  <2>1. /\ pc[r] = "load" /\ pc'[r] = "enter" /\ mem'[r] = status
        /\ \A q \in Runs \ {r} : pc'[q] = pc[q] /\ mem'[q] = mem[q]
        /\ UNCHANGED status
    BY <1>2 DEF TypeOK, loadExecution, Goto, execution
  <2>2. Shown /\ Shown'
    BY ViewOf, PTL
  <2>3. View[r] = [at |-> "loading", exec |-> "this", mem |-> "none"]
    BY <2>1, <2>2 DEF Shown
  <2>4. View'[r] = [at |-> "entering", exec |-> "this", mem |-> Ended(mem[r])']
    BY <2>1, <2>2 DEF Shown
  <2>5. Ended(mem[r])' = Ended(status)
    BY <2>1 DEF Ended
  <2>6. View' = [View EXCEPT ![r] = [at |-> "entering", exec |-> View[r].exec,
                                     mem |-> Column[View[r].exec]]]
    BY <2>1, <2>3, <2>4, <2>5, ViewOthers DEF Column
  <2>7. Col!Load(r)
    BY <2>1, <2>3, <2>6 DEF Col!Load, Col!Goes, View, Column, Ended
  <2> QED
    BY <2>7 DEF Col!Next
<1>3. CASE EnterRunning(r)
  <2>1. pc[r] = "enter" /\ transitionExecution(r, "running")
    BY <1>3 DEF EnterRunning, Goto
  <2>2. CASE ValidateExecutionTransition(mem[r], "running")
    <3>1. /\ pc' = [pc EXCEPT ![r] = "layer"] /\ status' = "running"
          /\ mem' = [mem EXCEPT ![r] = "running"]
      BY <1>3, <2>2 DEF EnterRunning, Goto, transitionExecution
    <3>2. Col!Valid(Ended(mem[r]), "running")
      BY <2>2, ValidShows
    <3> QED
      BY <2>1, <3>1, <3>2, WritesOn
  <2>3. CASE ~ValidateExecutionTransition(mem[r], "running")
    <3>1. pc' = [pc EXCEPT ![r] = "ended"] /\ UNCHANGED <<status, mem>>
      BY <1>3, <2>3 DEF EnterRunning, Goto, transitionExecution
    <3> QED
      BY <3>1, GoneQuietly
  <2> QED
    BY <2>2, <2>3
<1>4. ASSUME NEW to \in Terminal, transitionExecution(r, to),
             to \in {"succeeded", "failed", "cancelled"},
             (pc[r] \in {"layer", "fail"} /\ to # "cancelled") \/ pc[r] = "await",
             pc' = [pc EXCEPT ![r] = "ended"]
      PROVE  Col!Next
  <2>1. Ended(to) = "done"
    BY DEF Ended
  <2>2. CASE UNCHANGED <<status, mem>>
    BY <1>4, <2>2, GoneQuietly
  <2>3. CASE /\ Col!Valid(Ended(mem[r]), Ended(to))
             /\ to \in {"succeeded", "failed"} => mem[r] = "running"
             /\ status' = to /\ mem' = [mem EXCEPT ![r] = to]
    <3>1. pc[r] \in Inside \cup {"await"} /\ (pc[r] # "await" => mem[r] = "running")
      BY <1>4, <2>3 DEF Inside
    <3>2. Col!Valid(Ended(mem[r]), "done")
      BY <2>1, <2>3
    <3> QED
      BY <1>4, <2>3, <3>1, <3>2, GoneWithStatus
  <2> QED
    BY <1>4, <2>2, <2>3, Transits
<1>5. CASE NoNodeReady(r) \/ FailExecution(r) \/ FinishRejected(r)
  <2>1. \E to \in {"succeeded", "failed", "cancelled"} :
           /\ transitionExecution(r, to) /\ pc' = [pc EXCEPT ![r] = "ended"]
           /\ (pc[r] \in {"layer", "fail"} /\ to # "cancelled") \/ pc[r] = "await"
    BY <1>5 DEF NoNodeReady, FailExecution, FinishRejected, Goto
  <2> QED
    BY <1>4, <2>1 DEF Terminal
<1>6. ASSUME NEW new \in {"running", "waiting_approval"}, NEW to \in {"await", "save"},
             \/ pc[r] = "mark" /\ to = "await" /\ new = "waiting_approval"
             \/ pc[r] = "await" /\ to = "save" /\ new = "running",
             pc' = [pc EXCEPT ![r] = to], transitionIgnored(r, new)
      PROVE  Col!Next
  <2>1. CASE UNCHANGED <<status, mem>>
    BY <1>6, <2>1, PassesUnmarked
  <2>2. CASE /\ Col!Valid(Ended(mem[r]), Ended(new))
             /\ status' = new /\ mem' = [mem EXCEPT ![r] = new]
    <3>1. Ended(new) = new
      BY DEF Ended, Terminal
    <3> QED
      BY <1>6, <2>2, <3>1, WritesOn
  <2>3. CASE transitionUnheard(r, new)
    <3>1. status' = new /\ UNCHANGED mem
      BY <2>3 DEF transitionUnheard
    <3>2. Col!Valid(Ended(mem[r]), new)
      BY <2>3, UnheardShows
    <3> QED
      BY <1>6, <3>1, <3>2, PassesUnmarked
  <2> QED
    BY <1>6, <2>1, <2>2, <2>3, Transits DEF transitionIgnored, transitionLost
<1>7. CASE MarkWaiting(r)
  <2>1. /\ pc[r] = "mark" /\ pc' = [pc EXCEPT ![r] = "await"]
        /\ transitionIgnored(r, "waiting_approval")
    BY <1>7 DEF MarkWaiting, Goto
  <2> QED
    BY <1>6, <2>1
<1>8. CASE ResumeApproved(r)
  <2>1. /\ pc[r] = "await" /\ pc' = [pc EXCEPT ![r] = "save"]
        /\ transitionIgnored(r, "running")
    BY <1>8 DEF ResumeApproved, Goto
  <2> QED
    BY <1>6, <2>1
<1> QED
  BY <1>1, <1>2, <1>3, <1>5, <1>7, <1>8 DEF RunStep, OwnStep, Answer

LEMMA StatusStep == TypeOK /\ Next => Col!Next \/ UNCHANGED Col!vars
<1> SUFFICES ASSUME TypeOK, Next PROVE Col!Next \/ UNCHANGED Col!vars
  OBVIOUS
<1>1. CASE \E r \in Runs : RunStep(r)
  BY <1>1, RunShows
<1>2. ASSUME NEW r \in Runs, Abort(r) PROVE Col!Next
  BY <1>2, GoneQuietly DEF Abort, execution
<1>3. ASSUME NEW r \in Runs, Dispatch(r) PROVE Col!Next
  <2>1. /\ pc[r] = "idle" /\ pc'[r] = "load" /\ UNCHANGED <<status, mem>>
        /\ \A q \in Runs \ {r} : pc'[q] = pc[q] /\ mem'[q] = mem[q]
    BY <1>3 DEF TypeOK, Dispatch, Goto
  <2>2. Shown /\ Shown'
    BY ViewOf, PTL
  <2>3. View[r] = Gone /\ View'[r] = [at |-> "loading", exec |-> "this", mem |-> "none"]
    BY <2>1, <2>2 DEF Shown
  <2>4. View' = [View EXCEPT ![r] = [at |-> "loading", exec |-> "this", mem |-> "none"]]
    BY <2>1, <2>3, ViewOthers
  <2>5. Col!Begin(r, "this")
    BY <2>1, <2>3, <2>4 DEF Col!Begin, Col!Out, Gone, View, Ended
  <2> QED
    BY <2>5 DEF Col!Next
<1>4. ASSUME UNCHANGED <<pc, mem>> PROVE View' = View
  BY <1>4 DEF View, Seen, Place, Ended
<1>5. CASE Cancel
  <2>1. Column["this"] # "done"
    BY <1>5 DEF Cancel, Column, Ended, TypeOK
  <2>2. Column' = [Column EXCEPT !["this"] = "done"]
    BY <1>5 DEF Cancel, Column, Ended, Terminal
  <2>3. Col!Cancel("this")
    BY <1>4, <1>5, <2>1, <2>2 DEF Cancel, Col!Cancel, Column, View
  <2> QED
    BY <2>3 DEF Col!Next
<1>6. CASE Requeue
  <2>1. Column["this"] \in {"queued", "running"}
    BY <1>6 DEF Requeue, Column, Ended, Terminal
  <2>2. Column' = [e \in {"this"} |-> "queued"]
    BY <1>6 DEF Requeue, Column, Ended, Terminal
  <2>3. Col!Requeue({"this"})
    BY <1>4, <1>6, <2>1, <2>2 DEF Requeue, Col!Requeue, Column, View
  <2> QED
    BY <2>3 DEF Col!Next
<1>7. ASSUME NEW r \in Runs, NEW g \in Gates, NEW decision \in {"approved", "rejected"},
             Respond(r, g, decision)
      PROVE  UNCHANGED Col!vars
  BY <1>4, <1>7 DEF Respond, execution, Col!vars, View, Ended
<1> QED
  BY <1>1, <1>2, <1>3, <1>5, <1>6, <1>7 DEF Next, Environment

\* What the scheduler may count on of a run holds for every DAG and every number
\* of runs: the steps, retries, gates and checkpoints in between do not show in
\* the status column, and no run writes what its memory has no transition to.
THEOREM RunRefinement == Spec => KeepsRun
<1>1. Init => Col!Init
  <2> SUFFICES ASSUME Init PROVE Col!Init
    OBVIOUS
  <2>1. Column = [e \in {"this"} |-> "queued"]
    BY DEF Init, Column, Ended, Terminal
  <2>2. View = [r \in Runs |-> Gone]
    BY DEF Init, View, Seen, Gone
  <2> QED
    BY <2>1, <2>2 DEF Col!Init, Col!Out, Column, View, Gone
<1>2. TypeOK /\ [Next]_vars => [Col!Next]_(Col!vars)
  <2>1. CASE UNCHANGED vars
    BY <2>1 DEF vars, execution, Col!vars, Seen, Place, Ended
  <2> QED
    BY <2>1, StatusStep
<1> QED
  BY <1>1, <1>2, TypeCorrect, PTL DEF Spec, KeepsRun, Col!Spec


-----------------------------------------------------------------------------
\* What the places stand for in the order in which a run descends.
Trying == {"attempt", "running", "backoff", "recordok", "recordfail"}

Placed ==
  \A r \in Runs :
     /\ pc[r] = "idle" => Stage(r) = 4
     /\ pc[r] = "load" => Stage(r) = 3
     /\ pc[r] = "enter" => Stage(r) = 2
     /\ pc[r] = "ended" => Stage(r) = 0
     /\ pc[r] \in Inside \cup {"await"} => Stage(r) = 1
     /\ pc[r] = "save" => Rank(r) = 6
     /\ pc[r] = "layer" => Rank(r) = 5
     /\ pc[r] = "pick" => Rank(r) = 4
     /\ pc[r] \in Trying => Rank(r) = 3
     /\ pc[r] \in {"compensate", "mark"} => Rank(r) = 2
     /\ pc[r] \in {"fail", "await"} => Rank(r) = 1

LEMMA StageOf == ASSUME NEW r \in Runs
  PROVE  /\ pc[r] = "idle" => Stage(r) = 4
         /\ pc[r] = "load" => Stage(r) = 3
         /\ pc[r] = "enter" => Stage(r) = 2
         /\ pc[r] = "ended" => Stage(r) = 0
         /\ pc[r] \in Inside \cup {"await"} => Stage(r) = 1
BY DEF Stage, Inside

LEMMA RankOf == ASSUME NEW r \in Runs
  PROVE  /\ pc[r] = "save" => Rank(r) = 6
         /\ pc[r] = "layer" => Rank(r) = 5
         /\ pc[r] = "pick" => Rank(r) = 4
         /\ pc[r] \in Trying => Rank(r) = 3
         /\ pc[r] \in {"compensate", "mark"} => Rank(r) = 2
         /\ pc[r] \in {"fail", "await"} => Rank(r) = 1
BY DEF Rank, Trying

LEMMA PlacedAlways == Placed
BY StageOf, RankOf DEF Placed

\* The attempts left, inside the retry loop.
Counted ==
  \A r \in Runs : pc[r] \in Trying =>
     Tries(r) = 3 * (MaxAttempts[cur[r]] - attempt[r])
                  + (IF pc[r] = "attempt" THEN 2 ELSE IF pc[r] = "running" THEN 1 ELSE 0)

LEMMA CountedAlways == Counted
<1> SUFFICES ASSUME NEW r \in Runs, pc[r] \in Trying
             PROVE  Tries(r) = 3 * (MaxAttempts[cur[r]] - attempt[r])
                      + (IF pc[r] = "attempt" THEN 2 ELSE IF pc[r] = "running" THEN 1 ELSE 0)
  BY DEF Counted
<1>1. Rank(r) = 3
  BY RankOf
<1>2. (CASE pc[r] = "attempt" -> 2 [] pc[r] = "running" -> 1 [] OTHER -> 0)
        = IF pc[r] = "attempt" THEN 2 ELSE IF pc[r] = "running" THEN 1 ELSE 0
  OBVIOUS
<1> QED
  BY <1>1, <1>2 DEF Tries

\* From place to place with the same completed nodes, a run goes down in rank.
LEMMA RankFalls ==
  ASSUME TypeOK, NEW r \in Runs,
         \/ NextLayer(r) \/ \E s \in Steps : InsertStep(r, s) \/ StepNotInserted(r, s)
         \/ RunnerMissing(r) \/ BackoffTimesOut(r) \/ RecordFailure(r)
         \/ runCompensation(r) \/ \E g \in Gates : InsertApproval(r, g)
         \/ MarkWaiting(r) \/ saveCheckpoint(r)
  PROVE  Descends(r)
<1>1. /\ done'[r] = done[r]
      /\ \/ pc[r] = "layer" /\ pc'[r] = "pick"
         \/ pc[r] = "pick" /\ pc'[r] \in {"attempt", "fail", "mark"}
         \/ pc[r] = "attempt" /\ pc'[r] = "fail"
         \/ pc[r] = "backoff" /\ pc'[r] = "fail"
         \/ pc[r] = "recordfail" /\ pc'[r] \in {"compensate", "fail"}
         \/ pc[r] = "compensate" /\ pc'[r] = "fail"
         \/ pc[r] = "mark" /\ pc'[r] = "await"
         \/ pc[r] = "save" /\ pc'[r] \in {"layer", "pick"}
  BY DEF TypeOK, NextLayer, InsertStep, StepNotInserted, RunnerMissing, BackoffTimesOut,
         RecordFailure, runCompensation, InsertApproval, MarkWaiting, saveCheckpoint,
         Goto, locals
<1>2. Placed /\ Placed'
  BY PlacedAlways, PTL
<1>3. Stage(r) = 1 /\ Stage(r)' = 1
  BY <1>1, <1>2 DEF Placed, Inside
<1>4. Rank(r)' < Rank(r)
  BY <1>1, <1>2 DEF Placed, Trying
<1> QED
  BY <1>1, <1>3, <1>4 DEF Descends

\* A node that is completed was not completed before.
LEMMA DoneGrows ==
  ASSUME TypeOK, Layers, GateRows, NEW r \in Runs,
         (\E n \in Nodes : SkipNode(r, n)) \/ RecordSuccess(r) \/ ResumeApproved(r)
  PROVE  Descends(r)
<1>1. /\ pc[r] \in {"pick", "recordok", "await"} /\ pc'[r] = "save"
      /\ \E n \in todo[r] : done'[r] = done[r] \cup {n}
  BY DEF TypeOK, Layers, Layer, SkipNode, RecordSuccess, ResumeApproved, Goto
<1>2. todo[r] \cap done[r] = {}
  BY <1>1 DEF Layers, Layer
<1>3. Placed /\ Placed'
  BY PlacedAlways, PTL
<1>4. Stage(r) = 1 /\ Stage(r)' = 1
  BY <1>1, <1>3 DEF Placed, Inside
<1> QED
  BY <1>1, <1>2, <1>4 DEF Descends

\* Inside the retry loop the attempts run out.
LEMMA TriesFall ==
  ASSUME TypeOK, Claims, NEW r \in Runs,
         RunCommand(r) \/ CommandSucceeds(r) \/ CommandFails(r) \/ BackoffElapses(r)
  PROVE  Descends(r)
<1>1. /\ done'[r] = done[r] /\ cur'[r] = cur[r] /\ attempt[r] \in Nat
      /\ \/ pc[r] = "attempt" /\ pc'[r] = "running" /\ attempt'[r] = attempt[r]
         \/ /\ pc[r] = "running" /\ pc'[r] \in {"recordok", "backoff", "recordfail"}
            /\ attempt'[r] = attempt[r]
         \/ pc[r] = "backoff" /\ pc'[r] = "attempt" /\ attempt'[r] = attempt[r] + 1
  BY DEF TypeOK, RunCommand, CommandSucceeds, CommandFails, BackoffElapses, Goto, locals
<1>2. /\ cur[r] \in Steps /\ attempt[r] \in 1 .. MaxAttempts[cur[r]]
      /\ pc[r] = "backoff" => attempt[r] < MaxAttempts[cur[r]]
  BY <1>1 DEF Claims, Claim
<1>3. MaxAttempts[cur[r]] \in Nat
  BY <1>2, RetryAssumption
<1>4. Placed /\ Placed' /\ Counted /\ Counted'
  BY PlacedAlways, CountedAlways, PTL
<1>5. Stage(r) = 1 /\ Stage(r)' = 1 /\ Rank(r) = 3 /\ Rank(r)' = 3
  BY <1>1, <1>4 DEF Placed, Inside, Trying
<1>6. Tries(r) = 3 * (MaxAttempts[cur[r]] - attempt[r])
                   + (IF pc[r] = "attempt" THEN 2 ELSE IF pc[r] = "running" THEN 1 ELSE 0)
  BY <1>1, <1>4 DEF Counted, Trying
<1>7. Tries(r)' = 3 * (MaxAttempts[cur[r]] - attempt'[r])
                   + (IF pc'[r] = "attempt" THEN 2 ELSE IF pc'[r] = "running" THEN 1 ELSE 0)
  BY <1>1, <1>4 DEF Counted, Trying
<1>8. Tries(r)' \in 0 .. Tries(r) - 1
  <2>1. CASE pc[r] = "attempt"
    BY <1>1, <1>2, <1>3, <1>6, <1>7, <2>1
  <2>2. CASE pc[r] = "running"
    BY <1>1, <1>2, <1>3, <1>6, <1>7, <2>2
  <2>3. CASE pc[r] = "backoff"
    BY <1>1, <1>2, <1>3, <1>6, <1>7, <2>3
  <2> QED
    BY <1>1, <2>1, <2>2, <2>3
<1> QED
  BY <1>1, <1>5, <1>8 DEF Descends

\* The beginning and the end of a run are stages of their own.
LEMMA StageFalls ==
  ASSUME TypeOK, NEW r \in Runs,
         \/ Dispatch(r) \/ loadExecution(r) \/ EnterRunning(r) \/ NoNodeReady(r)
         \/ FinishRejected(r) \/ FailExecution(r) \/ Abort(r)
  PROVE  Descends(r)
<1>1. \/ pc[r] = "idle" /\ pc'[r] = "load"
      \/ pc[r] = "load" /\ pc'[r] = "enter"
      \/ pc[r] = "enter" /\ pc'[r] \in {"layer", "ended"}
      \/ pc[r] \notin {"idle", "ended"} /\ pc'[r] = "ended"
  BY DEF TypeOK, Dispatch, loadExecution, EnterRunning, NoNodeReady, FinishRejected,
         FailExecution, Abort, Goto
<1>2. Placed /\ Placed'
  BY PlacedAlways, PTL
<1>3. pc[r] \in {"idle", "load", "enter", "ended", "await"} \cup Inside
  BY DEF TypeOK, Where, Inside
<1>4. Stage(r)' < Stage(r)
  <2>1. CASE pc'[r] = "ended"
    <3>1. Stage(r)' = 0 /\ Stage(r) \in 1 .. 4
      BY <1>1, <1>2, <1>3, <2>1 DEF Placed
    <3> QED
      BY <3>1
  <2>2. CASE pc'[r] # "ended"
    BY <1>1, <1>2, <2>2 DEF Placed, Inside
  <2> QED
    BY <2>1, <2>2
<1> QED
  BY <1>4 DEF Descends

LEMMA EndsStep == IInv /\ Next =>
  \A r \in Runs : UNCHANGED <<pc[r], done[r], cur[r], attempt[r]>> \/ Descends(r)
<1> SUFFICES ASSUME IInv, Next, NEW r \in Runs
             PROVE  UNCHANGED <<pc[r], done[r], cur[r], attempt[r]>> \/ Descends(r)
  OBVIOUS
<1>1. TypeOK /\ Claims /\ Layers /\ GateRows
  BY DEF IInv, RowInv, CutInv
<1>2. CASE RunStep(r)
  <2>1. CASE loadExecution(r) \/ EnterRunning(r) \/ NoNodeReady(r)
             \/ FinishRejected(r) \/ FailExecution(r)
    BY <1>1, <2>1, StageFalls
  <2>2. CASE \/ NextLayer(r) \/ \E s \in Steps : InsertStep(r, s) \/ StepNotInserted(r, s)
             \/ RunnerMissing(r) \/ BackoffTimesOut(r) \/ RecordFailure(r)
             \/ runCompensation(r) \/ \E g \in Gates : InsertApproval(r, g)
             \/ MarkWaiting(r) \/ saveCheckpoint(r)
    BY <1>1, <2>2, RankFalls
  <2>3. CASE (\E n \in Nodes : SkipNode(r, n)) \/ RecordSuccess(r) \/ ResumeApproved(r)
    BY <1>1, <2>3, DoneGrows
  <2>4. CASE RunCommand(r) \/ CommandSucceeds(r) \/ CommandFails(r) \/ BackoffElapses(r)
    BY <1>1, <2>4, TriesFall
  <2> QED
    BY <1>2, <2>1, <2>2, <2>3, <2>4 DEF RunStep, OwnStep, Answer
<1>3. CASE Dispatch(r) \/ Abort(r)
  BY <1>1, <1>3, StageFalls
<1>4. CASE Environment
  BY <1>4 DEF Environment, Cancel, Requeue, Respond, locals
<1>5. ASSUME NEW q \in Runs, q # r, Dispatch(q) \/ RunStep(q) \/ Abort(q)
      PROVE  UNCHANGED <<pc[r], done[r], cur[r], attempt[r]>>
  <2>1. UNCHANGED <<pc[r], done[r], cur[r]>>
    BY <1>1, <1>5, OthersUnmoved
  <2>2. \/ UNCHANGED attempt
        \/ \E i \in Nat : attempt' = [attempt EXCEPT ![q] = i]
    <3> USE DEF Goto, locals
    <3>0. attempt[q] \in Nat
      BY <1>1 DEF TypeOK
    <3>1. CASE Dispatch(q) \/ Abort(q)
      BY <3>0, <3>1 DEF Dispatch, Abort
    <3>2. CASE RunStep(q)
      <4>1. CASE \/ loadExecution(q) \/ EnterRunning(q) \/ NextLayer(q) \/ NoNodeReady(q)
                 \/ \E n \in Nodes : SkipNode(q, n)
        BY <4>1 DEF loadExecution, EnterRunning, NextLayer, NoNodeReady, SkipNode
      <4>2. CASE \/ \E s \in Steps : InsertStep(q, s) \/ StepNotInserted(q, s)
                 \/ RunnerMissing(q) \/ RunCommand(q) \/ CommandSucceeds(q)
                 \/ CommandFails(q) \/ BackoffElapses(q) \/ BackoffTimesOut(q)
        BY <3>0, <4>2 DEF InsertStep, StepNotInserted, RunnerMissing, RunCommand,
           CommandSucceeds, CommandFails, BackoffElapses, BackoffTimesOut
      <4>3. CASE \/ RecordSuccess(q) \/ RecordFailure(q) \/ runCompensation(q)
                 \/ \E g \in Gates : InsertApproval(q, g)
        BY <4>3 DEF RecordSuccess, RecordFailure, runCompensation, InsertApproval
      <4>4. CASE \/ MarkWaiting(q) \/ ResumeApproved(q) \/ FinishRejected(q)
                 \/ saveCheckpoint(q) \/ FailExecution(q)
        BY <4>4 DEF MarkWaiting, ResumeApproved, FinishRejected, saveCheckpoint, FailExecution
      <4> QED
        BY <3>2, <4>1, <4>2, <4>3, <4>4 DEF RunStep, OwnStep, Answer
    <3> QED
      BY <1>5, <3>1, <3>2
  <2>3. attempt'[r] = attempt[r]
    BY <1>1, <1>5, <2>2 DEF TypeOK
  <2> QED
    BY <2>1, <2>3
<1> QED
  BY <1>2, <1>3, <1>4, <1>5 DEF Next

\* No run goes round in circles, whatever DAG and policy it has and whatever others
\* do to its rows: with finitely many nodes each call of Execute has finitely many
\* steps.
THEOREM RunsEnd == Spec => RunEnds
<1>1. IInv /\ [Next]_vars =>
        [\A r \in Runs : UNCHANGED <<pc[r], done[r], cur[r], attempt[r]>> \/ Descends(r)]_vars
  BY EndsStep
<1> QED
  BY <1>1, Inductive, PTL DEF Spec, RunEnds

=============================================================================
