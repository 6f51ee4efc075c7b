----------------------------- MODULE Scheduler ------------------------------
(***************************************************************************)
(* The nodes that share out executions, as internal/engine/scheduler.go    *)
(* does it: registration and heartbeats in scheduler_nodes, the poll for   *)
(* queued work, the advisory lock and the owner column of tryAcquire-      *)
(* Execution, the takeover from nodes with a late heartbeat, and Stop.     *)
(*                                                                         *)
(* A run (runExecution) is cut down to what the scheduler can see of it:   *)
(* the status it reads and writes.  Executor has the rest.  One action is  *)
(* one SQL statement together with the code up to the next.                *)
(***************************************************************************)
EXTENDS Naturals, FiniteSets

CONSTANTS
  Nodes,      \* the scheduler processes, by node id
  Last,       \* the executions are 1 .. Last, by created_at
  Batch,      \* the LIMIT of pollForWork
  Gated,      \* the executions whose workflow has an approval
  Runs,       \* bound: the calls of runExecution alive at once
  MaxFaults,  \* bound: crashes, stops, late heartbeats and lost statements
  None        \* NULL, no run

Execs == 1 .. Last

ASSUME SchedulerAssumption ==
  /\ Last \in Nat
  /\ Batch \in Nat \ {0}
  /\ Gated \subseteq Execs
  /\ None \notin Nodes \cup Execs \cup Runs
  /\ MaxFaults \in Nat

VARIABLES
  up,         \* the nodes whose process runs
  beat,       \* scheduler_nodes: no row, a fresh heartbeat, or a late one
  hidden,     \* (history) the nodes whose row Stop deleted, or that were alive
              \* at a time between the two statements of a takeover of them
  status,     \* executions.status; "done" is any terminal one
  owner,      \* executions.scheduler_node
  revived,    \* (history) the executions a deposed run wrote a status to after
              \* they were done
  lock,       \* the node one of whose sessions holds the advisory lock
  batch,      \* what pollForWork selected and has not tried yet
  trying,     \* the execution between the lock and the UPDATE of the owner
  run,        \* each call of runExecution; mem is exec.Status as Execute has it,
              \* gate the approvals row it made, deposed (history) that its
              \* execution was taken over
  running,    \* the scheduler's map from execution to the run it can cancel
  suspects,   \* deadNodes of performTakeover
  emptied,    \* the suspect whose executions are requeued, its row still there
  faults

nodes == <<up, beat, hidden, faults>>
executions == <<status, owner, revived>>
polling == <<batch, trying>>
takeover == <<suspects, emptied>>
vars == <<nodes, executions, lock, polling, run, running, takeover>>

Idle == [at |-> "free", node |-> None, exec |-> None, mem |-> "none", gate |-> "none",
         deposed |-> FALSE]

\* Inside Execute.
Executing == {"loading", "entering", "running", "waiting"}

\* And before it: the execution is the node's, its run not yet in the map.
Driving == {"starting"} \cup Executing

Init ==
  /\ up = Nodes
  /\ beat = [n \in Nodes |-> "fresh"]
  /\ hidden = {}
  /\ status = [e \in Execs |-> "queued"]
  /\ owner = [e \in Execs |-> None]
  /\ revived = {}
  /\ lock = [e \in Execs |-> None]
  /\ batch = [n \in Nodes |-> {}]
  /\ trying = [n \in Nodes |-> None]
  /\ run = [r \in Runs |-> Idle]
  /\ running = [n \in Nodes |-> [e \in Execs |-> None]]
  /\ suspects = [n \in Nodes |-> {}]
  /\ emptied = [n \in Nodes |-> None]
  /\ faults = 0

Fault == faults < MaxFaults /\ faults' = faults + 1

-----------------------------------------------------------------------------
(* pollForWork and tryAcquireExecution *)

Available == {e \in Execs : status[e] = "queued" /\ owner[e] = None}

OldestOf(S) == {e \in S : Cardinality({x \in S : x < e}) < Batch}

\* Mutant: the poll forgets "scheduler_node IS NULL".
SelectWorkOwned(n) ==
  /\ n \in up /\ batch[n] = {} /\ trying[n] = None
  /\ batch' = [batch EXCEPT ![n] = OldestOf({e \in Execs : status[e] = "queued"})]
  /\ UNCHANGED <<nodes, executions, lock, trying, run, running, takeover>>

\* The oldest queued executions without an owner, LIMIT of them.
SelectWork(n) ==
  /\ n \in up /\ batch[n] = {} /\ trying[n] = None
  /\ batch' = [batch EXCEPT ![n] = OldestOf(Available)]
  /\ UNCHANGED <<nodes, executions, lock, trying, run, running, takeover>>

(***************************************************************************)
(* pg_try_advisory_lock on whatever connection the pool hands out: a lock  *)
(* of the node's own is taken again on the connection that holds it, and   *)
(* refused on any other.                                                   *)
(***************************************************************************)
TryLock(n) ==
  /\ n \in up /\ trying[n] = None
  /\ \E e \in batch[n] :
       /\ \A x \in batch[n] : e <= x
       /\ batch' = [batch EXCEPT ![n] = @ \ {e}]
       /\ \/ /\ lock[e] \in {None, n}
             /\ lock' = [lock EXCEPT ![e] = n]
             /\ trying' = [trying EXCEPT ![n] = e]
          \/ lock[e] # None /\ UNCHANGED <<lock, trying>>
  /\ UNCHANGED <<nodes, executions, run, running, takeover>>

\* pg_advisory_unlock on whatever connection: it counts down the node's own
\* lock, or warns and leaves it to the session that holds it.
Unlock(n, e) ==
  IF lock[e] = n THEN lock' \in {lock, [lock EXCEPT ![e] = None]}
                 ELSE UNCHANGED lock

\* Mutant: the owner is set without a look at who has it.
SetOwnerAnyway(n) ==
  /\ n \in up /\ trying[n] # None
  /\ \E r \in Runs, e \in {trying[n]} :
       /\ run[r] = Idle
       /\ owner' = [owner EXCEPT ![e] = n]
       /\ run' = [run EXCEPT ![r] = [Idle EXCEPT !.at = "starting", !.node = n, !.exec = e]]
  /\ trying' = [trying EXCEPT ![n] = None]
  /\ UNCHANGED <<nodes, status, revived, lock, batch, running, takeover>>

\* UPDATE ... WHERE scheduler_node IS NULL OR scheduler_node = $1; then a
\* goroutine of its own for the run.
SetOwner(n) ==
  /\ n \in up /\ trying[n] # None
  /\ \E r \in Runs, e \in {trying[n]} :
       /\ owner[e] \in {None, n}
       /\ run[r] = Idle
       /\ owner' = [owner EXCEPT ![e] = n]
       /\ run' = [run EXCEPT ![r] = [Idle EXCEPT !.at = "starting", !.node = n, !.exec = e]]
  /\ trying' = [trying EXCEPT ![n] = None]
  /\ UNCHANGED <<nodes, status, revived, lock, batch, running, takeover>>

\* The UPDATE hit no row, or failed.
GiveUp(n) ==
  /\ n \in up /\ trying[n] # None
  /\ \/ owner[trying[n]] \notin {None, n} /\ UNCHANGED faults
     \/ Fault
  /\ Unlock(n, trying[n])
  /\ trying' = [trying EXCEPT ![n] = None]
  /\ UNCHANGED <<up, beat, hidden, executions, batch, run, running, takeover>>

\* The UPDATE is committed and its answer lost: the node owns what it does not run.
SetOwnerUnheard(n) ==
  /\ n \in up /\ trying[n] # None
  /\ owner[trying[n]] \in {None, n}
  /\ owner' = [owner EXCEPT ![trying[n]] = n]
  /\ Unlock(n, trying[n])
  /\ trying' = [trying EXCEPT ![n] = None]
  /\ Fault
  /\ UNCHANGED <<up, beat, hidden, status, revived, batch, run, running, takeover>>

\* The pool closes a connection at the end of its life and the lock with it.
ExpireConn(e) ==
  /\ lock[e] # None
  /\ lock' = [lock EXCEPT ![e] = None]
  /\ UNCHANGED <<nodes, executions, polling, run, running, takeover>>

-----------------------------------------------------------------------------
(* runExecution *)

\* runExecution overwrites the entry of the map and starts.
Enlist(r) ==
  /\ run[r].at = "starting"
  /\ run' = [run EXCEPT ![r].at = "loading"]
  /\ running' = [running EXCEPT ![run[r].node][run[r].exec] = r]
  /\ UNCHANGED <<nodes, executions, lock, polling, takeover>>

\* The run goes on, remembering mem.
At(r, from, to, mem) ==
  /\ run[r].at = from
  /\ run' = [run EXCEPT ![r].at = to, ![r].mem = mem]
  /\ UNCHANGED <<nodes, owner, lock, polling, takeover>>

\* The UPDATE of transitionExecution, whatever the row says.
Write(r, to) ==
  /\ status' = [status EXCEPT ![run[r].exec] = to]
  /\ revived' = IF run[r].deposed /\ status[run[r].exec] = "done" /\ to # "done"
                THEN revived \cup {run[r].exec} ELSE revived

\* The deferred delete is by key: it takes out whatever run is in the entry.
Forget(r) == running' = [running EXCEPT ![run[r].node][run[r].exec] = None]

\* loadExecution, and ValidateExecutionTransition(status, running).
Load(r) ==
  LET read == status[run[r].exec]
      runnable == read \in {"queued", "waiting_approval"} IN
  /\ At(r, "loading", IF runnable THEN "entering" ELSE "leaving",
        IF runnable THEN read ELSE "none")
  /\ IF runnable THEN UNCHANGED running ELSE Forget(r)
  /\ UNCHANGED <<status, revived>>

Enter(r) ==
  At(r, "entering", "running", "running") /\ Write(r, "running") /\ UNCHANGED running

\* Mutant: the end is recorded whatever the run remembers.
FinishAnyway(r) ==
  At(r, "running", "leaving", "none") /\ Write(r, "done") /\ Forget(r)

\* Succeeded or failed; from waiting_approval neither is a valid transition, and
\* the run ends without writing.
Finish(r) ==
  /\ \/ run[r].mem = "running" /\ Write(r, "done")
     \/ run[r].mem # "running" /\ UNCHANGED <<status, revived>>
  /\ At(r, "running", "leaving", "none")
  /\ Forget(r)

\* A statement of Execute fails and its error is returned.
Fail(r) ==
  /\ run[r].at \in Executing
  /\ run' = [run EXCEPT ![r].at = "leaving", ![r].mem = "none"]
  /\ Forget(r)
  /\ Fault
  /\ UNCHANGED <<up, beat, hidden, executions, lock, polling, takeover>>

\* handleApproval: a row for the run, and the status.  The run waits as well when
\* the UPDATE of the status fails, made or not: the error is dropped, and the run
\* remembers the status it had.
Await(r) ==
  /\ run[r].exec \in Gated
  /\ run[r].at = "running" /\ run[r].gate = "none"
  /\ \/ /\ run[r].mem = "running"
        /\ run' = [run EXCEPT ![r].at = "waiting", ![r].gate = "pending",
                              ![r].mem = "waiting_approval"]
        /\ Write(r, "waiting_approval")
        /\ UNCHANGED faults
     \/ /\ run' = [run EXCEPT ![r].at = "waiting", ![r].gate = "pending"]
        /\ \/ UNCHANGED <<status, revived>>
           \/ run[r].mem = "running" /\ Write(r, "waiting_approval")
        /\ Fault
  /\ UNCHANGED <<up, beat, hidden, owner, lock, polling, running, takeover>>

Resume(r) ==
  /\ run[r].gate = "approved"
  /\ run[r].mem = "waiting_approval"
  /\ At(r, "waiting", "running", "running")
  /\ Write(r, "running")
  /\ UNCHANGED running

\* The same with a run that remembers to wait for approval still, or never did: the
\* transition is not valid, or its UPDATE fails, made or not, and the error is dropped.
ResumeUnmarked(r) ==
  /\ run[r].gate = "approved"
  /\ run[r].at = "waiting"
  /\ run' = [run EXCEPT ![r].at = "running"]
  /\ \/ run[r].mem # "waiting_approval" /\ UNCHANGED <<status, revived, faults>>
     \/ Fault /\ UNCHANGED <<status, revived>>
     \/ Fault /\ run[r].mem = "waiting_approval" /\ Write(r, "running")
  /\ UNCHANGED <<up, beat, hidden, owner, lock, polling, running, takeover>>

Refuse(r) ==
  /\ run[r].gate = "rejected"
  /\ At(r, "waiting", "leaving", "none")
  /\ Write(r, "done")
  /\ Forget(r)

Release(r) ==
  /\ run[r].at = "leaving"
  /\ Unlock(run[r].node, run[r].exec)
  /\ run' = [run EXCEPT ![r] = Idle]
  /\ UNCHANGED <<nodes, executions, polling, running, takeover>>

-----------------------------------------------------------------------------
(* heartbeatLoop and performTakeover *)

\* An UPDATE: it does not bring back a row a takeover deleted.
Heartbeat(n) ==
  /\ n \in up /\ beat[n] = "late"
  /\ beat' = [beat EXCEPT ![n] = "fresh"]
  /\ UNCHANGED <<up, hidden, faults, executions, lock, polling, run, running, takeover>>

\* The threshold passes since the last heartbeat: of a live node by a fault.
Lapse(n) ==
  /\ beat[n] = "fresh"
  /\ IF n \in up THEN Fault ELSE UNCHANGED faults
  /\ beat' = [beat EXCEPT ![n] = "late"]
  /\ UNCHANGED <<up, hidden, executions, lock, polling, run, running, takeover>>

FindDead(n) ==
  /\ n \in up /\ suspects[n] = {} /\ emptied[n] = None
  /\ suspects' = [suspects EXCEPT ![n] = {d \in Nodes \ {n} : beat[d] = "late"}]
  /\ UNCHANGED <<nodes, executions, lock, polling, run, running, emptied>>

\* Mutant: the executions are given back as pending.
RequeuePending(n, d, Lost) ==
  /\ n \in up /\ d \in suspects[n] /\ emptied[n] = None
  /\ owner' = [e \in Execs |-> IF e \in Lost THEN None ELSE owner[e]]
  /\ status' = [e \in Execs |-> IF e \in Lost THEN "pending" ELSE status[e]]
  /\ suspects' = [suspects EXCEPT ![n] = @ \ {d}]
  /\ emptied' = [emptied EXCEPT ![n] = d]
  /\ UNCHANGED <<nodes, revived, lock, polling, run, running>>

\* The executions in Lost lose their owner; the runs of them are not told.
Requeue(n, d, Lost) ==
  /\ n \in up /\ d \in suspects[n] /\ emptied[n] = None
  /\ owner' = [e \in Execs |-> IF e \in Lost THEN None ELSE owner[e]]
  /\ status' = [e \in Execs |-> IF e \in Lost THEN "queued" ELSE status[e]]
  /\ run' = [r \in Runs |-> IF run[r].node = d /\ run[r].exec \in Lost
                            THEN [run[r] EXCEPT !.deposed = TRUE] ELSE run[r]]
  /\ suspects' = [suspects EXCEPT ![n] = @ \ {d}]
  /\ emptied' = [emptied EXCEPT ![n] = d]
  /\ hidden' = hidden \cup (up \cap {d})
  /\ UNCHANGED <<up, beat, faults, revived, lock, polling, running>>

\* Mutant: only running executions are given back.
TakeOverRunning(n, d) ==
  Requeue(n, d, {e \in Execs : owner[e] = d /\ status[e] = "running"})

\* What the suspect owns, running or queued, is nobody's again.
TakeOver(n, d) ==
  Requeue(n, d, {e \in Execs : owner[e] = d /\ status[e] \in {"running", "queued"}})

\* The UPDATE fails: the suspect keeps its executions and its row.
TakeOverFails(n, d) ==
  /\ n \in up /\ d \in suspects[n] /\ emptied[n] = None
  /\ suspects' = [suspects EXCEPT ![n] = @ \ {d}]
  /\ Fault
  /\ UNCHANGED <<up, beat, hidden, executions, lock, polling, run, running, emptied>>

\* The row goes, whatever the node did since the requeue.
DeleteNode(n) ==
  /\ n \in up /\ emptied[n] # None
  /\ beat' = [beat EXCEPT ![emptied[n]] = "none"]
  /\ hidden' = hidden \cup (up \cap {emptied[n]})
  /\ emptied' = [emptied EXCEPT ![n] = None]
  /\ UNCHANGED <<up, faults, executions, lock, polling, run, running, suspects>>

\* The DELETE fails, or was not tried because the UPDATE before it was made and its
\* answer lost: the row is there for another takeover.
KeepNode(n) ==
  /\ n \in up /\ emptied[n] # None
  /\ emptied' = [emptied EXCEPT ![n] = None]
  /\ Fault
  /\ UNCHANGED <<up, beat, hidden, executions, lock, polling, run, running, suspects>>

-----------------------------------------------------------------------------
(* Start, Stop, crashes, and the API *)

\* The process ends: its sessions close, its runs are gone.  The approvals row
\* of a run that waited stays, and can still be answered.
Exit(n) ==
  /\ n \in up
  /\ Fault
  /\ up' = up \ {n}
  /\ lock' = [e \in Execs |-> IF lock[e] = n THEN None ELSE lock[e]]
  /\ batch' = [batch EXCEPT ![n] = {}]
  /\ trying' = [trying EXCEPT ![n] = None]
  /\ run' = [r \in Runs |->
               IF run[r].node # n THEN run[r]
               ELSE IF run[r].at = "waiting" THEN [run[r] EXCEPT !.at = "gone", !.mem = "none"]
               ELSE IF run[r].at = "gone" THEN run[r] ELSE Idle]
  /\ running' = [running EXCEPT ![n] = [e \in Execs |-> None]]
  /\ suspects' = [suspects EXCEPT ![n] = {}]
  /\ emptied' = [emptied EXCEPT ![n] = None]
  /\ UNCHANGED executions

Crash(n) == Exit(n) /\ UNCHANGED <<beat, hidden>>

\* Stop cancels the runs and deletes the node's row, if it can in five seconds;
\* the executions keep their owner.
Stop(n) ==
  /\ Exit(n)
  /\ \/ UNCHANGED <<beat, hidden>>
     \/ beat' = [beat EXCEPT ![n] = "none"] /\ hidden' = hidden \cup {n}

\* registerNode of a new process with the same id.
Start(n) ==
  /\ n \notin up
  /\ up' = up \cup {n}
  /\ beat' = [beat EXCEPT ![n] = "fresh"]
  /\ hidden' = IF \E m \in Nodes : emptied[m] = n THEN hidden \cup {n} ELSE hidden \ {n}
  /\ UNCHANGED <<faults, executions, lock, polling, run, running, takeover>>

\* Approve and Reject: by the row, whatever became of the run.
Respond(r, decision) ==
  /\ run[r].gate = "pending"
  /\ run' = [run EXCEPT ![r].gate = decision]
  /\ UNCHANGED <<nodes, executions, lock, polling, running, takeover>>

Cancel(e) ==
  /\ status[e] # "done"
  /\ status' = [status EXCEPT ![e] = "done"]
  /\ UNCHANGED <<nodes, owner, revived, lock, polling, run, running, takeover>>

Poll(n) == SelectWork(n) \/ TryLock(n) \/ SetOwner(n) \/ SetOwnerUnheard(n) \/ GiveUp(n)

Watch(n) ==
  \/ FindDead(n) \/ DeleteNode(n) \/ KeepNode(n)
  \/ \E d \in Nodes : TakeOver(n, d) \/ TakeOverFails(n, d)

\* What the run does by itself, and where its commands come first.
OwnStep(r) ==
  \/ Enlist(r) \/ Load(r) \/ Enter(r) \/ Release(r)
  \/ Resume(r) \/ ResumeUnmarked(r) \/ Refuse(r)

RunStep(r) == OwnStep(r) \/ Await(r) \/ Finish(r)

Next ==
  \/ \E n \in Nodes : Poll(n) \/ Watch(n) \/ Heartbeat(n) \/ Lapse(n)
                      \/ Crash(n) \/ Stop(n) \/ Start(n)
  \/ \E r \in Runs : RunStep(r) \/ Fail(r)
                     \/ \E d \in {"approved", "rejected"} : Respond(r, d)
  \/ \E e \in Execs : Cancel(e) \/ ExpireConn(e)

Spec == Init /\ [][Next]_vars

\* The tickers of a live node fire, its runs are scheduled and their statements
\* answered (Worker's Ample), a connection has a finite life, and the heartbeat of
\* a dead node becomes late.  Nobody has to come back up, and no run has to come
\* to its end or to a gate: a command may hold it up for ever (local.go:48).
Fairness ==
  /\ \A n \in Nodes : WF_vars(Poll(n)) /\ WF_vars(Watch(n)) /\ WF_vars(Heartbeat(n))
                      /\ WF_vars(n \notin up /\ Lapse(n))
  /\ \A r \in Runs : WF_vars(OwnStep(r))
  /\ \A e \in Execs : WF_vars(ExpireConn(e))

FairSpec == Spec /\ Fairness

-----------------------------------------------------------------------------
(* What must hold *)

TypeOK ==
  /\ up \subseteq Nodes
  /\ beat \in [Nodes -> {"none", "fresh", "late"}]
  /\ hidden \subseteq Nodes
  /\ status \in [Execs -> {"queued", "running", "waiting_approval", "done"}]
  /\ owner \in [Execs -> Nodes \cup {None}]
  /\ revived \subseteq Execs
  /\ lock \in [Execs -> Nodes \cup {None}]
  /\ batch \in [Nodes -> SUBSET Execs]
  /\ trying \in [Nodes -> Execs \cup {None}]
  /\ run \in [Runs -> [at : Driving \cup {"free", "leaving", "gone"},
                       node : Nodes \cup {None}, exec : Execs \cup {None},
                       mem : {"none", "queued", "running", "waiting_approval"},
                       gate : {"none", "pending", "approved", "rejected"},
                       deposed : BOOLEAN]]
  /\ running \in [Nodes -> [Execs -> Runs \cup {None}]]
  /\ suspects \in [Nodes -> SUBSET Nodes]
  /\ emptied \in [Nodes -> Nodes \cup {None}]
  /\ faults \in 0 .. MaxFaults

Drives(r, e) == run[r].at \in Driving /\ run[r].exec = e

\* A run goes on only for the owner of its execution, or after a takeover gave
\* the execution away: the owner column and not the advisory lock, which any
\* connection may drop or leak, is what keeps nodes apart (scheduler.go:342-350).
DriverOwns ==
  \A r \in Runs, e \in Execs :
     Drives(r, e) => run[r].deposed \/ owner[e] = run[r].node

\* Of all the runs of an execution at most one has not been deposed.
SoleDriver ==
  \A r, q \in Runs, e \in Execs :
     Drives(r, e) /\ Drives(q, e) /\ ~run[r].deposed /\ ~run[q].deposed => r = q

\* Stop cancels by the map.  A run that has come to its own insertion is in it as
\* long as no takeover met its node alive: only after one may a run overwrite the
\* entry of another, or take it out at its end, for the entries are by execution.  A
\* run between its node's UPDATE and the insertion Stop does not reach, and
\* no other run's entry is in its way (scheduler.go:79-86, 352-371).
Stoppable ==
  \A r \in Runs, e \in Execs :
     Drives(r, e) /\ run[r].node \notin hidden =>
        running[run[r].node][e] = IF run[r].at = "starting" THEN None ELSE r

\* No process is up, or as many runs are alive as the bound allows.
Unmanned(e) ==
  \/ up = {}
  \/ e \in Available /\ \A r \in Runs : run[r] # Idle

\* A queued execution nobody owns is acquired, although locks are leaked and the
\* oldest executions fill the LIMIT (pollForWork, scheduler.go:223-247).
QueuedPickedUp ==
  \A e \in Execs : e \in Available ~> e \notin Available \/ Unmanned(e)

(***************************************************************************)
(* Something failed, and no poll and no takeover will look at the          *)
(* execution again:                                                        *)
(*   - its owner lives, and runs it no more: a failed statement ended the  *)
(*     run, the process restarted under its id before a takeover, or it    *)
(*     was not told that it is the owner;                                  *)
(*   - its owner is gone without a row: Stop deleted it, or a takeover in  *)
(*     the course of which the node was alive, slow or back again;         *)
(*   - its owner is gone without a row, and a takeover passed it over: it  *)
(*     was done then, and a deposed run wrote its status afterwards;       *)
(*   - it has no owner and is not queued: a deposed run wrote its status.  *)
(***************************************************************************)
Abandoned(e) ==
  /\ faults > 0
  /\ status[e] # "done"
  /\ ~\E r \in Runs : Drives(r, e)
  /\ \/ owner[e] \in up
     \/ /\ owner[e] # None /\ beat[owner[e]] = "none"
        /\ owner[e] \in hidden \/ e \in revived
     \/ owner[e] = None /\ status[e] # "queued"

\* Its owner is dead, and a takeover will find the owner's row.
Reclaimable(e) ==
  /\ owner[e] \in Nodes \ up /\ beat[owner[e]] # "none"
  /\ status[e] \in {"queued", "running"}

\* At no time is an execution without an approval lost in any other way: it is
\* done, driven, offered to every poll or left to a takeover, however many crashes,
\* stops, takeovers and failed statements there were (scheduler.go:87, :148, :270-281).
OnlyAbandoned ==
  \A e \in Execs \ Gated :
     \/ status[e] = "done" \/ \E r \in Runs : Drives(r, e)
     \/ e \in Available \/ Reclaimable(e) \/ Abandoned(e)

\* Among the steps of the execution, where commands may hold a run up, or at a gate
\* nobody answers.
AtWork(r, e) == run[r].at = "running" /\ run[r].exec = e
HeldUp(r, e) ==
  \/ AtWork(r, e)
  \/ run[r].exec = e /\ run[r].at = "waiting" /\ run[r].gate = "pending"

\* The column says that it waits for approval, and no run of it does.
LeftWaiting(e) == status[e] = "waiting_approval" /\ ~\E r \in Runs : Drives(r, e)

\* Those are the only ways to lose an execution, and with an approval that nobody
\* goes on from it: any other is finished, through crashes and takeovers, as
\* long as a process is up, or one run of it stays for ever at a command that does
\* not answer or at a gate (scheduler.go:87, :148, :270-280, executor.go:34,
\* local.go:48).
Drained ==
  \A e \in Execs :
     \/ \E r \in Runs : <>[]HeldUp(r, e)
     \/ status[e] # "done" ~> \/ status[e] = "done" \/ Abandoned(e)
                              \/ LeftWaiting(e) \/ Unmanned(e)

\* "Fire pg_notify to unblock the execution" (handler/approval.go:104): an
\* execution whose gate was approved does not wait for approval for ever: some run
\* of it goes on, or it is not waiting_approval any more.
ApprovedResumes ==
  \A r \in Runs, e \in Execs :
     run[r].gate = "approved" /\ run[r].exec = e ~>
        status[e] # "waiting_approval" \/ \E q \in Runs : AtWork(q, e)

\* The runs of the execution that no takeover deposed, with their nodes.
Workers == [e \in Execs |->
  {<<run[r].node, r>> : r \in {q \in Runs : Drives(q, e) /\ ~run[q].deposed}}]

Own == INSTANCE Ownership WITH Works <- Runs, holder <- owner, workers <- Workers

\* The polls, locks, takeovers and crashes of the nodes implement Ownership: an
\* execution is granted when it is free, worked on once per grant, and taken
\* away together with the work on it (scheduler.go:270-276, 331-366).
Leased == Own!Spec

\* What a run is to RunStatus: where it is, for which execution, what it remembers.
Seen(r) ==
  IF run[r].at \in Driving
  THEN [at |-> IF run[r].at = "starting" THEN "loading" ELSE run[r].at,
        exec |-> run[r].exec, mem |-> run[r].mem]
  ELSE [at |-> "out", exec |-> "none", mem |-> "none"]

Col == INSTANCE RunStatus WITH run <- [r \in Runs |-> Seen(r)]

\* The runs cut down to their status are still the runs of Execute: what they
\* write goes by what they read when they loaded the execution, whoever wrote the
\* column since (executor.go:32-62, 361-388, scheduler.go:270-276).
KeepsRun == Col!Spec

-----------------------------------------------------------------------------
(* The inductive invariant of SchedulerProofs, in parts *)

\* Every run that is not free is a run of some execution on some node.
Placed == \A r \in Runs : run[r].at # "free" => run[r].node \in Nodes /\ run[r].exec \in Execs

\* A node is never about to acquire what it owns: what the poll holds was
\* selected without an owner, and only this poll makes the node one.
Unowned ==
  \A n \in Nodes :
     /\ \A e \in batch[n] : owner[e] # n
     /\ trying[n] # None => owner[trying[n]] # n
     /\ trying[n] \notin batch[n]

\* What a run that has loaded the execution remembers fits its place.
Remembers ==
  \A r \in Runs :
     /\ run[r].at \in {"starting", "loading"} => run[r].mem = "none"
     /\ run[r].at = "entering" => run[r].mem \in {"queued", "waiting_approval"}
     /\ run[r].at \in {"running", "waiting"} => run[r].mem \in {"running", "waiting_approval"}

IInv == TypeOK /\ Placed /\ Unowned /\ Remembers /\ DriverOwns /\ SoleDriver

\* Runs are of live processes.
DriversUp == \A r \in Runs : run[r].at \in Driving => run[r].node \in up

\* An execution without an approval never waits for one.
Ungated == \A e \in Execs \ Gated : status[e] # "waiting_approval"

\* A takeover of d has come so far that d's row is about to go, or is gone.
GivenUp(d) == beat[d] = "none" \/ \E n \in Nodes : emptied[n] = d

\* Then d was seen alive meanwhile, or owns nothing that is still to be done but
\* what was done at the time and is not any more.
Emptied ==
  \A d \in Nodes : GivenUp(d) /\ d \notin hidden =>
     /\ d \notin up
     /\ \A e \in Execs \ Gated : owner[e] = d => status[e] = "done" \/ e \in revived

LossInv == DriversUp /\ Ungated /\ Emptied

\* A run that a takeover deposed goes on only on a node that was alive meanwhile.
DeposedMet == \A r \in Runs : run[r].at \in Driving /\ run[r].deposed => run[r].node \in hidden

\* The map holds runs inside Execute, each under its node and execution.
Listed ==
  \A n \in Nodes, e \in Execs : LET r == running[n][e] IN
     r # None => run[r].at \in Executing /\ run[r].node = n /\ run[r].exec = e

\* And every one of a node no takeover met.
Enlisted ==
  \A r \in Runs : run[r].at \in Executing /\ run[r].node \notin hidden =>
                   running[run[r].node][run[r].exec] = r

MapInv == DeposedMet /\ Listed /\ Enlisted

\* Before the first fault nobody is suspected, and a run remembers what it wrote.
Trusted ==
  /\ up = Nodes
  /\ \A n \in Nodes : beat[n] = "fresh" /\ suspects[n] = {} /\ emptied[n] = None
  /\ \A r \in Runs :
       /\ ~run[r].deposed
       /\ run[r].at \in {"starting", "loading"} => status[run[r].exec] \in {"queued", "done"}
       /\ run[r].at = "running" => run[r].mem = "running"
       /\ run[r].at = "waiting" => run[r].mem = "waiting_approval"

\* Then an execution somebody owns is done or driven, with an approval or without.
Kept ==
  \A e \in Execs : IF owner[e] = None THEN status[e] \in {"queued", "done"}
                   ELSE status[e] = "done" \/ \E r \in Runs : Drives(r, e)

Calm == faults = 0 => Trusted /\ Kept
=============================================================================
