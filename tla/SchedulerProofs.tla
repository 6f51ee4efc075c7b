-------------------------- MODULE SchedulerProofs ---------------------------
(***************************************************************************)
(* Proofs that the owner column keeps the runs of an execution apart, for  *)
(* every set of nodes, executions and runs, whatever becomes of the        *)
(* advisory locks and however often executions are taken over.             *)
(***************************************************************************)
EXTENDS Scheduler, TLAPS

\* The type of a run.
RunRecord == [at : Driving \cup {"free", "leaving", "gone"},
              node : Nodes \cup {None}, exec : Execs \cup {None},
              mem : {"none", "queued", "running", "waiting_approval"},
              gate : {"none", "pending", "approved", "rejected"},
              deposed : BOOLEAN]

\* Where a run can be.
Points == Driving \cup {"free", "leaving", "gone"}

\* What it can remember.
Memories == {"none", "queued", "running", "waiting_approval"}

\* The unlock leaves the lock with a node or with nobody.
LEMMA UnlockTyped ==
  ASSUME TypeOK, NEW n, NEW e, Unlock(n, e)
  PROVE  lock' \in [Execs -> Nodes \cup {None}]
<1>1. CASE lock[e] = n
  BY <1>1 DEF TypeOK, Unlock
<1>2. CASE lock[e] # n
  BY <1>2 DEF TypeOK, Unlock
<1> QED
  BY <1>1, <1>2

\* A run that moves keeps its node, its execution, its gate and whether it was
\* deposed.
LEMMA MoveTyped ==
  ASSUME TypeOK, NEW r \in Runs, NEW to \in Points, NEW mem \in Memories,
         run' = [run EXCEPT ![r].at = to, ![r].mem = mem]
  PROVE  run' \in [Runs -> RunRecord]
<1>1. run \in [Runs -> RunRecord]
  BY DEF TypeOK, RunRecord
<1>2. [run[r] EXCEPT !.at = to, !.mem = mem] \in RunRecord
  BY <1>1 DEF RunRecord, Points, Memories
<1> QED
  BY <1>1, <1>2

\* So does a run whose gate changes too.
LEMMA GateTyped ==
  ASSUME TypeOK, NEW r \in Runs, NEW to \in Points, NEW mem \in Memories,
         NEW g \in {"none", "pending", "approved", "rejected"},
         run' = [run EXCEPT ![r].at = to, ![r].gate = g, ![r].mem = mem]
  PROVE  run' \in [Runs -> RunRecord]
<1>1. run \in [Runs -> RunRecord]
  BY DEF TypeOK, RunRecord
<1>2. [run[r] EXCEPT !.at = to, !.gate = g, !.mem = mem] \in RunRecord
  BY <1>1 DEF RunRecord, Points, Memories
<1> QED
  BY <1>1, <1>2

\* The map keeps its type when an entry is taken out.
LEMMA ForgetTyped ==
  ASSUME TypeOK, Placed, NEW r \in Runs, run[r].at # "free", Forget(r)
  PROVE  running' \in [Nodes -> [Execs -> Runs \cup {None}]]
BY DEF TypeOK, Placed, Forget

\* So do the statuses, and what was revived, when a run writes one.
LEMMA WriteTyped ==
  ASSUME TypeOK, Placed, NEW r \in Runs, run[r].at # "free",
         NEW to \in {"queued", "running", "waiting_approval", "done"}, Write(r, to)
  PROVE  /\ status' \in [Execs -> {"queued", "running", "waiting_approval", "done"}]
         /\ revived' \subseteq Execs
BY DEF TypeOK, Placed, Write

\* Every action of a node keeps the types.
LEMMA NodeTyped ==
  ASSUME TypeOK, Placed, NEW n \in Nodes,
         Poll(n) \/ Watch(n) \/ Heartbeat(n) \/ Lapse(n) \/ Crash(n) \/ Stop(n) \/ Start(n)
  PROVE  TypeOK'
<1> USE SchedulerAssumption
<1>1. CASE SelectWork(n)
  BY <1>1 DEF TypeOK, SelectWork, OldestOf, Available, nodes, executions, takeover
<1>2. CASE TryLock(n)
  <2>1. PICK e \in batch[n] :
               /\ batch' = [batch EXCEPT ![n] = @ \ {e}]
               /\ lock' = lock \/ lock' = [lock EXCEPT ![e] = n]
               /\ trying' = trying \/ trying' = [trying EXCEPT ![n] = e]
    BY <1>2 DEF TryLock
  <2>2. e \in Execs
    BY <2>1 DEF TypeOK
  <2>3. batch' \in [Nodes -> SUBSET Execs]
    BY <2>1 DEF TypeOK
  <2>4. lock' \in [Execs -> Nodes \cup {None}]
    BY <2>1, <2>2 DEF TypeOK
  <2>5. trying' \in [Nodes -> Execs \cup {None}]
    BY <2>1, <2>2 DEF TypeOK
  <2> QED
    BY <1>2, <2>3, <2>4, <2>5 DEF TypeOK, TryLock, nodes, executions, takeover
<1>3. CASE SetOwner(n)
  <2>1. PICK r \in Runs : /\ owner' = [owner EXCEPT ![trying[n]] = n]
                          /\ run' = [run EXCEPT ![r] = [Idle EXCEPT
                                !.at = "starting", !.node = n, !.exec = trying[n]]]
    BY <1>3 DEF SetOwner
  <2>2. trying[n] \in Execs
    BY <1>3 DEF SetOwner, TypeOK
  <2>3. [Idle EXCEPT !.at = "starting", !.node = n, !.exec = trying[n]] \in RunRecord
    BY <2>2 DEF Idle, RunRecord, Driving, Executing
  <2>4. run' \in [Runs -> RunRecord]
    BY <2>1, <2>3 DEF TypeOK, RunRecord
  <2>5. owner' \in [Execs -> Nodes \cup {None}]
    BY <2>1, <2>2 DEF TypeOK
  <2> QED
    BY <1>3, <2>4, <2>5 DEF TypeOK, SetOwner, RunRecord, nodes, takeover
<1>13. CASE SetOwnerUnheard(n)
  <2>1. lock' \in [Execs -> Nodes \cup {None}]
    BY <1>13, UnlockTyped DEF SetOwnerUnheard
  <2>2. faults' \in 0 .. MaxFaults
    BY <1>13 DEF SetOwnerUnheard, Fault, TypeOK
  <2>3. owner' \in [Execs -> Nodes \cup {None}]
    BY <1>13 DEF SetOwnerUnheard, TypeOK
  <2> QED
    BY <1>13, <2>1, <2>2, <2>3 DEF TypeOK, SetOwnerUnheard, takeover
<1>14. CASE KeepNode(n)
  BY <1>14 DEF TypeOK, KeepNode, Fault, executions, polling
<1>4. CASE GiveUp(n)
  <2>1. lock' \in [Execs -> Nodes \cup {None}]
    BY <1>4, UnlockTyped DEF GiveUp
  <2>2. faults' \in 0 .. MaxFaults
    BY <1>4 DEF GiveUp, Fault, TypeOK
  <2> QED
    BY <1>4, <2>1, <2>2 DEF TypeOK, GiveUp, executions, takeover
<1>5. CASE FindDead(n)
  BY <1>5 DEF TypeOK, FindDead, nodes, executions, polling
<1>6. CASE DeleteNode(n)
  BY <1>6 DEF TypeOK, DeleteNode, executions, polling
<1>7. ASSUME NEW d \in Nodes, TakeOver(n, d) PROVE TypeOK'
  <2>1. PICK Lost \in SUBSET Execs : Requeue(n, d, Lost)
    BY <1>7 DEF TakeOver
  <2>2. run' \in [Runs -> RunRecord]
    <3> SUFFICES ASSUME NEW r \in Runs PROVE run'[r] \in RunRecord
      BY <2>1 DEF Requeue
    <3>1. run[r] \in RunRecord
      BY DEF TypeOK, RunRecord
    <3> QED
      BY <2>1, <3>1 DEF Requeue, RunRecord
  <2> QED
    BY <2>1, <2>2 DEF TypeOK, Requeue, RunRecord, nodes, polling
<1>8. ASSUME NEW d \in Nodes, TakeOverFails(n, d) PROVE TypeOK'
  BY <1>8 DEF TypeOK, TakeOverFails, Fault, executions, polling
<1>9. CASE Heartbeat(n)
  BY <1>9 DEF TypeOK, Heartbeat, executions, polling, takeover
<1>12. CASE Lapse(n)
  <2>1. faults' \in 0 .. MaxFaults
    BY <1>12 DEF TypeOK, Lapse, Fault
  <2> QED
    BY <1>12, <2>1 DEF TypeOK, Lapse, executions, polling, takeover
<1>10. CASE Crash(n) \/ Stop(n)
  <2>1. /\ Exit(n)
        /\ beat' = beat \/ beat' = [beat EXCEPT ![n] = "none"]
        /\ hidden' = hidden \/ hidden' = hidden \cup {n}
    BY <1>10 DEF Crash, Stop
  <2>2. run' \in [Runs -> RunRecord]
    <3> SUFFICES ASSUME NEW r \in Runs PROVE run'[r] \in RunRecord
      BY <2>1 DEF Exit
    <3>1. run[r] \in RunRecord
      BY DEF TypeOK, RunRecord
    <3> QED
      BY <2>1, <3>1 DEF Exit, RunRecord, Idle
  <2>3. beat' \in [Nodes -> {"none", "fresh", "late"}] /\ hidden' \subseteq Nodes
    BY <2>1 DEF TypeOK
  <2>4. /\ lock' \in [Execs -> Nodes \cup {None}]
        /\ batch' \in [Nodes -> SUBSET Execs]
        /\ trying' \in [Nodes -> Execs \cup {None}]
    BY <2>1 DEF TypeOK, Exit
  <2>5. /\ running' \in [Nodes -> [Execs -> Runs \cup {None}]]
        /\ suspects' \in [Nodes -> SUBSET Nodes]
        /\ emptied' \in [Nodes -> Nodes \cup {None}]
    BY <2>1 DEF TypeOK, Exit
  <2>7. up' \subseteq Nodes /\ UNCHANGED executions
    BY <2>1 DEF TypeOK, Exit
  <2>8. Fault
    BY <2>1 DEF Exit
  <2>6. faults' \in 0 .. MaxFaults
    BY <2>8 DEF TypeOK, Fault
  <2> QED
    BY <2>2, <2>3, <2>4, <2>5, <2>6, <2>7 DEF TypeOK, RunRecord, executions
<1>11. CASE Start(n)
  BY <1>11 DEF TypeOK, Start, executions, polling, takeover
<1> QED
  BY <1>1, <1>2, <1>3, <1>4, <1>5, <1>6, <1>7, <1>8, <1>9, <1>10, <1>11,
     <1>12, <1>13, <1>14 DEF Poll, Watch, Crash, Stop

\* Every action of a run or of the API keeps the types.
LEMMA RunTyped ==
  ASSUME TypeOK, Placed, NEW r \in Runs,
         RunStep(r) \/ Fail(r) \/ \E d \in {"approved", "rejected"} : Respond(r, d)
  PROVE  TypeOK'
<1> USE SchedulerAssumption
<1>10. CASE Enlist(r)
  <2>1. run[r] \in RunRecord /\ run \in [Runs -> RunRecord]
    BY DEF TypeOK, RunRecord
  <2>2. [run[r] EXCEPT !.at = "loading"] \in RunRecord
    BY <2>1 DEF RunRecord, Driving, Executing
  <2>3. run' \in [Runs -> RunRecord]
    BY <1>10, <2>1, <2>2 DEF Enlist
  <2>4. run[r].node \in Nodes /\ run[r].exec \in Execs
    BY <1>10 DEF Enlist, Placed
  <2>5. running' \in [Nodes -> [Execs -> Runs \cup {None}]]
    BY <1>10, <2>4 DEF Enlist, TypeOK
  <2> QED
    BY <1>10, <2>3, <2>5 DEF TypeOK, Enlist, RunRecord, nodes, executions, polling, takeover
<1>1. CASE Load(r)
  <2>1. run[r].exec \in Execs
    BY <1>1 DEF Load, At, Placed
  <2>2. run' \in [Runs -> RunRecord]
    BY <1>1, <2>1, MoveTyped DEF Load, At, Points, Driving, Executing, Memories
  <2>3. running' \in [Nodes -> [Execs -> Runs \cup {None}]]
    BY <1>1, ForgetTyped DEF Load, At, TypeOK
  <2> QED
    BY <1>1, <2>2, <2>3 DEF TypeOK, Load, At, RunRecord, nodes, polling, takeover
<1>2. CASE Enter(r)
  <2>1. run' \in [Runs -> RunRecord]
    BY <1>2, MoveTyped DEF Enter, At, Points, Driving, Executing, Memories
  <2>2. /\ status' \in [Execs -> {"queued", "running", "waiting_approval", "done"}]
        /\ revived' \subseteq Execs
    BY <1>2, WriteTyped DEF Enter, At
  <2> QED
    BY <1>2, <2>1, <2>2 DEF TypeOK, Enter, At, RunRecord, nodes, polling, takeover
<1>3. CASE Finish(r) \/ Refuse(r)
  <2>1. run' \in [Runs -> RunRecord]
    BY <1>3, MoveTyped DEF Finish, Refuse, At, Points, Memories
  <2>2. /\ status' \in [Execs -> {"queued", "running", "waiting_approval", "done"}]
        /\ revived' \subseteq Execs
    BY <1>3, WriteTyped DEF Finish, Refuse, At, TypeOK
  <2>3. running' \in [Nodes -> [Execs -> Runs \cup {None}]]
    BY <1>3, ForgetTyped DEF Finish, Refuse, At
  <2> QED
    BY <1>3, <2>1, <2>2, <2>3
       DEF TypeOK, Finish, Refuse, At, RunRecord, nodes, polling, takeover
<1>4. CASE Await(r)
  <2>1. run[r] \in RunRecord /\ run \in [Runs -> RunRecord]
    BY DEF TypeOK, RunRecord
  <2>2. run' \in [Runs -> RunRecord]
    <3>1. [run[r] EXCEPT !.at = "waiting", !.gate = "pending"] \in RunRecord
      BY <2>1 DEF RunRecord, Driving, Executing
    <3>2. CASE run' = [run EXCEPT ![r].at = "waiting", ![r].gate = "pending"]
      BY <2>1, <3>1, <3>2
    <3>3. CASE run' = [run EXCEPT ![r].at = "waiting", ![r].gate = "pending",
                                  ![r].mem = "waiting_approval"]
      BY <3>3, GateTyped DEF Points, Driving, Executing, Memories
    <3> QED
      BY <1>4, <3>2, <3>3 DEF Await
  <2>3. /\ status' \in [Execs -> {"queued", "running", "waiting_approval", "done"}]
        /\ revived' \subseteq Execs
    BY <1>4, WriteTyped DEF Await, TypeOK
  <2>4. faults' \in 0 .. MaxFaults
    BY <1>4 DEF Await, Fault, TypeOK
  <2> QED
    BY <1>4, <2>2, <2>3, <2>4 DEF TypeOK, Await, RunRecord, polling, takeover
<1>5. CASE Resume(r)
  <2>1. run' \in [Runs -> RunRecord]
    BY <1>5, MoveTyped DEF Resume, At, Points, Driving, Executing, Memories
  <2>2. /\ status' \in [Execs -> {"queued", "running", "waiting_approval", "done"}]
        /\ revived' \subseteq Execs
    BY <1>5, WriteTyped DEF Resume, At
  <2> QED
    BY <1>5, <2>1, <2>2 DEF TypeOK, Resume, At, RunRecord, nodes, polling, takeover
<1>9. CASE ResumeUnmarked(r)
  <2>1. run[r] \in RunRecord /\ run \in [Runs -> RunRecord]
    BY DEF TypeOK, RunRecord
  <2>2. [run[r] EXCEPT !.at = "running"] \in RunRecord
    BY <2>1 DEF RunRecord, Driving, Executing
  <2>3. run' \in [Runs -> RunRecord]
    BY <1>9, <2>1, <2>2 DEF ResumeUnmarked
  <2>4. faults' \in 0 .. MaxFaults
    BY <1>9 DEF ResumeUnmarked, Fault, TypeOK
  <2>5. /\ status' \in [Execs -> {"queued", "running", "waiting_approval", "done"}]
        /\ revived' \subseteq Execs
    BY <1>9, WriteTyped DEF ResumeUnmarked, TypeOK
  <2> QED
    BY <1>9, <2>3, <2>4, <2>5 DEF TypeOK, ResumeUnmarked, RunRecord, polling, takeover
<1>6. CASE Release(r)
  <2>1. Idle \in RunRecord
    BY DEF Idle, RunRecord
  <2>2. run' \in [Runs -> RunRecord]
    BY <1>6, <2>1 DEF TypeOK, Release, RunRecord
  <2>3. lock' \in [Execs -> Nodes \cup {None}]
    BY <1>6, UnlockTyped DEF Release
  <2> QED
    BY <1>6, <2>2, <2>3 DEF TypeOK, Release, RunRecord, nodes, executions, polling, takeover
<1>7. CASE Fail(r)
  <2>1. run' \in [Runs -> RunRecord]
    BY <1>7, MoveTyped DEF Fail, Points, Memories
  <2>2. running' \in [Nodes -> [Execs -> Runs \cup {None}]]
    BY <1>7, ForgetTyped DEF Fail, Driving, Executing
  <2> QED
    BY <1>7, <2>1, <2>2 DEF TypeOK, Fail, Fault, RunRecord, executions, polling, takeover
<1>8. ASSUME NEW d \in {"approved", "rejected"}, Respond(r, d) PROVE TypeOK'
  <2>1. run[r] \in RunRecord
    BY DEF TypeOK, RunRecord
  <2>3. [run[r] EXCEPT !.gate = d] \in RunRecord
    BY <2>1 DEF RunRecord
  <2>2. run' \in [Runs -> RunRecord]
    BY <1>8, <2>3 DEF TypeOK, Respond, RunRecord
  <2> QED
    BY <1>8, <2>2 DEF TypeOK, Respond, RunRecord, nodes, executions, polling, takeover
<1> QED
  BY <1>1, <1>2, <1>3, <1>4, <1>5, <1>6, <1>7, <1>8, <1>9, <1>10 DEF RunStep, OwnStep

\* Next keeps the types.
LEMMA TypeStep == TypeOK /\ Placed /\ [Next]_vars => TypeOK'
<1> SUFFICES ASSUME TypeOK, Placed, [Next]_vars PROVE TypeOK'
  OBVIOUS
<1>1. CASE UNCHANGED vars
  BY <1>1 DEF vars, nodes, executions, polling, takeover, TypeOK
<1>2. ASSUME NEW e \in Execs, Cancel(e) \/ ExpireConn(e) PROVE TypeOK'
  BY <1>2 DEF TypeOK, Cancel, ExpireConn, nodes, executions, polling, takeover
<1> QED
  BY <1>1, <1>2, NodeTyped, RunTyped DEF Next

-----------------------------------------------------------------------------
\* No run starts to drive, and those that go on keep what they are.
Steady ==
  \A r \in Runs :
     run'[r].at \in Driving =>
        /\ run[r].at \in Driving
        /\ run'[r].node = run[r].node /\ run'[r].exec = run[r].exec
        /\ run'[r].deposed = run[r].deposed

\* Where no run starts and no owner changes, the runs stay apart.
LEMMA SteadyApart ==
  ASSUME DriverOwns, SoleDriver, Steady, UNCHANGED owner
  PROVE  DriverOwns' /\ SoleDriver'
BY DEF DriverOwns, SoleDriver, Steady, Drives

\* A run that moves changes nothing else of itself, and no other run.
LEMMA AtMoves ==
  ASSUME TypeOK, NEW r \in Runs, NEW from, NEW to, NEW mem, At(r, from, to, mem), NEW q \in Runs
  PROVE  /\ UNCHANGED owner
         /\ run'[q].node = run[q].node /\ run'[q].exec = run[q].exec
         /\ run'[q].deposed = run[q].deposed
         /\ q = r => run[q].at = from /\ run'[q].at = to
         /\ q # r => run'[q].at = run[q].at
<1>1. run[r] \in RunRecord
  BY DEF TypeOK, RunRecord
<1> QED
  BY <1>1 DEF At, TypeOK, RunRecord

\* Nor does a run that comes to its gate.
LEMMA AwaitMoves ==
  ASSUME TypeOK, NEW r \in Runs, Await(r), NEW q \in Runs
  PROVE  /\ run'[q].node = run[q].node /\ run'[q].exec = run[q].exec
         /\ run'[q].deposed = run[q].deposed
         /\ q = r => run[q].at = "running" /\ run'[q].at = "waiting"
         /\ q # r => run'[q] = run[q]
<1>1. run \in [Runs -> RunRecord] /\ run[r] \in RunRecord
  BY DEF TypeOK, RunRecord
<1>2. CASE run' = [run EXCEPT ![r].at = "waiting", ![r].gate = "pending"]
  BY <1>1, <1>2 DEF Await, RunRecord
<1>3. CASE run' = [run EXCEPT ![r].at = "waiting", ![r].gate = "pending",
                              ![r].mem = "waiting_approval"]
  BY <1>1, <1>3 DEF Await, RunRecord
<1> QED
  BY <1>2, <1>3 DEF Await

\* A step of a run or an answer to its gate is steady.
LEMMA RunSteady ==
  ASSUME TypeOK, NEW r \in Runs,
         RunStep(r) \/ Fail(r) \/ \E d \in {"approved", "rejected"} : Respond(r, d)
  PROVE  Steady /\ UNCHANGED owner
<1>1. CASE Load(r)
  BY <1>1, AtMoves DEF Load, Steady, Driving, Executing
<1>2. CASE Enter(r) \/ Finish(r)
  BY <1>2, AtMoves DEF Enter, Finish, Steady, Driving, Executing
<1>3. CASE Resume(r) \/ Refuse(r)
  BY <1>3, AtMoves DEF Resume, Refuse, Steady, Driving, Executing
<1>4. CASE Await(r)
  BY <1>4, AwaitMoves DEF Await, Steady, Driving, Executing
<1>5. CASE Release(r)
  BY <1>5 DEF TypeOK, Release, Steady, Driving, Executing, Idle, executions
<1>6. CASE Fail(r)
  BY <1>6 DEF TypeOK, Fail, Steady, Driving, Executing, executions
<1>7. ASSUME NEW d \in {"approved", "rejected"}, Respond(r, d) PROVE Steady /\ UNCHANGED owner
  BY <1>7 DEF TypeOK, Respond, Steady, executions
<1>8. CASE ResumeUnmarked(r)
  BY <1>8 DEF TypeOK, ResumeUnmarked, Steady, Driving, Executing, executions
<1>9. CASE Enlist(r)
  BY <1>9 DEF TypeOK, Enlist, Steady, Driving, Executing, executions
<1> QED
  BY <1>1, <1>2, <1>3, <1>4, <1>5, <1>6, <1>7, <1>8, <1>9 DEF RunStep, OwnStep

\* So is every action of a node but taking an execution and taking over.
LEMMA NodeSteady ==
  ASSUME TypeOK, NEW n \in Nodes,
         \/ SelectWork(n) \/ TryLock(n) \/ GiveUp(n) \/ FindDead(n) \/ DeleteNode(n) \/ KeepNode(n)
         \/ Heartbeat(n) \/ Lapse(n) \/ Exit(n) \/ Start(n)
         \/ \E d \in Nodes : TakeOverFails(n, d)
  PROVE  Steady /\ UNCHANGED owner
<1>1. CASE Exit(n)
  <2>1. Steady
    <3> SUFFICES ASSUME NEW r \in Runs, run'[r].at \in Driving
                 PROVE  run'[r] = run[r]
      BY DEF Steady
    <3>1. run[r] \in RunRecord
      BY DEF TypeOK, RunRecord
    <3>2. run[r].node = n => run'[r].at \notin Driving
      BY <1>1, <3>1 DEF Exit, RunRecord, Driving, Executing, Idle
    <3> QED
      BY <1>1, <3>2 DEF Exit
  <2> QED
    BY <1>1, <2>1 DEF Exit, executions
<1>2. CASE ~Exit(n)
  BY <1>2 DEF SelectWork, TryLock, GiveUp, FindDead, DeleteNode, KeepNode, Heartbeat, Lapse,
              Start,
              TakeOverFails, Steady, executions
<1> QED
  BY <1>1, <1>2

\* An acquired execution has no run that was not deposed: its owner would be a
\* node, and no node that acquires sees its own name in the column.
LEMMA SetOwnerApart ==
  ASSUME IInv, NEW n \in Nodes, SetOwner(n)
  PROVE  DriverOwns' /\ SoleDriver'
<1>1. PICK r \in Runs : /\ owner[trying[n]] \in {None, n}
                        /\ owner' = [owner EXCEPT ![trying[n]] = n]
                        /\ run' = [run EXCEPT ![r] = [Idle EXCEPT
                              !.at = "starting", !.node = n, !.exec = trying[n]]]
                        /\ run[r] = Idle
  BY DEF SetOwner
<1>2. trying[n] \in Execs /\ owner[trying[n]] = None
  BY <1>1 DEF SetOwner, IInv, TypeOK, Unowned
<1>3. \A q \in Runs : Drives(q, trying[n]) => run[q].deposed
  BY <1>2, SchedulerAssumption DEF IInv, DriverOwns, Placed, Drives, Driving, Executing
<1>4. run'[r] = [at |-> "starting", node |-> n, exec |-> trying[n],
                 mem |-> "none", gate |-> "none", deposed |-> FALSE]
  BY <1>1 DEF IInv, TypeOK, Idle
<1>5. \A q \in Runs \ {r} : run'[q] = run[q]
  BY <1>1 DEF IInv, TypeOK
<1>6. /\ owner'[trying[n]] = n
      /\ \A e \in Execs \ {trying[n]} : owner'[e] = owner[e]
  BY <1>1, <1>2 DEF IInv, TypeOK
<1>7. DriverOwns'
  BY <1>3, <1>4, <1>5, <1>6 DEF IInv, DriverOwns, Drives
<1>8. SoleDriver'
  BY <1>3, <1>4, <1>5 DEF IInv, SoleDriver, Drives
<1> QED
  BY <1>7, <1>8

\* So it is with an execution acquired by a node that does not learn of it.
LEMMA UnheardApart ==
  ASSUME IInv, NEW n \in Nodes, SetOwnerUnheard(n)
  PROVE  DriverOwns' /\ SoleDriver'
<1>1. trying[n] \in Execs /\ owner[trying[n]] = None
  BY DEF SetOwnerUnheard, IInv, TypeOK, Unowned
<1>2. \A q \in Runs : Drives(q, trying[n]) => run[q].deposed
  BY <1>1, SchedulerAssumption DEF IInv, DriverOwns, Placed, Drives, Driving, Executing
<1>3. UNCHANGED run /\ \A e \in Execs \ {trying[n]} : owner'[e] = owner[e]
  BY <1>1 DEF SetOwnerUnheard, IInv, TypeOK
<1> QED
  BY <1>2, <1>3 DEF IInv, DriverOwns, SoleDriver, Drives

\* A takeover deposes every run whose execution it gives away.
LEMMA TakeOverApart ==
  ASSUME IInv, NEW n \in Nodes, NEW d \in Nodes, TakeOver(n, d)
  PROVE  DriverOwns' /\ SoleDriver'
<1> DEFINE Lost == {e \in Execs : owner[e] = d /\ status[e] \in {"running", "queued"}}
<1>1. /\ owner' = [e \in Execs |-> IF e \in Lost THEN None ELSE owner[e]]
      /\ run' = [r \in Runs |-> IF run[r].node = d /\ run[r].exec \in Lost
                                THEN [run[r] EXCEPT !.deposed = TRUE] ELSE run[r]]
  BY DEF TakeOver, Requeue
<1>2. \A r \in Runs :
         /\ run'[r].at = run[r].at /\ run'[r].node = run[r].node
         /\ run'[r].exec = run[r].exec
         /\ run[r].deposed => run'[r].deposed
         /\ run[r].node = d /\ run[r].exec \in Lost => run'[r].deposed
  <2> SUFFICES ASSUME NEW r \in Runs
               PROVE  /\ run'[r].at = run[r].at /\ run'[r].node = run[r].node
                      /\ run'[r].exec = run[r].exec
                      /\ run[r].deposed => run'[r].deposed
                      /\ run[r].node = d /\ run[r].exec \in Lost => run'[r].deposed
    OBVIOUS
  <2>1. run[r] \in RunRecord
    BY DEF IInv, TypeOK, RunRecord
  <2> QED
    BY <1>1, <2>1 DEF RunRecord
<1>3. \A e \in Execs : e \notin Lost => owner'[e] = owner[e]
  BY <1>1
<1>4. \A e \in Lost : owner[e] = d
  OBVIOUS
<1> HIDE DEF Lost
<1>5. DriverOwns'
  BY <1>2, <1>3, <1>4 DEF IInv, DriverOwns, Drives
<1>6. SoleDriver'
  BY <1>2 DEF IInv, SoleDriver, Drives
<1> QED
  BY <1>5, <1>6

\* Every step keeps the runs apart.
LEMMA ApartStep == IInv /\ [Next]_vars => DriverOwns' /\ SoleDriver'
<1> SUFFICES ASSUME IInv, [Next]_vars PROVE DriverOwns' /\ SoleDriver'
  OBVIOUS
<1>1. TypeOK /\ DriverOwns /\ SoleDriver
  BY DEF IInv
<1>2. CASE UNCHANGED vars
  <2>1. UNCHANGED <<run, owner>>
    BY <1>2 DEF vars, executions
  <2> QED
    BY <1>1, <2>1 DEF DriverOwns, SoleDriver, Drives
<1>3. ASSUME NEW e \in Execs, Cancel(e) \/ ExpireConn(e) PROVE DriverOwns' /\ SoleDriver'
  <2>1. UNCHANGED <<run, owner>>
    BY <1>3 DEF Cancel, ExpireConn, executions
  <2> QED
    BY <1>1, <2>1 DEF DriverOwns, SoleDriver, Drives
<1>4. ASSUME NEW r \in Runs,
             RunStep(r) \/ Fail(r) \/ \E d \in {"approved", "rejected"} : Respond(r, d)
      PROVE  DriverOwns' /\ SoleDriver'
  BY <1>1, <1>4, RunSteady, SteadyApart
<1>5. ASSUME NEW n \in Nodes,
             Poll(n) \/ Watch(n) \/ Heartbeat(n) \/ Lapse(n) \/ Crash(n) \/ Stop(n) \/ Start(n)
      PROVE  DriverOwns' /\ SoleDriver'
  <2>1. CASE SetOwner(n)
    BY <2>1, SetOwnerApart
  <2>4. CASE SetOwnerUnheard(n)
    BY <2>4, UnheardApart
  <2>2. ASSUME NEW d \in Nodes, TakeOver(n, d) PROVE DriverOwns' /\ SoleDriver'
    BY <2>2, TakeOverApart
  <2>3. ASSUME \/ SelectWork(n) \/ TryLock(n) \/ GiveUp(n)
               \/ FindDead(n) \/ DeleteNode(n) \/ KeepNode(n)
               \/ Heartbeat(n) \/ Lapse(n) \/ Exit(n) \/ Start(n)
               \/ \E d \in Nodes : TakeOverFails(n, d)
        PROVE  DriverOwns' /\ SoleDriver'
    BY <1>1, <2>3, NodeSteady, SteadyApart
  <2> QED
    BY <1>5, <2>1, <2>2, <2>3, <2>4 DEF Poll, Watch, Crash, Stop
<1> QED
  BY <1>2, <1>3, <1>4, <1>5 DEF Next

-----------------------------------------------------------------------------
\* A run that is not free stays with a node and an execution.
LEMMA PlacedStep == TypeOK /\ Placed /\ [Next]_vars => Placed'
<1> SUFFICES ASSUME TypeOK, Placed, [Next]_vars PROVE Placed'
  OBVIOUS
<1>1. CASE UNCHANGED run
  BY <1>1 DEF Placed
<1>2. ASSUME NEW n \in Nodes, SetOwner(n) PROVE Placed'
  <2>1. PICK r \in Runs : run' = [run EXCEPT ![r] = [Idle EXCEPT
                                !.at = "starting", !.node = n, !.exec = trying[n]]]
    BY <1>2 DEF SetOwner
  <2>2. trying[n] \in Execs
    BY <1>2 DEF SetOwner, TypeOK
  <2> QED
    BY <2>1, <2>2 DEF TypeOK, Placed, Idle
<1>3. ASSUME NEW n \in Nodes, NEW d \in Nodes, TakeOver(n, d) PROVE Placed'
  <2> DEFINE Lost == {e \in Execs : owner[e] = d /\ status[e] \in {"running", "queued"}}
  <2>1. run' = [r \in Runs |-> IF run[r].node = d /\ run[r].exec \in Lost
                               THEN [run[r] EXCEPT !.deposed = TRUE] ELSE run[r]]
    BY <1>3 DEF TakeOver, Requeue
  <2> HIDE DEF Lost
  <2> SUFFICES ASSUME NEW r \in Runs
               PROVE  run'[r].at = run[r].at /\ run'[r].node = run[r].node
                      /\ run'[r].exec = run[r].exec
    BY DEF Placed
  <2>2. run[r] \in RunRecord
    BY DEF TypeOK, RunRecord
  <2> QED
    BY <2>1, <2>2 DEF RunRecord
<1>4. ASSUME NEW n \in Nodes, Exit(n) PROVE Placed'
  <2> SUFFICES ASSUME NEW r \in Runs, run'[r].at # "free"
               PROVE  run[r].at # "free" /\ run'[r].node = run[r].node
                      /\ run'[r].exec = run[r].exec
    BY DEF Placed
  <2>1. run[r] \in RunRecord
    BY DEF TypeOK, RunRecord
  <2> QED
    BY <1>4, <2>1 DEF Exit, RunRecord, Idle
<1>5. ASSUME NEW r \in Runs, RunStep(r) \/ Fail(r) PROVE Placed'
  <2>1. \A q \in Runs : \/ run'[q].node = run[q].node /\ run'[q].exec = run[q].exec
                           /\ (run'[q].at # "free" => run[q].at # "free")
                        \/ run'[q].at = "free"
    <3>1. CASE Load(r)
      BY <3>1, AtMoves DEF Load
    <3>2. CASE Enter(r) \/ Finish(r)
      BY <3>2, AtMoves DEF Enter, Finish
    <3>3. CASE Resume(r) \/ Refuse(r)
      BY <3>3, AtMoves DEF Resume, Refuse
    <3>4. CASE Await(r)
      BY <3>4, AwaitMoves
    <3>7. CASE ResumeUnmarked(r)
      BY <3>7 DEF TypeOK, ResumeUnmarked
    <3>5. CASE Release(r)
      BY <3>5 DEF TypeOK, Release, Idle
    <3>8. CASE Enlist(r)
      BY <3>8 DEF TypeOK, Enlist
    <3>6. CASE Fail(r)
      BY <3>6 DEF TypeOK, Fail, Driving, Executing
    <3> QED
      BY <1>5, <3>1, <3>2, <3>3, <3>4, <3>5, <3>6, <3>7, <3>8 DEF RunStep, OwnStep
  <2> QED
    BY <2>1 DEF Placed
<1>6. ASSUME NEW r \in Runs, NEW d \in {"approved", "rejected"}, Respond(r, d) PROVE Placed'
  BY <1>6 DEF Respond, TypeOK, Placed
<1>7. ASSUME NEW n \in Nodes,
             \/ SelectWork(n) \/ TryLock(n) \/ GiveUp(n) \/ SetOwnerUnheard(n)
             \/ FindDead(n) \/ DeleteNode(n) \/ KeepNode(n)
             \/ Heartbeat(n) \/ Lapse(n) \/ Start(n)
             \/ \E d \in Nodes : TakeOverFails(n, d)
      PROVE  UNCHANGED run
  BY <1>7 DEF SelectWork, TryLock, GiveUp, SetOwnerUnheard, FindDead, DeleteNode, KeepNode,
              Heartbeat, Lapse, Start,
              TakeOverFails
<1>8. ASSUME NEW e \in Execs, Cancel(e) \/ ExpireConn(e) PROVE UNCHANGED run
  BY <1>8 DEF Cancel, ExpireConn
<1>9. CASE Next
  BY <1>1, <1>2, <1>3, <1>4, <1>5, <1>6, <1>7, <1>8, <1>9
     DEF Next, Poll, Watch, Crash, Stop
<1> QED
  BY <1>1, <1>9 DEF vars

\* A node's poll never comes to hold what the node owns.
LEMMA UnownedStep == TypeOK /\ Placed /\ Unowned /\ [Next]_vars => Unowned'
<1> SUFFICES ASSUME TypeOK, Placed, Unowned, [Next]_vars PROVE Unowned'
  OBVIOUS
<1>1. CASE UNCHANGED <<owner, batch, trying>>
  BY <1>1 DEF Unowned
<1>2. ASSUME NEW n \in Nodes, SelectWork(n) PROVE Unowned'
  <2>1. \A e \in OldestOf(Available) : owner[e] = None
    BY DEF OldestOf, Available
  <2>2. None \notin OldestOf(Available)
    BY SchedulerAssumption DEF OldestOf, Available
  <2>3. /\ batch' = [batch EXCEPT ![n] = OldestOf(Available)]
        /\ owner' = owner /\ trying' = trying /\ trying[n] = None
    BY <1>2 DEF SelectWork, executions
  <2> QED
    BY <2>1, <2>2, <2>3, SchedulerAssumption DEF Unowned, TypeOK
<1>3. ASSUME NEW n \in Nodes, TryLock(n) PROVE Unowned'
  <2>1. PICK e \in batch[n] : /\ batch' = [batch EXCEPT ![n] = @ \ {e}]
                              /\ \/ trying' = [trying EXCEPT ![n] = e]
                                 \/ trying' = trying
    BY <1>3 DEF TryLock
  <2>2. owner' = owner /\ trying[n] = None
    BY <1>3 DEF TryLock, executions
  <2>3. None \notin batch[n]
    BY SchedulerAssumption DEF TypeOK
  <2> QED
    BY <2>1, <2>2, <2>3 DEF Unowned, TypeOK
<1>4. ASSUME NEW n \in Nodes, SetOwner(n) \/ SetOwnerUnheard(n) PROVE Unowned'
  <2>1. /\ owner' = [owner EXCEPT ![trying[n]] = n]
        /\ trying' = [trying EXCEPT ![n] = None]
        /\ batch' = batch
        /\ trying[n] # None
    BY <1>4 DEF SetOwner, SetOwnerUnheard
  <2>2. trying[n] \in Execs
    BY <2>1 DEF TypeOK
  <2>3. \A m \in Nodes : None \notin batch[m]
    BY SchedulerAssumption DEF TypeOK
  <2>4. \A e \in Execs : owner'[e] = IF e = trying[n] THEN n ELSE owner[e]
    BY <2>1, <2>2 DEF TypeOK
  <2>5. \A m \in Nodes : trying'[m] = IF m = n THEN None ELSE trying[m]
    BY <2>1 DEF TypeOK
  <2>6. \A m \in Nodes : batch[m] \subseteq Execs /\ trying[m] \in Execs \cup {None}
    BY DEF TypeOK
  <2> QED
    BY <2>1, <2>2, <2>3, <2>4, <2>5, <2>6, SchedulerAssumption DEF Unowned
<1>5. ASSUME NEW n \in Nodes, GiveUp(n) PROVE Unowned'
  <2>1. \A m \in Nodes : None \notin batch[m]
    BY SchedulerAssumption DEF TypeOK
  <2> QED
    BY <1>5, <2>1 DEF GiveUp, Unowned, TypeOK, executions
<1>6. ASSUME NEW n \in Nodes, NEW d \in Nodes, TakeOver(n, d) PROVE Unowned'
  <2>1. /\ UNCHANGED <<batch, trying>>
        /\ \A e \in Execs : owner'[e] \in {None, owner[e]}
    BY <1>6 DEF TakeOver, Requeue, polling
  <2>2. \A m \in Nodes : trying[m] # None => trying[m] \in Execs
    BY DEF TypeOK
  <2>3. \A m \in Nodes : batch[m] \subseteq Execs
    BY DEF TypeOK
  <2> QED
    BY <2>1, <2>2, <2>3, SchedulerAssumption DEF Unowned
<1>7. ASSUME NEW n \in Nodes, Exit(n) PROVE Unowned'
  BY <1>7 DEF Exit, Unowned, TypeOK, executions
<1>8. ASSUME NEW n \in Nodes,
             \/ FindDead(n) \/ DeleteNode(n) \/ KeepNode(n) \/ Heartbeat(n) \/ Lapse(n)
             \/ Start(n)
             \/ \E d \in Nodes : TakeOverFails(n, d)
      PROVE  UNCHANGED <<owner, batch, trying>>
  BY <1>8 DEF FindDead, DeleteNode, KeepNode, Heartbeat, Lapse, Start, TakeOverFails,
              executions, polling
<1>9. ASSUME NEW r \in Runs,
             RunStep(r) \/ Fail(r) \/ \E d \in {"approved", "rejected"} : Respond(r, d)
      PROVE  UNCHANGED <<owner, batch, trying>>
  BY <1>9 DEF RunStep, OwnStep, Enlist, Load, Enter, Finish, Await, Resume, ResumeUnmarked,
              Refuse, Release, Fail, Respond,
              At, executions, polling
<1>10. ASSUME NEW e \in Execs, Cancel(e) \/ ExpireConn(e)
       PROVE  UNCHANGED <<owner, batch, trying>>
  BY <1>10 DEF Cancel, ExpireConn, executions, polling
<1>11. CASE Next
  BY <1>1, <1>2, <1>3, <1>4, <1>5, <1>6, <1>7, <1>8, <1>9, <1>10, <1>11
     DEF Next, Poll, Watch, Crash, Stop
<1> QED
  BY <1>1, <1>11 DEF vars, executions, polling

\* A run remembers what it read, then what it wrote.
LEMMA RemembersStep == TypeOK /\ Placed /\ Remembers /\ [Next]_vars => Remembers'
<1> SUFFICES ASSUME TypeOK, Placed, Remembers, [Next]_vars PROVE Remembers'
  OBVIOUS
<1> DEFINE Fits(x) ==
      /\ x.at \in {"starting", "loading"} => x.mem = "none"
      /\ x.at = "entering" => x.mem \in {"queued", "waiting_approval"}
      /\ x.at \in {"running", "waiting"} => x.mem \in {"running", "waiting_approval"}
<1>1. run \in [Runs -> RunRecord] /\ \A r \in Runs : Fits(run[r])
  BY DEF TypeOK, RunRecord, Remembers
<1>2. CASE UNCHANGED run
  BY <1>2 DEF Remembers
<1>3. ASSUME NEW r \in Runs, \A q \in Runs \ {r} : run'[q] = run[q], Fits(run'[r])
      PROVE  Remembers'
  BY <1>1, <1>3 DEF Remembers
<1>4. ASSUME NEW n \in Nodes, SetOwner(n) PROVE Remembers'
  <2>1. PICK r \in Runs : run' = [run EXCEPT ![r] = [Idle EXCEPT
                                !.at = "starting", !.node = n, !.exec = trying[n]]]
    BY <1>4 DEF SetOwner
  <2> QED
    BY <1>1, <1>3, <2>1 DEF Idle
<1>5. ASSUME NEW n \in Nodes, NEW d \in Nodes, TakeOver(n, d) PROVE Remembers'
  <2>1. PICK Lost \in SUBSET Execs : Requeue(n, d, Lost)
    BY <1>5 DEF TakeOver
  <2> SUFFICES ASSUME NEW r \in Runs
               PROVE  run'[r].at = run[r].at /\ run'[r].mem = run[r].mem
    BY DEF Remembers
  <2>2. run[r] \in RunRecord
    BY <1>1
  <2> QED
    BY <2>1, <2>2 DEF Requeue, RunRecord
<1>6. ASSUME NEW n \in Nodes, Exit(n) PROVE Remembers'
  <2> SUFFICES ASSUME NEW r \in Runs PROVE Fits(run'[r])
    BY DEF Remembers
  <2>1. run[r] \in RunRecord /\ Fits(run[r])
    BY <1>1
  <2> HIDE DEF Fits
  <2>2. CASE run'[r] = run[r]
    BY <2>1, <2>2
  <2>3. CASE run'[r].at \in {"gone", "free"}
    BY <2>3 DEF Fits
  <2> QED
    BY <1>6, <2>1, <2>2, <2>3 DEF Exit, RunRecord, Idle
<1>7. ASSUME NEW r \in Runs, RunStep(r) \/ Fail(r) PROVE Remembers'
  <2>1. run[r] \in RunRecord /\ Fits(run[r])
    BY <1>1
  <2>2. \A q \in Runs \ {r} : run'[q] = run[q]
    BY <1>1, <1>7 DEF RunStep, OwnStep, Enlist, Load, Enter, Finish, Await, Resume,
                      ResumeUnmarked, Refuse,
                      Release, Fail, At
  <2>3. CASE Load(r) \/ Enter(r) \/ Finish(r)
    BY <1>1, <1>3, <2>1, <2>2, <2>3 DEF Load, Enter, Finish, At, RunRecord
  <2>4. CASE Resume(r) \/ Refuse(r)
    BY <1>1, <1>3, <2>1, <2>2, <2>4 DEF Resume, Refuse, At, RunRecord
  <2>5. CASE ResumeUnmarked(r)
    BY <1>1, <1>3, <2>1, <2>2, <2>5 DEF ResumeUnmarked, RunRecord
  <2>6. CASE Await(r)
    <3>1. CASE run' = [run EXCEPT ![r].at = "waiting", ![r].gate = "pending"]
      BY <1>1, <1>3, <2>1, <2>2, <2>6, <3>1 DEF Await, RunRecord
    <3>2. CASE run' = [run EXCEPT ![r].at = "waiting", ![r].gate = "pending",
                                  ![r].mem = "waiting_approval"]
      BY <1>1, <1>3, <2>1, <2>2, <3>2 DEF RunRecord
    <3> QED
      BY <2>6, <3>1, <3>2 DEF Await
  <2>7. CASE Release(r) \/ Fail(r)
    BY <1>1, <1>3, <2>1, <2>2, <2>7 DEF Release, Fail, Idle, RunRecord
  <2>8. CASE Enlist(r)
    BY <1>1, <1>3, <2>1, <2>2, <2>8 DEF Enlist, RunRecord
  <2> QED
    BY <1>7, <2>3, <2>4, <2>5, <2>6, <2>7, <2>8 DEF RunStep, OwnStep
<1>8. ASSUME NEW r \in Runs, NEW d \in {"approved", "rejected"}, Respond(r, d) PROVE Remembers'
  <2> SUFFICES ASSUME NEW q \in Runs
               PROVE  run'[q].at = run[q].at /\ run'[q].mem = run[q].mem
    BY DEF Remembers
  <2>1. run[q] \in RunRecord
    BY <1>1
  <2> QED
    BY <1>1, <1>8, <2>1 DEF Respond, RunRecord
<1>9. ASSUME NEW n \in Nodes,
             \/ SelectWork(n) \/ TryLock(n) \/ GiveUp(n) \/ SetOwnerUnheard(n)
             \/ FindDead(n) \/ DeleteNode(n) \/ KeepNode(n)
             \/ Heartbeat(n) \/ Lapse(n) \/ Start(n)
             \/ \E d \in Nodes : TakeOverFails(n, d)
      PROVE  UNCHANGED run
  BY <1>9 DEF SelectWork, TryLock, GiveUp, SetOwnerUnheard, FindDead, DeleteNode, KeepNode,
              Heartbeat, Lapse, Start,
              TakeOverFails
<1>10. ASSUME NEW e \in Execs, Cancel(e) \/ ExpireConn(e) PROVE UNCHANGED run
  BY <1>10 DEF Cancel, ExpireConn
<1>11. CASE Next
  BY <1>2, <1>4, <1>5, <1>6, <1>7, <1>8, <1>9, <1>10, <1>11
     DEF Next, Poll, Watch, Crash, Stop
<1> QED
  BY <1>2, <1>11 DEF vars

-----------------------------------------------------------------------------
\* The invariant holds at first: nothing is owned, tried or run.
LEMMA InitIInv == Init => IInv
<1> SUFFICES ASSUME Init PROVE IInv
  OBVIOUS
<1>1. Idle \in RunRecord
  BY DEF Idle, RunRecord
<1>2. TypeOK
  BY <1>1, SchedulerAssumption DEF Init, TypeOK, RunRecord
<1>3. Placed /\ Remembers /\ DriverOwns /\ SoleDriver
  BY DEF Init, Placed, Remembers, DriverOwns, SoleDriver, Drives, Driving, Executing, Idle
<1>4. Unowned
  BY DEF Init, Unowned
<1> QED
  BY <1>2, <1>3, <1>4 DEF IInv

\* The inductive invariant: the types, and that no node is about to acquire an
\* execution it owns already, which is why a second run of it cannot start.
THEOREM Inductive == Spec => []IInv
<1>1. IInv /\ [Next]_vars => IInv'
  BY TypeStep, PlacedStep, UnownedStep, RemembersStep, ApartStep DEF IInv
<1> QED
  BY <1>1, InitIInv, PTL DEF Spec

-----------------------------------------------------------------------------
\* Whoever works on an execution is the node in its owner column, with one run.
Rightful ==
  \A e \in Execs : /\ \A w \in Workers[e] : w[1] = owner[e]
                   /\ owner[e] = None => Workers[e] = {}
                   /\ \A v, w \in Workers[e] : v = w

LEMMA WorkersOwn == IInv => Rightful
<1> SUFFICES ASSUME IInv, NEW e \in Execs
             PROVE  /\ \A w \in Workers[e] : w[1] = owner[e]
                    /\ owner[e] = None => Workers[e] = {}
                    /\ \A v, w \in Workers[e] : v = w
  BY DEF Rightful
<1>1. \A r \in Runs : Drives(r, e) /\ ~run[r].deposed
                        => run[r].node = owner[e] /\ run[r].node \in Nodes
  BY DEF IInv, DriverOwns, Placed, Drives, Driving, Executing
<1>2. \A r, q \in Runs : Drives(r, e) /\ ~run[r].deposed /\ Drives(q, e) /\ ~run[q].deposed
                           => r = q
  BY DEF IInv, SoleDriver
<1> QED
  BY <1>1, <1>2, SchedulerAssumption DEF Workers

\* A step that starts no run and changes no owner can only end work.
LEMMA SteadyEnds ==
  ASSUME IInv, IInv', Steady, UNCHANGED owner
  PROVE  \E S \in SUBSET Execs : Own!End(S)
<1> DEFINE Ended == {e \in Execs : Workers'[e] = {}}
<1>1. \A e \in Execs : Workers'[e] \subseteq Workers[e]
  BY DEF Workers, Steady, Drives
<1>2. \A e \in Execs : \A v, w \in Workers[e] : v = w
  BY WorkersOwn DEF Rightful
<1>3. \A e \in Execs : Workers'[e] = IF e \in Ended THEN {} ELSE Workers[e]
  <2> SUFFICES ASSUME NEW e \in Execs, Workers'[e] # {} PROVE Workers'[e] = Workers[e]
    OBVIOUS
  <2> QED
    BY <1>1, <1>2
<1>4. Workers' = [e \in Execs |-> Workers'[e]]
  BY DEF Workers
<1> HIDE DEF Ended
<1>5. Workers' = [e \in Execs |-> IF e \in Ended THEN {} ELSE Workers[e]]
  BY <1>3, <1>4
<1>6. Ended \in SUBSET Execs
  BY DEF Ended
<1> QED
  BY <1>5, <1>6 DEF Own!End

\* Taking an execution is a grant of it.
LEMMA SetOwnerGrants ==
  ASSUME IInv, NEW n \in Nodes, SetOwner(n)
  PROVE  \E e \in Execs, w \in Runs : Own!Grant(n, e, w)
<1>1. PICK r \in Runs : /\ owner[trying[n]] \in {None, n}
                        /\ owner' = [owner EXCEPT ![trying[n]] = n]
                        /\ run' = [run EXCEPT ![r] = [Idle EXCEPT
                              !.at = "starting", !.node = n, !.exec = trying[n]]]
                        /\ run[r] = Idle
  BY DEF SetOwner
<1>2. trying[n] \in Execs /\ owner[trying[n]] = None
  BY <1>1 DEF SetOwner, IInv, TypeOK, Unowned
<1>3. run'[r] = [at |-> "starting", node |-> n, exec |-> trying[n],
                 mem |-> "none", gate |-> "none", deposed |-> FALSE]
  BY <1>1 DEF IInv, TypeOK, Idle
<1>4. \A q \in Runs \ {r} : run'[q] = run[q]
  BY <1>1 DEF IInv, TypeOK
<1>5. Workers[trying[n]] = {}
  BY <1>2, WorkersOwn DEF Rightful
<1>6. Workers'[trying[n]] = {<<n, r>>}
  <2>1. \A q \in Runs \ {r} : ~(Drives(q, trying[n]) /\ ~run[q].deposed)
    BY <1>2, <1>5 DEF Workers
  <2> QED
    BY <1>2, <1>3, <1>4, <2>1 DEF Workers, Drives, Driving, Executing
<1>7. \A e \in Execs \ {trying[n]} : Workers'[e] = Workers[e]
  <2>1. run[r].at \notin Driving
    BY <1>1 DEF Idle, Driving, Executing
  <2> QED
    BY <1>3, <1>4, <2>1 DEF Workers, Drives
<1>8. Workers' = [Workers EXCEPT ![trying[n]] = {<<n, r>>}]
  <2>1. Workers' = [e \in Execs |-> Workers'[e]] /\ Workers = [e \in Execs |-> Workers[e]]
    BY DEF Workers
  <2> QED
    BY <1>2, <1>6, <1>7, <2>1
<1> QED
  BY <1>1, <1>2, <1>8 DEF Own!Grant

\* Taking it without learning of it is a hold without work.
LEMMA UnheardMislays ==
  ASSUME IInv, NEW n \in Nodes, SetOwnerUnheard(n)
  PROVE  \E e \in Execs : Own!Mislay(n, e)
<1>1. trying[n] \in Execs /\ owner[trying[n]] = None
  BY DEF SetOwnerUnheard, IInv, TypeOK, Unowned
<1>2. owner' = [owner EXCEPT ![trying[n]] = n] /\ UNCHANGED run
  BY DEF SetOwnerUnheard
<1>3. UNCHANGED Workers
  BY <1>2 DEF Workers, Drives
<1> QED
  BY <1>1, <1>2, <1>3 DEF Own!Mislay

\* A takeover revokes what the suspect holds.
LEMMA TakeOverRevokes ==
  ASSUME IInv, IInv', NEW n \in Nodes, NEW d \in Nodes, TakeOver(n, d)
  PROVE  \E S \in SUBSET Execs : Own!Revoke(d, S)
<1> DEFINE Lost == {e \in Execs : owner[e] = d /\ status[e] \in {"running", "queued"}}
<1>1. /\ owner' = [e \in Execs |-> IF e \in Lost THEN None ELSE owner[e]]
      /\ run' = [r \in Runs |-> IF run[r].node = d /\ run[r].exec \in Lost
                                THEN [run[r] EXCEPT !.deposed = TRUE] ELSE run[r]]
  BY DEF TakeOver, Requeue
<1>2. \A e \in Lost : owner[e] = d
  OBVIOUS
<1>3. Lost \in SUBSET Execs
  OBVIOUS
<1> HIDE DEF Lost
<1>4. \A e \in Lost : Workers'[e] = {}
  <2>1. Rightful'
    BY WorkersOwn, PTL
  <2> QED
    BY <1>1, <1>3, <2>1 DEF Rightful
<1>5. \A r \in Runs :
         /\ run'[r].at = run[r].at /\ run'[r].node = run[r].node
         /\ run'[r].exec = run[r].exec
         /\ run[r].exec \notin Lost => run'[r].deposed = run[r].deposed
  <2> SUFFICES ASSUME NEW r \in Runs
               PROVE  /\ run'[r].at = run[r].at /\ run'[r].node = run[r].node
                      /\ run'[r].exec = run[r].exec
                      /\ run[r].exec \notin Lost => run'[r].deposed = run[r].deposed
    OBVIOUS
  <2>1. run[r] \in RunRecord
    BY DEF IInv, TypeOK, RunRecord
  <2> QED
    BY <1>1, <2>1 DEF RunRecord
<1>6. \A e \in Execs \ Lost : Workers'[e] = Workers[e]
  BY <1>5 DEF Workers, Drives
<1>7. Workers' = [e \in Execs |-> IF e \in Lost THEN {} ELSE Workers[e]]
  <2>1. Workers' = [e \in Execs |-> Workers'[e]]
    BY DEF Workers
  <2> QED
    BY <1>4, <1>6, <2>1
<1> QED
  BY <1>1, <1>2, <1>3, <1>7 DEF Own!Revoke

\* Every step of the scheduler is a step of Ownership or none.
LEMMA LeaseStep == IInv /\ IInv' /\ [Next]_vars => [Own!Next]_(Own!vars)
<1> SUFFICES ASSUME IInv, IInv', [Next]_vars PROVE Own!Next \/ UNCHANGED Own!vars
  OBVIOUS
<1>1. CASE UNCHANGED <<run, owner>>
  BY <1>1 DEF Own!vars, Workers, Drives
<1>2. ASSUME Steady, UNCHANGED owner PROVE Own!Next
  BY <1>2, SteadyEnds DEF Own!Next
<1>3. ASSUME NEW n \in Nodes, SetOwner(n) \/ SetOwnerUnheard(n) PROVE Own!Next
  BY <1>3, SetOwnerGrants, UnheardMislays DEF Own!Next
<1>4. ASSUME NEW n \in Nodes, NEW d \in Nodes, TakeOver(n, d) PROVE Own!Next
  BY <1>4, TakeOverRevokes DEF Own!Next
<1>5. TypeOK
  BY DEF IInv
<1>6. ASSUME NEW n \in Nodes,
             Poll(n) \/ Watch(n) \/ Heartbeat(n) \/ Lapse(n) \/ Crash(n) \/ Stop(n) \/ Start(n)
      PROVE  Own!Next
  <2>1. ASSUME \/ SelectWork(n) \/ TryLock(n) \/ GiveUp(n) \/ FindDead(n) \/ DeleteNode(n) \/ KeepNode(n)
               \/ Heartbeat(n) \/ Lapse(n) \/ Exit(n) \/ Start(n)
               \/ \E d \in Nodes : TakeOverFails(n, d)
        PROVE  Own!Next
    BY <1>2, <1>5, <2>1, NodeSteady
  <2> QED
    BY <1>3, <1>4, <1>6, <2>1 DEF Poll, Watch, Crash, Stop
<1>7. ASSUME NEW r \in Runs,
             RunStep(r) \/ Fail(r) \/ \E d \in {"approved", "rejected"} : Respond(r, d)
      PROVE  Own!Next
  BY <1>2, <1>5, <1>7, RunSteady
<1>8. ASSUME NEW e \in Execs, Cancel(e) \/ ExpireConn(e) PROVE UNCHANGED <<run, owner>>
  BY <1>8 DEF Cancel, ExpireConn, executions
<1> QED
  BY <1>1, <1>6, <1>7, <1>8 DEF Next, vars, executions

\* The nodes implement Ownership: an execution is granted when it is free,
\* worked on once per grant, and taken away together with the work on it.
THEOREM ImplementsOwnership == Spec => Leased
<1>1. Init => Own!Init
  BY DEF Init, Own!Init, Workers, Drives, Driving, Executing, Idle
<1> QED
  BY <1>1, LeaseStep, Inductive, PTL DEF Spec, Leased, Own!Spec

-----------------------------------------------------------------------------
\* The runs as RunStatus sees them.
View == [r \in Runs |-> Seen(r)]

Gone == [at |-> "out", exec |-> "none", mem |-> "none"]

\* A step of one run that goes on in Execute shows in its place and its memory.
LEMMA ViewMoves ==
  ASSUME NEW r \in Runs, \A q \in Runs \ {r} : run'[q] = run[q],
         run[r].at \in Executing, run'[r].at \in Executing, run'[r].exec = run[r].exec
  PROVE  /\ View[r] = [at |-> run[r].at, exec |-> run[r].exec, mem |-> run[r].mem]
         /\ View' = [View EXCEPT ![r] = [at |-> run'[r].at, exec |-> View[r].exec,
                                         mem |-> run'[r].mem]]
BY DEF View, Seen, Driving, Executing

\* Runs that drive no more are gone.
LEMMA ViewLeaves ==
  ASSUME NEW S \in SUBSET Runs,
         \A q \in Runs \ S : Seen(q)' = Seen(q), \A q \in S : run'[q].at \notin Driving
  PROVE  View' = [q \in Runs |-> IF q \in S THEN Gone ELSE View[q]]
BY DEF View, Seen, Gone

\* A step of a run is one of RunStatus, or none.
LEMMA RunShows ==
  ASSUME IInv, IInv', NEW r \in Runs, RunStep(r) \/ Fail(r)
  PROVE  Col!Next \/ UNCHANGED Col!vars
<1>1. /\ TypeOK /\ TypeOK' /\ run \in [Runs -> RunRecord] /\ run[r] \in RunRecord
      /\ status \in [Execs -> {"queued", "running", "waiting_approval", "done"}]
  BY DEF IInv, TypeOK, RunRecord
<1>2. /\ run[r].at = "entering" => run[r].mem \in {"queued", "waiting_approval"}
      /\ run[r].at \in {"running", "waiting"} => run[r].mem \in {"running", "waiting_approval"}
  BY DEF IInv, Remembers
<1>3. \A q \in Runs \ {r} : run'[q] = run[q]
  BY <1>1 DEF RunStep, OwnStep, Enlist, Load, Enter, Finish, Await, Resume, ResumeUnmarked,
              Refuse,
              Release, Fail, At
<1>4. \A q \in Runs \ {r} : Seen(q)' = Seen(q)
  BY <1>3 DEF Seen
<1>5. ASSUME run'[r].at \notin Driving, UNCHANGED status PROVE Col!Next
  <2>1. View' = [q \in Runs |-> IF q \in {r} THEN Gone ELSE View[q]]
    BY <1>4, <1>5, ViewLeaves
  <2>2. Col!Leave({r})
    BY <1>5, <2>1 DEF Col!Leave, Col!Out, View, Gone
  <2> QED
    BY <2>2 DEF Col!Next
<1>6. ASSUME run'[r].at \notin Driving, run[r].at \in Driving
      PROVE  View' = [View EXCEPT ![r] = Gone]
  BY <1>4, <1>6 DEF View, Seen, Gone
<1>7. ASSUME run[r].at \in Executing
      PROVE  View[r] = [at |-> run[r].at, exec |-> run[r].exec, mem |-> run[r].mem]
  BY <1>7 DEF View, Seen, Driving, Executing
<1>8. ASSUME run[r].at \in Executing, run'[r].at \in Executing, run'[r].exec = run[r].exec
      PROVE  View' = [View EXCEPT ![r] = [at |-> run'[r].at, exec |-> View[r].exec,
                                   mem |-> run'[r].mem]]
  BY <1>1, <1>3, <1>8, ViewMoves
<1>9. CASE Load(r)
  <2>1. /\ run[r].at = "loading" /\ run'[r].exec = run[r].exec /\ UNCHANGED status
        /\ \/ run'[r].at = "entering" /\ run'[r].mem = status[run[r].exec]
           \/ run'[r].at = "leaving"
    BY <1>1, <1>9 DEF Load, At, RunRecord
  <2>2. CASE run'[r].at = "entering"
    <3>1. View' = [View EXCEPT ![r] = [at |-> "entering", exec |-> View[r].exec,
                                   mem |-> status[run[r].exec]]]
      BY <1>8, <2>1, <2>2 DEF Driving, Executing
    <3>2. View[r].at = "loading" /\ View[r].exec = run[r].exec
      BY <1>7, <2>1 DEF Driving, Executing
    <3>3. Col!Load(r)
      BY <2>1, <3>1, <3>2 DEF Col!Load, Col!Goes, View
    <3> QED
      BY <3>3 DEF Col!Next
  <2>3. CASE run'[r].at = "leaving"
    BY <1>5, <2>1, <2>3 DEF Driving, Executing
  <2> QED
    BY <2>1, <2>2, <2>3
<1>10. CASE Enter(r)
  <2>1. /\ run[r].at = "entering" /\ run'[r].exec = run[r].exec
        /\ run'[r].at = "running" /\ run'[r].mem = "running"
        /\ status' = [status EXCEPT ![run[r].exec] = "running"]
    BY <1>1, <1>10 DEF Enter, At, Write, RunRecord
  <2>2. View' = [View EXCEPT ![r] = [at |-> "running", exec |-> View[r].exec,
                                   mem |-> "running"]]
    BY <1>8, <2>1 DEF Driving, Executing
  <2>3. /\ View[r].at = "entering" /\ View[r].exec = run[r].exec
        /\ View[r].mem \in {"queued", "waiting_approval"}
    BY <1>2, <1>7, <2>1 DEF Driving, Executing
  <2>4. Col!Enter(r)
    BY <2>1, <2>2, <2>3 DEF Col!Enter, Col!Write, Col!Goes, Col!Valid, View
  <2> QED
    BY <2>4 DEF Col!Next
<1>11. CASE Finish(r)
  <2>1. /\ run[r].at = "running" /\ run'[r].at = "leaving"
        /\ \/ run[r].mem = "running" /\ status' = [status EXCEPT ![run[r].exec] = "done"]
           \/ UNCHANGED status
    BY <1>1, <1>11 DEF Finish, At, Write, RunRecord
  <2>2. CASE run[r].mem = "running" /\ status' = [status EXCEPT ![run[r].exec] = "done"]
    <3>1. View' = [View EXCEPT ![r] = Gone]
      BY <1>6, <2>1 DEF Driving, Executing
    <3>2. View[r].at = "running" /\ View[r].exec = run[r].exec /\ View[r].mem = "running"
      BY <1>7, <2>1, <2>2 DEF Driving, Executing
    <3>3. Col!Finish(r)
      BY <2>2, <3>1, <3>2 DEF Col!Finish, Col!Conclude, Col!Valid, Col!Out, View, Gone
    <3> QED
      BY <3>3 DEF Col!Next
  <2>3. CASE UNCHANGED status
    BY <1>5, <2>1, <2>3 DEF Driving, Executing
  <2> QED
    BY <2>1, <2>2, <2>3
<1>12. CASE Refuse(r)
  <2>1. /\ run[r].at = "waiting" /\ run'[r].at = "leaving"
        /\ status' = [status EXCEPT ![run[r].exec] = "done"]
    BY <1>1, <1>12 DEF Refuse, At, Write, RunRecord
  <2>2. View' = [View EXCEPT ![r] = Gone]
    BY <1>6, <2>1 DEF Driving, Executing
  <2>3. /\ View[r].at = "waiting" /\ View[r].exec = run[r].exec
        /\ View[r].mem \in {"running", "waiting_approval"}
    BY <1>2, <1>7, <2>1 DEF Driving, Executing
  <2>4. Col!Refuse(r)
    BY <2>1, <2>2, <2>3 DEF Col!Refuse, Col!Conclude, Col!Valid, Col!Out, View, Gone
  <2> QED
    BY <2>4 DEF Col!Next
<1>13. ASSUME NEW to \in {"waiting_approval", "running"},
              \/ /\ run[r].at = "running" /\ run'[r].at = "waiting"
                 /\ to = "waiting_approval"
              \/ run[r].at = "waiting" /\ run'[r].at = "running" /\ to = "running",
              run'[r].exec = run[r].exec, run'[r].mem = run[r].mem,
              \/ UNCHANGED status
              \/ /\ run[r].mem # to
                 /\ status' = [status EXCEPT ![run[r].exec] = to]
       PROVE  Col!Next
  <2>1. run[r].mem # to => Col!Valid(run[r].mem, to)
    BY <1>2, <1>13 DEF Col!Valid
  <2>2. View[r] = [at |-> run[r].at, exec |-> run[r].exec, mem |-> run[r].mem]
    BY <1>7, <1>13 DEF Executing
  <2>3. View[r].at = run[r].at /\ View[r].exec = run[r].exec /\ View[r].mem = run[r].mem
    BY <2>2
  <2>4. View' = [View EXCEPT ![r] = [at |-> run'[r].at, exec |-> View[r].exec,
                                     mem |-> View[r].mem]]
    BY <1>8, <1>13, <2>3 DEF Executing
  <2>5. ASSUME run'[r].at = "waiting" \/ run'[r].at = "running"
        PROVE  Col!Unmarked(r, to, run'[r].at)
    BY <1>13, <2>1, <2>3, <2>4 DEF Col!Unmarked, Col!Goes, View
  <2>6. CASE run[r].at = "running"
    <3>1. Col!AwaitUnmarked(r)
      BY <1>13, <2>3, <2>5, <2>6 DEF Col!AwaitUnmarked, View
    <3> QED
      BY <3>1 DEF Col!Next
  <2>7. CASE run[r].at = "waiting"
    <3>1. Col!ResumeUnmarked(r)
      BY <1>13, <2>3, <2>5, <2>7 DEF Col!ResumeUnmarked, View
    <3> QED
      BY <3>1 DEF Col!Next
  <2> QED
    BY <1>13, <2>6, <2>7
<1>14. CASE Resume(r)
  <2>1. /\ run[r].at = "waiting" /\ run'[r].exec = run[r].exec
        /\ run'[r].at = "running" /\ run'[r].mem = "running"
        /\ run[r].mem = "waiting_approval"
        /\ status' = [status EXCEPT ![run[r].exec] = "running"]
    BY <1>1, <1>14 DEF Resume, At, Write, RunRecord
  <2>2. View' = [View EXCEPT ![r] = [at |-> "running", exec |-> View[r].exec,
                                   mem |-> "running"]]
    BY <1>8, <2>1 DEF Driving, Executing
  <2>3. /\ View[r].at = "waiting" /\ View[r].exec = run[r].exec
        /\ View[r].mem = "waiting_approval"
    BY <1>7, <2>1 DEF Driving, Executing
  <2>4. Col!Resume(r)
    BY <2>1, <2>2, <2>3 DEF Col!Resume, Col!Write, Col!Goes, Col!Valid, View
  <2> QED
    BY <2>4 DEF Col!Next
<1>15. CASE ResumeUnmarked(r)
  <2>1. /\ run[r].at = "waiting" /\ run'[r].at = "running"
        /\ run'[r].exec = run[r].exec /\ run'[r].mem = run[r].mem
    BY <1>1, <1>15 DEF ResumeUnmarked, RunRecord
  <2>2. \/ UNCHANGED status
        \/ /\ run[r].mem = "waiting_approval"
           /\ status' = [status EXCEPT ![run[r].exec] = "running"]
    BY <1>15 DEF ResumeUnmarked, Write
  <2> QED
    BY <1>13, <2>1, <2>2
<1>16. CASE Await(r)
  <2>1. run[r].at = "running"
    BY <1>16 DEF Await
  <2>2. CASE /\ run' = [run EXCEPT ![r].at = "waiting", ![r].gate = "pending"]
             /\ \/ UNCHANGED status
                \/ /\ run[r].mem = "running"
                   /\ status' = [status EXCEPT ![run[r].exec] = "waiting_approval"]
    <3>1. /\ run'[r].at = "waiting" /\ run'[r].exec = run[r].exec
          /\ run'[r].mem = run[r].mem
      BY <1>1, <2>2 DEF RunRecord
    <3> QED
      BY <1>13, <2>1, <2>2, <3>1
  <2>3. CASE /\ run' = [run EXCEPT ![r].at = "waiting", ![r].gate = "pending",
                                   ![r].mem = "waiting_approval"]
             /\ run[r].mem = "running"
             /\ status' = [status EXCEPT ![run[r].exec] = "waiting_approval"]
    <3>1. /\ run'[r].at = "waiting" /\ run'[r].exec = run[r].exec
          /\ run'[r].mem = "waiting_approval"
      BY <1>1, <2>3 DEF RunRecord
    <3>2. View' = [View EXCEPT ![r] = [at |-> "waiting", exec |-> View[r].exec,
                                   mem |-> "waiting_approval"]]
      BY <1>8, <2>1, <3>1 DEF Driving, Executing
    <3>3. View[r].at = "running" /\ View[r].exec = run[r].exec /\ View[r].mem = "running"
      BY <1>7, <2>1, <2>3 DEF Driving, Executing
    <3>4. Col!Await(r)
      BY <2>3, <3>2, <3>3 DEF Col!Await, Col!Write, Col!Goes, Col!Valid, View
    <3> QED
      BY <3>4 DEF Col!Next
  <2>4. \/ /\ run' = [run EXCEPT ![r].at = "waiting", ![r].gate = "pending",
                                 ![r].mem = "waiting_approval"]
           /\ run[r].mem = "running"
           /\ Write(r, "waiting_approval")
        \/ /\ run' = [run EXCEPT ![r].at = "waiting", ![r].gate = "pending"]
           /\ \/ UNCHANGED status
              \/ run[r].mem = "running" /\ Write(r, "waiting_approval")
    BY <1>16, Zenon DEF Await
  <2>5. Write(r, "waiting_approval") => status' = [status EXCEPT ![run[r].exec] = "waiting_approval"]
    BY Zenon DEF Write
  <2> QED
    BY <2>2, <2>3, <2>4, <2>5, Zenon
<1>17. CASE Release(r) \/ Fail(r)
  <2>1. \/ run' = [run EXCEPT ![r] = Idle]
        \/ run' = [run EXCEPT ![r].at = "leaving", ![r].mem = "none"]
    BY <1>17, Zenon DEF Release, Fail
  <2>3. run'[r].at \in {"free", "leaving"}
    BY <1>1, <2>1 DEF Idle, RunRecord
  <2>2. UNCHANGED status
    BY <1>17 DEF Release, Fail, executions
  <2> QED
    BY <1>5, <2>2, <2>3 DEF Driving, Executing
<1>18. CASE Enlist(r)
  <2>1. /\ run[r].at = "starting" /\ run'[r].at = "loading"
        /\ run'[r].exec = run[r].exec /\ run'[r].mem = run[r].mem
    BY <1>1, <1>18 DEF Enlist, RunRecord
  <2>2. Seen(r)' = Seen(r)
    BY <2>1 DEF Seen, Driving, Executing
  <2>3. UNCHANGED status /\ View' = View
    BY <1>4, <1>18, <2>2 DEF View, Enlist, executions
  <2> QED
    BY <2>3 DEF Col!vars, View
<1> QED
  BY <1>9, <1>10, <1>11, <1>12, <1>14, <1>15, <1>16, <1>17, <1>18 DEF RunStep, OwnStep

\* So is every step of the scheduler.
LEMMA StatusStep == IInv /\ IInv' /\ [Next]_vars => [Col!Next]_(Col!vars)
<1> SUFFICES ASSUME IInv, IInv', [Next]_vars PROVE Col!Next \/ UNCHANGED Col!vars
  OBVIOUS
<1>1. /\ TypeOK /\ run \in [Runs -> RunRecord]
  BY DEF IInv, TypeOK, RunRecord
<1>2. CASE UNCHANGED status /\ View' = View
  BY <1>2 DEF Col!vars, View
<1>3. CASE UNCHANGED <<run, status>>
  BY <1>2, <1>3 DEF View, Seen
<1>4. ASSUME NEW n \in Nodes, SetOwner(n) PROVE Col!Next
  <2>1. PICK r \in Runs : /\ run' = [run EXCEPT ![r] = [Idle EXCEPT
                                !.at = "starting", !.node = n, !.exec = trying[n]]]
                          /\ run[r] = Idle
    BY <1>4 DEF SetOwner
  <2>2. trying[n] \in Execs /\ UNCHANGED status
    BY <1>1, <1>4 DEF SetOwner, TypeOK
  <2>3. /\ run'[r].at = "starting" /\ run'[r].exec = trying[n] /\ run'[r].mem = "none"
        /\ \A q \in Runs \ {r} : run'[q] = run[q]
    BY <1>1, <2>1 DEF Idle
  <2>4. View[r] = Gone
    BY <2>1 DEF View, Seen, Idle, Driving, Executing, Gone
  <2>5. View' = [View EXCEPT ![r] = [at |-> "loading", exec |-> trying[n], mem |-> "none"]]
    BY <2>3 DEF View, Seen, Driving, Executing
  <2>6. Col!Begin(r, trying[n])
    BY <2>2, <2>4, <2>5 DEF Col!Begin, Col!Out, View, Gone
  <2> QED
    BY <2>2, <2>6 DEF Col!Next
<1>5. ASSUME NEW n \in Nodes, NEW d \in Nodes, TakeOver(n, d) PROVE Col!Next
  <2> DEFINE Lost == {e \in Execs : owner[e] = d /\ status[e] \in {"running", "queued"}}
  <2>1. /\ status' = [e \in Execs |-> IF e \in Lost THEN "queued" ELSE status[e]]
        /\ Requeue(n, d, Lost)
    BY <1>5 DEF TakeOver, Requeue
  <2>2. \A e \in Lost : status[e] \in {"queued", "running"}
    OBVIOUS
  <2>3. Lost \in SUBSET Execs
    OBVIOUS
  <2> HIDE DEF Lost
  <2>4. ASSUME NEW r \in Runs PROVE Seen(r)' = Seen(r)
    <3>1. run[r] \in RunRecord
      BY <1>1
    <3>2. run'[r].at = run[r].at /\ run'[r].exec = run[r].exec /\ run'[r].mem = run[r].mem
      BY <2>1, <3>1 DEF Requeue, RunRecord
    <3> QED
      BY <3>2 DEF Seen
  <2>5. View' = View
    BY <2>4 DEF View
  <2>6. Col!Requeue(Lost)
    BY <2>1, <2>2, <2>5 DEF Col!Requeue, View
  <2> QED
    BY <2>3, <2>6 DEF Col!Next
<1>6. ASSUME NEW n \in Nodes, Exit(n) PROVE Col!Next
  <2> DEFINE S == {r \in Runs : run[r].node = n}
  <2>1. \A r \in S : run'[r].at \notin Driving
    <3> SUFFICES ASSUME NEW r \in Runs, run[r].node = n PROVE run'[r].at \notin Driving
      OBVIOUS
    <3>1. run[r] \in RunRecord
      BY <1>1
    <3> QED
      BY <1>6, <3>1 DEF Exit, RunRecord, Driving, Executing, Idle
  <2>2. \A r \in Runs \ S : run'[r] = run[r]
    BY <1>6 DEF Exit
  <2>3. \A r \in Runs \ S : Seen(r)' = Seen(r)
    BY <2>2 DEF Seen
  <2>4. S \in SUBSET Runs /\ UNCHANGED status
    BY <1>6 DEF Exit, executions
  <2> HIDE DEF S
  <2>5. View' = [q \in Runs |-> IF q \in S THEN Gone ELSE View[q]]
    BY <2>1, <2>3, <2>4, ViewLeaves
  <2>6. Col!Leave(S)
    BY <2>4, <2>5 DEF Col!Leave, Col!Out, View, Gone
  <2> QED
    BY <2>4, <2>6 DEF Col!Next
<1>7. ASSUME NEW n \in Nodes,
             \/ SelectWork(n) \/ TryLock(n) \/ GiveUp(n) \/ SetOwnerUnheard(n)
             \/ FindDead(n) \/ DeleteNode(n) \/ KeepNode(n)
             \/ Heartbeat(n) \/ Lapse(n) \/ Start(n)
             \/ \E d \in Nodes : TakeOverFails(n, d)
      PROVE  UNCHANGED <<run, status>>
  BY <1>7 DEF SelectWork, TryLock, GiveUp, SetOwnerUnheard, FindDead, DeleteNode, KeepNode,
              Heartbeat, Lapse, Start,
              TakeOverFails, executions
<1>8. ASSUME NEW r \in Runs, NEW d \in {"approved", "rejected"}, Respond(r, d)
      PROVE  UNCHANGED status /\ View' = View
  <2> SUFFICES ASSUME NEW q \in Runs PROVE Seen(q)' = Seen(q)
    BY <1>8 DEF View, Respond, executions
  <2>1. run[q] \in RunRecord
    BY <1>1
  <2>2. run'[q].at = run[q].at /\ run'[q].exec = run[q].exec /\ run'[q].mem = run[q].mem
    BY <1>1, <1>8, <2>1 DEF Respond, RunRecord
  <2> QED
    BY <2>2 DEF Seen
<1>9. ASSUME NEW e \in Execs, Cancel(e) PROVE Col!Next
  <2>1. Col!Cancel(e)
    BY <1>9 DEF Cancel, Col!Cancel, Seen
  <2> QED
    BY <2>1 DEF Col!Next
<1>10. ASSUME NEW e \in Execs, ExpireConn(e) PROVE UNCHANGED <<run, status>>
  BY <1>10 DEF ExpireConn, executions
<1>11. CASE Next
  BY <1>2, <1>3, <1>4, <1>5, <1>6, <1>7, <1>8, <1>9, <1>10, <1>11, RunShows
     DEF Next, Poll, Watch, Crash, Stop
<1> QED
  BY <1>3, <1>11 DEF vars, executions

\* The run of this module is the run of RunStatus: it writes what the transition
\* table has for what it remembers, over whatever others wrote since.
THEOREM ImplementsRunStatus == Spec => KeepsRun
<1>1. Init => Col!Init
  BY DEF Init, Col!Init, Col!Out, Seen, Idle, Driving, Executing
<1> QED
  BY <1>1, StatusStep, Inductive, PTL DEF Spec, KeepsRun, Col!Spec

\* The types of the scheduler's state.
THEOREM TypeCorrect == Spec => []TypeOK
<1>1. IInv => TypeOK
  BY DEF IInv
<1> QED
  BY <1>1, Inductive, PTL

\* Whatever becomes of the advisory locks, a run goes on only for the owner of
\* its execution or after a takeover gave the execution away.
THEOREM OwnerDrives == Spec => []DriverOwns
<1>1. IInv => DriverOwns
  BY DEF IInv
<1> QED
  BY <1>1, Inductive, PTL

\* No two runs of an execution go on that no takeover deposed.
THEOREM OneDriver == Spec => []SoleDriver
<1>1. IInv => SoleDriver
  BY DEF IInv
<1> QED
  BY <1>1, Inductive, PTL
=============================================================================
