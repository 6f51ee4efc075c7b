------------------------ MODULE SchedulerLossProofs --------------------------
(***************************************************************************)
(* Proofs that an execution is lost in the ways Abandoned lists and in no  *)
(* other, for every set of nodes, executions and runs and every number of  *)
(* crashes, stops, takeovers and failed statements; that it takes a fault  *)
(* to lose one; and that Stop reaches the runs of a node no takeover met.  *)
(***************************************************************************)
EXTENDS SchedulerProofs

\* A live process stays one, unless it exits; then its runs drive no more.
LEMMA DriversUpStep == IInv /\ DriversUp /\ [Next]_vars => DriversUp'
<1> SUFFICES ASSUME IInv, DriversUp, [Next]_vars PROVE DriversUp'
  OBVIOUS
<1>1. TypeOK
  BY DEF IInv
<1>2. ASSUME Steady, up \subseteq up' PROVE DriversUp'
  BY <1>2 DEF DriversUp, Steady
<1>3. CASE UNCHANGED <<run, up>>
  BY <1>3 DEF DriversUp
<1>4. ASSUME NEW n \in Nodes, SetOwner(n) PROVE DriversUp'
  <2>1. PICK r \in Runs : run' = [run EXCEPT ![r] = [Idle EXCEPT
                                !.at = "starting", !.node = n, !.exec = trying[n]]]
    BY <1>4 DEF SetOwner
  <2>2. n \in up /\ up' = up
    BY <1>4 DEF SetOwner, nodes
  <2> QED
    BY <1>1, <2>1, <2>2 DEF DriversUp, Idle, TypeOK
<1>5. ASSUME NEW n \in Nodes, NEW d \in Nodes, TakeOver(n, d) PROVE DriversUp'
  <2>1. PICK Lost \in SUBSET Execs : Requeue(n, d, Lost)
    BY <1>5 DEF TakeOver
  <2> SUFFICES ASSUME NEW r \in Runs
               PROVE  run'[r].at = run[r].at /\ run'[r].node = run[r].node
    BY <2>1 DEF DriversUp, Requeue
  <2>2. run[r] \in RunRecord
    BY <1>1 DEF TypeOK, RunRecord
  <2> QED
    BY <2>1, <2>2 DEF Requeue, RunRecord
<1>6. ASSUME NEW n \in Nodes, Exit(n) PROVE DriversUp'
  <2> SUFFICES ASSUME NEW r \in Runs, run'[r].at \in Driving
               PROVE  run[r].at \in Driving /\ run'[r].node = run[r].node /\ run[r].node # n
    BY <1>6 DEF DriversUp, Exit
  <2>1. run[r] \in RunRecord
    BY <1>1 DEF TypeOK, RunRecord
  <2>2. run[r].node = n => run'[r].at \notin Driving
    BY <1>6, <2>1 DEF Exit, RunRecord, Driving, Executing, Idle
  <2> QED
    BY <1>6, <2>2 DEF Exit
<1>7. ASSUME NEW n \in Nodes,
             \/ SelectWork(n) \/ TryLock(n) \/ GiveUp(n) \/ FindDead(n) \/ DeleteNode(n)
             \/ KeepNode(n) \/ Heartbeat(n) \/ Lapse(n) \/ Start(n)
             \/ \E d \in Nodes : TakeOverFails(n, d)
      PROVE  DriversUp'
  <2>1. Steady
    BY <1>1, <1>7, NodeSteady
  <2>2. up \subseteq up'
    BY <1>7 DEF SelectWork, TryLock, GiveUp, FindDead, DeleteNode, KeepNode, Heartbeat, Lapse,
                Start,
                TakeOverFails, nodes
  <2> QED
    BY <1>2, <2>1, <2>2
<1>8. ASSUME NEW r \in Runs,
             RunStep(r) \/ Fail(r) \/ \E d \in {"approved", "rejected"} : Respond(r, d)
      PROVE  DriversUp'
  <2>1. up' = up
    BY <1>8 DEF RunStep, OwnStep, Enlist, Load, Enter, Finish, Await, Resume, ResumeUnmarked,
                Refuse, Release, Fail, Respond, At,
                nodes
  <2> QED
    BY <1>1, <1>2, <1>8, <2>1, RunSteady
<1>9. ASSUME NEW e \in Execs, Cancel(e) \/ ExpireConn(e) PROVE UNCHANGED <<run, up>>
  BY <1>9 DEF Cancel, ExpireConn, nodes
<1>11. ASSUME NEW n \in Nodes, SetOwnerUnheard(n) PROVE UNCHANGED <<run, up>>
  BY <1>11 DEF SetOwnerUnheard
<1>10. CASE Next
  BY <1>3, <1>4, <1>5, <1>6, <1>7, <1>8, <1>9, <1>10, <1>11 DEF Next, Poll, Watch, Crash, Stop
<1> QED
  BY <1>3, <1>10 DEF vars, nodes

-----------------------------------------------------------------------------
\* A run or an answer to its gate writes no status, or that of the execution the
\* run drives; it waits for an approval only if there is one to wait for.
LEMMA RunWrites ==
  ASSUME NEW r \in Runs,
         RunStep(r) \/ Fail(r) \/ \E d \in {"approved", "rejected"} : Respond(r, d)
  PROVE  \/ UNCHANGED <<status, revived>>
         \/ /\ run[r].at \in Driving
            /\ \E to \in {"running", "waiting_approval", "done"} :
                  Write(r, to) /\ (to = "waiting_approval" => run[r].exec \in Gated)
<1>1. CASE \/ Enlist(r) \/ Load(r) \/ Release(r) \/ Fail(r)
           \/ \E d \in {"approved", "rejected"} : Respond(r, d)
  BY <1>1 DEF Enlist, Load, Release, Fail, Respond, executions
<1>2. CASE Enter(r) \/ Finish(r) \/ Await(r) \/ Resume(r) \/ ResumeUnmarked(r) \/ Refuse(r)
  BY <1>2 DEF Enter, Finish, Await, Resume, ResumeUnmarked, Refuse, At, Driving, Executing
<1> QED
  BY <1>1, <1>2 DEF RunStep, OwnStep

\* An action of a node that is no takeover writes no status.
LEMMA NodeWrites ==
  ASSUME NEW n \in Nodes,
         \/ Poll(n) \/ FindDead(n) \/ DeleteNode(n) \/ KeepNode(n) \/ Heartbeat(n) \/ Lapse(n)
         \/ Exit(n) \/ Start(n) \/ \E d \in Nodes : TakeOverFails(n, d)
  PROVE  UNCHANGED <<status, revived>>
BY DEF Poll, SelectWork, TryLock, SetOwner, SetOwnerUnheard, GiveUp, FindDead, DeleteNode,
       KeepNode, Heartbeat, Lapse,
       Exit, Start, TakeOverFails, executions

\* No step has an execution wait for an approval its workflow does not have.
LEMMA UngatedStep == IInv /\ Ungated /\ [Next]_vars => Ungated'
<1> SUFFICES ASSUME IInv, Ungated, [Next]_vars PROVE Ungated'
  OBVIOUS
<1>1. TypeOK
  BY DEF IInv
<1>2. CASE UNCHANGED status
  BY <1>2 DEF Ungated
<1>3. ASSUME NEW r \in Runs,
             RunStep(r) \/ Fail(r) \/ \E d \in {"approved", "rejected"} : Respond(r, d)
      PROVE  Ungated'
  BY <1>1, <1>2, <1>3, RunWrites DEF Ungated, Write, TypeOK
<1>4. ASSUME NEW n \in Nodes, NEW d \in Nodes, TakeOver(n, d) PROVE Ungated'
  BY <1>4 DEF Ungated, TakeOver, Requeue
<1>5. ASSUME NEW e \in Execs, Cancel(e) \/ ExpireConn(e) PROVE Ungated'
  BY <1>1, <1>5 DEF Ungated, Cancel, ExpireConn, TypeOK, executions
<1>6. CASE Next
  BY <1>2, <1>3, <1>4, <1>5, <1>6, NodeWrites DEF Next, Watch, Crash, Stop
<1> QED
  BY <1>2, <1>6 DEF vars, executions

-----------------------------------------------------------------------------
\* Where no row goes, no suspect is emptied and no process starts, and owners and
\* statuses stay, Emptied does too.
LEMMA EmptiedStays ==
  ASSUME Emptied, UNCHANGED executions, up' \subseteq up, hidden \subseteq hidden',
         \A d \in Nodes : GivenUp(d)' => GivenUp(d) \/ d \in hidden'
  PROVE  Emptied'
BY DEF Emptied, executions

\* Who takes an execution is alive.
LEMMA EmptiedAcquire ==
  ASSUME IInv, Emptied, NEW n \in Nodes, SetOwner(n) \/ SetOwnerUnheard(n)
  PROVE  Emptied'
<1>1. /\ n \in up /\ owner' = [owner EXCEPT ![trying[n]] = n]
      /\ UNCHANGED <<up, beat, hidden, emptied, status, revived>>
  BY DEF SetOwner, SetOwnerUnheard, nodes, takeover
<1> QED
  BY <1>1 DEF Emptied, GivenUp, IInv, TypeOK

\* A run that writes the status of an execution whose owner is dead was deposed.
LEMMA EmptiedWrite ==
  ASSUME IInv, DriversUp, Emptied, NEW r \in Runs,
         RunStep(r) \/ Fail(r) \/ \E d \in {"approved", "rejected"} : Respond(r, d)
  PROVE  Emptied'
<1>1. UNCHANGED <<up, beat, hidden, emptied, owner>>
  BY DEF RunStep, OwnStep, Enlist, Load, Enter, Finish, Await, Resume, ResumeUnmarked, Refuse,
         Release, Fail, Respond, At,
         nodes, executions, takeover
<1>2. CASE UNCHANGED <<status, revived>>
  BY <1>1, <1>2, EmptiedStays DEF executions, GivenUp
<1>3. CASE run[r].at \in Driving /\ \E to \in {"running", "waiting_approval", "done"} : Write(r, to)
  <2>1. run[r].node \in up /\ run[r].exec \in Execs
    BY <1>3 DEF DriversUp, IInv, Placed, Driving, Executing
  <2>2. run[r].deposed \/ owner[run[r].exec] = run[r].node
    BY <1>3, <2>1 DEF IInv, DriverOwns, Drives
  <2> SUFFICES ASSUME NEW d \in Nodes, GivenUp(d)', d \notin hidden'
               PROVE  /\ d \notin up'
                      /\ \A e \in Execs \ Gated :
                            owner'[e] = d => status'[e] = "done" \/ e \in revived'
    BY DEF Emptied
  <2>3. /\ d \notin up
        /\ \A e \in Execs \ Gated : owner[e] = d => status[e] = "done" \/ e \in revived
    BY <1>1 DEF Emptied, GivenUp
  <2>4. ASSUME NEW e \in Execs \ Gated, owner[e] = d
        PROVE  status'[e] = "done" \/ e \in revived'
    <3>1. CASE e # run[r].exec
      BY <1>3, <2>3, <2>4, <3>1 DEF Write, IInv, TypeOK
    <3>2. CASE e = run[r].exec
      <4>1. run[r].deposed
        BY <2>1, <2>2, <2>3, <2>4, <3>2
      <4> QED
        BY <1>3, <2>1, <2>3, <2>4, <3>2, <4>1 DEF Write, IInv, TypeOK
    <3> QED
      BY <3>1, <3>2
  <2> QED
    BY <1>1, <2>3, <2>4
<1> QED
  BY <1>2, <1>3, RunWrites

\* A takeover leaves a dead suspect nothing that is still to be done.
LEMMA EmptiedTakeOver ==
  ASSUME IInv, Ungated, Emptied, NEW n \in Nodes, NEW d \in Nodes, TakeOver(n, d)
  PROVE  Emptied'
<1> DEFINE Lost == {e \in Execs : owner[e] = d /\ status[e] \in {"running", "queued"}}
<1>1. /\ owner' = [e \in Execs |-> IF e \in Lost THEN None ELSE owner[e]]
      /\ status' = [e \in Execs |-> IF e \in Lost THEN "queued" ELSE status[e]]
      /\ emptied' = [emptied EXCEPT ![n] = d]
      /\ hidden' = hidden \cup (up \cap {d})
      /\ UNCHANGED <<up, beat, revived>>
  BY DEF TakeOver, Requeue
<1>2. \A e \in Execs \ Gated : owner[e] = d /\ e \notin Lost => status[e] = "done"
  BY DEF Ungated, IInv, TypeOK
<1>3. \A x \in Nodes : x # d /\ GivenUp(x)' => GivenUp(x)
  BY <1>1 DEF GivenUp, IInv, TypeOK
<1> HIDE DEF Lost
<1>4. \A e \in Execs, x \in Nodes : owner'[e] = x =>
         owner[e] = x /\ e \notin Lost /\ status'[e] = status[e]
  BY <1>1, SchedulerAssumption
<1> QED
  BY <1>1, <1>2, <1>3, <1>4 DEF Emptied

\* Every step keeps what a takeover has reached.
LEMMA EmptiedStep == IInv /\ LossInv /\ [Next]_vars => Emptied'
<1> SUFFICES ASSUME IInv, DriversUp, Ungated, Emptied, [Next]_vars PROVE Emptied'
  BY DEF LossInv
<1>1. TypeOK
  BY DEF IInv
<1>2. CASE UNCHANGED <<up, beat, hidden, emptied, executions>>
  BY <1>2, EmptiedStays DEF GivenUp
<1>3. ASSUME NEW n \in Nodes,
             \/ SelectWork(n) \/ TryLock(n) \/ GiveUp(n) \/ FindDead(n)
             \/ \E d \in Nodes : TakeOverFails(n, d)
      PROVE  UNCHANGED <<up, beat, hidden, emptied, executions>>
  BY <1>3 DEF SelectWork, TryLock, GiveUp, FindDead, TakeOverFails, nodes, takeover
<1>4. ASSUME NEW n \in Nodes, Heartbeat(n) \/ Lapse(n) PROVE Emptied'
  <2>1. /\ UNCHANGED <<up, hidden, emptied, executions>>
        /\ beat' = [beat EXCEPT ![n] = "fresh"] \/ beat' = [beat EXCEPT ![n] = "late"]
    BY <1>4 DEF Heartbeat, Lapse, takeover
  <2>2. \A d \in Nodes : beat'[d] = "none" => beat[d] = "none"
    BY <1>1, <2>1 DEF TypeOK
  <2>3. \A d \in Nodes : GivenUp(d)' => GivenUp(d)
    BY <2>1, <2>2 DEF GivenUp
  <2> QED
    BY <2>1, <2>3, EmptiedStays
<1>5. ASSUME NEW n \in Nodes, DeleteNode(n) PROVE Emptied'
  <2>1. /\ UNCHANGED <<up, executions>>
        /\ beat' = [beat EXCEPT ![emptied[n]] = "none"]
        /\ emptied' = [emptied EXCEPT ![n] = None]
        /\ hidden \subseteq hidden' /\ emptied[n] # None
    BY <1>5 DEF DeleteNode
  <2>2. \A d \in Nodes : beat'[d] = "none" => beat[d] = "none" \/ emptied[n] = d
    BY <1>1, <2>1 DEF TypeOK
  <2>3. \A m, d \in Nodes : emptied'[m] = d => emptied[m] = d
    BY <1>1, <2>1, SchedulerAssumption DEF TypeOK
  <2>4. \A d \in Nodes : GivenUp(d)' => GivenUp(d)
    BY <2>2, <2>3 DEF GivenUp
  <2> QED
    BY <2>1, <2>4, EmptiedStays
<1>11. ASSUME NEW n \in Nodes, KeepNode(n) PROVE Emptied'
  <2>1. UNCHANGED <<up, beat, hidden, executions>> /\ emptied' = [emptied EXCEPT ![n] = None]
    BY <1>11 DEF KeepNode
  <2>2. \A d \in Nodes : GivenUp(d)' => GivenUp(d)
    BY <1>1, <2>1, SchedulerAssumption DEF GivenUp, TypeOK
  <2> QED
    BY <2>1, <2>2, EmptiedStays
<1>6. ASSUME NEW n \in Nodes, Crash(n) \/ Stop(n) PROVE Emptied'
  <2>1. /\ UNCHANGED executions
        /\ up' = up \ {n} /\ emptied' = [emptied EXCEPT ![n] = None]
        /\ \/ UNCHANGED <<beat, hidden>>
           \/ beat' = [beat EXCEPT ![n] = "none"] /\ hidden' = hidden \cup {n}
    BY <1>6 DEF Crash, Stop, Exit
  <2>2. \A d \in Nodes : GivenUp(d)' => GivenUp(d) \/ d \in hidden'
    BY <1>1, <2>1, SchedulerAssumption DEF GivenUp, TypeOK
  <2> QED
    BY <2>1, <2>2, EmptiedStays
<1>7. ASSUME NEW n \in Nodes, Start(n) PROVE Emptied'
  BY <1>1, <1>7 DEF Start, Emptied, GivenUp, TypeOK, executions, takeover
<1>8. ASSUME NEW e \in Execs, Cancel(e) PROVE Emptied'
  BY <1>1, <1>8 DEF Cancel, Emptied, GivenUp, TypeOK, nodes, takeover
<1>9. ASSUME NEW e \in Execs, ExpireConn(e)
      PROVE  UNCHANGED <<up, beat, hidden, emptied, executions>>
  BY <1>9 DEF ExpireConn, nodes, takeover
<1>10. CASE Next
  BY <1>2, <1>3, <1>4, <1>5, <1>6, <1>7, <1>8, <1>9, <1>10, <1>11, EmptiedAcquire, EmptiedWrite,
     EmptiedTakeOver DEF Next, Poll, Watch
<1> QED
  BY <1>2, <1>10 DEF vars, nodes, takeover

-----------------------------------------------------------------------------
(* The map Stop cancels by *)

\* No run enters Execute, and none leaves it.
Remain == \A r \in Runs : run'[r].at \in Executing <=> run[r].at \in Executing

\* A run or an answer to its gate leaves the map alone, or puts its entry in, or
\* takes it out and drives no more.
LEMMA RunForgets ==
  ASSUME TypeOK, NEW r \in Runs,
         RunStep(r) \/ Fail(r) \/ \E d \in {"approved", "rejected"} : Respond(r, d)
  PROVE  /\ UNCHANGED <<up, hidden>>
         /\ \/ Enlist(r)
            \/ UNCHANGED running /\ Remain
            \/ /\ Forget(r) /\ run[r].at \in Driving /\ run'[r].at \notin Driving
               /\ \A q \in Runs \ {r} : run'[q] = run[q]
<1>1. UNCHANGED <<up, hidden>>
  BY DEF RunStep, OwnStep, Enlist, Load, Enter, Finish, Await, Resume, ResumeUnmarked, Refuse,
         Release, Fail, Respond, At, nodes
<1>2. CASE Enlist(r)
  BY <1>1, <1>2
<1>3. CASE Load(r)
  <2>1. CASE run'[r].at = "leaving"
    <3>1. At(r, "loading", "leaving", "none") /\ Forget(r)
      BY <1>3, <2>1, AtMoves DEF Load
    <3>2. run[r].at = "loading" /\ \A q \in Runs \ {r} : run'[q] = run[q]
      BY <3>1 DEF At, TypeOK
    <3> QED
      BY <1>1, <2>1, <3>1, <3>2 DEF Driving, Executing
  <2>2. CASE run'[r].at # "leaving"
    <3>1. UNCHANGED running /\ At(r, "loading", "entering", status[run[r].exec])
      BY <1>3, <2>2, AtMoves DEF Load
    <3> QED
      BY <1>1, <3>1, AtMoves DEF Remain, Executing
  <2> QED
    BY <2>1, <2>2
<1>4. CASE Finish(r) \/ Refuse(r)
  <2>1. /\ Forget(r) /\ run[r].at \in {"running", "waiting"} /\ run'[r].at = "leaving"
        /\ \A q \in Runs \ {r} : run'[q] = run[q]
    BY <1>4 DEF Finish, Refuse, At, TypeOK
  <2> QED
    BY <1>1, <2>1 DEF Driving, Executing
<1>5. CASE Fail(r)
  <2>1. run'[r].at = "leaving" /\ \A q \in Runs \ {r} : run'[q] = run[q]
    BY <1>5 DEF Fail, TypeOK
  <2> QED
    BY <1>1, <1>5, <2>1 DEF Fail, Driving, Executing
<1>6. CASE Enter(r) \/ Resume(r)
  BY <1>1, <1>6, AtMoves DEF Enter, Resume, Remain, Executing
<1>7. CASE Await(r)
  BY <1>1, <1>7, AwaitMoves DEF Await, Remain, Executing
<1>8. CASE Release(r)
  BY <1>1, <1>8 DEF Release, Remain, Executing, Idle, TypeOK
<1>9. CASE ResumeUnmarked(r)
  <2>1. /\ run[r].at = "waiting" /\ run'[r].at = "running" /\ UNCHANGED running
        /\ \A q \in Runs \ {r} : run'[q] = run[q]
    BY <1>9 DEF ResumeUnmarked, TypeOK
  <2> QED
    BY <1>1, <2>1 DEF Remain, Executing
<1>10. ASSUME NEW d \in {"approved", "rejected"}, Respond(r, d) PROVE UNCHANGED running /\ Remain
  <2>1. run' = [run EXCEPT ![r].gate = d] /\ UNCHANGED running
    BY <1>10 DEF Respond
  <2> QED
    BY <2>1 DEF Remain, TypeOK
<1> QED
  BY <1>1, <1>2, <1>3, <1>4, <1>5, <1>6, <1>7, <1>8, <1>9, <1>10 DEF RunStep, OwnStep

\* Where no run starts, no entry goes and no node is met anew, the invariant stays.
LEMMA MapStays ==
  ASSUME IInv, MapInv, Steady, Remain, UNCHANGED running,
         \A r \in Runs : run'[r].at \in Driving /\ run[r].node \in hidden
                            => run[r].node \in hidden'
  PROVE  MapInv'
<1>1. DeposedMet'
  BY DEF MapInv, DeposedMet, Steady
<1>2. Listed'
  BY DEF MapInv, Listed, Remain, Steady, Driving, IInv, TypeOK
<1>3. Enlisted'
  BY DEF MapInv, Enlisted, Remain, Steady, Driving
<1> QED
  BY <1>1, <1>2, <1>3 DEF MapInv

\* A new run has no entry yet.
LEMMA MapAcquire ==
  ASSUME IInv, MapInv, NEW n \in Nodes, SetOwner(n)
  PROVE  MapInv'
<1>1. PICK r \in Runs : /\ run[r] = Idle
                        /\ run' = [run EXCEPT ![r] = [Idle EXCEPT
                              !.at = "starting", !.node = n, !.exec = trying[n]]]
                        /\ UNCHANGED <<running, hidden>>
  BY DEF SetOwner, nodes
<1>2. run[r].at = "free" /\ run'[r].at = "starting" /\ run'[r].deposed = FALSE
  BY <1>1 DEF IInv, TypeOK, Idle
<1>3. \A q \in Runs \ {r} : run'[q] = run[q]
  BY <1>1 DEF IInv, TypeOK
<1>4. DeposedMet'
  BY <1>1, <1>2, <1>3 DEF MapInv, DeposedMet
<1>5. Listed'
  BY <1>1, <1>2, <1>3 DEF MapInv, Listed, Executing, IInv, TypeOK
<1>6. Enlisted'
  BY <1>1, <1>2, <1>3 DEF MapInv, Enlisted, Executing
<1> QED
  BY <1>4, <1>5, <1>6 DEF MapInv

\* Its entry overwrites that of none but a deposed run.
LEMMA MapEnlist ==
  ASSUME IInv, MapInv, NEW r \in Runs, Enlist(r)
  PROVE  MapInv'
<1> DEFINE n == run[r].node  e == run[r].exec
<1>1. n \in Nodes /\ e \in Execs /\ run[r] \in RunRecord
  BY DEF Enlist, IInv, Placed, TypeOK, RunRecord
<1>2. /\ run[r].at = "starting" /\ run'[r].at = "loading"
      /\ run'[r].node = n /\ run'[r].exec = e /\ run'[r].deposed = run[r].deposed
  BY <1>1 DEF Enlist, IInv, TypeOK, RunRecord
<1>3. \A q \in Runs \ {r} : run'[q] = run[q]
  BY DEF Enlist, IInv, TypeOK
<1>4. \A m \in Nodes, x \in Execs :
         running'[m][x] = IF m = n /\ x = e THEN r ELSE running[m][x]
  BY <1>1 DEF Enlist, IInv, TypeOK
<1>5. UNCHANGED hidden
  BY DEF Enlist, nodes
<1>6. DeposedMet'
  BY <1>2, <1>3, <1>5 DEF MapInv, DeposedMet, Driving
<1>7. Listed'
  <2> SUFFICES ASSUME NEW m \in Nodes, NEW x \in Execs, running'[m][x] # None
               PROVE  /\ run'[running'[m][x]].at \in Executing
                      /\ run'[running'[m][x]].node = m /\ run'[running'[m][x]].exec = x
    BY DEF Listed
  <2>1. CASE m = n /\ x = e
    BY <1>2, <1>4, <2>1 DEF Executing
  <2>2. CASE ~(m = n /\ x = e)
    <3>1. running'[m][x] = running[m][x] /\ running[m][x] \in Runs
      BY <1>4, <2>2 DEF IInv, TypeOK
    <3>2. /\ run[running[m][x]].at \in Executing
          /\ run[running[m][x]].node = m /\ run[running[m][x]].exec = x
      BY <3>1 DEF MapInv, Listed
    <3> QED
      BY <1>2, <1>3, <2>2, <3>1, <3>2
  <2> QED
    BY <2>1, <2>2
<1>8. Enlisted'
  <2> SUFFICES ASSUME NEW q \in Runs \ {r}, run[q].at \in Executing, run[q].node \notin hidden
               PROVE  running'[run[q].node][run[q].exec] = q
    BY <1>1, <1>2, <1>3, <1>4, <1>5 DEF Enlisted
  <2>1. /\ Drives(q, run[q].exec) /\ ~run[q].deposed
        /\ run[q].node \in Nodes /\ run[q].exec \in Execs
    BY DEF Drives, Driving, Executing, MapInv, DeposedMet, IInv, Placed
  <2>2. ~(run[q].node = n /\ run[q].exec = e)
    <3> SUFFICES ASSUME run[q].node = n, run[q].exec = e PROVE FALSE
      OBVIOUS
    <3>1. Drives(r, e) /\ ~run[r].deposed
      BY <1>2 DEF Drives, Driving, MapInv, DeposedMet
    <3> QED
      BY <1>1, <2>1, <3>1 DEF IInv, SoleDriver
  <2>3. running[run[q].node][run[q].exec] = q
    BY DEF MapInv, Enlisted
  <2> QED
    BY <1>4, <2>1, <2>2, <2>3
<1> QED
  BY <1>6, <1>7, <1>8 DEF MapInv

\* A run that ends takes out its own entry, or that of a run on a node a takeover met.
LEMMA MapForget ==
  ASSUME IInv, MapInv, NEW r \in Runs, Forget(r), run[r].at \in Driving,
         run'[r].at \notin Driving, \A q \in Runs \ {r} : run'[q] = run[q],
         UNCHANGED hidden
  PROVE  MapInv'
<1> DEFINE n == run[r].node  e == run[r].exec
<1>1. n \in Nodes /\ e \in Execs
  BY DEF IInv, Placed, Driving, Executing
<1>2. \A m \in Nodes, x \in Execs :
         running'[m][x] = IF m = n /\ x = e THEN None ELSE running[m][x]
  BY <1>1 DEF Forget, IInv, TypeOK
<1>3. DeposedMet'
  BY DEF MapInv, DeposedMet
<1>4. Listed'
  <2> SUFFICES ASSUME NEW m \in Nodes, NEW x \in Execs, running'[m][x] # None
               PROVE  /\ run'[running'[m][x]].at \in Executing
                      /\ run'[running'[m][x]].node = m /\ run'[running'[m][x]].exec = x
    BY DEF Listed
  <2>1. running'[m][x] = running[m][x] /\ running[m][x] \in Runs /\ ~(m = n /\ x = e)
    BY <1>2 DEF IInv, TypeOK
  <2>2. /\ run[running[m][x]].at \in Executing
        /\ run[running[m][x]].node = m /\ run[running[m][x]].exec = x
    BY <2>1 DEF MapInv, Listed
  <2> QED
    BY <2>1, <2>2
<1>5. Enlisted'
  <2> SUFFICES ASSUME NEW q \in Runs \ {r}, run[q].at \in Executing, run[q].node \notin hidden
               PROVE  running'[run[q].node][run[q].exec] = q
    BY DEF Enlisted, Driving
  <2>1. /\ Drives(q, run[q].exec) /\ ~run[q].deposed
        /\ run[q].node \in Nodes /\ run[q].exec \in Execs
    BY DEF Drives, Driving, Executing, MapInv, DeposedMet, IInv, Placed
  <2>2. ~(run[q].node = n /\ run[q].exec = e)
    <3> SUFFICES ASSUME run[q].node = n, run[q].exec = e PROVE FALSE
      OBVIOUS
    <3>1. Drives(r, e) /\ ~run[r].deposed
      BY DEF Drives, MapInv, DeposedMet
    <3> QED
      BY <1>1, <2>1, <3>1 DEF IInv, SoleDriver
  <2>3. running[run[q].node][run[q].exec] = q
    BY DEF MapInv, Enlisted
  <2> QED
    BY <1>2, <2>1, <2>2, <2>3
<1> QED
  BY <1>3, <1>4, <1>5 DEF MapInv

\* A takeover that deposes a run which goes on has met its node.
LEMMA MapTakeOver ==
  ASSUME IInv, DriversUp, MapInv, NEW n \in Nodes, NEW d \in Nodes, TakeOver(n, d)
  PROVE  MapInv'
<1>1. PICK Lost \in SUBSET Execs : Requeue(n, d, Lost)
  BY DEF TakeOver
<1>2. hidden' = hidden \cup (up \cap {d}) /\ UNCHANGED running
  BY <1>1 DEF Requeue
<1>3. \A r \in Runs :
         /\ run'[r].at = run[r].at /\ run'[r].node = run[r].node
         /\ run'[r].exec = run[r].exec
         /\ run'[r].deposed => run[r].deposed \/ run[r].node = d
  <2> SUFFICES ASSUME NEW r \in Runs
               PROVE  /\ run'[r].at = run[r].at /\ run'[r].node = run[r].node
                      /\ run'[r].exec = run[r].exec
                      /\ run'[r].deposed => run[r].deposed \/ run[r].node = d
    OBVIOUS
  <2>1. run[r] \in RunRecord
    BY DEF IInv, TypeOK, RunRecord
  <2> QED
    BY <1>1, <2>1 DEF Requeue, RunRecord
<1>4. DeposedMet'
  BY <1>2, <1>3 DEF MapInv, DeposedMet, DriversUp
<1>5. Listed'
  BY <1>2, <1>3 DEF MapInv, Listed, IInv, TypeOK
<1>6. Enlisted'
  BY <1>2, <1>3 DEF MapInv, Enlisted
<1> QED
  BY <1>4, <1>5, <1>6 DEF MapInv

\* A process that ends takes its part of the map along.
LEMMA MapExit ==
  ASSUME IInv, MapInv, NEW n \in Nodes, Exit(n), hidden \subseteq hidden'
  PROVE  MapInv'
<1>1. \A r \in Runs : run[r].node = n => run'[r].at \notin Driving
  <2> SUFFICES ASSUME NEW r \in Runs, run[r].node = n PROVE run'[r].at \notin Driving
    OBVIOUS
  <2>1. run[r] \in RunRecord
    BY DEF IInv, TypeOK, RunRecord
  <2> QED
    BY <2>1 DEF Exit, RunRecord, Driving, Executing, Idle
<1>2. \A r \in Runs : run[r].node # n => run'[r] = run[r]
  BY DEF Exit
<1>3. \A r \in Runs : run'[r].at \in Driving => run'[r] = run[r] /\ run[r].node # n
  BY <1>1, <1>2
<1>4. \A m \in Nodes, e \in Execs :
         running'[m][e] = IF m = n THEN None ELSE running[m][e]
  BY DEF Exit, IInv, TypeOK
<1>5. DeposedMet'
  BY <1>3 DEF MapInv, DeposedMet
<1>6. Listed'
  BY <1>2, <1>4 DEF MapInv, Listed, IInv, TypeOK
<1>7. Enlisted'
  <2>1. \A r \in Runs : run[r].at \in Driving => run[r].node \in Nodes /\ run[r].exec \in Execs
    BY DEF IInv, Placed, Driving, Executing
  <2> QED
    BY <1>3, <1>4, <2>1 DEF MapInv, Enlisted, Driving
<1> QED
  BY <1>5, <1>6, <1>7 DEF MapInv

\* Every step keeps the map.
LEMMA MapStep == IInv /\ DriversUp /\ MapInv /\ [Next]_vars => MapInv'
<1> SUFFICES ASSUME IInv, DriversUp, MapInv, [Next]_vars PROVE MapInv'
  OBVIOUS
<1>1. TypeOK
  BY DEF IInv
<1>2. CASE UNCHANGED <<run, running, hidden>>
  BY <1>2 DEF MapInv, DeposedMet, Listed, Enlisted
<1>3. ASSUME NEW r \in Runs,
             RunStep(r) \/ Fail(r) \/ \E d \in {"approved", "rejected"} : Respond(r, d)
      PROVE  MapInv'
  <2>1. Steady
    BY <1>1, <1>3, RunSteady
  <2>2. UNCHANGED hidden
    BY <1>1, <1>3, RunForgets
  <2>3. CASE UNCHANGED running /\ Remain
    BY <2>1, <2>2, <2>3, MapStays
  <2>4. CASE /\ Forget(r) /\ run[r].at \in Driving /\ run'[r].at \notin Driving
             /\ \A q \in Runs \ {r} : run'[q] = run[q]
    BY <2>2, <2>4, MapForget
  <2>5. CASE Enlist(r)
    BY <2>5, MapEnlist
  <2> QED
    BY <1>1, <1>3, <2>3, <2>4, <2>5, RunForgets
<1>4. ASSUME NEW n \in Nodes,
             \/ SelectWork(n) \/ TryLock(n) \/ GiveUp(n) \/ SetOwnerUnheard(n)
             \/ FindDead(n) \/ DeleteNode(n) \/ KeepNode(n)
             \/ Heartbeat(n) \/ Lapse(n) \/ \E d \in Nodes : TakeOverFails(n, d)
      PROVE  MapInv'
  <2>1. UNCHANGED <<run, running>> /\ hidden \subseteq hidden'
    BY <1>4 DEF SelectWork, TryLock, GiveUp, SetOwnerUnheard, FindDead, DeleteNode, KeepNode,
                Heartbeat, Lapse, TakeOverFails, nodes
  <2>2. Steady /\ Remain
    BY <2>1 DEF Steady, Remain
  <2> QED
    BY <2>1, <2>2, MapStays
<1>5. ASSUME NEW n \in Nodes, Start(n) PROVE MapInv'
  <2>2. UNCHANGED <<run, running>> /\ n \notin up /\ hidden \ {n} \subseteq hidden'
    BY <1>5 DEF Start
  <2>1. Steady /\ Remain
    BY <2>2 DEF Steady, Remain
  <2>3. \A r \in Runs : run'[r].at \in Driving => run[r].node # n
    BY <2>2 DEF DriversUp
  <2> QED
    BY <2>1, <2>2, <2>3, MapStays
<1>6. ASSUME NEW n \in Nodes, Crash(n) \/ Stop(n) PROVE MapInv'
  <2>1. Exit(n) /\ hidden \subseteq hidden'
    BY <1>6 DEF Crash, Stop
  <2> QED
    BY <2>1, MapExit
<1>7. ASSUME NEW e \in Execs, Cancel(e) \/ ExpireConn(e)
      PROVE  UNCHANGED <<run, running, hidden>>
  BY <1>7 DEF Cancel, ExpireConn, nodes
<1>8. CASE Next
  BY <1>3, <1>4, <1>5, <1>6, <1>2, <1>7, <1>8, MapAcquire, MapTakeOver DEF Next, Poll, Watch
<1> QED
  BY <1>2, <1>8 DEF vars, nodes

\* While a run is between the UPDATE and its own insertion the map has no entry
\* for its execution: it would be another run that counts.
LEMMA MapShows == IInv /\ MapInv => Stoppable
<1> SUFFICES ASSUME IInv, MapInv, NEW r \in Runs, NEW e \in Execs, Drives(r, e),
                    run[r].node \notin hidden
             PROVE  running[run[r].node][e] = IF run[r].at = "starting" THEN None ELSE r
  BY DEF Stoppable
<1> DEFINE q == running[run[r].node][e]
<1>1. run[r].node \in Nodes /\ run[r].exec = e /\ ~run[r].deposed
  BY DEF Drives, Driving, Executing, IInv, Placed, MapInv, DeposedMet
<1>2. CASE run[r].at = "starting"
  <2> SUFFICES ASSUME q # None PROVE FALSE
    BY <1>2
  <2>1. q \in Runs
    BY <1>1 DEF IInv, TypeOK
  <2>2. run[q].at \in Executing /\ run[q].node = run[r].node /\ run[q].exec = e
    BY <1>1 DEF MapInv, Listed
  <2>3. Drives(q, e) /\ ~run[q].deposed
    BY <2>1, <2>2 DEF Drives, Driving, MapInv, DeposedMet
  <2>4. q = r
    BY <1>1, <2>1, <2>3 DEF IInv, SoleDriver
  <2> QED
    BY <1>2, <2>2, <2>4 DEF Executing
<1>3. CASE run[r].at # "starting"
  BY <1>1, <1>3 DEF Drives, Driving, MapInv, Enlisted
<1> QED
  BY <1>2, <1>3

-----------------------------------------------------------------------------
(* Before the first fault *)

\* Nothing but a fault stops a process, delays a heartbeat or ends a run early, and
\* faults are counted.
LEMMA FaultsCount == TypeOK /\ [Next]_vars => faults' = faults \/ faults' > 0
<1> SUFFICES ASSUME TypeOK, [Next]_vars, faults' # faults PROVE faults' > 0
  OBVIOUS
<1>1. faults \in Nat
  BY SchedulerAssumption DEF TypeOK
<1>2. faults' = faults + 1
  <2>1. ASSUME NEW n \in Nodes, Poll(n) PROVE faults' = faults + 1
    BY <2>1 DEF Poll, SelectWork, TryLock, SetOwner, SetOwnerUnheard, GiveUp, Fault, nodes
  <2>2. ASSUME NEW n \in Nodes, Watch(n) PROVE faults' = faults + 1
    BY <2>2 DEF Watch, FindDead, DeleteNode, KeepNode, TakeOver, TakeOverFails, Requeue, Fault,
                nodes
  <2>3. ASSUME NEW n \in Nodes, Heartbeat(n) \/ Lapse(n)
             \/ Crash(n) \/ Stop(n) \/ Start(n)
        PROVE  faults' = faults + 1
    BY <2>3 DEF Heartbeat, Lapse, Crash, Stop, Start, Exit, Fault
  <2>4. ASSUME NEW r \in Runs, RunStep(r) PROVE faults' = faults + 1
    BY <2>4 DEF RunStep, OwnStep, Enlist, Load, Enter, Finish, Await, Resume, ResumeUnmarked,
                Refuse, Release,
                At, Fault, nodes
  <2>5. ASSUME NEW r \in Runs, Fail(r) \/ \E d \in {"approved", "rejected"} : Respond(r, d)
        PROVE  faults' = faults + 1
    BY <2>5 DEF Fail, Respond, Fault, nodes
  <2>6. ASSUME NEW e \in Execs, Cancel(e) \/ ExpireConn(e) PROVE faults' = faults + 1
    BY <2>6 DEF Cancel, ExpireConn, nodes
  <2> QED
    BY <2>1, <2>2, <2>3, <2>4, <2>5, <2>6 DEF Next, vars, nodes
<1> QED
  BY <1>1, <1>2

\* Where only a run moves, to a place it may remember what it does, and ends only
\* when its execution is done, nothing is lost.
LEMMA CalmMove ==
  ASSUME IInv, Trusted, Kept, NEW r \in Runs, run[r].at \in Driving,
         UNCHANGED <<up, beat, suspects, emptied, owner>>,
         \A q \in Runs :
            /\ run'[q].node = run[q].node /\ run'[q].exec = run[q].exec
            /\ run'[q].deposed = run[q].deposed
            /\ q # r => run'[q].at = run[q].at /\ run'[q].mem = run[q].mem,
         run'[r].at = "running" => run'[r].mem = "running",
         run'[r].at = "waiting" => run'[r].mem = "waiting_approval",
         NEW s, status' = [status EXCEPT ![run[r].exec] = s],
         run'[r].at \in {"starting", "loading"} => s \in {"queued", "done"},
         run'[r].at \in Driving \/ s = "done"
  PROVE  Trusted' /\ Kept'
<1> DEFINE e == run[r].exec
<1>1. Drives(r, e) /\ e \in Execs /\ run[r].node \in Nodes /\ ~run[r].deposed
  BY DEF Drives, IInv, Placed, Driving, Executing, Trusted
<1>2. owner[e] = run[r].node /\ owner[e] # None
  BY <1>1, SchedulerAssumption DEF IInv, DriverOwns
<1>3. \A x \in Execs : status'[x] = IF x = e THEN s ELSE status[x]
  BY DEF IInv, TypeOK
<1>4. run'[r].exec = e
  OBVIOUS
<1> HIDE DEF e
<1>5. \A q \in Runs \ {r} : run[q].at \in Driving => run[q].exec \in Execs \ {e}
  BY <1>1 DEF IInv, SoleDriver, Placed, Drives, Driving, Executing, Trusted
<1>6. Trusted'
  <2>1. \A q \in Runs :
           run'[q].at \in {"starting", "loading"} => status'[run'[q].exec] \in {"queued", "done"}
    <3> SUFFICES ASSUME NEW q \in Runs \ {r}, run[q].at \in {"starting", "loading"}
                 PROVE  status'[run[q].exec] \in {"queued", "done"}
      BY <1>1, <1>3, <1>4
    <3> QED
      BY <1>3, <1>5 DEF Trusted, Driving, Executing
  <2>2. /\ up = Nodes
        /\ \A n \in Nodes : beat[n] = "fresh" /\ suspects[n] = {} /\ emptied[n] = None
    BY DEF Trusted
  <2>3. \A q \in Runs :
          /\ ~run'[q].deposed
          /\ run'[q].at = "running" => run'[q].mem = "running"
          /\ run'[q].at = "waiting" => run'[q].mem = "waiting_approval"
    BY DEF Trusted
  <2> QED
    BY <2>1, <2>2, <2>3 DEF Trusted
<1>7. Kept'
  <2> SUFFICES ASSUME NEW x \in Execs
               PROVE  IF owner[x] = None THEN status'[x] \in {"queued", "done"}
                      ELSE status'[x] = "done" \/ \E q \in Runs : Drives(q, x)'
    BY DEF Kept
  <2>1. CASE x = e
    BY <1>2, <1>3, <1>4, <2>1 DEF Drives
  <2>2. CASE x # e
    <3>1. status'[x] = status[x]
      BY <1>3, <2>2
    <3>2. \A q \in Runs : Drives(q, x) => q # r /\ Drives(q, x)'
      BY <2>2 DEF Drives, e
    <3> QED
      BY <3>1, <3>2 DEF Kept
  <2> QED
    BY <2>1, <2>2
<1> QED
  BY <1>6, <1>7

\* The steps of a run.
LEMMA CalmRun ==
  ASSUME IInv, Trusted, Kept, NEW r \in Runs, RunStep(r), UNCHANGED faults
  PROVE  Trusted' /\ Kept'
<1>1. TypeOK /\ faults \in Nat /\ run[r] \in RunRecord
  BY SchedulerAssumption DEF IInv, TypeOK, RunRecord
<1>2. UNCHANGED <<up, beat, suspects, emptied, owner>>
  BY DEF RunStep, OwnStep, Enlist, Load, Enter, Finish, Await, Resume, ResumeUnmarked, Refuse,
         Release, At,
         nodes, executions, takeover
<1>3. ASSUME run[r].at # "free" PROVE run[r].exec \in Execs
  BY <1>3 DEF IInv, Placed
<1>4. ASSUME NEW from \in Driving, NEW to \in Points, NEW mem \in Memories, At(r, from, to, mem)
      PROVE  /\ run[r].at = from /\ run'[r].at = to /\ run'[r].mem = mem
             /\ \A q \in Runs :
                  /\ run'[q].node = run[q].node /\ run'[q].exec = run[q].exec
                  /\ run'[q].deposed = run[q].deposed
                  /\ q # r => run'[q].at = run[q].at /\ run'[q].mem = run[q].mem
  <2>1. run[r].at = from /\ run' = [run EXCEPT ![r].at = to, ![r].mem = mem]
    BY <1>4 DEF At
  <2>2. \A q \in Runs : q # r => run'[q] = run[q]
    BY <2>1 DEF IInv, TypeOK
  <2>3. run'[r] = [run[r] EXCEPT !.at = to, !.mem = mem]
    BY <2>1 DEF IInv, TypeOK
  <2>4. /\ run'[r].at = to /\ run'[r].mem = mem
        /\ run'[r].node = run[r].node /\ run'[r].exec = run[r].exec
        /\ run'[r].deposed = run[r].deposed
    BY <1>1, <2>3 DEF RunRecord
  <2> QED
    BY <2>1, <2>2, <2>4
<1>5. CASE Load(r)
  <2> DEFINE read == status[run[r].exec]
  <2>1. run[r].at = "loading" /\ read \in {"queued", "done"}
    BY <1>5 DEF Load, At, Trusted
  <2>2. UNCHANGED status
    BY <1>5 DEF Load
  <2>3. status' = [status EXCEPT ![run[r].exec] = read]
    BY <1>1, <2>2 DEF TypeOK
  <2>4. CASE read = "queued"
    <3>1. At(r, "loading", "entering", "queued")
      BY <1>5, <2>4 DEF Load
    <3>2. /\ run'[r].at = "entering"
          /\ \A q \in Runs :
               /\ run'[q].node = run[q].node /\ run'[q].exec = run[q].exec
               /\ run'[q].deposed = run[q].deposed
               /\ q # r => run'[q].at = run[q].at /\ run'[q].mem = run[q].mem
      BY <1>4, <3>1 DEF Driving, Executing, Points, Memories
    <3> HIDE DEF read
    <3> QED
      BY <1>2, <2>1, <2>3, <3>2, CalmMove DEF Driving, Executing
  <2>5. CASE read = "done"
    <3>1. At(r, "loading", "leaving", "none")
      BY <1>5, <2>5 DEF Load
    <3>2. /\ run'[r].at = "leaving"
          /\ \A q \in Runs :
               /\ run'[q].node = run[q].node /\ run'[q].exec = run[q].exec
               /\ run'[q].deposed = run[q].deposed
               /\ q # r => run'[q].at = run[q].at /\ run'[q].mem = run[q].mem
      BY <1>4, <3>1 DEF Driving, Executing, Points, Memories
    <3> HIDE DEF read
    <3> QED
      BY <1>2, <2>1, <2>3, <2>5, <3>2, CalmMove DEF Driving, Executing
  <2> QED
    BY <2>1, <2>4, <2>5
<1>6. ASSUME NEW from \in Driving, NEW to \in Points, NEW mem \in Memories, NEW s,
             At(r, from, to, mem), Write(r, s),
             \/ to = "running" /\ mem = "running"
             \/ to = "leaving" /\ s = "done"
      PROVE  Trusted' /\ Kept'
  <2>1. status' = [status EXCEPT ![run[r].exec] = s]
    BY <1>6 DEF Write
  <2>2. /\ run[r].at = from /\ run'[r].at = to /\ run'[r].mem = mem
        /\ \A q \in Runs :
             /\ run'[q].node = run[q].node /\ run'[q].exec = run[q].exec
             /\ run'[q].deposed = run[q].deposed
             /\ q # r => run'[q].at = run[q].at /\ run'[q].mem = run[q].mem
    BY <1>4, <1>6
  <2> QED
    BY <1>2, <1>6, <2>1, <2>2, CalmMove DEF Driving, Executing
<1>7. CASE Enter(r)
  BY <1>6, <1>7 DEF Enter, Driving, Executing, Points, Memories
<1>8. CASE Finish(r)
  <2>1. At(r, "running", "leaving", "none") /\ Write(r, "done")
    BY <1>8 DEF Finish, At, Trusted
  <2> QED
    BY <1>6, <2>1 DEF Driving, Executing, Points, Memories
<1>9. CASE Resume(r)
  BY <1>6, <1>9 DEF Resume, Driving, Executing, Points, Memories
<1>10. CASE Refuse(r)
  BY <1>6, <1>10 DEF Refuse, Driving, Executing, Points, Memories
<1>14. CASE Enlist(r)
  <2> DEFINE read == status[run[r].exec]
  <2>1. run[r].at = "starting" /\ read \in {"queued", "done"} /\ UNCHANGED status
    BY <1>14 DEF Enlist, Trusted, executions
  <2>2. status' = [status EXCEPT ![run[r].exec] = read]
    BY <1>1, <2>1 DEF TypeOK
  <2>3. \A q \in Runs : q # r => run'[q] = run[q]
    BY <1>14 DEF Enlist, IInv, TypeOK
  <2>4. /\ run'[r].at = "loading" /\ run'[r].node = run[r].node
        /\ run'[r].exec = run[r].exec /\ run'[r].deposed = run[r].deposed
    BY <1>1, <1>14 DEF Enlist, IInv, TypeOK, RunRecord
  <2> HIDE DEF read
  <2> QED
    BY <1>2, <2>1, <2>2, <2>3, <2>4, CalmMove DEF Driving, Executing
<1>11. CASE Await(r)
  <2>1. /\ run[r].at = "running" /\ run[r].mem = "running"
        /\ run' = [run EXCEPT ![r].at = "waiting", ![r].gate = "pending",
                              ![r].mem = "waiting_approval"]
        /\ Write(r, "waiting_approval")
    BY <1>1, <1>11 DEF Await, Trusted, Fault
  <2>2. /\ \A q \in Runs : q # r => run'[q] = run[q]
        /\ run'[r] = [run[r] EXCEPT !.at = "waiting", !.gate = "pending",
                                    !.mem = "waiting_approval"]
    BY <1>1, <2>1 DEF TypeOK
  <2>3. /\ run'[r].at = "waiting" /\ run'[r].mem = "waiting_approval"
        /\ \A q \in Runs :
             /\ run'[q].node = run[q].node /\ run'[q].exec = run[q].exec
             /\ run'[q].deposed = run[q].deposed
             /\ q # r => run'[q].at = run[q].at /\ run'[q].mem = run[q].mem
    <3>1. /\ run'[r].at = "waiting" /\ run'[r].mem = "waiting_approval"
          /\ run'[r].node = run[r].node /\ run'[r].exec = run[r].exec
          /\ run'[r].deposed = run[r].deposed
      BY <1>1, <2>2 DEF RunRecord
    <3> QED
      BY <2>2, <3>1
  <2>4. status' = [status EXCEPT ![run[r].exec] = "waiting_approval"]
    BY <2>1 DEF Write
  <2> QED
    BY <1>2, <2>1, <2>3, <2>4, CalmMove DEF Driving, Executing
<1>12. CASE ResumeUnmarked(r)
  BY <1>1, <1>12 DEF ResumeUnmarked, Trusted, Fault
<1>13. CASE Release(r)
  <2>1. /\ run[r].at = "leaving" /\ run' = [run EXCEPT ![r] = Idle] /\ UNCHANGED status
    BY <1>13 DEF Release, executions
  <2>2. \A q \in Runs : q # r => run'[q] = run[q]
    BY <1>1, <2>1 DEF TypeOK
  <2>3. run'[r].at = "free" /\ run'[r].deposed = FALSE
    BY <1>1, <2>1 DEF TypeOK, Idle
  <2>4. Trusted'
    BY <1>2, <2>1, <2>2, <2>3 DEF Trusted
  <2>5. \A q \in Runs, e \in Execs : Drives(q, e) => Drives(q, e)'
    BY <2>1, <2>2 DEF Drives, Driving, Executing
  <2> QED
    BY <1>2, <2>1, <2>4, <2>5 DEF Kept
<1> QED
  BY <1>5, <1>7, <1>8, <1>9, <1>10, <1>11, <1>12, <1>13, <1>14 DEF RunStep, OwnStep

\* Taking an execution: it was nobody's, so queued or done.
LEMMA CalmAcquire ==
  ASSUME IInv, Trusted, Kept, NEW n \in Nodes, SetOwner(n)
  PROVE  Trusted' /\ Kept'
<1>1. PICK r \in Runs : /\ owner[trying[n]] \in {None, n}
                        /\ run[r] = Idle
                        /\ run' = [run EXCEPT ![r] = [Idle EXCEPT
                              !.at = "starting", !.node = n, !.exec = trying[n]]]
  BY DEF SetOwner
<1>2. /\ UNCHANGED <<up, beat, suspects, emptied, status>>
      /\ owner' = [owner EXCEPT ![trying[n]] = n]
  BY DEF SetOwner, nodes, takeover
<1>3. trying[n] \in Execs /\ owner[trying[n]] = None
  BY <1>1 DEF SetOwner, IInv, TypeOK, Unowned
<1>4. run'[r] = [at |-> "starting", node |-> n, exec |-> trying[n],
                 mem |-> "none", gate |-> "none", deposed |-> FALSE]
  BY <1>1 DEF IInv, TypeOK, Idle
<1>5. \A q \in Runs \ {r} : run'[q] = run[q]
  BY <1>1 DEF IInv, TypeOK
<1>6. status[trying[n]] \in {"queued", "done"}
  BY <1>3 DEF Kept
<1>7. run'[r].at = "starting" /\ run'[r].exec = trying[n] /\ run'[r].deposed = FALSE
  BY <1>4
<1>8. Trusted'
  BY <1>2, <1>5, <1>6, <1>7 DEF Trusted
<1>9. \A e \in Execs : owner'[e] = IF e = trying[n] THEN n ELSE owner[e]
  BY <1>2, <1>3 DEF IInv, TypeOK
<1>10. \A q \in Runs, e \in Execs : Drives(q, e) => Drives(q, e)'
  <2>1. run[r].at = "free"
    BY <1>1 DEF Idle
  <2> QED
    BY <1>5, <2>1 DEF Drives, Driving, Executing
<1>11. \A e \in Execs : e = trying[n] => Drives(r, e)'
  BY <1>7 DEF Drives, Driving, Executing
<1>12. Kept'
  <2> SUFFICES ASSUME NEW e \in Execs
               PROVE  IF owner'[e] = None THEN status[e] \in {"queued", "done"}
                      ELSE status[e] = "done" \/ \E q \in Runs : Drives(q, e)'
    BY <1>2 DEF Kept
  <2>1. CASE e = trying[n]
    BY <1>9, <1>11, <2>1, SchedulerAssumption
  <2>2. CASE e # trying[n]
    BY <1>9, <1>10, <2>2 DEF Kept
  <2> QED
    BY <2>1, <2>2
<1> QED
  BY <1>8, <1>12

\* What else can happen before a fault, and that a fault ends it.
LEMMA CalmStep == IInv /\ Calm /\ [Next]_vars => Calm'
<1> SUFFICES ASSUME IInv, Calm, [Next]_vars, faults' = 0 PROVE Trusted' /\ Kept'
  BY DEF Calm
<1>1. TypeOK /\ faults = 0
  BY FaultsCount DEF IInv
<1>2. Trusted /\ Kept
  BY <1>1 DEF Calm
<1>3. ~Fault
  BY <1>1 DEF Fault
<1>4. ASSUME UNCHANGED <<up, beat, suspects, emptied, owner, status>>,
             \A r \in Runs :
                /\ run'[r].at = run[r].at /\ run'[r].exec = run[r].exec
                /\ run'[r].mem = run[r].mem /\ run'[r].deposed = run[r].deposed
      PROVE  Trusted' /\ Kept'
  <2>1. Trusted'
    BY <1>2, <1>4 DEF Trusted, IInv, Placed
  <2>2. \A r \in Runs, e \in Execs : Drives(r, e) => Drives(r, e)'
    BY <1>4 DEF Drives
  <2>3. Kept'
    BY <1>2, <1>4, <2>2 DEF Kept
  <2> QED
    BY <2>1, <2>3
<1>15. ASSUME NEW n \in Nodes, SetOwnerUnheard(n) PROVE FALSE
  BY <1>3, <1>15 DEF SetOwnerUnheard
<1>5. ASSUME NEW n \in Nodes, SelectWork(n) \/ TryLock(n) \/ GiveUp(n) PROVE Trusted' /\ Kept'
  <2>1. UNCHANGED <<up, beat, suspects, emptied, owner, status, run>>
    BY <1>5 DEF SelectWork, TryLock, GiveUp, nodes, executions, takeover
  <2> QED
    BY <1>4, <2>1
<1>6. ASSUME NEW n \in Nodes, FindDead(n) PROVE Trusted' /\ Kept'
  <2>1. /\ suspects' = [suspects EXCEPT ![n] = {d \in Nodes \ {n} : beat[d] = "late"}]
        /\ UNCHANGED <<up, beat, emptied, owner, status, run>>
    BY <1>6 DEF FindDead, nodes, executions
  <2>2. {d \in Nodes \ {n} : beat[d] = "late"} = {}
    BY <1>2 DEF Trusted
  <2>3. suspects' = suspects
    BY <1>1, <1>2, <2>1, <2>2 DEF Trusted, TypeOK
  <2> QED
    BY <1>4, <2>1, <2>3
<1>7. ASSUME NEW n \in Nodes,
             \/ DeleteNode(n) \/ KeepNode(n) \/ Heartbeat(n) \/ Lapse(n)
             \/ Crash(n) \/ Stop(n) \/ Start(n)
             \/ \E d \in Nodes : TakeOver(n, d) \/ TakeOverFails(n, d)
      PROVE  FALSE
  BY <1>2, <1>3, <1>7 DEF Trusted, DeleteNode, KeepNode, Heartbeat, Lapse, Crash, Stop, Exit,
                          Start,
                          TakeOver, Requeue, TakeOverFails
<1>8. ASSUME NEW r \in Runs, NEW d \in {"approved", "rejected"}, Respond(r, d)
      PROVE  Trusted' /\ Kept'
  <2>1. /\ UNCHANGED <<up, beat, suspects, emptied, owner, status>>
        /\ run' = [run EXCEPT ![r].gate = d]
    BY <1>8 DEF Respond, nodes, executions, takeover
  <2>2. \A q \in Runs :
           /\ run'[q].at = run[q].at /\ run'[q].exec = run[q].exec
           /\ run'[q].mem = run[q].mem /\ run'[q].deposed = run[q].deposed
    BY <1>1, <2>1 DEF TypeOK
  <2> QED
    BY <1>4, <2>1, <2>2
<1>9. ASSUME NEW e \in Execs, Cancel(e) PROVE Trusted' /\ Kept'
  <2>1. /\ UNCHANGED <<up, beat, suspects, emptied, owner, run>>
        /\ \A x \in Execs : status'[x] = status[x] \/ status'[x] = "done"
    BY <1>1, <1>9 DEF Cancel, TypeOK, nodes, takeover
  <2>2. Trusted'
    BY <1>2, <2>1 DEF Trusted, IInv, Placed
  <2>3. Kept'
    BY <1>2, <2>1 DEF Kept, Drives
  <2> QED
    BY <2>2, <2>3
<1>10. ASSUME NEW e \in Execs, ExpireConn(e) PROVE Trusted' /\ Kept'
  <2>1. UNCHANGED <<up, beat, suspects, emptied, owner, status, run>>
    BY <1>10 DEF ExpireConn, nodes, executions, takeover
  <2> QED
    BY <1>4, <2>1
<1>11. CASE UNCHANGED vars
  <2>1. UNCHANGED <<up, beat, suspects, emptied, owner, status, run>>
    BY <1>11 DEF vars, nodes, executions, takeover
  <2> QED
    BY <1>4, <2>1
<1>12. ASSUME NEW r \in Runs, RunStep(r) PROVE Trusted' /\ Kept'
  BY <1>1, <1>2, <1>12, CalmRun
<1>13. ASSUME NEW r \in Runs, Fail(r) PROVE FALSE
  BY <1>3, <1>13 DEF Fail
<1>14. CASE Next
  BY <1>2, <1>5, <1>6, <1>7, <1>8, <1>9, <1>10, <1>12, <1>13, <1>14, <1>15, CalmAcquire
     DEF Next, Poll, Watch
<1> QED
  BY <1>11, <1>14

-----------------------------------------------------------------------------
\* What is left to a takeover, or lost, at any time: the invariant that makes
\* Abandoned complete.
THEOREM LossInductive == Spec => []LossInv
<1>1. Init => LossInv
  BY SchedulerAssumption
     DEF Init, LossInv, DriversUp, Ungated, Emptied, GivenUp, Driving, Executing, Idle
<1>2. IInv /\ LossInv /\ [Next]_vars => LossInv'
  BY DriversUpStep, UngatedStep, EmptiedStep DEF LossInv
<1> QED
  BY <1>1, <1>2, Inductive, PTL DEF Spec

\* Until a takeover meets a node alive, Stop reaches every run on it that has come
\* to its insertion into the map, and the entry of a run that has not is nobody's
\* (scheduler.go:79-86, 352-371).
THEOREM StopReaches == Spec => []Stoppable
<1>1. Init => MapInv
  BY DEF Init, MapInv, DeposedMet, Listed, Enlisted, Driving, Executing, Idle
<1> QED
  BY <1>1, MapStep, MapShows, Inductive, LossInductive, PTL DEF Spec, LossInv

\* Before the first fault everybody is up and trusted, a run remembers what it
\* wrote, and an execution somebody owns is done or driven.
THEOREM CalmInductive == Spec => []Calm
<1>1. Init => Calm
  <2> SUFFICES ASSUME Init PROVE Trusted /\ Kept
    BY DEF Calm
  <2>1. \A r \in Runs : run[r].at = "free" /\ run[r].deposed = FALSE
    BY DEF Init, Idle
  <2> QED
    BY <2>1 DEF Init, Trusted, Kept
<1> QED
  BY <1>1, CalmStep, Inductive, PTL DEF Spec

\* Without a fault no execution is lost, gates included: it is done, driven, or
\* offered to every poll (pollForWork and runExecution, scheduler.go:220-247, 331-380).
THEOREM NothingLostYet ==
  Spec => [](faults = 0 => \A e \in Execs : \/ status[e] = "done" \/ e \in Available
                                            \/ \E r \in Runs : Drives(r, e))
<1>1. Calm => (faults = 0 => \A e \in Execs : \/ status[e] = "done" \/ e \in Available
                                              \/ \E r \in Runs : Drives(r, e))
  BY DEF Calm, Kept, Available
<1> QED
  BY <1>1, CalmInductive, PTL

\* Whatever nodes crash, stop, come back or take over, an execution without an
\* approval is done, driven, offered to every poll, left to a takeover that will
\* find its owner's row, or lost, after a fault, in one of the ways Abandoned lists.
THEOREM NoOtherLoss == Spec => []OnlyAbandoned
<1>1. IInv /\ LossInv /\ Calm => OnlyAbandoned
  <2> SUFFICES ASSUME IInv, LossInv, Calm, NEW e \in Execs \ Gated, status[e] # "done",
                      ~\E r \in Runs : Drives(r, e), e \notin Available, ~Reclaimable(e)
               PROVE  Abandoned(e)
    BY DEF OnlyAbandoned
  <2>0. faults > 0
    BY SchedulerAssumption DEF Calm, Kept, Available, IInv, TypeOK
  <2>1. status[e] \in {"queued", "running"}
    BY DEF IInv, TypeOK, LossInv, Ungated
  <2>2. CASE owner[e] = None
    BY <2>0, <2>2 DEF Abandoned, Available
  <2>3. CASE owner[e] \in up
    BY <2>0, <2>3 DEF Abandoned
  <2>4. CASE owner[e] \in Nodes \ up
    <3>1. beat[owner[e]] = "none"
      BY <2>1, <2>4 DEF Reclaimable
    <3>2. owner[e] \in hidden \/ e \in revived
      BY <2>4, <3>1 DEF LossInv, Emptied, GivenUp
    <3> QED
      BY <2>0, <2>4, <3>1, <3>2, SchedulerAssumption DEF Abandoned
  <2> QED
    BY <2>2, <2>3, <2>4 DEF IInv, TypeOK
<1> QED
  BY <1>1, LossInductive, CalmInductive, Inductive, PTL
=============================================================================
