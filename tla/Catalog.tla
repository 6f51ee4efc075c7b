------------------------------ MODULE Catalog -------------------------------
(***************************************************************************)
(* Workflows, their versions, and what starts executions of them: the      *)
(* handlers of internal/api/handler/workflow.go, execution.go and (cron)   *)
(* common.go, and the cron loop of internal/engine/scheduler.go, within    *)
(* one tenant.                                                             *)
(*                                                                         *)
(* A request is one call of a handler, or one trigger of a schedule; each  *)
(* of its SQL statements is an action, none is in a transaction with       *)
(* another, and the request may be cut off between any two.  A row is      *)
(* named by the request that inserts it (the handlers draw UUIDs).         *)
(***************************************************************************)
EXTENDS Naturals, FiniteSets

CONSTANTS
  Workflows,
  Requests,   \* bound: the calls and triggers of a behaviour
  Keys,       \* idempotency keys
  Empty,      \* the idempotency_key "" of a request that gave none
  Null        \* NULL

ASSUME CatalogAssumption ==
  /\ Empty \notin Keys
  /\ Null \notin Keys \cup {Empty} \cup Requests \cup Workflows

VARIABLES
  phase,       \* each workflow: not created, live or deleted
  active,      \* workflows.active_version_id
  versions,    \* workflow_versions
  executions,
  cron,        \* the workflow's schedule: none, off (disabled) or on
  req,         \* the requests
  during,      \* history: the versions active since a request began
  slot         \* history: whether the schedule's expression came due again

catalog == <<phase, active, versions>>
vars == <<catalog, executions, cron, req, during, slot>>

Fresh == [at |-> "free", kind |-> "none", wf |-> Null, key |-> Null,
          number |-> 0, version |-> Null, result |-> "none", id |-> Null]

Init ==
  /\ phase = [w \in Workflows |-> "none"]
  /\ active = [w \in Workflows |-> Null]
  /\ versions = {}
  /\ executions = {}
  /\ cron = [w \in Workflows |-> "none"]
  /\ req = [r \in Requests |-> Fresh]
  /\ during = [r \in Requests |-> {}]
  /\ slot = [w \in Workflows |-> "due"]

Live(w) == phase[w] = "live"

\* The request's next state; a first statement also says what it asks for.
Step(r, to) == req' = [req EXCEPT ![r] = to]
Ends(r, result) == Step(r, [req[r] EXCEPT !.at = "done", !.result = result])

Asks(r, kind, w) == [Fresh EXCEPT !.kind = kind, !.wf = w]
Answer(q, result) == [q EXCEPT !.at = "done", !.result = result]
Found(q, at, v) == [q EXCEPT !.at = at, !.version = v]

\* A first statement: history starts with the version that is active.
Opens(r, w) ==
  /\ req[r] = Fresh
  /\ during' = [during EXCEPT ![r] = {active[w]}]

\* The UPDATE of active_version_id; without the workflow it hits no row and is
\* no error.
SetActive(w, v) ==
  IF Live(w)
  THEN /\ active' = [active EXCEPT ![w] = v]
       /\ during' = [q \in Requests |->
             IF req[q].wf = w /\ req[q].at # "done" THEN during[q] \cup {v} ELSE during[q]]
  ELSE UNCHANGED <<active, during>>

-----------------------------------------------------------------------------
(* Workflows *)

Create(w) ==
  /\ phase[w] = "none"
  /\ phase' = [phase EXCEPT ![w] = "live"]
  /\ UNCHANGED <<active, versions, executions, cron, req, during, slot>>

\* Versions, executions and schedules go with the workflow (ON DELETE CASCADE).
Delete(w) ==
  /\ Live(w)
  /\ phase' = [phase EXCEPT ![w] = "deleted"]
  /\ active' = [active EXCEPT ![w] = Null]
  /\ versions' = {v \in versions : v.wf # w}
  /\ executions' = {e \in executions : e.wf # w}
  /\ cron' = [cron EXCEPT ![w] = "none"]
  /\ UNCHANGED <<req, during, slot>>

Numbers(w) == {v.number : v \in {x \in versions : x.wf = w}}

\* The source was parsed and validated (module Dag).
PublishBegin(r, w) ==
  /\ Opens(r, w)
  /\ Step(r, IF Live(w) THEN [Asks(r, "publish", w) EXCEPT !.at = "max"]
                        ELSE Answer(Asks(r, "publish", w), "missing"))
  /\ UNCHANGED <<catalog, executions, cron, slot>>

\* Mutant: the number read is taken as it is.
PublishReadMax(r) ==
  /\ req[r].at = "max"
  /\ \E n \in {0} \cup Numbers(req[r].wf) :
       /\ n = 0 \/ \A m \in Numbers(req[r].wf) : m <= n
       /\ Step(r, [req[r] EXCEPT !.at = "insert", !.number = n])
  /\ UNCHANGED <<catalog, executions, cron, during, slot>>

\* MAX(version) + 1, or 1 when the SELECT fails: its error is dropped.
PublishRead(r) ==
  /\ req[r].at = "max"
  /\ \E n \in {0} \cup Numbers(req[r].wf) :
       /\ n = 0 \/ \A m \in Numbers(req[r].wf) : m <= n
       /\ Step(r, [req[r] EXCEPT !.at = "insert", !.number = n + 1])
  /\ UNCHANGED <<catalog, executions, cron, during, slot>>

\* Mutant: the schema without UNIQUE (workflow_id, version).
PublishInsertAnyway(r) ==
  /\ req[r].at = "insert"
  /\ IF Live(req[r].wf)
     THEN /\ versions' = versions \cup {[id |-> r, wf |-> req[r].wf, number |-> req[r].number]}
          /\ Step(r, [req[r] EXCEPT !.at = "activate"]) \/ Ends(r, "failed")
     ELSE UNCHANGED versions /\ Ends(r, "failed")
  /\ UNCHANGED <<phase, active, executions, cron, during, slot>>

\* UNIQUE (workflow_id, version) and the reference to the workflow decide; the
\* INSERT may be made and its answer lost.
PublishInsert(r) ==
  /\ req[r].at = "insert"
  /\ IF Live(req[r].wf) /\ req[r].number \notin Numbers(req[r].wf)
     THEN /\ versions' = versions \cup {[id |-> r, wf |-> req[r].wf, number |-> req[r].number]}
          /\ Step(r, [req[r] EXCEPT !.at = "activate"]) \/ Ends(r, "failed")
     ELSE UNCHANGED versions /\ Ends(r, "failed")
  /\ UNCHANGED <<phase, active, executions, cron, during, slot>>

PublishActivate(r) ==
  /\ req[r].at = "activate"
  /\ SetActive(req[r].wf, r)
  /\ Ends(r, "ok") \/ Ends(r, "failed")
  /\ UNCHANGED <<phase, versions, executions, cron, slot>>

\* Mutant: the version is looked up by its number alone.
RollbackFindAny(r, w, n) ==
  /\ Opens(r, w)
  /\ \/ \E v \in versions :
          /\ v.number = n
          /\ Step(r, Found(Asks(r, "rollback", w), "set", v.id))
     \/ n \notin Numbers(w) /\ Step(r, Answer(Asks(r, "rollback", w), "missing"))
  /\ UNCHANGED <<catalog, executions, cron, slot>>

RollbackFind(r, w, n) ==
  /\ Opens(r, w)
  /\ \/ \E v \in versions :
          /\ v.wf = w /\ v.number = n
          /\ Step(r, Found(Asks(r, "rollback", w), "set", v.id))
     \/ n \notin Numbers(w) /\ Step(r, Answer(Asks(r, "rollback", w), "missing"))
  /\ UNCHANGED <<catalog, executions, cron, slot>>

RollbackSet(r) ==
  /\ req[r].at = "set"
  /\ SetActive(req[r].wf, req[r].version)
  /\ Ends(r, "ok") \/ Ends(r, "failed")
  /\ UNCHANGED <<phase, versions, executions, cron, slot>>

-----------------------------------------------------------------------------
(* Executions *)

\* The look for the key, which a request without one leaves out; a SELECT that
\* fails counts as nothing found.
StartLookup(r, w, k) ==
  /\ Opens(r, w)
  /\ LET q == [Asks(r, "start", w) EXCEPT !.key = k] IN
     \/ Step(r, [q EXCEPT !.at = "active"])
     \/ \E e \in executions :
          /\ k # Empty /\ e.key = k
          /\ Step(r, [Answer(q, "ok") EXCEPT !.id = e.id])
  /\ UNCHANGED <<catalog, executions, cron, slot>>

\* Mutant: the newest version instead of the active one.
ReadNewest(r) ==
  /\ req[r].at = "active"
  /\ \/ \E v \in versions :
          /\ v.wf = req[r].wf /\ \A n \in Numbers(req[r].wf) : n <= v.number
          /\ Step(r, Found(req[r], "start", v.id))
     \/ active[req[r].wf] = Null /\ Ends(r, "missing")
  /\ UNCHANGED <<catalog, executions, cron, during, slot>>

\* The active version; a trigger scans the NULL and gives up as well.
ReadActive(r) ==
  /\ req[r].at = "active"
  /\ IF active[req[r].wf] # Null
     THEN Step(r, Found(req[r], "start", active[req[r].wf]))
     ELSE Ends(r, "missing")
  /\ UNCHANGED <<catalog, executions, cron, during, slot>>

RetryRead(r, e) ==
  /\ e \in executions
  /\ Opens(r, e.wf)
  /\ Step(r, Found(Asks(r, "retry", e.wf), "start", e.version))
  /\ UNCHANGED <<catalog, executions, cron, slot>>

Row(r) == [id |-> r, wf |-> req[r].wf, version |-> req[r].version,
           key |-> req[r].key, kind |-> req[r].kind]

Taken(k) == k # Null /\ \E e \in executions : e.key = k

\* Mutant: the schema without UNIQUE (tenant_id, idempotency_key).
InsertExecutionAnyway(r) ==
  /\ req[r].at = "start"
  /\ \/ /\ Live(req[r].wf)
        /\ executions' = executions \cup {Row(r)}
        /\ \/ Step(r, [Answer(req[r], "ok") EXCEPT !.id = r])
           \/ Ends(r, "failed")
     \/ ~Live(req[r].wf) /\ Ends(r, "failed") /\ UNCHANGED executions
  /\ UNCHANGED <<catalog, cron, during, slot>>

\* The INSERT of Start, Retry and a trigger: UNIQUE (tenant_id, idempotency_key)
\* knows the empty key and not NULL, and the references need the workflow.
InsertExecution(r) ==
  /\ req[r].at = "start"
  /\ \/ /\ Live(req[r].wf) /\ ~Taken(req[r].key)
        /\ executions' = executions \cup {Row(r)}
        /\ \/ Step(r, [Answer(req[r], "ok") EXCEPT !.id = r])
           \/ Ends(r, "failed")
     \/ Taken(req[r].key) /\ Ends(r, "conflict") /\ UNCHANGED executions
     \/ ~Live(req[r].wf) /\ Ends(r, "failed") /\ UNCHANGED executions
  /\ UNCHANGED <<catalog, cron, during, slot>>

\* Get scans the key into a string, which NULL is not.
Get(r, e) ==
  /\ e \in executions
  /\ Opens(r, e.wf)
  /\ Step(r, [Answer(Asks(r, "get", e.wf), IF e.key = Null THEN "missing" ELSE "ok")
                EXCEPT !.id = e.id])
  /\ UNCHANGED <<catalog, executions, cron, slot>>

-----------------------------------------------------------------------------
(* Schedules *)

\* CreateCronSchedule and UpdateCronSchedule.
SetCron(w, to) ==
  /\ Live(w) /\ cron[w] # to
  /\ cron' = [cron EXCEPT ![w] = to]
  /\ slot' = [slot EXCEPT ![w] = IF cron[w] = "none" THEN "due" ELSE @]
  /\ UNCHANGED <<catalog, executions, req, during>>

DeleteCron(w) ==
  /\ cron[w] # "none"
  /\ cron' = [cron EXCEPT ![w] = "none"]
  /\ UNCHANGED <<catalog, executions, req, during, slot>>

\* processCronSchedules on some node: next_run_at was set to now() when the
\* schedule was made, and no statement ever moves it.
CronTick(r, w) ==
  /\ cron[w] = "on"
  /\ Opens(r, w)
  /\ Step(r, [Asks(r, "cron", w) EXCEPT !.at = "active"])
  /\ slot' = [slot EXCEPT ![w] = "served"]
  /\ UNCHANGED <<catalog, executions, cron>>

\* Time: the next moment the expression names.
ComesDue(w) ==
  /\ slot[w] = "served"
  /\ slot' = [slot EXCEPT ![w] = "due"]
  /\ UNCHANGED <<catalog, executions, cron, req, during>>

\* The client is gone, the statement fails or the process ends.
Abandon(r) ==
  /\ req[r].at \notin {"free", "done"}
  /\ Ends(r, "failed")
  /\ UNCHANGED <<catalog, executions, cron, during, slot>>

Publish(r) == PublishRead(r) \/ PublishInsert(r) \/ PublishActivate(r)

Begin(r, w) ==
  \/ PublishBegin(r, w) \/ CronTick(r, w)
  \/ \E n \in 1 .. Cardinality(Requests) : RollbackFind(r, w, n)
  \/ \E k \in Keys \cup {Empty} : StartLookup(r, w, k)

Next ==
  \/ \E r \in Requests, w \in Workflows : Begin(r, w)
  \/ \E r \in Requests : Publish(r) \/ RollbackSet(r) \/ ReadActive(r)
                         \/ InsertExecution(r) \/ Abandon(r)
                         \/ \E e \in executions : RetryRead(r, e) \/ Get(r, e)
  \/ \E w \in Workflows : Create(w) \/ Delete(w) \/ DeleteCron(w) \/ ComesDue(w)
                          \/ \E to \in {"on", "off"} : SetCron(w, to)

Spec == Init /\ [][Next]_vars
-----------------------------------------------------------------------------
(* What must hold *)

Ids == Requests \cup {Null}

Request == [at : {"free", "max", "insert", "activate", "set", "active", "start", "done"},
            kind : {"none", "publish", "rollback", "start", "retry", "cron", "get"},
            wf : Workflows \cup {Null},
            key : Keys \cup {Empty, Null},
            number : Nat,
            version : Ids,
            result : {"none", "ok", "missing", "failed", "conflict"},
            id : Ids]

TypeOK ==
  /\ phase \in [Workflows -> {"none", "live", "deleted"}]
  /\ active \in [Workflows -> Ids]
  /\ versions \subseteq [id : Requests, wf : Workflows, number : Nat \ {0}]
  /\ executions \subseteq [id : Requests, wf : Workflows, version : Requests,
                           key : Keys \cup {Empty, Null}, kind : {"start", "retry", "cron"}]
  /\ cron \in [Workflows -> {"none", "off", "on"}]
  /\ req \in [Requests -> Request]
  /\ during \in [Requests -> SUBSET Ids]
  /\ slot \in [Workflows -> {"due", "served"}]

\* The versions of a workflow are numbered 1, 2, 3 ... without a gap and without
\* a double, however publications race and wherever they are cut off
\* (workflow.go:249-279).
VersionsDense ==
  /\ \A u, v \in versions : u.wf = v.wf /\ u.number = v.number => u = v
  /\ \A v \in versions : \A n \in 1 .. v.number : n \in Numbers(v.wf)

HasVersion(w, v) == \E x \in versions : x.id = v /\ x.wf = w

\* A workflow is active in one of its own versions and its executions are of its
\* own versions, whatever is rolled back or deleted between two statements.
OwnVersions ==
  /\ \A w \in Workflows : active[w] # Null => HasVersion(w, active[w])
  /\ \A e \in executions : HasVersion(e.wf, e.version)

\* Two requests answered for one idempotency key name the same execution, as long
\* as both executions exist: the UNIQUE and not the look before it decides
\* (execution.go:142-179).
AnswersAgree ==
  \A r, q \in Requests :
     /\ {r, q} \subseteq {x \in Requests : req[x].kind = "start" /\ req[x].result = "ok"}
     /\ req[r].key = req[q].key /\ req[r].key \in Keys
     /\ {req[r].id, req[q].id} \subseteq {e.id : e \in executions}
     => req[r].id = req[q].id

\* An execution started by the API or by a schedule is of a version that was
\* active at some moment of its request, whatever is published or rolled back
\* between the read and the INSERT.
StartedActive ==
  \A e \in executions : e.kind \in {"start", "cron"} => e.version \in during[e.id]

\* The versions of each workflow as a log, and what is filed with them.
Log == [w \in Workflows |-> [n \in Numbers(w) |->
          (CHOOSE v \in versions : v.wf = w /\ v.number = n).id]]

Arc == INSTANCE Archive WITH
  Versions <- Requests,
  Rows     <- [id : Requests, wf : Workflows, version : Requests,
               key : Keys \cup {Empty, Null}, kind : {"start", "retry", "cron"}],
  log      <- Log,
  head     <- active,
  book     <- executions,
  gone     <- {w \in Workflows : phase[w] = "deleted"}

\* The statements of the handlers, interleaved and cut off anywhere, implement
\* Archive: no publication changes a version that is there or files one out of its
\* turn, no roll-back reaches into another workflow, and an execution keeps the
\* version and the key it was inserted with (workflow.go:249-342, execution.go:158-186).
KeepsArchive == Arc!Spec

-----------------------------------------------------------------------------
(* The inductive invariant of CatalogProofs, in parts *)

\* What refers to a workflow goes with it.
Rooted ==
  /\ \A v \in versions : Live(v.wf)
  /\ \A e \in executions : Live(e.wf)

\* Under way: between its first statement and its answer.
UnderWay(r) == req[r].at \notin {"free", "done"}

\* What a request read is still true when it uses it, or its workflow is gone.
ReadsHold(r) ==
  LET w == req[r].wf IN
    /\ UnderWay(r) => w \in Workflows
    /\ req[r].at \in {"max", "insert", "activate", "set", "start"} => phase[w] # "none"
    /\ req[r].at = "insert" =>
         /\ req[r].number # 0
         /\ Live(w) => \A n \in 1 .. req[r].number - 1 : n \in Numbers(w)
    /\ req[r].at = "activate" /\ Live(w) => HasVersion(w, r)
    /\ req[r].at \in {"set", "start"} =>
         req[r].version # Null /\ (Live(w) => HasVersion(w, req[r].version))
    /\ UnderWay(r) =>
         (req[r].at \in {"active", "start"} <=> req[r].kind \in {"start", "retry", "cron"})

AllReadsHold == \A r \in Requests : ReadsHold(r)

\* A key is of one execution, and an answer names one of its key.
Keyed ==
  /\ \A e, f \in executions : e.id = f.id \/ (e.key = f.key /\ e.key # Null) => e = f
  /\ \A e \in executions : req[e.id].at = "done"
  /\ \A r \in Requests : req[r].id # Null => req[req[r].id].at = "done"
  /\ \A r \in Requests : req[r].kind = "start" /\ req[r].result = "ok" =>
       /\ req[r].at = "done"
       /\ \A e \in executions : e.id = req[r].id => e.key = req[r].key

\* History has seen what is active, and what was read.
Seen ==
  \A r \in Requests :
    /\ UnderWay(r) /\ active[req[r].wf] # Null => active[req[r].wf] \in during[r]
    /\ req[r].at = "start" /\ req[r].kind \in {"start", "cron"} => req[r].version \in during[r]

IInv == /\ TypeOK /\ Rooted /\ AllReadsHold /\ Keyed /\ Seen
        /\ VersionsDense /\ OwnVersions /\ StartedActive

\* A version's row is there only after its request made it, which happens once.
Stamped ==
  /\ \A v \in versions : req[v.id].at \in {"activate", "done"}
  /\ \A u, v \in versions : u.id = v.id => u = v

\* The numbers of a workflow's versions are those of a sequence.
Filled == \A w \in Workflows : \E k \in Nat : Numbers(w) = 1 .. k

FileInv == Stamped /\ Filled
=============================================================================
