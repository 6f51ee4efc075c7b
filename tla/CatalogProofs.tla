--------------------------- MODULE CatalogProofs ----------------------------
(***************************************************************************)
(* Proofs that versions stay dense, references stay within their workflow, *)
(* answers to one idempotency key agree, executions start on versions that *)
(* were active, and Catalog implements Archive, for any number of requests *)
(* cut off anywhere.                                                       *)
(***************************************************************************)
EXTENDS Catalog, SequenceTheorems, TLAPS

\* What a request asks, field by field.
LEMMA AsksFields ==
  ASSUME NEW r, NEW kind \in {"publish", "rollback", "start", "retry", "cron", "get"},
         NEW w \in Workflows
  PROVE  /\ Asks(r, kind, w) \in Request
         /\ Asks(r, kind, w).at = "free" /\ Asks(r, kind, w).kind = kind
         /\ Asks(r, kind, w).wf = w /\ Asks(r, kind, w).key = Null
         /\ Asks(r, kind, w).number = 0 /\ Asks(r, kind, w).version = Null
         /\ Asks(r, kind, w).result = "none" /\ Asks(r, kind, w).id = Null
<1>1. Fresh \in Request
  BY DEF Fresh, Request, Ids
<1> QED
  BY <1>1 DEF Asks, Fresh, Request

\* A first statement that answers at once.
LEMMA AnswerFields ==
  ASSUME NEW q \in Request, NEW result \in {"ok", "missing"}, NEW i \in Ids
  PROVE  /\ Answer(q, result) \in Request
         /\ Answer(q, result).at = "done" /\ Answer(q, result).result = result
         /\ Answer(q, result).wf = q.wf /\ Answer(q, result).kind = q.kind
         /\ Answer(q, result).id = q.id /\ Answer(q, result).key = q.key
         /\ [Answer(q, result) EXCEPT !.id = i] \in Request
         /\ [Answer(q, result) EXCEPT !.id = i].id = i
         /\ [Answer(q, result) EXCEPT !.id = i].at = "done"
         /\ [Answer(q, result) EXCEPT !.id = i].result = result
         /\ [Answer(q, result) EXCEPT !.id = i].wf = q.wf
         /\ [Answer(q, result) EXCEPT !.id = i].kind = q.kind
         /\ [Answer(q, result) EXCEPT !.id = i].key = q.key
BY DEF Request, Answer

\* A request that goes on to another statement, with the version it read.
LEMMA GoesFields ==
  ASSUME NEW q \in Request, NEW a \in {"set", "active", "start", "activate", "max"}
  PROVE  /\ [q EXCEPT !.at = a] \in Request
         /\ [q EXCEPT !.at = a].at = a
         /\ [q EXCEPT !.at = a].wf = q.wf /\ [q EXCEPT !.at = a].kind = q.kind
         /\ [q EXCEPT !.at = a].id = q.id /\ [q EXCEPT !.at = a].key = q.key
         /\ [q EXCEPT !.at = a].result = q.result
BY DEF Request

LEMMA ReadFields ==
  ASSUME NEW q \in Request, NEW a \in {"set", "start"}, NEW v \in Ids
  PROVE  /\ Found(q, a, v) \in Request
         /\ Found(q, a, v).at = a /\ Found(q, a, v).version = v
         /\ Found(q, a, v).wf = q.wf /\ Found(q, a, v).kind = q.kind
         /\ Found(q, a, v).id = q.id /\ Found(q, a, v).result = q.result
BY DEF Request, Found

\* A step of a request leaves the others alone.
LEMMA StepReq ==
  ASSUME TypeOK, NEW r \in Requests, NEW to \in Request, Step(r, to)
  PROVE  /\ req' \in [Requests -> Request]
         /\ req'[r] = to
         /\ \A q \in Requests \ {r} : req'[q] = req[q]
BY DEF TypeOK, Step

\* The end of a request changes where it is and its result.
LEMMA EndsReq ==
  ASSUME TypeOK, NEW r \in Requests,
         NEW result \in {"ok", "missing", "failed", "conflict"}, Ends(r, result)
  PROVE  /\ req' \in [Requests -> Request]
         /\ req'[r].at = "done" /\ req'[r].result = result
         /\ req'[r].kind = req[r].kind /\ req'[r].wf = req[r].wf
         /\ req'[r].key = req[r].key /\ req'[r].id = req[r].id
         /\ \A q \in Requests \ {r} : req'[q] = req[q]
<1>1. req[r] \in Request
  BY DEF TypeOK
<1>2. [req[r] EXCEPT !.at = "done", !.result = result] \in Request
  BY <1>1 DEF Request
<1>3. Step(r, [req[r] EXCEPT !.at = "done", !.result = result])
  BY DEF Ends
<1> HIDE DEF Ends
<1>4. /\ req' \in [Requests -> Request]
      /\ req'[r] = [req[r] EXCEPT !.at = "done", !.result = result]
      /\ \A q \in Requests \ {r} : req'[q] = req[q]
  BY <1>2, <1>3, StepReq
<1> QED
  BY <1>1, <1>4 DEF Request

\* A request that answers or is cut off, and nothing else happens: the invariant
\* stays.  Its answer, if it names an execution, names one of its key.
LEMMA QuietEnd ==
  ASSUME IInv, NEW r \in Requests,
         NEW result \in {"ok", "missing", "failed", "conflict"}, Ends(r, result),
         UnderWay(r), result # "ok" \/ req[r].kind # "start",
         UNCHANGED <<catalog, executions, cron, during, slot>>
  PROVE  IInv'
<1>1. /\ req' \in [Requests -> Request]
      /\ req'[r].at = "done" /\ req'[r].result = result
      /\ req'[r].kind = req[r].kind /\ req'[r].wf = req[r].wf
      /\ req'[r].key = req[r].key /\ req'[r].id = req[r].id
      /\ \A q \in Requests \ {r} : req'[q] = req[q]
  BY EndsReq DEF IInv
<1>2. /\ UNCHANGED <<phase, active, versions, executions, cron, during, slot>>
      /\ \A w : Live(w)' <=> Live(w)
      /\ \A w : Numbers(w)' = Numbers(w)
      /\ \A w, v : HasVersion(w, v)' <=> HasVersion(w, v)
  BY DEF catalog, Live, Numbers, HasVersion
<1>3. TypeOK'
  BY <1>1, <1>2 DEF IInv, TypeOK
<1>4. Rooted' /\ VersionsDense' /\ OwnVersions' /\ StartedActive'
  BY <1>2 DEF IInv, Rooted, VersionsDense, OwnVersions, StartedActive
<1>5. AllReadsHold'
  <2> SUFFICES ASSUME NEW q \in Requests PROVE ReadsHold(q)'
    BY DEF AllReadsHold
  <2>1. CASE q = r
    BY <1>1, <2>1 DEF ReadsHold, UnderWay
  <2>2. CASE q # r
    BY <1>1, <1>2, <2>2 DEF IInv, AllReadsHold, ReadsHold, UnderWay
  <2> QED
    BY <2>1, <2>2
<1>6. Keyed'
  <2>1. \A q \in Requests : req[q].at = "done" => req'[q] = req[q]
    BY <1>1 DEF UnderWay
  <2>2. \A q \in Requests : req'[q].id = req[q].id
    BY <1>1
  <2>3. \A q \in Requests : req[q].id \in Ids
    BY DEF IInv, TypeOK, Request
  <2>4. \A e \in executions : e.id \in Requests
    BY DEF IInv, TypeOK
  <2> QED
    BY <1>1, <1>2, <2>1, <2>2, <2>3, <2>4 DEF IInv, Keyed, Ids
<1>7. Seen'
  BY <1>1, <1>2 DEF IInv, Seen, UnderWay
<1> QED
  BY <1>3, <1>4, <1>5, <1>6, <1>7 DEF IInv

\* A first statement that leaves the tables alone keeps the invariant, if what it
\* read holds and the execution it names is one of its key.
LEMMA OpenStep ==
  ASSUME IInv, NEW r \in Requests, NEW w \in Workflows, Opens(r, w),
         NEW to \in Request, Step(r, to), to.wf = w, to.at # "free",
         UNCHANGED <<catalog, executions>>,
         cron' \in [Workflows -> {"none", "off", "on"}],
         slot' \in [Workflows -> {"due", "served"}],
         ReadsHold(r)',
         to.id # Null => \E e \in executions :
            e.id = to.id /\ (to.kind = "start" => e.key = to.key),
         to.kind = "start" /\ to.result = "ok" => to.id # Null /\ to.at = "done",
         to.at = "start" => to.kind \notin {"start", "cron"}
  PROVE  IInv'
<1>1. /\ req' \in [Requests -> Request]
      /\ req'[r] = to
      /\ \A q \in Requests \ {r} : req'[q] = req[q]
  BY StepReq DEF IInv
<1>2. /\ UNCHANGED <<phase, active, versions, executions>>
      /\ \A q : Live(q)' <=> Live(q)
      /\ \A q : Numbers(q)' = Numbers(q)
      /\ \A q, v : HasVersion(q, v)' <=> HasVersion(q, v)
  BY DEF catalog, Live, Numbers, HasVersion
<1>3. req[r].at = "free" /\ req[r].id = Null /\ active[w] \in Ids
  BY DEF Opens, Fresh, IInv, TypeOK
<1>4. /\ during' \in [Requests -> SUBSET Ids]
      /\ during'[r] = {active[w]}
      /\ \A q \in Requests \ {r} : during'[q] = during[q]
  BY <1>3 DEF Opens, IInv, TypeOK
<1>5. TypeOK'
  BY <1>1, <1>2, <1>4 DEF IInv, TypeOK
<1>6. Rooted' /\ VersionsDense' /\ OwnVersions'
  BY <1>2 DEF IInv, Rooted, VersionsDense, OwnVersions
<1>7. \A e \in executions : e.id \in Requests \ {r}
  BY <1>3 DEF IInv, TypeOK, Keyed
<1>8. StartedActive'
  BY <1>2, <1>4, <1>7 DEF IInv, StartedActive
<1>9. AllReadsHold'
  BY <1>1, <1>2 DEF IInv, AllReadsHold, ReadsHold, UnderWay
<1>10. Seen'
  BY <1>1, <1>2, <1>4 DEF IInv, Seen, UnderWay
<1>11. Keyed'
  <2>1. \A q \in Requests \ {r} : req[q].id # Null => req[q].id \in Requests \ {r}
    BY <1>3 DEF IInv, Keyed, TypeOK, Request, Ids
  <2>2. \A e \in executions : req'[e.id] = req[e.id]
    BY <1>1, <1>7
  <2>3. \A q \in Requests : req'[q].id # Null => req'[req'[q].id].at = "done"
    <3> SUFFICES ASSUME NEW q \in Requests, req'[q].id # Null
                 PROVE  req'[req'[q].id].at = "done"
      OBVIOUS
    <3>1. CASE q = r
      BY <1>1, <2>2, <3>1 DEF IInv, Keyed
    <3>2. CASE q # r
      BY <1>1, <2>1, <3>2 DEF IInv, Keyed
    <3> QED
      BY <3>1, <3>2
  <2>4. \A q \in Requests : req'[q].kind = "start" /\ req'[q].result = "ok" =>
          /\ req'[q].at = "done"
          /\ \A e \in executions : e.id = req'[q].id => e.key = req'[q].key
    <3> SUFFICES ASSUME NEW q \in Requests, req'[q].kind = "start", req'[q].result = "ok"
                 PROVE  /\ req'[q].at = "done"
                        /\ \A e \in executions : e.id = req'[q].id => e.key = req'[q].key
      OBVIOUS
    <3>1. CASE q = r
      BY <1>1, <3>1 DEF IInv, Keyed
    <3>2. CASE q # r
      BY <1>1, <3>2 DEF IInv, Keyed
    <3> QED
      BY <3>1, <3>2
  <2> QED
    BY <1>2, <2>2, <2>3, <2>4 DEF IInv, Keyed
<1> QED
  BY <1>5, <1>6, <1>8, <1>9, <1>10, <1>11 DEF IInv

\* A read in the middle of a request, likewise.
LEMMA MidStep ==
  ASSUME IInv, NEW r \in Requests, UnderWay(r), NEW to \in Request, Step(r, to),
         to.at \notin {"free", "done"}, to.kind = req[r].kind, to.wf = req[r].wf,
         to.id = req[r].id, to.result = req[r].result,
         UNCHANGED <<catalog, executions, cron, during, slot>>,
         ReadsHold(r)',
         to.at = "start" /\ to.kind \in {"start", "cron"} => to.version \in during[r]
  PROVE  IInv'
<1>1. /\ req' \in [Requests -> Request]
      /\ req'[r] = to
      /\ \A q \in Requests \ {r} : req'[q] = req[q]
  BY StepReq DEF IInv
<1>2. /\ UNCHANGED <<phase, active, versions, executions, cron, during, slot>>
      /\ \A q : Live(q)' <=> Live(q)
      /\ \A q : Numbers(q)' = Numbers(q)
      /\ \A q, v : HasVersion(q, v)' <=> HasVersion(q, v)
  BY DEF catalog, Live, Numbers, HasVersion
<1>3. TypeOK'
  BY <1>1, <1>2 DEF IInv, TypeOK
<1>4. Rooted' /\ VersionsDense' /\ OwnVersions' /\ StartedActive'
  BY <1>2 DEF IInv, Rooted, VersionsDense, OwnVersions, StartedActive
<1>5. AllReadsHold'
  BY <1>1, <1>2 DEF IInv, AllReadsHold, ReadsHold, UnderWay
<1>6. Seen'
  BY <1>1, <1>2 DEF IInv, Seen, UnderWay
<1>7. Keyed'
  <2>1. \A q \in Requests : req[q].at = "done" => q # r /\ req'[q] = req[q]
    BY <1>1 DEF UnderWay
  <2>2. \A q \in Requests : req'[q].id = req[q].id
    BY <1>1
  <2>3. \A q \in Requests : req[q].id \in Ids
    BY DEF IInv, TypeOK, Request
  <2>4. \A e \in executions : e.id \in Requests
    BY DEF IInv, TypeOK
  <2>5. ~(req[r].kind = "start" /\ req[r].result = "ok")
    BY DEF IInv, Keyed, UnderWay
  <2> QED
    BY <1>1, <1>2, <2>1, <2>2, <2>3, <2>4, <2>5 DEF IInv, Keyed, Ids
<1> QED
  BY <1>3, <1>4, <1>5, <1>6, <1>7 DEF IInv

-----------------------------------------------------------------------------
\* Publications and roll-backs begin by a read.
LEMMA PublishBeginStep ==
  ASSUME IInv, NEW r \in Requests, NEW w \in Workflows, PublishBegin(r, w)
  PROVE  IInv'
<1> DEFINE q == Asks(r, "publish", w)
<1> DEFINE to == IF Live(w) THEN [q EXCEPT !.at = "max"] ELSE Answer(q, "missing")
<1>1. /\ to \in Request /\ to.at \in {"max", "done"} /\ to.wf = w /\ to.kind = "publish"
      /\ to.id = Null /\ (to.at = "max" => Live(w))
  <2>1. q \in Request /\ q.wf = w /\ q.kind = "publish" /\ q.id = Null
    BY AsksFields
  <2> HIDE DEF q
  <2>2. CASE Live(w)
    BY <2>1, <2>2 DEF Request
  <2>3. CASE ~Live(w)
    <3>1. Null \in Ids
      BY DEF Ids
    <3>2. /\ Answer(q, "missing") \in Request /\ Answer(q, "missing").at = "done"
          /\ Answer(q, "missing").wf = w /\ Answer(q, "missing").kind = "publish"
          /\ Answer(q, "missing").id = Null
      BY <2>1, <3>1, AnswerFields
    <3> QED
      BY <2>3, <3>2
  <2> QED
    BY <2>2, <2>3
<1>2. Step(r, to) /\ Opens(r, w) /\ UNCHANGED <<catalog, executions, cron, slot>>
  BY DEF PublishBegin
<1> HIDE DEF to
<1>3. req'[r] = to /\ UNCHANGED phase
  BY <1>1, <1>2, StepReq DEF IInv, catalog
<1>4. ReadsHold(r)'
  BY <1>1, <1>3 DEF ReadsHold, UnderWay, Live
<1> QED
  BY <1>1, <1>2, <1>4, OpenStep DEF IInv, TypeOK

\* The number read is one above a dense set of numbers.
LEMMA PublishReadStep == ASSUME IInv, NEW r \in Requests, PublishRead(r) PROVE IInv'
<1>1. PICK n \in {0} \cup Numbers(req[r].wf) :
         /\ n = 0 \/ \A m \in Numbers(req[r].wf) : m <= n
         /\ Step(r, [req[r] EXCEPT !.at = "insert", !.number = n + 1])
  BY DEF PublishRead
<1> DEFINE to == [req[r] EXCEPT !.at = "insert", !.number = n + 1]
<1>2. req[r] \in Request /\ n \in Nat /\ req[r].at = "max"
  BY DEF PublishRead, IInv, TypeOK, Numbers
<1>3. /\ to \in Request /\ to.at = "insert" /\ to.number = n + 1
      /\ to.kind = req[r].kind /\ to.wf = req[r].wf
      /\ to.id = req[r].id /\ to.result = req[r].result
  <2>1. n + 1 \in Nat
    BY <1>2
  <2>2. ASSUME NEW q \in Request, NEW m \in Nat
        PROVE  LET t == [q EXCEPT !.at = "insert", !.number = m] IN
               /\ t \in Request /\ t.at = "insert" /\ t.number = m
               /\ t.kind = q.kind /\ t.wf = q.wf /\ t.id = q.id /\ t.result = q.result
    BY DEF Request
  <2> QED
    BY <1>2, <2>1, <2>2, ZenonT(60)
<1> HIDE DEF to
<1>4. Step(r, to) /\ UNCHANGED <<catalog, executions, cron, during, slot>>
  BY <1>1 DEF PublishRead, to
<1>5. req'[r] = to /\ UNCHANGED <<phase, versions>>
  BY <1>3, <1>4, StepReq DEF IInv, catalog
<1>6. \A m \in 1 .. n : m \in Numbers(req[r].wf)
  BY <1>1, <1>2 DEF IInv, VersionsDense, Numbers
<1>7. /\ req[r].wf \in Workflows /\ phase[req[r].wf] # "none"
      /\ req[r].kind \notin {"start", "retry", "cron"}
  BY <1>2 DEF IInv, AllReadsHold, ReadsHold, UnderWay
<1>8. ReadsHold(r)'
  <2>1. to.number # 0 /\ \A m \in 1 .. to.number - 1 : m \in Numbers(req[r].wf)'
    BY <1>2, <1>3, <1>5, <1>6 DEF Numbers
  <2> QED
    BY <1>3, <1>5, <1>7, <2>1 DEF ReadsHold, UnderWay
<1> QED
  BY <1>2, <1>3, <1>4, <1>8, MidStep DEF UnderWay

\* The version found is one of the workflow's own.
LEMMA RollbackFindStep ==
  ASSUME IInv, NEW r \in Requests, NEW w \in Workflows, NEW n, RollbackFind(r, w, n)
  PROVE  IInv'
<1>1. Opens(r, w) /\ UNCHANGED <<catalog, executions, cron, slot>>
  BY DEF RollbackFind
<1>2. ASSUME NEW v \in versions, v.wf = w,
             Step(r, Found(Asks(r, "rollback", w), "set", v.id))
      PROVE  IInv'
  <2> DEFINE to == Found(Asks(r, "rollback", w), "set", v.id)
  <2>1. v.id \in Requests /\ HasVersion(w, v.id) /\ Live(w)
    BY <1>2 DEF IInv, TypeOK, HasVersion, Rooted
  <2>2. /\ to \in Request /\ to.at = "set" /\ to.wf = w /\ to.version = v.id
        /\ to.kind = "rollback" /\ to.id = Null
    <3> DEFINE q == Asks(r, "rollback", w)
    <3>1. q \in Request /\ q.wf = w /\ q.kind = "rollback" /\ q.id = Null
      BY AsksFields
    <3> HIDE DEF q
    <3>2. v.id \in Ids
      BY <2>1 DEF Ids
    <3> QED
      BY <3>1, <3>2, ReadFields DEF q
  <2> HIDE DEF to
  <2>3. Step(r, to)
    BY <1>2 DEF to
  <2>4. req'[r] = to /\ UNCHANGED <<phase, versions>>
    BY <1>1, <2>2, <2>3, StepReq DEF IInv, catalog
  <2>5. ReadsHold(r)'
    BY <2>1, <2>2, <2>4, CatalogAssumption DEF ReadsHold, UnderWay, Live, HasVersion
  <2> QED
    BY <1>1, <2>2, <2>3, <2>5, OpenStep DEF IInv, TypeOK
<1>3. ASSUME Step(r, Answer(Asks(r, "rollback", w), "missing")) PROVE IInv'
  <2> DEFINE to == Answer(Asks(r, "rollback", w), "missing")
  <2>1. to \in Request /\ to.at = "done" /\ to.wf = w /\ to.kind = "rollback" /\ to.id = Null
    <3> DEFINE q == Asks(r, "rollback", w)
    <3>1. q \in Request /\ q.wf = w /\ q.kind = "rollback" /\ q.id = Null
      BY AsksFields
    <3> HIDE DEF q
    <3>2. Answer(q, "missing") \in Request /\ Answer(q, "missing").at = "done"
      BY <3>1, AnswerFields DEF Ids
    <3>3. Answer(q, "missing").wf = w /\ Answer(q, "missing").kind = "rollback"
          /\ Answer(q, "missing").id = Null
      BY <3>1, AnswerFields DEF Ids
    <3> QED
      BY <3>2, <3>3 DEF q
  <2> HIDE DEF to
  <2>2. Step(r, to)
    BY <1>3 DEF to
  <2>3. req'[r] = to
    BY <2>1, <2>2, StepReq DEF IInv
  <2>4. ReadsHold(r)'
    BY <2>1, <2>3 DEF ReadsHold, UnderWay
  <2> QED
    BY <1>1, <2>1, <2>2, <2>4, OpenStep DEF IInv, TypeOK
<1> QED
  BY <1>2, <1>3 DEF RollbackFind

\* A Start that finds its key names the execution of that key.
LEMMA StartLookupStep ==
  ASSUME IInv, NEW r \in Requests, NEW w \in Workflows, NEW k \in Keys \cup {Empty},
         StartLookup(r, w, k)
  PROVE  IInv'
<1> DEFINE q == [Asks(r, "start", w) EXCEPT !.key = k]
<1>1. Opens(r, w) /\ UNCHANGED <<catalog, executions, cron, slot>>
  BY DEF StartLookup
<1>2. /\ q \in Request /\ q.wf = w /\ q.kind = "start" /\ q.key = k
      /\ q.id = Null /\ q.result = "none"
  BY AsksFields DEF Request
<1>3. \/ Step(r, [q EXCEPT !.at = "active"])
      \/ \E e \in executions : e.key = k /\ Step(r, [Answer(q, "ok") EXCEPT !.id = e.id])
  BY DEF StartLookup
<1> HIDE DEF q
<1>4. ASSUME Step(r, [q EXCEPT !.at = "active"]) PROVE IInv'
  <2> DEFINE to == [q EXCEPT !.at = "active"]
  <2>1. /\ to \in Request /\ to.at = "active" /\ to.wf = w /\ to.kind = "start"
        /\ to.id = Null /\ to.result = "none"
    BY <1>2 DEF Request
  <2> HIDE DEF to
  <2>2. Step(r, to)
    BY <1>4 DEF to
  <2>3. req'[r] = to
    BY <2>1, <2>2, StepReq DEF IInv
  <2>4. ReadsHold(r)'
    BY <2>1, <2>3 DEF ReadsHold, UnderWay
  <2> QED
    BY <1>1, <2>1, <2>2, <2>4, OpenStep DEF IInv, TypeOK
<1>5. ASSUME NEW e \in executions, e.key = k, Step(r, [Answer(q, "ok") EXCEPT !.id = e.id])
      PROVE  IInv'
  <2> DEFINE to == [Answer(q, "ok") EXCEPT !.id = e.id]
  <2>1. e.id \in Requests
    BY DEF IInv, TypeOK
  <2>2. /\ to \in Request /\ to.at = "done" /\ to.wf = w /\ to.kind = "start"
        /\ to.id = e.id /\ to.result = "ok" /\ to.key = k
    BY <1>2, <2>1 DEF Request, Answer, Ids
  <2> HIDE DEF to
  <2>3. Step(r, to)
    BY <1>5 DEF to
  <2>4. req'[r] = to
    BY <2>2, <2>3, StepReq DEF IInv
  <2>5. ReadsHold(r)'
    BY <2>2, <2>4 DEF ReadsHold, UnderWay
  <2>6. to.id # Null
    BY <2>1, <2>2, CatalogAssumption
  <2> QED
    BY <1>1, <1>5, <2>2, <2>3, <2>5, <2>6, OpenStep DEF IInv, TypeOK
<1> QED
  BY <1>3, <1>4, <1>5

\* A retry is of a version of the workflow, which is still there.
LEMMA RetryReadStep ==
  ASSUME IInv, NEW r \in Requests, NEW e \in executions, RetryRead(r, e)
  PROVE  IInv'
<1> DEFINE q == Asks(r, "retry", e.wf)
<1> DEFINE to == Found(q, "start", e.version)
<1>1. /\ e.wf \in Workflows /\ e.version \in Requests /\ e.version \in Ids
      /\ HasVersion(e.wf, e.version) /\ Live(e.wf)
  BY DEF IInv, TypeOK, Rooted, OwnVersions, Ids
<1>2. q \in Request /\ q.wf = e.wf /\ q.kind = "retry" /\ q.id = Null /\ q.result = "none"
  BY <1>1, AsksFields
<1>3. /\ Opens(r, e.wf) /\ Step(r, to)
      /\ UNCHANGED <<catalog, executions, cron, slot>>
  BY DEF RetryRead
<1> HIDE DEF q
<1>4. /\ to \in Request /\ to.at = "start" /\ to.wf = e.wf /\ to.version = e.version
      /\ to.kind = "retry" /\ to.id = Null
  BY <1>1, <1>2, ReadFields
<1> HIDE DEF to
<1>5. req'[r] = to /\ UNCHANGED <<phase, versions>>
  BY <1>3, <1>4, StepReq DEF IInv, catalog
<1>6. ReadsHold(r)'
  BY <1>1, <1>4, <1>5, CatalogAssumption DEF ReadsHold, UnderWay, Live, HasVersion
<1> QED
  BY <1>1, <1>3, <1>4, <1>6, OpenStep DEF IInv, TypeOK

\* Get answers at once.
LEMMA GetStep ==
  ASSUME IInv, NEW r \in Requests, NEW e \in executions, Get(r, e)
  PROVE  IInv'
<1> DEFINE q == Asks(r, "get", e.wf)
<1> DEFINE res == IF e.key = Null THEN "missing" ELSE "ok"
<1> DEFINE to == [Answer(q, res) EXCEPT !.id = e.id]
<1>1. e.wf \in Workflows /\ e.id \in Ids /\ res \in {"ok", "missing"}
  BY DEF IInv, TypeOK, Ids
<1>2. q \in Request /\ q.wf = e.wf /\ q.kind = "get"
  BY <1>1, AsksFields
<1>3. /\ Opens(r, e.wf) /\ Step(r, to)
      /\ UNCHANGED <<catalog, executions, cron, slot>>
  BY DEF Get
<1> HIDE DEF q, res
<1>4. /\ to \in Request /\ to.at = "done" /\ to.wf = e.wf
      /\ to.kind = "get" /\ to.id = e.id
  BY <1>1, <1>2, AnswerFields
<1> HIDE DEF to
<1>5. req'[r] = to
  BY <1>3, <1>4, StepReq DEF IInv
<1>6. ReadsHold(r)'
  BY <1>4, <1>5 DEF ReadsHold, UnderWay
<1> QED
  BY <1>1, <1>3, <1>4, <1>6, OpenStep DEF IInv, TypeOK

\* A trigger begins like a Start without a look.
LEMMA CronTickStep ==
  ASSUME IInv, NEW r \in Requests, NEW w \in Workflows, CronTick(r, w)
  PROVE  IInv'
<1> DEFINE q == Asks(r, "cron", w)
<1> DEFINE to == [q EXCEPT !.at = "active"]
<1>1. q \in Request /\ q.wf = w /\ q.kind = "cron" /\ q.id = Null /\ q.result = "none"
  BY AsksFields
<1>2. Opens(r, w) /\ Step(r, to) /\ UNCHANGED <<catalog, executions, cron>>
  BY DEF CronTick
<1> HIDE DEF q
<1>3. /\ to \in Request /\ to.at = "active" /\ to.wf = w
      /\ to.kind = "cron" /\ to.id = Null
  BY <1>1, GoesFields
<1> HIDE DEF to
<1>4. req'[r] = to
  BY <1>2, <1>3, StepReq DEF IInv
<1>5. ReadsHold(r)'
  BY <1>3, <1>4 DEF ReadsHold, UnderWay
<1>6. slot' \in [Workflows -> {"due", "served"}]
  BY DEF CronTick, IInv, TypeOK
<1> QED
  BY <1>2, <1>3, <1>5, <1>6, OpenStep DEF IInv, TypeOK

\* The active version is one of the workflow's own, and history has seen it.
LEMMA ReadActiveStep == ASSUME IInv, NEW r \in Requests, ReadActive(r) PROVE IInv'
<1> DEFINE w == req[r].wf
<1>1. req[r] \in Request /\ req[r].at = "active" /\ UnderWay(r)
  BY DEF ReadActive, IInv, TypeOK, UnderWay
<1>2. w \in Workflows /\ req[r].kind \in {"start", "retry", "cron"}
  BY <1>1 DEF IInv, AllReadsHold, ReadsHold
<1>3. UNCHANGED <<catalog, executions, cron, during, slot>>
  BY DEF ReadActive
<1>4. CASE active[w] # Null
  <2> DEFINE to == Found(req[r], "start", active[w])
  <2>1. /\ active[w] \in Ids /\ HasVersion(w, active[w]) /\ active[w] \in during[r]
    BY <1>1, <1>2, <1>4 DEF IInv, TypeOK, OwnVersions, Seen
  <2>2. Live(w)
    BY <2>1 DEF HasVersion, IInv, Rooted
  <2>4. Step(r, to)
    BY <1>4 DEF ReadActive
  <2>3. /\ to \in Request /\ to.at = "start" /\ to.version = active[w]
        /\ to.wf = w /\ to.kind = req[r].kind /\ to.id = req[r].id
        /\ to.result = req[r].result
    BY <1>1, <2>1, ReadFields
  <2> HIDE DEF to
  <2>5. req'[r] = to /\ UNCHANGED <<phase, versions>>
    BY <1>3, <2>3, <2>4, StepReq DEF IInv, catalog
  <2>6. ReadsHold(r)'
    BY <1>2, <1>4, <2>1, <2>2, <2>3, <2>5 DEF ReadsHold, UnderWay, Live, HasVersion
  <2> QED
    BY <1>1, <1>3, <2>1, <2>3, <2>4, <2>6, MidStep
<1>5. CASE active[w] = Null
  BY <1>1, <1>3, <1>5, QuietEnd DEF ReadActive
<1> QED
  BY <1>4, <1>5

\* A cut-off changes nothing but the request.
LEMMA AbandonStep == ASSUME IInv, NEW r \in Requests, Abandon(r) PROVE IInv'
BY QuietEnd DEF Abandon, UnderWay

-----------------------------------------------------------------------------
\* A version inserted has the number after the last of its workflow.
LEMMA PublishInsertStep == ASSUME IInv, NEW r \in Requests, PublishInsert(r) PROVE IInv'
<1>0. PICK w : w = req[r].wf
  OBVIOUS
<1> USE <1>0
<1> DEFINE new == [id |-> r, wf |-> w, number |-> req[r].number]
<1>1. req[r] \in Request /\ req[r].at = "insert" /\ UnderWay(r)
  BY DEF PublishInsert, IInv, TypeOK, UnderWay
<1>2. /\ w \in Workflows /\ phase[w] # "none" /\ req[r].number # 0
      /\ Live(w) => \A n \in 1 .. req[r].number - 1 : n \in Numbers(w)
      /\ req[r].kind \notin {"start", "retry", "cron"} /\ req[r].number \in Nat
  BY <1>1 DEF IInv, AllReadsHold, ReadsHold, Request
<1>3. UNCHANGED <<phase, active, executions, cron, during, slot>>
  BY DEF PublishInsert
<1>4. ASSUME UNCHANGED versions, Ends(r, "failed") PROVE IInv'
  BY <1>1, <1>3, <1>4, QuietEnd DEF catalog
<1>5. ASSUME Live(w), req[r].number \notin Numbers(w), versions' = versions \cup {new},
             Step(r, [req[r] EXCEPT !.at = "activate"]) \/ Ends(r, "failed")
      PROVE  IInv'
  <2>1. /\ req' \in [Requests -> Request]
        /\ req'[r].at \in {"activate", "done"}
        /\ req'[r].result \in {req[r].result, "failed"}
        /\ req'[r].kind = req[r].kind /\ req'[r].wf = w /\ req'[r].id = req[r].id
        /\ \A q \in Requests \ {r} : req'[q] = req[q]
    <3>1. CASE Step(r, [req[r] EXCEPT !.at = "activate"])
      <4>1. /\ [req[r] EXCEPT !.at = "activate"] \in Request
            /\ [req[r] EXCEPT !.at = "activate"].at = "activate"
            /\ [req[r] EXCEPT !.at = "activate"].wf = w
            /\ [req[r] EXCEPT !.at = "activate"].kind = req[r].kind
            /\ [req[r] EXCEPT !.at = "activate"].id = req[r].id
            /\ [req[r] EXCEPT !.at = "activate"].result = req[r].result
        BY <1>1, GoesFields
      <4> QED
        BY <3>1, <4>1, StepReq DEF IInv
    <3>2. CASE Ends(r, "failed")
      BY <3>2, EndsReq DEF IInv
    <3> QED
      BY <1>5, <3>1, <3>2
  <2>2. /\ \A x : Live(x)' <=> Live(x)
        /\ \A x : Numbers(x) \subseteq Numbers(x)'
        /\ req[r].number \in Numbers(w)'
        /\ \A x, v : HasVersion(x, v) => HasVersion(x, v)'
        /\ HasVersion(w, r)'
    <3>1. \A x : Live(x)' <=> Live(x)
      BY <1>3 DEF Live
    <3>2. \A x : Numbers(x) \subseteq Numbers(x)'
      BY <1>5 DEF Numbers
    <3>3. new \in versions' /\ new.wf = w /\ new.id = r /\ new.number = req[r].number
      BY <1>5
    <3>4. req[r].number \in Numbers(w)' /\ HasVersion(w, r)'
      BY <3>3 DEF Numbers, HasVersion
    <3>5. \A x, v : HasVersion(x, v) => HasVersion(x, v)'
      BY <1>5 DEF HasVersion
    <3> QED
      BY <3>1, <3>2, <3>4, <3>5
  <2>3. TypeOK'
    <3>1. versions' \subseteq [id : Requests, wf : Workflows, number : Nat \ {0}]
      BY <1>2, <1>5 DEF IInv, TypeOK
    <3> QED
      BY <1>3, <2>1, <3>1 DEF IInv, TypeOK
  <2>4. Rooted'
    BY <1>3, <1>5, <2>2 DEF IInv, Rooted
  <2>5. VersionsDense'
    <3>1. \A v \in versions : v.number \in Numbers(v.wf) /\ v.number \in Nat
      BY DEF Numbers, IInv, TypeOK
    <3>2. \A u, v \in versions' : u.wf = v.wf /\ u.number = v.number => u = v
      BY <1>5, <3>1 DEF IInv, VersionsDense
    <3>3. \A v \in versions : \A n \in 1 .. v.number : n \in Numbers(v.wf)'
      BY <2>2 DEF IInv, VersionsDense
    <3>4. \A n \in 1 .. req[r].number : n \in Numbers(w)'
      BY <1>2, <1>5, <2>2
    <3>5. \A v \in versions' : \A n \in 1 .. v.number : n \in Numbers(v.wf)'
      BY <1>5, <3>3, <3>4
    <3> QED
      BY <3>2, <3>5 DEF VersionsDense
  <2>6. OwnVersions' /\ StartedActive'
    BY <1>3, <2>2 DEF IInv, OwnVersions, StartedActive, TypeOK
  <2>7. AllReadsHold'
    <3> SUFFICES ASSUME NEW q \in Requests PROVE ReadsHold(q)'
      BY DEF AllReadsHold
    <3>1. CASE q = r
      BY <1>2, <1>3, <2>1, <2>2, <3>1 DEF ReadsHold, UnderWay
    <3>2. CASE q # r
      <4>1. ReadsHold(q) /\ req'[q] = req[q]
        BY <2>1, <3>2 DEF IInv, AllReadsHold
      <4> QED
        BY <1>3, <2>2, <4>1 DEF ReadsHold, UnderWay
    <3> QED
      BY <3>1, <3>2
  <2>8. Keyed'
    <3>1. \A q \in Requests : req[q].at = "done" => req'[q] = req[q]
      BY <1>1, <2>1
    <3>2. \A q \in Requests : req[q].id \in Ids /\ req'[q].id = req[q].id
      BY <2>1 DEF IInv, TypeOK, Request
    <3>3. \A e \in executions : e.id \in Requests
      BY DEF IInv, TypeOK
    <3> QED
      BY <1>2, <1>3, <2>1, <3>1, <3>2, <3>3 DEF IInv, Keyed, Ids
  <2>9. Seen'
    BY <1>3, <2>1, <1>1 DEF IInv, Seen, UnderWay
  <2> QED
    BY <2>3, <2>4, <2>5, <2>6, <2>7, <2>8, <2>9 DEF IInv
<1> QED
  BY <1>4, <1>5 DEF PublishInsert

\* The pointer is set to a version of the workflow, and history notes it.
LEMMA SetActiveStep ==
  ASSUME IInv, NEW r \in Requests, req[r].at \in {"activate", "set"}, NEW v \in Requests,
         Live(req[r].wf) => HasVersion(req[r].wf, v), SetActive(req[r].wf, v),
         NEW result \in {"ok", "failed"}, Ends(r, result),
         UNCHANGED <<phase, versions, executions, cron, slot>>
  PROVE  IInv'
<1> DEFINE w == req[r].wf
<1>1. /\ UnderWay(r) /\ w \in Workflows
      /\ req[r].kind \notin {"start", "retry", "cron"}
  BY DEF UnderWay, IInv, AllReadsHold, ReadsHold
<1>2. CASE ~Live(w)
  BY <1>1, <1>2, QuietEnd DEF SetActive, catalog
<1>3. CASE Live(w)
  <2>1. /\ req' \in [Requests -> Request]
        /\ req'[r].at = "done" /\ req'[r].kind = req[r].kind /\ req'[r].id = req[r].id
        /\ \A q \in Requests \ {r} : req'[q] = req[q]
    BY EndsReq DEF IInv
  <2>2. /\ active' \in [Workflows -> Ids] /\ active'[w] = v
        /\ \A x \in Workflows \ {w} : active'[x] = active[x]
    BY <1>1, <1>3 DEF SetActive, IInv, TypeOK, Ids
  <2>3. /\ during' \in [Requests -> SUBSET Ids]
        /\ \A q \in Requests : during[q] \subseteq during'[q]
        /\ \A q \in Requests : req[q].wf = w /\ req[q].at # "done" => v \in during'[q]
    BY <1>3 DEF SetActive, IInv, TypeOK, Ids
  <2>4. /\ \A x : Live(x)' <=> Live(x)
        /\ \A x : Numbers(x)' = Numbers(x)
        /\ \A x, y : HasVersion(x, y)' <=> HasVersion(x, y)
    BY DEF Live, Numbers, HasVersion
  <2>5. TypeOK'
    BY <2>1, <2>2, <2>3 DEF IInv, TypeOK
  <2>6. Rooted' /\ VersionsDense'
    BY <2>4 DEF IInv, Rooted, VersionsDense
  <2>7. OwnVersions'
    BY <1>3, <2>2, <2>4 DEF IInv, OwnVersions
  <2>8. StartedActive'
    BY <2>3 DEF IInv, StartedActive, TypeOK
  <2>9. AllReadsHold'
    BY <2>1, <2>4 DEF IInv, AllReadsHold, ReadsHold, UnderWay
  <2>10. Keyed'
    <3>1. \A q \in Requests : req[q].at = "done" => req'[q] = req[q]
      BY <2>1
    <3>2. \A q \in Requests : req[q].id \in Ids /\ req'[q].id = req[q].id
      BY <2>1 DEF IInv, TypeOK, Request
    <3>3. \A e \in executions : e.id \in Requests
      BY DEF IInv, TypeOK
    <3> QED
      BY <1>1, <2>1, <3>1, <3>2, <3>3 DEF IInv, Keyed, Ids
  <2>11. Seen'
    <3>1. \A q \in Requests : UnderWay(q)' => q # r /\ UnderWay(q) /\ req'[q] = req[q]
      BY <2>1 DEF UnderWay
    <3>2. \A q \in Requests : UnderWay(q) => req[q].wf \in Workflows /\ req[q].at # "done"
      BY DEF UnderWay, IInv, AllReadsHold, ReadsHold
    <3> QED
      BY <2>1, <2>2, <2>3, <3>1, <3>2 DEF IInv, Seen
  <2> QED
    BY <2>5, <2>6, <2>7, <2>8, <2>9, <2>10, <2>11 DEF IInv
<1> QED
  BY <1>2, <1>3

LEMMA PublishActivateStep ==
  ASSUME IInv, NEW r \in Requests, PublishActivate(r) PROVE IInv'
<1>1. req[r].at = "activate" /\ (Live(req[r].wf) => HasVersion(req[r].wf, r))
  BY DEF PublishActivate, IInv, AllReadsHold, ReadsHold
<1> QED
  BY <1>1, SetActiveStep DEF PublishActivate

LEMMA RollbackSetStep ==
  ASSUME IInv, NEW r \in Requests, RollbackSet(r) PROVE IInv'
<1>1. req[r].at = "set" /\ (Live(req[r].wf) => HasVersion(req[r].wf, req[r].version))
  BY DEF RollbackSet, IInv, AllReadsHold, ReadsHold
<1>2. req[r].version \in Requests
  BY <1>1 DEF IInv, TypeOK, Request, Ids, AllReadsHold, ReadsHold
<1> QED
  BY <1>1, <1>2, SetActiveStep DEF RollbackSet

-----------------------------------------------------------------------------
\* A new execution has a key of its own or none, a version of its workflow, and
\* one that history has seen.
LEMMA InsertExecutionStep ==
  ASSUME IInv, NEW r \in Requests, InsertExecution(r) PROVE IInv'
<1>0. PICK w : w = req[r].wf
  OBVIOUS
<1> USE <1>0
<1>1. req[r] \in Request /\ req[r].at = "start" /\ UnderWay(r)
  BY DEF InsertExecution, IInv, TypeOK, UnderWay
<1>2. /\ w \in Workflows /\ req[r].kind \in {"start", "retry", "cron"}
      /\ req[r].version \in Requests /\ req[r].key \in Keys \cup {Empty, Null}
      /\ Live(w) => HasVersion(w, req[r].version)
  BY <1>1 DEF IInv, AllReadsHold, ReadsHold, Request, Ids
<1>3. UNCHANGED <<phase, active, versions, cron, during, slot>>
  BY DEF InsertExecution, catalog
<1>4. ASSUME UNCHANGED executions, NEW result \in {"conflict", "failed"}, Ends(r, result)
      PROVE  IInv'
  BY <1>1, <1>3, <1>4, QuietEnd DEF catalog
<1>5. ASSUME Live(w), ~Taken(req[r].key), executions' = executions \cup {Row(r)},
             Step(r, [Answer(req[r], "ok") EXCEPT !.id = r]) \/ Ends(r, "failed")
      PROVE  IInv'
  <2>1. /\ req' \in [Requests -> Request]
        /\ req'[r].at = "done" /\ req'[r].kind = req[r].kind /\ req'[r].key = req[r].key
        /\ \/ req'[r].result = "ok" /\ req'[r].id = r
           \/ req'[r].result = "failed" /\ req'[r].id = req[r].id
        /\ \A q \in Requests \ {r} : req'[q] = req[q]
    <3>1. CASE Step(r, [Answer(req[r], "ok") EXCEPT !.id = r])
      <4>1. r \in Ids
        BY DEF Ids
      <4>2. /\ [Answer(req[r], "ok") EXCEPT !.id = r] \in Request
            /\ [Answer(req[r], "ok") EXCEPT !.id = r].id = r
            /\ [Answer(req[r], "ok") EXCEPT !.id = r].at = "done"
            /\ [Answer(req[r], "ok") EXCEPT !.id = r].result = "ok"
            /\ [Answer(req[r], "ok") EXCEPT !.id = r].kind = req[r].kind
            /\ [Answer(req[r], "ok") EXCEPT !.id = r].key = req[r].key
        BY <1>1, <4>1, AnswerFields
      <4> QED
        BY <3>1, <4>2, StepReq DEF IInv
    <3>2. CASE Ends(r, "failed")
      BY <3>2, EndsReq DEF IInv
    <3> QED
      BY <1>5, <3>1, <3>2
  <2>2. /\ Row(r).id = r /\ Row(r).wf = w /\ Row(r).version = req[r].version
        /\ Row(r).key = req[r].key /\ Row(r).kind = req[r].kind
    BY DEF Row
  <2>3. Row(r) \in [id : Requests, wf : Workflows, version : Requests,
                    key : Keys \cup {Empty, Null}, kind : {"start", "retry", "cron"}]
    BY <1>2 DEF Row
  <2> DEFINE row == Row(r)
  <2> HIDE DEF row
  <2>4. /\ executions' = executions \cup {row} /\ row.id = r /\ row.wf = w
        /\ row.version = req[r].version /\ row.key = req[r].key /\ row.kind = req[r].kind
    BY <1>5, <2>2 DEF row
  <2>5. /\ \A x : Live(x)' <=> Live(x)
        /\ \A x : Numbers(x)' = Numbers(x)
        /\ \A x, v : HasVersion(x, v)' <=> HasVersion(x, v)
    BY <1>3 DEF Live, Numbers, HasVersion
  <2>6. \A e \in executions : e.id \in Requests \ {r}
    BY <1>1 DEF IInv, TypeOK, Keyed
  <2>7. TypeOK'
    <3>1. executions' \subseteq [id : Requests, wf : Workflows, version : Requests,
                   key : Keys \cup {Empty, Null}, kind : {"start", "retry", "cron"}]
      BY <2>3, <2>4 DEF IInv, TypeOK, row
    <3> QED
      BY <1>3, <2>1, <3>1 DEF IInv, TypeOK
  <2>8. Rooted' /\ VersionsDense'
    BY <1>3, <1>5, <2>4, <2>5 DEF IInv, Rooted, VersionsDense
  <2>9. OwnVersions'
    BY <1>2, <1>3, <1>5, <2>4, <2>5 DEF IInv, OwnVersions
  <2>10. StartedActive'
    BY <1>1, <1>3, <2>4 DEF IInv, StartedActive, Seen
  <2>11. AllReadsHold'
    BY <1>3, <2>1, <2>5 DEF IInv, AllReadsHold, ReadsHold, UnderWay
  <2>12. Seen'
    BY <1>3, <2>1 DEF IInv, Seen, UnderWay
  <2>13. Keyed'
    <3>1. \A e \in executions : e.key = req[r].key /\ e.key # Null => FALSE
      BY <1>5 DEF Taken
    <3>2. \A e, f \in executions' : e.id = f.id \/ (e.key = f.key /\ e.key # Null) => e = f
      BY <2>4, <2>6, <3>1 DEF IInv, Keyed
    <3>3. \A e \in executions' : req'[e.id].at = "done"
      BY <2>1, <2>4, <2>6 DEF IInv, Keyed
    <3>4. \A q \in Requests : req[q].id # Null => req[q].id \in Requests \ {r}
      BY <1>1 DEF IInv, Keyed, TypeOK, Request, Ids
    <3>5. \A q \in Requests : req'[q].id # Null => req'[req'[q].id].at = "done"
      BY <2>1, <3>4 DEF IInv, Keyed
    <3>6. ASSUME NEW q \in Requests, req'[q].kind = "start", req'[q].result = "ok"
          PROVE  /\ req'[q].at = "done"
                 /\ \A e \in executions' : e.id = req'[q].id => e.key = req'[q].key
      <4>1. CASE q = r
        BY <2>1, <2>4, <2>6, <3>6, <4>1
      <4>2. CASE q # r
        <5>1. req'[q] = req[q] /\ req[q].id # r
          BY <1>1, <2>1, <4>2, CatalogAssumption DEF IInv, Keyed
        <5> QED
          BY <2>4, <3>6, <5>1 DEF IInv, Keyed
      <4> QED
        BY <4>1, <4>2
    <3> QED
      BY <3>2, <3>3, <3>5, <3>6 DEF Keyed
  <2> QED
    BY <2>7, <2>8, <2>9, <2>10, <2>11, <2>12, <2>13 DEF IInv
<1> QED
  BY <1>4, <1>5 DEF InsertExecution

\* Only requests that began when the workflow was live refer to it, so its
\* creation meets none.
LEMMA CreateStep == ASSUME IInv, NEW w \in Workflows, Create(w) PROVE IInv'
<1>1. /\ phase' \in [Workflows -> {"none", "live", "deleted"}]
      /\ \A x \in Workflows : Live(x) => Live(x)'
      /\ \A x \in Workflows : phase[x] # "none" => phase'[x] = phase[x]
  BY DEF Create, Live, IInv, TypeOK
<1>2. /\ UNCHANGED <<active, versions, executions, cron, req, during, slot>>
      /\ \A x : Numbers(x)' = Numbers(x)
      /\ \A x, v : HasVersion(x, v)' <=> HasVersion(x, v)
  BY DEF Create, Numbers, HasVersion
<1>3. TypeOK'
  BY <1>1, <1>2 DEF IInv, TypeOK
<1>4. Rooted'
  BY <1>1, <1>2 DEF IInv, Rooted, TypeOK
<1>5. VersionsDense' /\ OwnVersions' /\ StartedActive' /\ Keyed' /\ Seen'
  BY <1>2 DEF IInv, VersionsDense, OwnVersions, StartedActive, Keyed, Seen, UnderWay
<1>6. AllReadsHold'
  <2> SUFFICES ASSUME NEW r \in Requests PROVE ReadsHold(r)'
    BY DEF AllReadsHold
  <2>1. ReadsHold(r) /\ req'[r] = req[r]
    BY <1>2 DEF IInv, AllReadsHold
  <2>2. CASE req[r].at \in {"max", "insert", "activate", "set", "start"}
    <3>1. req[r].wf \in Workflows /\ phase'[req[r].wf] = phase[req[r].wf]
      BY <1>1, <2>1, <2>2 DEF ReadsHold, UnderWay
    <3> QED
      BY <1>2, <2>1, <3>1 DEF ReadsHold, UnderWay, Live
  <2>3. CASE req[r].at \notin {"max", "insert", "activate", "set", "start"}
    BY <2>1, <2>3 DEF ReadsHold, UnderWay
  <2> QED
    BY <2>2, <2>3
<1> QED
  BY <1>3, <1>4, <1>5, <1>6 DEF IInv

\* A deletion takes everything of the workflow with it, and nothing else.
LEMMA DeleteStep == ASSUME IInv, NEW w \in Workflows, Delete(w) PROVE IInv'
<1>1. /\ phase' \in [Workflows -> {"none", "live", "deleted"}]
      /\ phase'[w] = "deleted" /\ \A x \in Workflows \ {w} : phase'[x] = phase[x]
  BY DEF Delete, IInv, TypeOK
<1>2. /\ active' \in [Workflows -> Ids]
      /\ active'[w] = Null /\ \A x \in Workflows \ {w} : active'[x] = active[x]
  BY DEF Delete, IInv, TypeOK, Ids
<1>3. /\ versions' = {v \in versions : v.wf # w}
      /\ executions' = {e \in executions : e.wf # w}
      /\ UNCHANGED <<req, during, slot>>
      /\ cron' \in [Workflows -> {"none", "off", "on"}]
  BY DEF Delete, IInv, TypeOK
<1>4. /\ \A x \in Workflows \ {w} : (Live(x)' <=> Live(x)) /\ Numbers(x)' = Numbers(x)
      /\ \A x \in Workflows \ {w} : \A v : HasVersion(x, v)' <=> HasVersion(x, v)
      /\ ~Live(w)'
  BY <1>1, <1>3 DEF Live, Numbers, HasVersion
<1>5. TypeOK'
  BY <1>1, <1>2, <1>3 DEF IInv, TypeOK
<1>6. Rooted'
  BY <1>3, <1>4 DEF IInv, Rooted, TypeOK
<1>7. VersionsDense'
  BY <1>3, <1>4 DEF IInv, VersionsDense, TypeOK
<1>8. OwnVersions' /\ StartedActive'
  BY <1>2, <1>3, <1>4 DEF IInv, OwnVersions, StartedActive, TypeOK
<1>9. AllReadsHold'
  <2> SUFFICES ASSUME NEW r \in Requests PROVE ReadsHold(r)'
    BY DEF AllReadsHold
  <2>1. ReadsHold(r) /\ req'[r] = req[r]
    BY <1>3 DEF IInv, AllReadsHold
  <2>2. CASE req[r].wf = w
    BY <1>1, <1>4, <2>1, <2>2 DEF ReadsHold, UnderWay
  <2>3. CASE req[r].wf # w
    BY <1>1, <1>4, <2>1, <2>3 DEF ReadsHold, UnderWay
  <2> QED
    BY <2>2, <2>3
<1>10. Keyed'
  BY <1>3 DEF IInv, Keyed
<1>11. Seen'
  <2>1. \A r \in Requests : UnderWay(r) => req[r].wf \in Workflows
    BY DEF IInv, AllReadsHold, ReadsHold
  <2> QED
    BY <1>2, <1>3, <2>1 DEF IInv, Seen, UnderWay
<1> QED
  BY <1>5, <1>6, <1>7, <1>8, <1>9, <1>10, <1>11 DEF IInv

\* Schedules and their time touch nothing that the invariant speaks of.
LEMMA CronStep ==
  ASSUME IInv, UNCHANGED <<catalog, executions, req, during>>,
         cron' \in [Workflows -> {"none", "off", "on"}],
         slot' \in [Workflows -> {"due", "served"}]
  PROVE  IInv'
<1>1. /\ UNCHANGED <<phase, active, versions, executions, req, during>>
      /\ \A x : Live(x)' <=> Live(x)
      /\ \A x : Numbers(x)' = Numbers(x)
      /\ \A x, v : HasVersion(x, v)' <=> HasVersion(x, v)
  BY DEF catalog, Live, Numbers, HasVersion
<1>2. TypeOK'
  BY <1>1 DEF IInv, TypeOK
<1>3. Rooted' /\ VersionsDense' /\ OwnVersions' /\ StartedActive'
  BY <1>1 DEF IInv, Rooted, VersionsDense, OwnVersions, StartedActive
<1>4. AllReadsHold'
  BY <1>1 DEF IInv, AllReadsHold, ReadsHold, UnderWay
<1>5. Keyed' /\ Seen'
  BY <1>1 DEF IInv, Keyed, Seen, UnderWay
<1> QED
  BY <1>2, <1>3, <1>4, <1>5 DEF IInv

-----------------------------------------------------------------------------
LEMMA InitIInv == Init => IInv
<1> SUFFICES ASSUME Init PROVE IInv
  OBVIOUS
<1>1. Fresh \in Request /\ Fresh.at = "free" /\ Fresh.kind = "none" /\ Fresh.id = Null
  BY DEF Fresh, Request, Ids
<1>2. \A r \in Requests : req[r] = Fresh
  BY DEF Init
<1> HIDE DEF Fresh
<1>3. TypeOK
  BY <1>1 DEF Init, TypeOK, Ids
<1>4. Rooted /\ VersionsDense /\ OwnVersions /\ StartedActive
  BY DEF Init, Rooted, VersionsDense, OwnVersions, StartedActive
<1>5. AllReadsHold /\ Seen
  BY <1>1, <1>2 DEF AllReadsHold, ReadsHold, Seen, UnderWay
<1>6. Keyed
  BY <1>1, <1>2 DEF Init, Keyed
<1> QED
  BY <1>3, <1>4, <1>5, <1>6 DEF IInv

\* The invariant is inductive, statement by statement of the handlers.
THEOREM Inductive == Spec => []IInv
<1>1. IInv /\ [Next]_vars => IInv'
  <2> SUFFICES ASSUME IInv, [Next]_vars PROVE IInv'
    OBVIOUS
  <2>1. ASSUME NEW r \in Requests, NEW w \in Workflows, Begin(r, w) PROVE IInv'
    BY <2>1, PublishBeginStep, CronTickStep, RollbackFindStep, StartLookupStep DEF Begin
  <2>2. ASSUME NEW r \in Requests, Publish(r) PROVE IInv'
    BY <2>2, PublishReadStep, PublishInsertStep, PublishActivateStep DEF Publish
  <2>3. ASSUME NEW r \in Requests,
               RollbackSet(r) \/ ReadActive(r) \/ InsertExecution(r) \/ Abandon(r)
        PROVE  IInv'
    BY <2>3, RollbackSetStep, ReadActiveStep, InsertExecutionStep, AbandonStep
  <2>4. ASSUME NEW r \in Requests, NEW e \in executions, RetryRead(r, e) \/ Get(r, e)
        PROVE  IInv'
    BY <2>4, RetryReadStep, GetStep
  <2>5. ASSUME NEW w \in Workflows, Create(w) \/ Delete(w) PROVE IInv'
    BY <2>5, CreateStep, DeleteStep
  <2>6. ASSUME NEW w \in Workflows, DeleteCron(w) PROVE IInv'
    <3>1. cron' \in [Workflows -> {"none", "off", "on"}]
      BY <2>6 DEF DeleteCron, IInv, TypeOK
    <3>2. UNCHANGED <<catalog, executions, req, during>> /\ UNCHANGED slot
      BY <2>6 DEF DeleteCron
    <3> QED
      BY <3>1, <3>2, CronStep DEF IInv, TypeOK
  <2>7. ASSUME NEW w \in Workflows, ComesDue(w) PROVE IInv'
    <3>1. slot' \in [Workflows -> {"due", "served"}]
      BY <2>7 DEF ComesDue, IInv, TypeOK
    <3>2. UNCHANGED <<catalog, executions, req, during>> /\ UNCHANGED cron
      BY <2>7 DEF ComesDue
    <3> QED
      BY <3>1, <3>2, CronStep DEF IInv, TypeOK
  <2>8. ASSUME NEW w \in Workflows, NEW to \in {"on", "off"}, SetCron(w, to) PROVE IInv'
    <3>1. /\ cron' \in [Workflows -> {"none", "off", "on"}]
          /\ slot' \in [Workflows -> {"due", "served"}]
      BY <2>8 DEF SetCron, IInv, TypeOK
    <3>2. UNCHANGED <<catalog, executions, req, during>>
      BY <2>8 DEF SetCron
    <3> QED
      BY <3>1, <3>2, CronStep
  <2>9. CASE UNCHANGED vars
    <3>1. UNCHANGED <<catalog, executions, req, during>> /\ UNCHANGED <<cron, slot>>
      BY <2>9 DEF vars
    <3> QED
      BY <3>1, CronStep DEF IInv, TypeOK
  <2> QED
    BY <2>1, <2>2, <2>3, <2>4, <2>5, <2>6, <2>7, <2>8, <2>9 DEF Next
<1> QED
  BY InitIInv, <1>1, PTL DEF Spec

\* Every field of every table and request has its type (the columns of
\* repository/migrations/001_initial_schema.sql and the locals of the handlers).
THEOREM TypeCorrect == Spec => []TypeOK
BY Inductive, PTL DEF IInv

\* However publications race and are cut off, the numbers of a workflow's
\* versions are 1, 2, 3 ... (workflow.go:249-279).
THEOREM VersionsAreDense == Spec => []VersionsDense
BY Inductive, PTL DEF IInv

\* The active version and the versions of executions are of their workflow
\* (workflow.go:281-341, execution.go:158-179).
THEOREM VersionsAreOwn == Spec => []OwnVersions
BY Inductive, PTL DEF IInv

\* An execution is of a version that was active while its request ran
\* (execution.go:158-179, scheduler.go:312-330).
THEOREM StartedOnActive == Spec => []StartedActive
BY Inductive, PTL DEF IInv

\* One idempotency key, one execution: by the UNIQUE of the schema, through the
\* look and the INSERT of any number of requests (execution.go:142-179).
THEOREM AnswersDoAgree == Spec => []AnswersAgree
<1>1. IInv => AnswersAgree
  <2> SUFFICES ASSUME IInv, NEW r \in Requests, NEW q \in Requests,
                      req[r].kind = "start", req[r].result = "ok",
                      req[q].kind = "start", req[q].result = "ok",
                      req[r].key = req[q].key, req[r].key \in Keys,
                      NEW e \in executions, e.id = req[r].id,
                      NEW f \in executions, f.id = req[q].id
               PROVE  req[r].id = req[q].id
    BY DEF AnswersAgree
  <2>1. e.key = req[r].key /\ f.key = req[q].key
    BY DEF IInv, Keyed
  <2>2. e = f
    BY <2>1, CatalogAssumption DEF IInv, Keyed
  <2> QED
    BY <2>2
<1> QED
  BY <1>1, Inductive, PTL

-----------------------------------------------------------------------------
(* The versions of each workflow are a log, and Catalog implements Archive *)

\* What Log is, where each version is in it under its number.
Logged ==
  /\ Log = [w \in Workflows |-> Log[w]]
  /\ \A w \in Workflows : Log[w] \in Seq(Requests) /\ DOMAIN Log[w] = Numbers(w)
  /\ \A x \in versions : Log[x.wf][x.number] = x.id

LEMMA IsLogged == IInv /\ FileInv => Logged
<1> SUFFICES ASSUME IInv, FileInv PROVE Logged
  OBVIOUS
<1>1. Log = [w \in Workflows |-> Log[w]]
  BY DEF Log
<1>2. \A w \in Workflows : DOMAIN Log[w] = Numbers(w)
  BY DEF Log
<1>3. ASSUME NEW x \in versions PROVE Log[x.wf][x.number] = x.id
  <2>1. x.wf \in Workflows /\ x.number \in Numbers(x.wf)
    BY DEF IInv, TypeOK, Numbers
  <2>2. Log[x.wf][x.number] = (CHOOSE v \in versions : v.wf = x.wf /\ v.number = x.number).id
    BY <2>1 DEF Log
  <2> DEFINE c == CHOOSE v \in versions : v.wf = x.wf /\ v.number = x.number
  <2>3. c \in versions /\ c.wf = x.wf /\ c.number = x.number
    OBVIOUS
  <2> HIDE DEF c
  <2>4. c = x
    BY <2>3 DEF IInv, VersionsDense
  <2> QED
    BY <2>2, <2>4 DEF c
<1>4. ASSUME NEW w \in Workflows PROVE Log[w] \in Seq(Requests)
  <2>1. PICK k \in Nat : Numbers(w) = 1 .. k
    BY DEF FileInv, Filled
  <2>2. \A n \in Numbers(w) : Log[w][n] \in Requests
    <3> SUFFICES ASSUME NEW n \in Numbers(w) PROVE Log[w][n] \in Requests
      OBVIOUS
    <3>1. PICK x \in versions : x.wf = w /\ x.number = n
      BY DEF Numbers
    <3> QED
      BY <1>3, <3>1 DEF IInv, TypeOK
  <2>3. Log[w] = [n \in 1 .. k |-> Log[w][n]]
    BY <2>1 DEF Log
  <2> DEFINE l == Log[w]
  <2> HIDE DEF l
  <2>4. l = [n \in 1 .. k |-> l[n]] /\ \A n \in 1 .. k : l[n] \in Requests
    BY <2>1, <2>2, <2>3 DEF l
  <2>5. l \in Seq(Requests)
    BY <2>4
  <2> QED
    BY <2>5 DEF l
<1> QED
  BY <1>1, <1>2, <1>3, <1>4 DEF Logged

\* A version is an entry of its workflow's log.
LEMMA EntryIsVersion ==
  ASSUME IInv, FileInv, NEW w \in Workflows, NEW v
  PROVE  Arc!Entry(w, v) <=> HasVersion(w, v)
<1>1. Logged
  BY IsLogged
<1>2. ASSUME Arc!Entry(w, v) PROVE HasVersion(w, v)
  <2>1. PICK i \in Numbers(w) : Log[w][i] = v
    BY <1>1, <1>2 DEF Arc!Entry, Logged
  <2>2. PICK x \in versions : x.wf = w /\ x.number = i
    BY DEF Numbers
  <2> QED
    BY <1>1, <2>1, <2>2 DEF Logged, HasVersion
<1>3. ASSUME HasVersion(w, v) PROVE Arc!Entry(w, v)
  <2>1. PICK x \in versions : x.id = v /\ x.wf = w
    BY <1>3 DEF HasVersion
  <2>2. x.number \in Numbers(w)
    BY <2>1 DEF Numbers
  <2> QED
    BY <1>1, <2>1, <2>2 DEF Logged, Arc!Entry
<1> QED
  BY <1>2, <1>3

\* A request that inserted its version never goes back to do it again.
Onward == \A q \in Requests :
  req[q].at \in {"activate", "done"} => req'[q].at \in {"activate", "done"}

LEMMA StepOnward ==
  ASSUME TypeOK, NEW r \in Requests, NEW to, Step(r, to),
         req[r].at \in {"activate", "done"} => to.at = "done"
  PROVE  Onward
BY DEF Onward, TypeOK, Step

LEMMA EndsOnward ==
  ASSUME TypeOK, NEW r \in Requests, NEW result, Ends(r, result)
  PROVE  Onward
<1>1. [req[r] EXCEPT !.at = "done", !.result = result].at = "done"
  BY DEF TypeOK, Request
<1> QED
  BY <1>1, StepOnward DEF Ends

LEMMA OpensOnward ==
  ASSUME TypeOK, NEW r \in Requests, NEW w, NEW to, Opens(r, w), Step(r, to)
  PROVE  Onward
BY StepOnward DEF Opens, Fresh

\* Steps that leave the versions alone leave the log alone.
LEMMA SameFile ==
  ASSUME FileInv, UNCHANGED versions, Onward, TypeOK
  PROVE  FileInv' /\ Log' = Log
<1>1. \A w : Numbers(w)' = Numbers(w)
  BY DEF Numbers
<1>2. Filled'
  BY <1>1 DEF FileInv, Filled
<1>3. Stamped'
  BY DEF FileInv, Stamped, Onward, TypeOK
<1>4. Log' = Log
  BY <1>1 DEF Log
<1> QED
  BY <1>2, <1>3, <1>4 DEF FileInv

\* A step that Archive does not see.
LEMMA Unseen ==
  ASSUME IInv, FileInv, Onward, UNCHANGED <<versions, active, executions>>,
         \A w \in Workflows : phase'[w] = "deleted" <=> phase[w] = "deleted"
  PROVE  FileInv' /\ UNCHANGED Arc!vars
<1>1. FileInv' /\ Log' = Log
  BY SameFile DEF IInv
<1> QED
  BY <1>1 DEF Arc!vars

LEMMA QuietUnseen ==
  ASSUME IInv, FileInv, Onward, UNCHANGED <<catalog, executions>>
  PROVE  FileInv' /\ UNCHANGED Arc!vars
BY Unseen DEF catalog

\* Setting the active version is activating an entry of the log.
LEMMA SetActiveMaps ==
  ASSUME IInv, FileInv, Onward, NEW w \in Workflows, NEW v \in Requests, SetActive(w, v),
         Live(w) => HasVersion(w, v), UNCHANGED <<phase, versions, executions>>
  PROVE  FileInv' /\ [Arc!Next]_(Arc!vars)
<1>1. FileInv' /\ Log' = Log
  BY SameFile DEF IInv
<1>2. CASE Live(w)
  <2>1. Arc!Entry(w, v)
    BY <1>2, EntryIsVersion
  <2>2. Arc!Activate(w, v)
    BY <1>1, <1>2, <2>1 DEF SetActive, Arc!Activate, Live
  <2> QED
    BY <1>1, <2>2 DEF Arc!Next
<1>3. CASE ~Live(w)
  BY <1>1, <1>3 DEF SetActive, Arc!vars
<1> QED
  BY <1>2, <1>3

\* The INSERT of a version appends to its workflow's log: its number is the next.
LEMMA PublishInsertMaps ==
  ASSUME IInv, FileInv, NEW r \in Requests, PublishInsert(r)
  PROVE  FileInv' /\ [Arc!Next]_(Arc!vars)
<1>1. TypeOK /\ req[r] \in Request /\ req[r].at = "insert"
  BY DEF PublishInsert, IInv, TypeOK
<1>2. Onward
  BY <1>1, StepOnward, EndsOnward DEF PublishInsert
<1>3. CASE UNCHANGED versions
  BY <1>2, <1>3, Unseen DEF PublishInsert
<1>4. CASE ~UNCHANGED versions
  <2>0. PICK w, n : w = req[r].wf /\ n = req[r].number
    OBVIOUS
  <2> DEFINE new == [id |-> r, wf |-> w, number |-> n]
  <2>1. /\ Live(w) /\ n \notin Numbers(w) /\ versions' = versions \cup {new}
        /\ Step(r, [req[r] EXCEPT !.at = "activate"]) \/ Ends(r, "failed")
        /\ UNCHANGED <<phase, active, executions>>
    BY <1>4, <2>0 DEF PublishInsert
  <2>2. /\ w \in Workflows /\ n \in Nat \ {0}
        /\ \A m \in 1 .. n - 1 : m \in Numbers(w)
    BY <1>1, <2>0, <2>1 DEF IInv, AllReadsHold, ReadsHold, UnderWay, Request
  <2>3. PICK k \in Nat : Numbers(w) = 1 .. k
    BY <2>2 DEF FileInv, Filled
  <2>4. n = k + 1
    <3>1. ~(n \in 1 .. k)
      BY <2>1, <2>3
    <3>2. ASSUME n > k + 1 PROVE FALSE
      <4>1. k + 1 \in 1 .. n - 1
        BY <2>2, <3>2
      <4> QED
        BY <2>2, <2>3, <4>1
    <3> QED
      BY <2>2, <3>1, <3>2
  <2>5. new.id = r /\ new.wf = w /\ new.number = n
    OBVIOUS
  <2> HIDE DEF new
  <2>6. Numbers(w)' = 1 .. k + 1
    <3>1. \A m : m \in Numbers(w)' <=> m \in Numbers(w) \/ m = n
      BY <2>1, <2>5 DEF Numbers
    <3>2. \A m : m \in 1 .. k + 1 <=> m \in 1 .. k \/ m = k + 1
      OBVIOUS
    <3> QED
      BY <2>3, <2>4, <3>1, <3>2
  <2>7. \A x \in Workflows \ {w} : Numbers(x)' = Numbers(x)
    BY <2>1, <2>5 DEF Numbers
  <2>8. Filled'
    <3> SUFFICES ASSUME NEW x \in Workflows PROVE \E m \in Nat : Numbers(x)' = 1 .. m
      BY DEF Filled
    <3>1. CASE x = w
      BY <2>6, <3>1
    <3>2. CASE x # w
      BY <2>7, <3>2 DEF FileInv, Filled
    <3> QED
      BY <3>1, <3>2
  <2>9. /\ \A v \in versions : v.id \in Requests \ {r}
        /\ req'[r].at \in {"activate", "done"}
    <3>1. req'[r].at \in {"activate", "done"}
      <4>1. CASE Step(r, [req[r] EXCEPT !.at = "activate"])
        <5>1. /\ [req[r] EXCEPT !.at = "activate"] \in Request
              /\ [req[r] EXCEPT !.at = "activate"].at = "activate"
          BY <1>1, GoesFields
        <5> QED
          BY <1>1, <4>1, <5>1, StepReq
      <4>2. CASE Ends(r, "failed")
        BY <1>1, <4>2, EndsReq
      <4> QED
        BY <2>1, <4>1, <4>2
    <3> QED
      BY <1>1, <3>1 DEF FileInv, Stamped, TypeOK
  <2>10. Stamped'
    <3>1. \A v \in versions' : req'[v.id].at \in {"activate", "done"}
      BY <1>2, <2>1, <2>5, <2>9 DEF FileInv, Stamped, Onward
    <3>2. \A u, v \in versions' : u.id = v.id => u = v
      BY <2>1, <2>5, <2>9 DEF FileInv, Stamped
    <3> QED
      BY <3>1, <3>2 DEF Stamped
  <2>11. FileInv'
    BY <2>8, <2>10 DEF FileInv
  <2>12. IInv'
    BY PublishInsertStep
  <2>13. Logged
    BY IsLogged
  <2>14. Logged'
    BY <2>11, <2>12, IsLogged, PTL
  <2>15. Log'[w] = Append(Log[w], r)
    <3> DEFINE s == Log[w]
               t == Log'[w]
    <3>1. /\ s \in Seq(Requests) /\ DOMAIN s = 1 .. k
          /\ t \in Seq(Requests) /\ DOMAIN t = 1 .. k + 1
      BY <2>2, <2>3, <2>6, <2>13, <2>14 DEF Logged
    <3>2. \A i \in 1 .. k : t[i] = s[i]
      <4> SUFFICES ASSUME NEW i \in 1 .. k PROVE t[i] = s[i]
        OBVIOUS
      <4>1. PICK x \in versions : x.wf = w /\ x.number = i
        BY <2>3 DEF Numbers
      <4>2. s[i] = x.id
        BY <2>13, <4>1 DEF Logged
      <4>3. t[i] = x.id
        BY <2>1, <2>14, <4>1 DEF Logged
      <4> QED
        BY <4>2, <4>3
    <3>3. t[k + 1] = r
      BY <2>1, <2>4, <2>5, <2>14 DEF Logged
    <3> HIDE DEF s, t
    <3>4. Len(s) = k /\ Len(t) = k + 1
      BY <3>1
    <3>5. /\ Append(s, r) \in Seq(Requests) /\ Len(Append(s, r)) = k + 1
          /\ \A i \in 1 .. k : Append(s, r)[i] = s[i]
          /\ Append(s, r)[k + 1] = r
      BY <3>1, <3>4, AppendProperties
    <3>6. \A i \in 1 .. k + 1 : t[i] = Append(s, r)[i]
      BY <3>2, <3>3, <3>5
    <3>7. t = Append(s, r)
      BY <3>1, <3>4, <3>5, <3>6, SeqEqual
    <3> QED
      BY <3>7 DEF s, t
  <2>16. \A x \in Workflows \ {w} : Log'[x] = Log[x]
    <3> SUFFICES ASSUME NEW x \in Workflows, x # w PROVE Log'[x] = Log[x]
      OBVIOUS
    <3> DEFINE s == Log[x]
               t == Log'[x]
    <3>1. s \in Seq(Requests) /\ t \in Seq(Requests) /\ DOMAIN s = DOMAIN t
      BY <2>7, <2>13, <2>14 DEF Logged
    <3>2. \A i \in DOMAIN s : t[i] = s[i]
      <4> SUFFICES ASSUME NEW i \in Numbers(x) PROVE t[i] = s[i]
        BY <2>13 DEF Logged
      <4>1. PICK v \in versions : v.wf = x /\ v.number = i
        BY DEF Numbers
      <4>2. s[i] = v.id
        BY <2>13, <4>1 DEF Logged
      <4>3. t[i] = v.id
        BY <2>1, <2>14, <4>1 DEF Logged
      <4> QED
        BY <4>2, <4>3
    <3> HIDE DEF s, t
    <3>3. t = s
      BY <3>1, <3>2, SeqEqual, LenProperties
    <3> QED
      BY <3>3 DEF s, t
  <2>17. Log' = [Log EXCEPT ![w] = Append(@, r)]
    <3> DEFINE l == Log
               m == Log'
    <3>1. l = [x \in Workflows |-> l[x]] /\ m = [x \in Workflows |-> m[x]]
      BY <2>13, <2>14 DEF Logged
    <3>2. m[w] = Append(l[w], r) /\ \A x \in Workflows \ {w} : m[x] = l[x]
      BY <2>15, <2>16
    <3> HIDE DEF l, m
    <3>3. m = [l EXCEPT ![w] = Append(@, r)]
      BY <2>2, <3>1, <3>2
    <3> QED
      BY <3>3 DEF l, m
  <2>18. \A u \in Workflows : ~Arc!Entry(u, r)
    BY <2>9, EntryIsVersion DEF HasVersion
  <2>19. w \notin {x \in Workflows : phase[x] = "deleted"}
    BY <2>1 DEF Live
  <2>20. Arc!Publish(w, r)
    BY <2>1, <2>17, <2>18, <2>19 DEF Arc!Publish
  <2> QED
    BY <2>2, <2>11, <2>20 DEF Arc!Next
<1> QED
  BY <1>3, <1>4

\* The INSERT of an execution records it, once, with an entry of the log.
LEMMA InsertExecutionMaps ==
  ASSUME IInv, FileInv, NEW r \in Requests, InsertExecution(r)
  PROVE  FileInv' /\ [Arc!Next]_(Arc!vars)
<1>1. TypeOK /\ req[r] \in Request /\ req[r].at = "start"
  BY DEF InsertExecution, IInv, TypeOK
<1>2. Onward
  BY <1>1, StepOnward, EndsOnward DEF InsertExecution
<1>3. FileInv' /\ Log' = Log /\ UNCHANGED <<phase, active, versions>>
  BY <1>1, <1>2, SameFile DEF InsertExecution, catalog
<1>4. CASE UNCHANGED executions
  BY <1>2, <1>3, <1>4, Unseen
<1>5. CASE ~UNCHANGED executions
  <2> DEFINE row == Row(r)
  <2>1. /\ Live(req[r].wf) /\ ~Taken(req[r].key) /\ executions' = executions \cup {row}
    BY <1>5 DEF InsertExecution
  <2>2. /\ req[r].wf \in Workflows /\ req[r].kind \in {"start", "retry", "cron"}
        /\ req[r].version \in Requests /\ req[r].key \in Keys \cup {Empty, Null}
        /\ HasVersion(req[r].wf, req[r].version)
    BY <1>1, <2>1 DEF IInv, AllReadsHold, ReadsHold, Request, Ids, UnderWay
  <2>3. row \in [id : Requests, wf : Workflows, version : Requests,
                 key : Keys \cup {Empty, Null}, kind : {"start", "retry", "cron"}]
    BY <2>2 DEF Row
  <2>4. row.id = r /\ row.wf = req[r].wf /\ row.version = req[r].version
        /\ row.key = req[r].key
    BY DEF Row
  <2> HIDE DEF row
  <2>5. \A e \in executions : e.id # row.id /\ (row.key = Null \/ e.key # row.key)
    BY <1>1, <2>1, <2>4 DEF IInv, Keyed, Taken
  <2>6. row.wf \notin {w \in Workflows : phase[w] = "deleted"}
    BY <2>1, <2>4 DEF Live
  <2>7. Arc!Entry(row.wf, row.version)
    BY <2>2, <2>4, EntryIsVersion
  <2>8. Arc!Record(row)
    BY <1>3, <2>1, <2>5, <2>6, <2>7 DEF Arc!Record
  <2> QED
    BY <1>3, <2>3, <2>8 DEF Arc!Next
<1> QED
  BY <1>4, <1>5

\* A deletion erases the log and what was recorded with it.
LEMMA DeleteMaps ==
  ASSUME IInv, FileInv, NEW w \in Workflows, Delete(w)
  PROVE  FileInv' /\ [Arc!Next]_(Arc!vars)
<1>1. /\ Live(w) /\ phase' = [phase EXCEPT ![w] = "deleted"]
      /\ active' = [active EXCEPT ![w] = Null]
      /\ versions' = {v \in versions : v.wf # w}
      /\ executions' = {e \in executions : e.wf # w}
      /\ UNCHANGED req
  BY DEF Delete
<1>2. Numbers(w)' = {} /\ \A x \in Workflows \ {w} : Numbers(x)' = Numbers(x)
  BY <1>1 DEF Numbers
<1>3. FileInv'
  <2>1. Stamped'
    BY <1>1 DEF FileInv, Stamped
  <2>2. Filled'
    <3> SUFFICES ASSUME NEW x \in Workflows PROVE \E m \in Nat : Numbers(x)' = 1 .. m
      BY DEF Filled
    <3>1. CASE x = w
      <4>1. Numbers(x)' = 1 .. 0
        BY <1>2, <3>1
      <4> QED
        BY <4>1
    <3>2. CASE x # w
      BY <1>2, <3>2 DEF FileInv, Filled
    <3> QED
      BY <3>1, <3>2
  <2> QED
    BY <2>1, <2>2 DEF FileInv
<1>4. Logged /\ Logged'
  <2>1. IInv'
    BY DeleteStep
  <2> QED
    BY <1>3, <2>1, IsLogged, PTL
<1>5. Log'[w] = <<>>
  <2> DEFINE t == Log'[w]
  <2>1. t \in Seq(Requests) /\ DOMAIN t = {}
    BY <1>2, <1>4 DEF Logged
  <2> HIDE DEF t
  <2>2. Len(t) = 0
    BY <2>1, LenProperties
  <2>3. t = <<>>
    BY <2>1, <2>2, EmptySeq
  <2> QED
    BY <2>3 DEF t
<1>6. \A x \in Workflows \ {w} : Log'[x] = Log[x]
  <2> SUFFICES ASSUME NEW x \in Workflows, x # w PROVE Log'[x] = Log[x]
    OBVIOUS
  <2> DEFINE s == Log[x]
             t == Log'[x]
  <2>1. s \in Seq(Requests) /\ t \in Seq(Requests) /\ DOMAIN s = DOMAIN t
    BY <1>2, <1>4 DEF Logged
  <2>2. \A i \in DOMAIN s : t[i] = s[i]
    <3> SUFFICES ASSUME NEW i \in Numbers(x) PROVE t[i] = s[i]
      BY <1>4 DEF Logged
    <3>1. PICK v \in versions : v.wf = x /\ v.number = i
      BY DEF Numbers
    <3>2. s[i] = v.id
      BY <1>4, <3>1 DEF Logged
    <3>3. t[i] = v.id
      BY <1>1, <1>4, <3>1 DEF Logged
    <3> QED
      BY <3>2, <3>3
  <2> HIDE DEF s, t
  <2>3. t = s
    BY <2>1, <2>2, SeqEqual, LenProperties
  <2> QED
    BY <2>3 DEF s, t
<1>7. Log' = [Log EXCEPT ![w] = <<>>]
  <2> DEFINE l == Log
             m == Log'
  <2>1. l = [x \in Workflows |-> l[x]] /\ m = [x \in Workflows |-> m[x]]
    BY <1>4 DEF Logged
  <2>2. m[w] = <<>> /\ \A x \in Workflows \ {w} : m[x] = l[x]
    BY <1>5, <1>6
  <2> HIDE DEF l, m
  <2>3. m = [l EXCEPT ![w] = <<>>]
    BY <2>1, <2>2
  <2> QED
    BY <2>3 DEF l, m
<1>8. /\ w \notin {x \in Workflows : phase[x] = "deleted"}
      /\ {x \in Workflows : phase'[x] = "deleted"} =
         {x \in Workflows : phase[x] = "deleted"} \cup {w}
  BY <1>1 DEF Live, IInv, TypeOK
<1>9. Arc!Erase(w)
  BY <1>1, <1>7, <1>8 DEF Arc!Erase
<1> QED
  BY <1>3, <1>9 DEF Arc!Next

\* Every statement of every handler is a step of Archive or none.
LEMMA NextMaps ==
  ASSUME IInv, FileInv, [Next]_vars PROVE FileInv' /\ [Arc!Next]_(Arc!vars)
<1>0. TypeOK
  BY DEF IInv
<1>1. ASSUME NEW r \in Requests, NEW w \in Workflows, Begin(r, w)
      PROVE  FileInv' /\ UNCHANGED Arc!vars
  <2>1. PICK to : Opens(r, w) /\ Step(r, to) /\ UNCHANGED <<catalog, executions>>
    <3>1. CASE PublishBegin(r, w)
      BY <3>1 DEF PublishBegin
    <3>2. CASE CronTick(r, w)
      BY <3>2 DEF CronTick
    <3>3. CASE \E n \in 1 .. Cardinality(Requests) : RollbackFind(r, w, n)
      BY <3>3 DEF RollbackFind
    <3>4. CASE \E k \in Keys \cup {Empty} : StartLookup(r, w, k)
      BY <3>4 DEF StartLookup
    <3> QED
      BY <1>1, <3>1, <3>2, <3>3, <3>4 DEF Begin
  <2> QED
    BY <1>0, <2>1, OpensOnward, QuietUnseen
<1>2. ASSUME NEW r \in Requests, PublishRead(r) PROVE FileInv' /\ UNCHANGED Arc!vars
  <2>1. req[r].at = "max" /\ (\E to : Step(r, to)) /\ UNCHANGED <<catalog, executions>>
    BY <1>2 DEF PublishRead
  <2> QED
    BY <1>0, <2>1, StepOnward, QuietUnseen
<1>3. ASSUME NEW r \in Requests, PublishActivate(r)
      PROVE  FileInv' /\ [Arc!Next]_(Arc!vars)
  <2>1. /\ SetActive(req[r].wf, r) /\ UNCHANGED <<phase, versions, executions>>
        /\ Live(req[r].wf) => HasVersion(req[r].wf, r)
        /\ req[r].wf \in Workflows
    BY <1>3 DEF PublishActivate, IInv, AllReadsHold, ReadsHold, UnderWay
  <2>2. Onward
    BY <1>0, <1>3, EndsOnward DEF PublishActivate
  <2> QED
    BY <2>1, <2>2, SetActiveMaps
<1>4. ASSUME NEW r \in Requests, RollbackSet(r)
      PROVE  FileInv' /\ [Arc!Next]_(Arc!vars)
  <2>1. /\ SetActive(req[r].wf, req[r].version) /\ UNCHANGED <<phase, versions, executions>>
        /\ Live(req[r].wf) => HasVersion(req[r].wf, req[r].version)
        /\ req[r].wf \in Workflows /\ req[r].version # Null
    BY <1>4 DEF RollbackSet, IInv, AllReadsHold, ReadsHold, UnderWay
  <2>2. req[r].version \in Requests
    BY <1>0, <2>1 DEF TypeOK, Request, Ids
  <2>3. Onward
    BY <1>0, <1>4, EndsOnward DEF RollbackSet
  <2> QED
    BY <2>1, <2>2, <2>3, SetActiveMaps
<1>5. ASSUME NEW r \in Requests, ReadActive(r) PROVE FileInv' /\ UNCHANGED Arc!vars
  <2>1. req[r].at = "active" /\ (\E to : Step(r, to)) /\ UNCHANGED <<catalog, executions>>
    BY <1>5 DEF ReadActive, Ends
  <2> QED
    BY <1>0, <2>1, StepOnward, QuietUnseen
<1>6. ASSUME NEW r \in Requests, Abandon(r) PROVE FileInv' /\ UNCHANGED Arc!vars
  BY <1>0, <1>6, EndsOnward, QuietUnseen DEF Abandon
<1>7. ASSUME NEW r \in Requests, NEW e \in executions, RetryRead(r, e) \/ Get(r, e)
      PROVE  FileInv' /\ UNCHANGED Arc!vars
  <2>1. /\ Opens(r, e.wf) /\ (\E to : Step(r, to)) /\ UNCHANGED <<catalog, executions>>
    BY <1>7 DEF RetryRead, Get
  <2> QED
    BY <1>0, <2>1, OpensOnward, QuietUnseen
<1>8. ASSUME UNCHANGED req PROVE Onward
  BY <1>8 DEF Onward
<1>9. ASSUME NEW w \in Workflows, Create(w) PROVE FileInv' /\ UNCHANGED Arc!vars
  <2>1. UNCHANGED <<versions, active, executions, req>>
        /\ \A x \in Workflows : phase'[x] = "deleted" <=> phase[x] = "deleted"
    BY <1>0, <1>9 DEF Create, TypeOK
  <2> QED
    BY <1>8, <2>1, Unseen
<1>10. ASSUME UNCHANGED <<catalog, executions, req>> PROVE FileInv' /\ UNCHANGED Arc!vars
  BY <1>8, <1>10, QuietUnseen
<1>11. CASE UNCHANGED vars
  BY <1>10, <1>11 DEF vars
<1>12. CASE Next
  <2>1. CASE \E r \in Requests, w \in Workflows : Begin(r, w)
    BY <1>1, <2>1
  <2>2. CASE \E r \in Requests : Publish(r)
    BY <1>2, <1>3, <2>2, PublishInsertMaps DEF Publish
  <2>3. CASE \E r \in Requests : RollbackSet(r) \/ ReadActive(r) \/ InsertExecution(r)
                                 \/ Abandon(r)
    BY <1>4, <1>5, <1>6, <2>3, InsertExecutionMaps
  <2>4. CASE \E r \in Requests : \E e \in executions : RetryRead(r, e) \/ Get(r, e)
    BY <1>7, <2>4
  <2>5. CASE \E w \in Workflows : Create(w) \/ Delete(w)
    BY <1>9, <2>5, DeleteMaps
  <2>6. CASE \E w \in Workflows : DeleteCron(w) \/ ComesDue(w)
                                  \/ \E to \in {"on", "off"} : SetCron(w, to)
    BY <1>10, <2>6 DEF DeleteCron, ComesDue, SetCron
  <2> QED
    BY <1>12, <2>1, <2>2, <2>3, <2>4, <2>5, <2>6 DEF Next
<1> QED
  BY <1>11, <1>12

LEMMA InitMaps == Init => FileInv /\ Arc!Init
<1> SUFFICES ASSUME Init PROVE FileInv /\ Arc!Init
  OBVIOUS
<1>1. \A w : Numbers(w) = {}
  BY DEF Init, Numbers
<1>2. FileInv
  <2>1. \A w : Numbers(w) = 1 .. 0
    BY <1>1
  <2> QED
    BY <2>1 DEF Init, FileInv, Stamped, Filled
<1>3. Log = [w \in Workflows |-> <<>>]
  <2>1. IInv
    BY InitIInv
  <2>2. Logged
    BY <1>2, <2>1, IsLogged
  <2>3. \A w \in Workflows : Log[w] \in Seq(Requests) /\ DOMAIN Log[w] = {}
    BY <1>1, <2>2 DEF Logged
  <2> DEFINE l == Log
  <2>4. l = [w \in Workflows |-> l[w]] /\ \A w \in Workflows :
           l[w] \in Seq(Requests) /\ DOMAIN l[w] = {}
    BY <2>2, <2>3 DEF Logged
  <2> HIDE DEF l
  <2>5. \A w \in Workflows : l[w] = <<>>
    <3>1. ASSUME NEW s \in Seq(Requests), DOMAIN s = {} PROVE s = <<>>
      <4>1. Len(s) = 0
        BY <3>1, LenProperties
      <4> QED
        BY <4>1, EmptySeq
    <3> QED
      BY <2>4, <3>1
  <2>6. l = [w \in Workflows |-> <<>>]
    BY <2>4, <2>5
  <2> QED
    BY <2>6 DEF l
<1> QED
  BY <1>2, <1>3 DEF Init, Arc!Init

\* The numbers of a workflow's versions are those of a log, and a request files
\* one version at the most, cut off or not (workflow.go:249-279).
THEOREM FilesInOrder == Spec => []FileInv
BY InitMaps, NextMaps, Inductive, PTL DEF Spec

\* Publications, roll-backs, starts, retries, triggers and deletions, one statement
\* at a time and cut off anywhere, only append to a workflow's log, activate entries
\* of it and record executions of them (workflow.go:249-342, execution.go:158-186).
THEOREM ImplementsArchive == Spec => KeepsArchive
BY InitMaps, NextMaps, FilesInOrder, Inductive, PTL DEF Spec, KeepsArchive, Arc!Spec

=============================================================================
