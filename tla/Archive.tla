------------------------------- MODULE Archive ------------------------------
(***************************************************************************)
(* What the catalog promises of a workflow to those who hold on to a       *)
(* version or an execution of it: the versions are a log that is only      *)
(* appended to, the active one is an entry of it, an execution is recorded *)
(* once, with an entry, and never changed, a key is of one execution, and  *)
(* all of it goes together and for good.                                   *)
(***************************************************************************)
EXTENDS Sequences

CONSTANTS
  Workflows, Versions,
  Rows,       \* the executions: [id, wf, version, key] at least
  Null

VARIABLES
  log,        \* of each workflow, its versions, the first one first
  head,       \* the active version
  book,       \* the executions
  gone        \* the workflows that were deleted

vars == <<log, head, book, gone>>

Init ==
  /\ log = [w \in Workflows |-> <<>>]
  /\ head = [w \in Workflows |-> Null]
  /\ book = {}
  /\ gone = {}

Entry(w, v) == \E i \in DOMAIN log[w] : log[w][i] = v

\* A version that is in no log yet.
Publish(w, v) ==
  /\ w \notin gone /\ \A u \in Workflows : ~Entry(u, v)
  /\ log' = [log EXCEPT ![w] = Append(@, v)]
  /\ UNCHANGED <<head, book, gone>>

Activate(w, v) ==
  /\ w \notin gone /\ Entry(w, v)
  /\ head' = [head EXCEPT ![w] = v]
  /\ UNCHANGED <<log, book, gone>>

Record(e) ==
  /\ book' = book \cup {e} /\ \A f \in book : f.id # e.id /\ (e.key = Null \/ f.key # e.key)
  /\ e.wf \notin gone /\ Entry(e.wf, e.version)
  /\ UNCHANGED <<log, head, gone>>

Erase(w) ==
  /\ w \notin gone
  /\ gone' = gone \cup {w}
  /\ log' = [log EXCEPT ![w] = <<>>]
  /\ head' = [head EXCEPT ![w] = Null]
  /\ book' = {e \in book : e.wf # w}

Next ==
  \/ \E w \in Workflows : Erase(w) \/ \E v \in Versions : Publish(w, v) \/ Activate(w, v)
  \/ \E e \in Rows : Record(e)

Spec == Init /\ [][Next]_vars
=============================================================================
