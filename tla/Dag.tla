-------------------------------- MODULE Dag ---------------------------------
(***************************************************************************)
(* The admission of a workflow definition: the graph checks of             *)
(* internal/validator/validator.go, and BuildDAG and TopologicalSort of    *)
(* internal/engine/dag.go.  What they let through, Execute walks with      *)
(* GetReadyNodes (module Executor).                                        *)
(*                                                                         *)
(* A definition is the sequence of its declarations, steps before          *)
(* approvals; "needs" is depends_on, a list that may repeat itself.  Maps  *)
(* are iterated in no order, so a layer is a set.                          *)
(***************************************************************************)
EXTENDS Integers, Sequences, FiniteSets

CONSTANTS
  Ids,          \* the identifiers of steps and approvals
  Definitions   \* the definitions to admit or refuse

Declaration == [kind : {"step", "approval"}, id : Ids, needs : Seq(Ids)]

\* One edge per entry of a depends_on list: entry j of declaration i.
EdgesOf(d) == UNION {{i} \X DOMAIN d[i].needs : i \in DOMAIN d}

\* Documents are finite.
ASSUME DefinitionAssumption ==
  \A d \in Definitions : d \in Seq(Declaration) /\ IsFiniteSet(EdgesOf(d))

VARIABLES
  def,       \* the definition under validation
  pc,        \* where the validation is
  errors,    \* result.Errors, by kind
  inDegree,  \* of TopologicalSort, as are the next two
  visited,
  layers

vars == <<def, pc, errors, inDegree, visited, layers>>

Nodes == {def[i].id : i \in DOMAIN def}
Edges == EdgesOf(def)
To(e) == def[e[1]].id
From(e) == def[e[1]].needs[e[2]]

Init ==
  /\ def \in Definitions
  /\ pc = "names"
  /\ errors = {}
  /\ inDegree = <<>>
  /\ visited = {}
  /\ layers = <<>>

\* Steps and approvals are looked through apart: a step and an approval of one
\* name are no duplicates.
Duplicate ==
  \E i, j \in DOMAIN def : i # j /\ def[i].id = def[j].id /\ def[i].kind = def[j].kind

validateNames ==
  /\ pc = "names"
  /\ pc' = "build"
  /\ errors' = errors \cup (IF Duplicate THEN {"duplicate"} ELSE {})
  /\ UNCHANGED <<def, inDegree, visited, layers>>

Unknown == \E e \in Edges : From(e) \notin Nodes

\* Mutant: a repeated dependency is counted once and taken off twice.
BuildDAGDistinct ==
  /\ pc = "build"
  /\ IF Unknown
     THEN pc' = "done" /\ errors' = errors \cup {"unknown"} /\ UNCHANGED inDegree
     ELSE /\ pc' = "sort"
          /\ inDegree' = [n \in Nodes |-> Cardinality({From(e) : e \in {x \in Edges : To(x) = n}})]
          /\ UNCHANGED errors
  /\ UNCHANGED <<def, visited, layers>>

\* BuildDAG, and the in-degrees TopologicalSort starts from.
BuildDAG ==
  /\ pc = "build"
  /\ IF Unknown
     THEN pc' = "done" /\ errors' = errors \cup {"unknown"} /\ UNCHANGED inDegree
     ELSE /\ pc' = "sort"
          /\ inDegree' = [n \in Nodes |-> Cardinality({e \in Edges : To(e) = n})]
          /\ UNCHANGED errors
  /\ UNCHANGED <<def, visited, layers>>

Layer == {n \in Nodes : inDegree[n] = 0 /\ n \notin visited}

\* Mutant: visiting a node takes one off its successors' in-degrees, however
\* many nodes of the layer they depend on.
NextLayerOnce ==
  /\ pc = "sort" /\ visited # Nodes /\ Layer # {}
  /\ visited' = visited \cup Layer
  /\ inDegree' = [n \in Nodes |->
        inDegree[n] - IF \E e \in Edges : To(e) = n /\ From(e) \in Layer THEN 1 ELSE 0]
  /\ layers' = Append(layers, Layer)
  /\ UNCHANGED <<def, pc, errors>>

\* Mutant: the nodes of a layer are visited while it is collected, and release
\* their successors into it.
NextLayerEager ==
  /\ pc = "sort" /\ visited # Nodes /\ Layer # {}
  /\ \E S \in SUBSET Nodes :
       /\ S = Layer \cup {n \in Nodes \ visited :
                            \A e \in Edges : To(e) = n => From(e) \in visited \cup Layer}
       /\ visited' = visited \cup S
       /\ inDegree' = [n \in Nodes |->
             inDegree[n] - Cardinality({e \in Edges : To(e) = n /\ From(e) \in S})]
       /\ layers' = Append(layers, S)
  /\ UNCHANGED <<def, pc, errors>>

\* The next layer: each edge out of it takes one off an in-degree.
NextLayer ==
  /\ pc = "sort" /\ visited # Nodes /\ Layer # {}
  /\ visited' = visited \cup Layer
  /\ inDegree' = [n \in Nodes |->
        inDegree[n] - Cardinality({e \in Edges : To(e) = n /\ From(e) \in Layer})]
  /\ layers' = Append(layers, Layer)
  /\ UNCHANGED <<def, pc, errors>>

\* Mutant: a layer without nodes ends the sort like a complete one.
CycleOverlooked ==
  /\ pc = "sort" /\ visited # Nodes /\ Layer = {}
  /\ pc' = "done"
  /\ UNCHANGED <<def, errors, inDegree, visited, layers>>

CycleDetected ==
  /\ pc = "sort" /\ visited # Nodes /\ Layer = {}
  /\ pc' = "done"
  /\ errors' = errors \cup {"cycle"}
  /\ UNCHANGED <<def, inDegree, visited, layers>>

Sorted ==
  /\ pc = "sort" /\ visited = Nodes
  /\ pc' = "done"
  /\ UNCHANGED <<def, errors, inDegree, visited, layers>>

Next == validateNames \/ BuildDAG \/ NextLayer \/ CycleDetected \/ Sorted

Spec == Init /\ [][Next]_vars

-----------------------------------------------------------------------------
(* What must hold *)

TypeOK ==
  /\ pc \in {"names", "build", "sort", "done"}
  /\ errors \subseteq {"duplicate", "unknown", "cycle"}
  /\ visited \subseteq Nodes
  /\ pc = "sort" => inDegree \in [Nodes -> Nat]
  /\ layers \in Seq(SUBSET Nodes)

\* The layers share no node, leave none of the visited out, and each entry of a
\* depends_on list points to an earlier layer, however often the list repeats it.
LayersOrdered ==
  /\ visited = UNION {layers[k] : k \in DOMAIN layers}
  /\ \A j, k \in DOMAIN layers : j # k => layers[j] \cap layers[k] = {}
  /\ \A k \in DOMAIN layers : \A e \in Edges :
        To(e) \in layers[k] => \E j \in 1 .. k - 1 : From(e) \in layers[j]

\* Some nodes, each of which depends on one of them: in a finite graph, a cycle.
Circular(S) ==
  S # {} /\ \A n \in S : \E e \in Edges : To(e) = n /\ From(e) \in S

\* TopologicalSort reports a cycle exactly when there is one (dag.go:70-108).
CycleFound ==
  pc = "done" =>
    ("cycle" \in errors <=> ~Unknown /\ \E S \in SUBSET Nodes : Circular(S))

GetReadyNodes(completed) ==
  {n \in Nodes \ completed : \A e \in Edges : To(e) = n => From(e) \in completed}

\* A definition the validation accepts never strands its executions: whatever
\* is completed, some node is ready until all are, so that Execute's "DAG
\* incomplete" (executor.go:55-61) is never the verdict on a run without errors.
NeverStuck ==
  pc = "done" /\ errors = {} =>
    \A completed \in SUBSET Nodes : completed # Nodes => GetReadyNodes(completed) # {}

-----------------------------------------------------------------------------
(* The inductive invariant of DagProofs, in parts *)

\* In-degrees count the entries whose dependency has not been visited.
Counted ==
  pc = "sort" =>
    \A n \in Nodes : inDegree[n] = Cardinality({e \in Edges : To(e) = n /\ From(e) \notin visited})

\* What was visited depends on visited nodes only, and not in a circle.
Grounded ==
  /\ \A e \in Edges : To(e) \in visited => From(e) \in visited
  /\ \A S \in SUBSET visited : ~Circular(S)

\* Until the sort nothing is visited, and the sort is of known nodes.
Begun ==
  /\ pc \in {"names", "build"} => visited = {} /\ layers = <<>>
                                  /\ "cycle" \notin errors /\ "unknown" \notin errors
  /\ pc = "sort" => ~Unknown /\ "cycle" \notin errors /\ "unknown" \notin errors
  /\ pc = "done" => ("unknown" \in errors <=> Unknown)
  /\ pc = "done" /\ ~Unknown /\ "cycle" \notin errors => visited = Nodes

IInv == TypeOK /\ LayersOrdered /\ Counted /\ Grounded /\ Begun /\ CycleFound
=============================================================================
