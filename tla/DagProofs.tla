----------------------------- MODULE DagProofs ------------------------------
(***************************************************************************)
(* Proofs that TopologicalSort reports a cycle exactly when there is one,  *)
(* that its layers respect every dependency, and that an accepted          *)
(* definition never strands an execution, for definitions of any size.     *)
(***************************************************************************)
EXTENDS Dag, FiniteSetTheorems, TLAPS

\* The invariant, of one of the given definitions.
Inv == def \in Definitions /\ IInv

\* The entries into n from the nodes in S, and those from outside it.
Into(n, S) == {e \in Edges : To(e) = n /\ From(e) \in S}
Outside(n, S) == {e \in Edges : To(e) = n /\ From(e) \notin S}

\* A definition has finitely many entries.
LEMMA EdgesFinite == def \in Definitions => IsFiniteSet(Edges)
BY DefinitionAssumption DEF Edges

\* An edge leads from an identifier to a node.
LEMMA EdgeTyped == \A e \in Edges : To(e) \in Nodes
<1> SUFFICES ASSUME NEW e \in Edges PROVE To(e) \in Nodes
  OBVIOUS
<1>1. PICK i \in DOMAIN def : e \in {i} \X DOMAIN def[i].needs
  BY DEF Edges, EdgesOf
<1>2. e[1] = i
  BY <1>1
<1> QED
  BY <1>2 DEF To, Nodes

\* Visiting nodes that were not visited takes their entries off the count.
LEMMA CountDown ==
  ASSUME IsFiniteSet(Edges), NEW n, NEW S, NEW T, S \cap T = {}
  PROVE  /\ Cardinality(Outside(n, S)) \in Nat
         /\ Cardinality(Into(n, T)) \in Nat
         /\ Cardinality(Outside(n, S \cup T)) =
              Cardinality(Outside(n, S)) - Cardinality(Into(n, T))
<1>1. /\ IsFiniteSet(Outside(n, S \cup T)) /\ IsFiniteSet(Into(n, T))
      /\ IsFiniteSet(Outside(n, S))
  BY FS_Subset DEF Outside, Into
<1>2. /\ Outside(n, S \cup T) \cup Into(n, T) = Outside(n, S)
      /\ Outside(n, S \cup T) \cap Into(n, T) = {}
  BY DEF Outside, Into
<1>3. Cardinality(Outside(n, S)) =
        Cardinality(Outside(n, S \cup T)) + Cardinality(Into(n, T)) - Cardinality({})
  BY <1>1, <1>2, FS_Union, SMTT(30)
<1> QED
  BY <1>1, <1>3, FS_EmptySet, FS_CardinalityType

\* Of a node whose in-degree came down to zero every dependency was visited.
LEMMA LayerGrounded ==
  ASSUME Inv, pc = "sort"
  PROVE  \A e \in Edges : To(e) \in Layer => From(e) \in visited
<1> SUFFICES ASSUME NEW e \in Edges, To(e) \in Layer, From(e) \notin visited PROVE FALSE
  OBVIOUS
<1>1. IsFiniteSet(Outside(To(e), visited))
  BY EdgesFinite, FS_Subset DEF Inv, Outside
<1>2. Cardinality(Outside(To(e), visited)) = 0
  BY DEF Inv, IInv, Counted, Layer, Outside
<1>3. Outside(To(e), visited) = {}
  BY <1>1, <1>2, FS_EmptySet
<1> QED
  BY <1>3 DEF Outside

\* Before the sort, and at its start, the invariant holds by what is empty.
LEMMA InitInv == Init => Inv
<1> SUFFICES ASSUME Init PROVE Inv
  OBVIOUS
<1>1. TypeOK
  BY DEF Init, TypeOK
<1>2. LayersOrdered /\ Grounded
  BY DEF Init, LayersOrdered, Grounded, Circular
<1>3. Counted /\ Begun /\ CycleFound
  BY DEF Init, Counted, Begun, CycleFound
<1> QED
  BY <1>1, <1>2, <1>3 DEF Init, Inv, IInv

\* BuildDAG starts the sort with the whole in-degrees.
LEMMA BuildStep == Inv /\ BuildDAG => Inv'
<1> SUFFICES ASSUME Inv, BuildDAG PROVE Inv'
  OBVIOUS
<1>1. UNCHANGED <<def, visited, layers>> /\ Nodes' = Nodes /\ Edges' = Edges
  BY DEF BuildDAG, Nodes, Edges
<1>2. visited = {} /\ layers = <<>> /\ "cycle" \notin errors /\ "unknown" \notin errors
  BY DEF BuildDAG, Inv, IInv, Begun
<1>3. LayersOrdered' /\ Grounded'
  BY <1>1, <1>2 DEF Inv, IInv, LayersOrdered, Grounded, Circular, To, From
<1>4. CASE Unknown
  <2>1. pc' = "done" /\ errors' = errors \cup {"unknown"} /\ Unknown'
    BY <1>1, <1>4 DEF BuildDAG, Unknown, From
  <2> QED
    BY <1>1, <1>2, <1>3, <2>1 DEF Inv, IInv, TypeOK, Counted, Begun, CycleFound
<1>5. CASE ~Unknown
  <2>1. /\ pc' = "sort" /\ errors' = errors /\ ~Unknown'
        /\ inDegree' = [n \in Nodes |-> Cardinality({e \in Edges : To(e) = n})]
    BY <1>1, <1>5 DEF BuildDAG, Unknown, From
  <2>2. \A n \in Nodes : Cardinality({e \in Edges : To(e) = n}) \in Nat
    BY EdgesFinite, FS_Subset, FS_CardinalityType DEF Inv
  <2>3. TypeOK'
    BY <1>1, <2>1, <2>2 DEF Inv, IInv, TypeOK
  <2>4. \A n : {e \in Edges : To(e) = n} = {e \in Edges : To(e) = n /\ From(e) \notin visited}
    BY <1>2
  <2>5. Counted'
    BY <1>1, <2>1, <2>4 DEF Counted, To, From
  <2> QED
    BY <1>1, <1>2, <1>3, <2>1, <2>3, <2>5 DEF Inv, IInv, Begun, CycleFound
<1> QED
  BY <1>4, <1>5

\* A layer is visited with all it depends on visited already.
LEMMA LayerStep == Inv /\ NextLayer => Inv'
<1> SUFFICES ASSUME Inv, NextLayer PROVE Inv'
  OBVIOUS
<1>1. UNCHANGED <<def, pc, errors>> /\ Nodes' = Nodes /\ Edges' = Edges /\ pc = "sort"
  BY DEF NextLayer, Nodes, Edges
<1>2. /\ visited' = visited \cup Layer
      /\ layers' = Append(layers, Layer)
      /\ inDegree' = [n \in Nodes |-> inDegree[n] - Cardinality(Into(n, Layer))]
  BY DEF NextLayer, Into
<1>3. Layer \subseteq Nodes /\ Layer \cap visited = {}
  BY DEF Layer
<1>4. \A n \in Nodes : /\ inDegree'[n] = Cardinality(Outside(n, visited'))
                       /\ inDegree'[n] \in Nat
  <2> SUFFICES ASSUME NEW n \in Nodes
               PROVE  /\ inDegree'[n] = Cardinality(Outside(n, visited'))
                      /\ inDegree'[n] \in Nat
    OBVIOUS
  <2>1. inDegree[n] = Cardinality(Outside(n, visited))
    BY <1>1 DEF Inv, IInv, Counted, Outside
  <2>2. Cardinality(Outside(n, visited')) =
          Cardinality(Outside(n, visited)) - Cardinality(Into(n, Layer))
    BY <1>2, <1>3, CountDown, EdgesFinite DEF Inv
  <2>3. IsFiniteSet(Outside(n, visited'))
    BY EdgesFinite, FS_Subset DEF Inv, Outside
  <2> QED
    BY <1>2, <2>1, <2>2, <2>3, FS_CardinalityType
<1>5. TypeOK'
  <2>1. layers' \in Seq(SUBSET Nodes)
    BY <1>2, <1>3 DEF Inv, IInv, TypeOK
  <2>2. inDegree' \in [Nodes -> Nat]
    BY <1>2, <1>4
  <2> QED
    BY <1>1, <1>2, <1>3, <2>1, <2>2 DEF Inv, IInv, TypeOK
<1>6. Counted'
  BY <1>1, <1>4 DEF Counted, Outside, To, From
<1>7. \A e \in Edges : To(e) \in Layer => From(e) \in visited
  BY <1>1, LayerGrounded
<1>8. LayersOrdered'
  <2> DEFINE K == Len(layers) + 1
  <2>1. /\ layers \in Seq(SUBSET Nodes)
        /\ K \in Nat \ {0} /\ DOMAIN layers = 1 .. K - 1 /\ DOMAIN layers' = 1 .. K
        /\ layers'[K] = Layer /\ \A k \in 1 .. K - 1 : layers'[k] = layers[k]
    BY <1>2 DEF Inv, IInv, TypeOK
  <2> HIDE DEF K
  <2>2. /\ visited = UNION {layers[k] : k \in 1 .. K - 1}
        /\ \A j, k \in 1 .. K - 1 : j # k => layers[j] \cap layers[k] = {}
        /\ \A k \in 1 .. K - 1 : \A e \in Edges :
              To(e) \in layers[k] => \E j \in 1 .. k - 1 : From(e) \in layers[j]
    BY <2>1 DEF Inv, IInv, LayersOrdered
  <2>3. visited' = UNION {layers'[k] : k \in DOMAIN layers'}
    <3>1. \A x : x \in visited' <=> x \in visited \/ x \in Layer
      BY <1>2
    <3>2. \A x : x \in visited <=> \E k \in 1 .. K - 1 : x \in layers'[k]
      BY <2>1, <2>2
    <3>3. \A k \in 1 .. K : k \in 1 .. K - 1 \/ k = K
      BY <2>1
    <3>4. K \in 1 .. K /\ layers'[K] = Layer /\ 1 .. K - 1 \subseteq 1 .. K
      BY <2>1
    <3>5. ASSUME NEW x, x \in visited' PROVE \E k \in 1 .. K : x \in layers'[k]
      BY <3>1, <3>2, <3>4, <3>5
    <3>6. ASSUME NEW x, NEW k \in 1 .. K, x \in layers'[k] PROVE x \in visited'
      BY <3>1, <3>2, <3>3, <3>4, <3>6
    <3> QED
      BY <2>1, <3>5, <3>6
  <2>4. \A j, k \in DOMAIN layers' : j # k => layers'[j] \cap layers'[k] = {}
    <3>1. \A k \in 1 .. K - 1 : layers'[k] \cap Layer = {}
      BY <1>3, <2>1, <2>2
    <3> QED
      BY <2>1, <2>2, <3>1
  <2>5. \A k \in DOMAIN layers' : \A e \in Edges :
           To(e) \in layers'[k] => \E j \in 1 .. k - 1 : From(e) \in layers'[j]
    <3> SUFFICES ASSUME NEW k \in 1 .. K, NEW e \in Edges, To(e) \in layers'[k]
                 PROVE  \E j \in 1 .. k - 1 : From(e) \in layers'[j]
      BY <2>1
    <3>1. CASE k = K
      BY <1>7, <2>1, <2>2, <3>1
    <3>2. CASE k # K
      BY <2>1, <2>2, <3>2
    <3> QED
      BY <3>1, <3>2
  <2> QED
    BY <1>1, <2>3, <2>4, <2>5 DEF LayersOrdered, To, From
<1>9. Grounded'
  <2>1. \A e \in Edges : To(e) \in visited' => From(e) \in visited'
    BY <1>2, <1>7 DEF Inv, IInv, Grounded
  <2>2. ASSUME NEW S \in SUBSET visited', Circular(S) PROVE FALSE
    <3>1. CASE S \cap visited = {}
      <4>1. S \subseteq Layer
        BY <1>2, <3>1
      <4>2. PICK n \in S : TRUE
        BY <2>2 DEF Circular
      <4>3. PICK e \in Edges : To(e) = n /\ From(e) \in S
        BY <2>2 DEF Circular
      <4> QED
        BY <1>7, <3>1, <4>1, <4>3
    <3>2. CASE S \cap visited # {}
      <4>1. \A n \in S \cap visited : \E e \in Edges : To(e) = n /\ From(e) \in S \cap visited
        BY <2>2 DEF Circular, Inv, IInv, Grounded
      <4>2. Circular(S \cap visited)
        BY <3>2, <4>1 DEF Circular
      <4> QED
        BY <4>2 DEF Inv, IInv, Grounded
    <3> QED
      BY <3>1, <3>2
  <2> QED
    BY <1>1, <2>1, <2>2 DEF Grounded, Circular, To, From
<1>10. Begun' /\ CycleFound'
  BY <1>1 DEF Inv, IInv, Begun, CycleFound, Unknown, From
<1> QED
  BY <1>1, <1>5, <1>6, <1>8, <1>9, <1>10 DEF Inv, IInv

\* When no node is left without unvisited dependencies, the unvisited ones are
\* a circle.
LEMMA StuckIsCircular ==
  ASSUME Inv, pc = "sort", visited # Nodes, Layer = {}
  PROVE  Circular(Nodes \ visited)
<1>1. Nodes \ visited # {}
  BY DEF Inv, IInv, TypeOK
<1> SUFFICES ASSUME NEW n \in Nodes \ visited
             PROVE  \E e \in Edges : To(e) = n /\ From(e) \in Nodes \ visited
  BY <1>1 DEF Circular
<1>2. inDegree[n] # 0 /\ inDegree[n] = Cardinality(Outside(n, visited))
  BY DEF Layer, Inv, IInv, Counted, Outside
<1>3. Outside(n, visited) # {}
  BY <1>2, FS_EmptySet
<1>4. PICK e \in Edges : To(e) = n /\ From(e) \notin visited
  BY <1>3 DEF Outside
<1>5. From(e) \in Nodes
  BY DEF Inv, IInv, Begun, Unknown
<1> QED
  BY <1>4, <1>5

\* The end of the sort, with a cycle or without one, is the right one.
LEMMA EndStep == Inv /\ (CycleDetected \/ Sorted) => Inv'
<1> SUFFICES ASSUME Inv, CycleDetected \/ Sorted PROVE Inv'
  OBVIOUS
<1>1. /\ UNCHANGED <<def, visited, layers>> /\ Nodes' = Nodes /\ Edges' = Edges
      /\ pc = "sort" /\ pc' = "done"
  BY DEF CycleDetected, Sorted, Nodes, Edges
<1>2. LayersOrdered' /\ Grounded' /\ Counted'
  <2>1. LayersOrdered'
    BY <1>1 DEF Inv, IInv, LayersOrdered, To, From
  <2>2. Grounded'
    BY <1>1 DEF Inv, IInv, Grounded, Circular, To, From
  <2>3. Counted'
    BY <1>1 DEF Counted
  <2> QED
    BY <2>1, <2>2, <2>3
<1>3. ~Unknown /\ ~Unknown' /\ "cycle" \notin errors /\ "unknown" \notin errors
  BY <1>1 DEF Inv, IInv, Begun, Unknown, From
<1>4. CASE CycleDetected
  <2>1. errors' = errors \cup {"cycle"} /\ \E S \in SUBSET Nodes : Circular(S)
    BY <1>4, StuckIsCircular DEF CycleDetected
  <2>2. CycleFound'
    BY <1>1, <1>3, <2>1 DEF CycleFound, Circular, To, From
  <2> QED
    BY <1>1, <1>2, <1>3, <2>1, <2>2 DEF Inv, IInv, TypeOK, Begun
<1>5. CASE Sorted
  <2>1. errors' = errors /\ visited = Nodes /\ ~\E S \in SUBSET Nodes : Circular(S)
    BY <1>5 DEF Sorted, Inv, IInv, Grounded
  <2>2. CycleFound'
    BY <1>1, <1>3, <2>1 DEF CycleFound, Circular, To, From
  <2> QED
    BY <1>1, <1>2, <1>3, <2>1, <2>2 DEF Inv, IInv, TypeOK, Begun
<1> QED
  BY <1>4, <1>5

\* The look for duplicates adds an error the sort does not read.
LEMMA NamesStep == Inv /\ (validateNames \/ UNCHANGED vars) => Inv'
<1> SUFFICES ASSUME Inv, validateNames \/ UNCHANGED vars PROVE Inv'
  OBVIOUS
<1>1. /\ UNCHANGED <<def, inDegree, visited, layers>> /\ Nodes' = Nodes /\ Edges' = Edges
      /\ \/ pc = "names" /\ pc' = "build" /\ errors' \subseteq errors \cup {"duplicate"}
         \/ UNCHANGED <<pc, errors>>
  BY DEF validateNames, vars, Nodes, Edges
<1>2. Unknown' <=> Unknown
  BY <1>1 DEF Unknown, From
<1>3. LayersOrdered'
  BY <1>1 DEF Inv, IInv, LayersOrdered, To, From
<1>4. Grounded'
  BY <1>1 DEF Inv, IInv, Grounded, Circular, To, From
<1>5. Counted'
  <2>1. CASE pc' = pc
    BY <1>1, <2>1 DEF Inv, IInv, Counted, To, From
  <2>2. CASE pc' = "build"
    BY <2>2 DEF Counted
  <2> QED
    BY <1>1, <2>1, <2>2
<1>6. CycleFound'
  <2>1. CASE UNCHANGED <<pc, errors>>
    <3>1. (\E S \in SUBSET Nodes : Circular(S))' <=> \E S \in SUBSET Nodes : Circular(S)
      BY <1>1 DEF Circular, To, From
    <3> QED
      BY <1>2, <2>1, <3>1 DEF Inv, IInv, CycleFound
  <2>2. CASE pc' = "build"
    BY <2>2 DEF CycleFound
  <2> QED
    BY <1>1, <2>1, <2>2
<1>7. TypeOK' /\ Begun'
  BY <1>1, <1>2 DEF Inv, IInv, TypeOK, Begun
<1> QED
  BY <1>1, <1>3, <1>4, <1>5, <1>6, <1>7 DEF Inv, IInv

\* The invariant holds of the sort of any definition.
THEOREM Inductive == Spec => []Inv
<1>1. Inv /\ [Next]_vars => Inv'
  <2> SUFFICES ASSUME Inv, [Next]_vars PROVE Inv'
    OBVIOUS
  <2> QED
    BY NamesStep, BuildStep, LayerStep, EndStep DEF Next
<1> QED
  BY <1>1, InitInv, PTL DEF Spec

\* The types of the sort's variables.
THEOREM TypeCorrect == Spec => []TypeOK
<1>1. Inv => TypeOK
  BY DEF Inv, IInv
<1> QED
  BY <1>1, Inductive, PTL

\* Every dependency of a node lies in an earlier layer.
THEOREM LayersAreOrdered == Spec => []LayersOrdered
<1>1. Inv => LayersOrdered
  BY DEF Inv, IInv
<1> QED
  BY <1>1, Inductive, PTL

\* A cycle is reported exactly when some nodes depend on each other in a circle.
THEOREM CyclesAreFound == Spec => []CycleFound
<1>1. Inv => CycleFound
  BY DEF Inv, IInv
<1> QED
  BY <1>1, Inductive, PTL

\* The nodes an execution has not completed, none of them ready, would be a
\* circle: an accepted definition always has a next node.
THEOREM AcceptedNeverStuck == Spec => []NeverStuck
<1>1. Inv => NeverStuck
  <2> SUFFICES ASSUME Inv, pc = "done", errors = {},
                      NEW completed \in SUBSET Nodes, completed # Nodes,
                      GetReadyNodes(completed) = {}
               PROVE  FALSE
    BY DEF NeverStuck
  <2>1. ~Unknown /\ ~\E S \in SUBSET Nodes : Circular(S)
    BY DEF Inv, IInv, Begun, CycleFound
  <2>2. \A n \in Nodes \ completed : \E e \in Edges : To(e) = n /\ From(e) \in Nodes \ completed
    BY <2>1 DEF GetReadyNodes, Unknown
  <2>3. Circular(Nodes \ completed)
    BY <2>2 DEF Circular
  <2> QED
    BY <2>1, <2>3
<1> QED
  BY <1>1, Inductive, PTL
=============================================================================
