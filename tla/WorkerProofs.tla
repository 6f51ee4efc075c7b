---------------------------- MODULE WorkerProofs ----------------------------
(***************************************************************************)
(* The pool never waits for itself, for any number of connections above    *)
(* that of the clients that can keep one.  The invariant behind it counts  *)
(* the connections of each client and keeps the queue without doubles.     *)
(***************************************************************************)
EXTENDS Worker, FiniteSetTheorems, SequenceTheorems, TLAPS

USE DEF Places

-----------------------------------------------------------------------------
(* The queue *)

\* A client that did not wait is at the end of the queue.
LEMMA Appended ==
  ASSUME queue \in Seq(Clients), at \in [Clients -> Places], Queued, Once,
         NEW c \in Clients, NEW to \in {"first", "second", "unlock"},
         ~Waiting(c), queue' = Append(queue, c), at' = [at EXCEPT ![c] = to]
  PROVE  queue' \in Seq(Clients) /\ Queued' /\ Once'
<1>1. /\ queue' \in Seq(Clients)
      /\ Len(queue') = Len(queue) + 1
      /\ \A i \in DOMAIN queue : queue'[i] = queue[i]
      /\ queue'[Len(queue) + 1] = c
      /\ DOMAIN queue = 1 .. Len(queue) /\ DOMAIN queue' = 1 .. Len(queue) + 1
      /\ Len(queue) \in Nat
  OBVIOUS
<1>2. ~\E i \in DOMAIN queue : queue[i] = c
  BY DEF Queued
<1>3. Once'
  <2> SUFFICES ASSUME NEW i \in DOMAIN queue', NEW j \in DOMAIN queue', queue'[i] = queue'[j]
               PROVE  i = j
    BY DEF Once
  <2>1. CASE i \in DOMAIN queue /\ j \in DOMAIN queue
    BY <1>1, <2>1 DEF Once
  <2>2. CASE i \notin DOMAIN queue \/ j \notin DOMAIN queue
    <3>1. \A m \in DOMAIN queue' : m \in DOMAIN queue \/ m = Len(queue) + 1
      BY <1>1
    <3> QED BY <1>1, <1>2, <2>2, <3>1
  <2> QED BY <2>1, <2>2
<1>4. Queued'
  <2> SUFFICES ASSUME NEW d \in Clients
               PROVE  Waiting(d)' <=> \E i \in DOMAIN queue' : queue'[i] = d
    BY DEF Queued
  <2>1. CASE d = c
    <3>1. Waiting(d)' BY <2>1 DEF Waiting
    <3>2. Len(queue) + 1 \in DOMAIN queue' BY <1>1
    <3> QED BY <1>1, <2>1, <3>1, <3>2
  <2>2. CASE d # c
    <3>1. Waiting(d)' <=> Waiting(d) BY <2>2 DEF Waiting
    <3>2. (\E i \in DOMAIN queue' : queue'[i] = d) <=> \E i \in DOMAIN queue : queue[i] = d
      <4>1. \A i \in DOMAIN queue : i \in DOMAIN queue' BY <1>1
      <4>2. \A i \in DOMAIN queue' : i \in DOMAIN queue \/ i = Len(queue) + 1 BY <1>1
      <4> QED BY <1>1, <2>2, <4>1, <4>2
    <3> QED BY <3>1, <3>2 DEF Queued
  <2> QED BY <2>1, <2>2
<1> QED BY <1>1, <1>3, <1>4

\* The one at position p is taken out of the queue and waits no more.
LEMMA TakenOut ==
  ASSUME queue \in Seq(Clients), at \in [Clients -> Places], Queued, Once,
         NEW c \in Clients, NEW to \in Places \ {"first", "second", "unlock"},
         NEW p \in DOMAIN queue, queue[p] = c,
         queue' = [i \in 1 .. Len(queue) - 1 |-> queue[IF i < p THEN i ELSE i + 1]],
         at' = [at EXCEPT ![c] = to]
  PROVE  queue' \in Seq(Clients) /\ Queued' /\ Once'
<1>1. /\ Len(queue) \in Nat /\ DOMAIN queue = 1 .. Len(queue) /\ p \in 1 .. Len(queue)
      /\ Len(queue) - 1 \in Nat
      /\ \A i \in DOMAIN queue : queue[i] \in Clients
  OBVIOUS
<1>2. /\ DOMAIN queue' = 1 .. Len(queue) - 1
      /\ \A i \in DOMAIN queue' : queue'[i] = queue[IF i < p THEN i ELSE i + 1]
      /\ \A i \in DOMAIN queue' : (IF i < p THEN i ELSE i + 1) \in DOMAIN queue
  BY <1>1
<1>3. queue' \in [1 .. Len(queue) - 1 -> Clients]
  BY <1>1, <1>2
<1>4. queue' \in Seq(Clients)
  <2> HIDE DEF Clients
  <2> QED BY <1>1, <1>3, \A n \in Nat : [1 .. n -> Clients] \subseteq Seq(Clients), SMT
<1>5. Once'
  <2> SUFFICES ASSUME NEW i \in DOMAIN queue', NEW j \in DOMAIN queue', queue'[i] = queue'[j]
               PROVE  i = j
    BY DEF Once
  <2>1. (IF i < p THEN i ELSE i + 1) = (IF j < p THEN j ELSE j + 1)
    BY <1>2 DEF Once
  <2> QED BY <1>1, <1>2, <2>1
<1>6. \A d \in Clients \ {c} :
        (\E i \in DOMAIN queue' : queue'[i] = d) <=> \E i \in DOMAIN queue : queue[i] = d
  <2> SUFFICES ASSUME NEW d \in Clients \ {c}
               PROVE  (\E i \in DOMAIN queue' : queue'[i] = d) <=> \E i \in DOMAIN queue : queue[i] = d
    OBVIOUS
  <2>1. ASSUME NEW i \in DOMAIN queue, queue[i] = d
        PROVE  \E j \in DOMAIN queue' : queue'[j] = d
    <3>1. i # p BY <2>1
    <3>2. CASE i < p
      <4>1. i \in DOMAIN queue' BY <1>1, <1>2, <3>2
      <4> QED BY <1>2, <2>1, <3>2, <4>1
    <3>3. CASE i > p
      <4>1. i - 1 \in DOMAIN queue' /\ ~(i - 1 < p) /\ i - 1 + 1 = i BY <1>1, <1>2, <3>3
      <4>2. queue'[i - 1] = queue[i - 1 + 1] BY <1>2, <4>1
      <4> QED BY <2>1, <4>1, <4>2
    <3> QED BY <1>1, <3>1, <3>2, <3>3
  <2> QED BY <1>2, <2>1
<1>7. ~\E i \in DOMAIN queue' : queue'[i] = c
  <2> SUFFICES ASSUME NEW i \in DOMAIN queue', queue'[i] = c PROVE FALSE
    OBVIOUS
  <2>1. (IF i < p THEN i ELSE i + 1) = p
    BY <1>2 DEF Once
  <2> QED BY <1>1, <1>2, <2>1
<1>8. Queued'
  <2> SUFFICES ASSUME NEW d \in Clients
               PROVE  Waiting(d)' <=> \E i \in DOMAIN queue' : queue'[i] = d
    BY DEF Queued
  <2>1. CASE d = c BY <1>7, <2>1 DEF Waiting
  <2>2. CASE d # c
    <3>1. Waiting(d)' <=> Waiting(d) BY <2>2 DEF Waiting
    <3> QED BY <1>6, <2>2, <3>1 DEF Queued
  <2> QED BY <2>1, <2>2
<1> QED BY <1>4, <1>5, <1>8

\* The head is served.
LEMMA Popped ==
  ASSUME queue \in Seq(Clients), at \in [Clients -> Places], Queued, Once,
         NEW c \in Clients, NEW to \in Places \ {"first", "second", "unlock"},
         queue # <<>>, c = Head(queue), queue' = Tail(queue), at' = [at EXCEPT ![c] = to]
  PROVE  queue' \in Seq(Clients) /\ Queued' /\ Once'
<1>1. /\ Len(queue) \in Nat \ {0} /\ 1 \in DOMAIN queue /\ queue[1] = c
      /\ DOMAIN queue' = 1 .. Len(queue) - 1
      /\ \A i \in 1 .. Len(queue) - 1 : queue'[i] = queue[i + 1]
  OBVIOUS
<1>2. Tail(queue) \in Seq(Clients)
  OBVIOUS
<1>3. queue' = [i \in 1 .. Len(queue) - 1 |-> queue'[i]]
  <2>1. PICK n \in Nat : queue' \in [1 .. n -> Clients]
    <3>1. queue' \in Seq(Clients) BY <1>2
    <3>2. Seq(Clients) = UNION {[1 .. n -> Clients] : n \in Nat} BY SeqDef, Zenon
    <3> QED BY <3>1, <3>2, Zenon
  <2>2. queue' = [i \in 1 .. n |-> queue'[i]] BY <2>1
  <2>3. 1 .. n = 1 .. Len(queue) - 1 BY <1>1, <2>1
  <2> QED BY <2>2, <2>3
<1>4. \A i \in 1 .. Len(queue) - 1 : queue'[i] = queue[IF i < 1 THEN i ELSE i + 1]
  BY <1>1
<1>5. queue' = [i \in 1 .. Len(queue) - 1 |-> queue[IF i < 1 THEN i ELSE i + 1]]
  BY <1>3, <1>4
<1> QED BY <1>1, <1>5, TakenOut

\* A client leaves, from wherever it is on the queue, if it is.
LEMMA Gone ==
  ASSUME queue \in Seq(Clients), at \in [Clients -> Places], Queued, Once,
         NEW c \in Clients, NEW to \in Places \ {"first", "second", "unlock"},
         queue' = Left(c), at' = [at EXCEPT ![c] = to]
  PROVE  queue' \in Seq(Clients) /\ Queued' /\ Once'
<1>1. CASE \E i \in DOMAIN queue : queue[i] = c
  <2> DEFINE p == CHOOSE i \in DOMAIN queue : queue[i] = c
  <2>1. p \in DOMAIN queue /\ queue[p] = c BY <1>1
  <2>2. queue' = [i \in 1 .. Len(queue) - 1 |-> queue[IF i < p THEN i ELSE i + 1]]
    BY <1>1 DEF Left
  <2> HIDE DEF p
  <2> QED BY <2>1, <2>2, TakenOut
<1>2. CASE ~\E i \in DOMAIN queue : queue[i] = c
  <2>1. queue' = queue /\ ~Waiting(c) BY <1>2 DEF Left, Queued
  <2>2. \A d \in Clients : Waiting(d)' <=> Waiting(d) BY <2>1 DEF Waiting
  <2> QED BY <2>1, <2>2 DEF Queued, Once
<1> QED BY <1>1, <1>2

\* Nothing of the queue changes when a client moves that waits neither before nor after.
LEMMA Unqueued ==
  ASSUME queue \in Seq(Clients), at \in [Clients -> Places], Queued, Once,
         NEW c \in Clients, NEW to \in Places \ {"first", "second", "unlock"},
         ~Waiting(c), queue' = queue, at' = [at EXCEPT ![c] = to]
  PROVE  queue' \in Seq(Clients) /\ Queued' /\ Once'
<1>1. \A d \in Clients : Waiting(d)' <=> Waiting(d) BY DEF Waiting
<1> QED BY <1>1 DEF Queued, Once

-----------------------------------------------------------------------------
(* The connections *)

LEMMA Finite == ASSUME NEW c PROVE IsFiniteSet(Uses(c))
<1>1. Uses(c) \in SUBSET Conns BY DEF Uses
<1> QED BY <1>1, FS_Subset, WorkerAssumption

LEMMA OneMore ==
  ASSUME holder \in [Conns -> Clients \cup {None}], NEW c \in Clients, Free # {},
         holder' = [holder EXCEPT ![CHOOSE k \in Free : TRUE] = c]
  PROVE  /\ holder' \in [Conns -> Clients \cup {None}]
         /\ Cardinality(Uses(c)') = Cardinality(Uses(c)) + 1
         /\ \A d \in Clients \ {c} : Uses(d)' = Uses(d)
<1> DEFINE f == CHOOSE k \in Free : TRUE
<1>1. f \in Conns /\ holder[f] = None BY DEF Free
<1> HIDE DEF f
<1>2. holder' = [holder EXCEPT ![f] = c] BY DEF f
<1>3. None \notin Clients BY WorkerAssumption
<1>4. Uses(c)' = Uses(c) \cup {f} /\ f \notin Uses(c)
  BY <1>1, <1>2, <1>3 DEF Uses
<1>5. \A d \in Clients \ {c} : Uses(d)' = Uses(d)
  BY <1>1, <1>2, <1>3 DEF Uses
<1>6. Cardinality(Uses(c) \cup {f}) = Cardinality(Uses(c)) + 1
  BY <1>4, Finite, FS_AddElement
<1> QED BY <1>1, <1>2, <1>4, <1>5, <1>6

LEMMA OneLess ==
  ASSUME holder \in [Conns -> Clients \cup {None}], NEW c \in Clients, Uses(c) # {},
         holder' = [holder EXCEPT ![CHOOSE k \in Uses(c) : TRUE] = None]
  PROVE  /\ holder' \in [Conns -> Clients \cup {None}]
         /\ Cardinality(Uses(c)') = Cardinality(Uses(c)) - 1
         /\ \A d \in Clients \ {c} : Uses(d)' = Uses(d)
<1> DEFINE f == CHOOSE k \in Uses(c) : TRUE
<1>1. f \in Conns /\ holder[f] = c BY DEF Uses
<1> HIDE DEF f
<1>2. holder' = [holder EXCEPT ![f] = None] BY DEF f
<1>3. None \notin Clients BY WorkerAssumption
<1>4. Uses(c)' = Uses(c) \ {f} /\ f \in Uses(c)
  BY <1>1, <1>2, <1>3 DEF Uses
<1>5. \A d \in Clients \ {c} : Uses(d)' = Uses(d)
  BY <1>1, <1>2, <1>3 DEF Uses
<1>6. Cardinality(Uses(c) \ {f}) = Cardinality(Uses(c)) - 1
  BY <1>4, Finite, FS_RemoveElement
<1> QED BY <1>1, <1>2, <1>4, <1>5, <1>6

LEMMA NoneLeft ==
  ASSUME holder \in [Conns -> Clients \cup {None}], NEW c \in Clients,
         holder' = [k \in Conns |-> IF holder[k] = c THEN None ELSE holder[k]]
  PROVE  /\ holder' \in [Conns -> Clients \cup {None}]
         /\ Cardinality(Uses(c)') = 0
         /\ \A d \in Clients \ {c} : Uses(d)' = Uses(d)
<1>1. None \notin Clients BY WorkerAssumption
<1>2. Uses(c)' = {} BY <1>1 DEF Uses
<1>3. \A d \in Clients \ {c} : Uses(d)' = Uses(d) BY <1>1 DEF Uses
<1> QED BY <1>2, <1>3, FS_EmptySet

\* A client moves with the connections of its new place.
LEMMA Moved ==
  ASSUME at \in [Clients -> Places], Held, NEW c \in Clients, NEW to \in Places,
         at' = [at EXCEPT ![c] = to], Cardinality(Uses(c)') = Count(to),
         \A d \in Clients \ {c} : Uses(d)' = Uses(d)
  PROVE  at' \in [Clients -> Places] /\ Held'
BY DEF Held, Count

\* A client moves to a place with as many connections.
LEMMA MovedSame ==
  ASSUME at \in [Clients -> Places], Held, NEW c \in Clients, NEW to \in Places,
         at' = [at EXCEPT ![c] = to], holder' = holder, Count(at[c]) = Count(to)
  PROVE  at' \in [Clients -> Places] /\ Held'
<1>1. \A d \in Clients : Uses(d)' = Uses(d) BY DEF Uses
<1> QED BY <1>1 DEF Held, Count

-----------------------------------------------------------------------------
(* IInv is inductive *)

LEMMA InitIInv == Init => IInv
<1> SUFFICES ASSUME Init PROVE IInv OBVIOUS
<1> DEFINE f == CHOOSE k \in Conns : TRUE
<1>1. f \in Conns BY WorkerAssumption
<1> HIDE DEF f
<1>2. holder = [[k \in Conns |-> None] EXCEPT ![f] = Listener] BY DEF Init, f
<1>3. Listener \in Clients /\ None \notin Clients BY WorkerAssumption DEF Clients
<1>4. at \in [Clients -> Places] BY DEF Init
<1>5. TypeOK
  <2>1. rows \in [Loops -> 0 .. MaxRows] BY WorkerAssumption DEF Init
  <2> QED BY <1>1, <1>2, <1>3, <1>4, <2>1 DEF Init, TypeOK
<1>6. Held
  <2> SUFFICES ASSUME NEW c \in Clients PROVE Cardinality(Uses(c)) = Count(at[c]) BY DEF Held
  <2>1. CASE c = Listener
    <3>1. Uses(c) = {f} BY <1>1, <1>2, <1>3, <2>1 DEF Uses
    <3>2. at[c] = "one" BY <2>1 DEF Init
    <3> QED BY <3>1, <3>2, FS_Singleton DEF Count
  <2>2. CASE c # Listener
    <3>1. Uses(c) = {} BY <1>1, <1>2, <1>3, <2>2 DEF Uses
    <3>2. at[c] = "idle" BY <2>2 DEF Init
    <3> QED BY <3>1, <3>2, FS_EmptySet DEF Count
  <2> QED BY <2>1, <2>2
<1>7. Queued /\ Once BY DEF Init, Queued, Once, Waiting
<1>8. Keeping BY DEF Init, Keeping
<1> QED BY <1>5, <1>6, <1>7, <1>8 DEF IInv, Accounted

\* The part of a step that the lemmas on queue and connections leave.
LEMMA Rest ==
  ASSUME phase' \in {"serving", "draining", "stopping", "closing", "closed"},
         at' \in [Clients -> Places], holder' \in [Conns -> Clients \cup {None}],
         queue' \in Seq(Clients), rows' \in [Loops -> 0 .. MaxRows], answered' \subseteq Runs,
         Held', Queued', Once', Keeping'
  PROVE  IInv'
BY DEF IInv, TypeOK, Accounted

\* The parts of the invariant, each on its own.
LEMMA Parts ==
  ASSUME IInv
  PROVE  /\ phase \in {"serving", "draining", "stopping", "closing", "closed"}
         /\ at \in [Clients -> Places] /\ holder \in [Conns -> Clients \cup {None}]
         /\ queue \in Seq(Clients) /\ rows \in [Loops -> 0 .. MaxRows] /\ answered \subseteq Runs
         /\ Held /\ Queued /\ Once /\ Keeping
BY DEF IInv, TypeOK, Accounted

LEMMA GrantStep == ASSUME IInv, NEW c \in Clients, Grant(c) PROVE IInv'
<1> USE Parts
<1>1. queue # <<>> /\ c = Head(queue) /\ queue' = Tail(queue) /\ Free # {}
  BY DEF Grant
<1>2. Waiting(c)
  <2>1. 1 \in DOMAIN queue /\ queue[1] = c BY <1>1
  <2> QED BY <2>1 DEF Queued
<1> DEFINE to == Granted[at[c]]
<1>3. /\ to \in Places \ {"first", "second", "unlock"}
      /\ Count(to) = Count(at[c]) + 1
      /\ at[c] # "second" => to # "two"
  BY <1>2 DEF Waiting, Granted, Count
<1> HIDE DEF to
<1>4. at' = [at EXCEPT ![c] = to] BY DEF Grant, to
<1>5. /\ holder' \in [Conns -> Clients \cup {None}]
      /\ Cardinality(Uses(c)') = Cardinality(Uses(c)) + 1
      /\ \A d \in Clients \ {c} : Uses(d)' = Uses(d)
  BY <1>1, OneMore DEF Grant
<1>6. at' \in [Clients -> Places] /\ Held'
  <2>1. Cardinality(Uses(c)') = Count(to) BY <1>3, <1>5 DEF Held
  <2> QED BY <1>3, <1>4, <1>5, <2>1, Moved
<1>7. queue' \in Seq(Clients) /\ Queued' /\ Once' BY <1>1, <1>3, <1>4, Popped
<1>8. rows' \in [Loops -> 0 .. MaxRows] /\ \A d \in Loops : d # c \/ at[c] = "second" => rows'[d] = rows[d]
  BY DEF Grant
<1>9. Keeping' BY <1>3, <1>4, <1>8 DEF Keeping
<1> QED BY <1>5, <1>6, <1>7, <1>8, <1>9, Rest DEF Grant

\* A client that gives all back and does not queue.
LEMMA GiveBackStep ==
  ASSUME IInv, NEW c \in Clients, NEW to \in {"idle", "leaving"}, GiveBack(c, to), UNCHANGED <<rows, answered>>,
         phase' \in {"serving", "draining", "stopping", "closing", "closed"}
  PROVE  IInv'
<1> USE Parts
<1>1. at' = [at EXCEPT ![c] = to] /\ queue' = Left(c) BY DEF GiveBack
<1>2. /\ holder' \in [Conns -> Clients \cup {None}]
      /\ Cardinality(Uses(c)') = 0
      /\ \A d \in Clients \ {c} : Uses(d)' = Uses(d)
  BY NoneLeft DEF GiveBack
<1>3. at' \in [Clients -> Places] /\ Held'
  <2>1. Count(to) = 0 BY DEF Count
  <2> QED BY <1>1, <1>2, <2>1, Moved
<1>4. queue' \in Seq(Clients) /\ Queued' /\ Once' BY <1>1, Gone
<1>5. Keeping' BY <1>1 DEF Keeping
<1> QED BY <1>2, <1>3, <1>4, <1>5, Rest

\* A client that asks for a connection.
LEMMA QueueStep ==
  ASSUME IInv, NEW c \in Clients, NEW from \in Places, NEW to \in Places, Queue(c, from, to),
         \/ from = "idle" /\ to = "first"
         \/ from = "leaving" /\ to = "unlock"
         \/ from = "one" /\ to = "second" /\ (c \in Runs \/ (c \in Loops /\ rows[c] > 0)),
         UNCHANGED <<holder, rows>>, answered' \subseteq Runs,
         phase' \in {"serving", "draining", "stopping", "closing", "closed"}
  PROVE  IInv'
<1> USE Parts
<1>1. at[c] = from /\ at' = [at EXCEPT ![c] = to] /\ queue' = Append(queue, c) BY DEF Queue
<1>2. Count(from) = Count(to) /\ ~Waiting(c) /\ to \in {"first", "second", "unlock"}
  BY <1>1 DEF Count, Waiting
<1>3. at' \in [Clients -> Places] /\ Held' BY <1>1, <1>2, MovedSame
<1>4. queue' \in Seq(Clients) /\ Queued' /\ Once' BY <1>1, <1>2, Appended
<1>5. Keeping' BY <1>1 DEF Keeping
<1> QED BY <1>3, <1>4, <1>5, Rest

\* A client that gives its second connection back.
LEMMA DropStep ==
  ASSUME IInv, NEW c \in Clients, DropOne(c), rows' \in [Loops -> 0 .. MaxRows],
         \A d \in Loops \ {c} : rows'[d] = rows[d], UNCHANGED <<phase, answered>>
  PROVE  IInv'
<1> USE Parts
<1>1. at[c] = "two" /\ at' = [at EXCEPT ![c] = "one"] /\ queue' = queue BY DEF DropOne
<1>2. Cardinality(Uses(c)) = 2 BY <1>1 DEF Held, Count
<1>3. Uses(c) # {}
  <2>1. Cardinality(Uses(c)) # 0 BY <1>2
  <2> QED BY <2>1, Finite, FS_EmptySet, Zenon
<1>4. /\ holder' \in [Conns -> Clients \cup {None}]
      /\ Cardinality(Uses(c)') = Cardinality(Uses(c)) - 1
      /\ \A d \in Clients \ {c} : Uses(d)' = Uses(d)
  BY <1>3, OneLess DEF DropOne
<1>5. at' \in [Clients -> Places] /\ Held'
  <2>1. Count("one") = 1 BY DEF Count
  <2>2. Cardinality(Uses(c)') = Count("one") BY <1>2, <1>4, <2>1, SMT
  <2> QED BY <1>1, <1>4, <2>2, Moved
<1>6. queue' \in Seq(Clients) /\ Queued' /\ Once'
  <2>1. ~Waiting(c) BY <1>1 DEF Waiting
  <2> QED BY <1>1, <2>1, Unqueued
<1>7. Keeping' BY <1>1 DEF Keeping
<1> QED BY <1>4, <1>5, <1>6, <1>7, Rest


LEMMA RefuseStep == ASSUME IInv, NEW c \in Clients, Refuse(c) PROVE IInv'
<1> USE Parts
<1> DEFINE to == IF at[c] = "second" THEN "one" ELSE "idle"
<1>1. queue # <<>> /\ c = Head(queue) /\ queue' = Tail(queue) /\ holder' = holder
      /\ at' = [at EXCEPT ![c] = to]
  BY DEF Refuse
<1>2. Waiting(c)
  <2>1. 1 \in DOMAIN queue /\ queue[1] = c BY <1>1
  <2> QED BY <2>1 DEF Queued
<1>3. to \in Places \ {"first", "second", "unlock"} /\ Count(to) = Count(at[c]) /\ to # "two"
  BY <1>2 DEF Waiting, Count
<1> HIDE DEF to
<1>4. at' \in [Clients -> Places] /\ Held' BY <1>1, <1>3, MovedSame
<1>5. queue' \in Seq(Clients) /\ Queued' /\ Once' BY <1>1, <1>3, Popped
<1>6. rows' \in [Loops -> 0 .. MaxRows] /\ \A d \in Loops \ {c} : rows'[d] = rows[d]
  <2>1. CASE c \in Loops /\ at[c] = "second"
    <3>1. rows[c] > 0 BY <2>1, WorkerAssumption DEF Keeping
    <3>2. rows[c] - 1 \in 0 .. MaxRows BY <2>1, <3>1, WorkerAssumption
    <3> QED BY <2>1, <3>2 DEF Refuse
  <2>2. CASE ~(c \in Loops /\ at[c] = "second") BY <2>2 DEF Refuse
  <2> QED BY <2>1, <2>2
<1>7. Keeping' BY <1>1, <1>3, <1>6 DEF Keeping
<1> QED BY <1>1, <1>4, <1>5, <1>6, <1>7, Rest DEF Refuse

LEMMA RowDoneStep == ASSUME IInv, NEW c \in Clients, RowDone(c) PROVE IInv'
<1> USE Parts
<1>1. c \in Loops /\ at[c] = "two" /\ rows' = [rows EXCEPT ![c] = @ - 1] BY DEF RowDone, DropOne
<1>2. rows[c] > 0 BY <1>1, WorkerAssumption DEF Keeping
<1>3. rows[c] - 1 \in 0 .. MaxRows BY <1>1, <1>2, WorkerAssumption
<1>4. rows' \in [Loops -> 0 .. MaxRows] /\ \A d \in Loops \ {c} : rows'[d] = rows[d] BY <1>1, <1>3
<1> QED BY <1>4, DropStep DEF RowDone

LEMMA StepIInv == IInv /\ [Next]_vars => IInv'
<1> SUFFICES ASSUME IInv, [Next]_vars PROVE IInv' OBVIOUS
<1> USE Parts
<1>1. ASSUME NEW c \in Clients, Ask(c) PROVE IInv' BY <1>1, QueueStep DEF Ask
<1>2. ASSUME NEW c \in Clients, Finish(c) PROVE IInv' BY <1>2, GiveBackStep DEF Finish
<1>3. ASSUME NEW c \in Clients, NextRow(c) PROVE IInv' BY <1>3, QueueStep DEF NextRow
<1>4. ASSUME NEW c \in Clients, LastRow(c) PROVE IInv' BY <1>4, GiveBackStep DEF LastRow
<1>5. ASSUME NEW c \in Clients, Answer(c) PROVE IInv'
  <2>1. /\ \A d \in Clients : Uses(d)' = Uses(d) /\ (Waiting(d)' <=> Waiting(d))
        /\ answered' \subseteq Runs
    BY <1>5 DEF Answer, Uses, Waiting
  <2>2. Held' /\ Queued' /\ Once' /\ Keeping' BY <1>5, <2>1 DEF Answer, Held, Queued, Once, Keeping
  <2> QED BY <1>5, <2>1, <2>2, Rest DEF Answer
<1>6. ASSUME NEW c \in Clients, Check(c) PROVE IInv' BY <1>6, QueueStep DEF Check
<1>7. ASSUME NEW c \in Clients, Unresolved(c) PROVE IInv'
  BY <1>7, DropStep DEF Unresolved
<1>8. ASSUME NEW c \in Clients, Resolved(c) PROVE IInv' BY <1>8, GiveBackStep DEF Resolved
<1>9. ASSUME NEW c \in Clients, Leave(c) PROVE IInv' BY <1>9, QueueStep DEF Leave
<1>10. ASSUME NEW c \in Clients, Unlocked(c) PROVE IInv' BY <1>10, GiveBackStep DEF Unlocked
<1>11. ASSUME NEW c \in Clients, Expire(c) PROVE IInv'
  BY <1>11, GiveBackStep DEF Expire
<1>12. ASSUME Cancel \/ Close \/ UNCHANGED vars PROVE IInv'
  <2>1. /\ \A d \in Clients : Uses(d)' = Uses(d) /\ (Waiting(d)' <=> Waiting(d))
        /\ phase' \in {"serving", "draining", "stopping", "closing", "closed"}
        /\ UNCHANGED <<at, holder, queue, rows, answered>>
    BY <1>12 DEF Cancel, Close, vars, Uses, Waiting
  <2>2. Held' /\ Queued' /\ Once' /\ Keeping' BY <2>1 DEF Held, Queued, Once, Keeping
  <2> QED BY <2>1, <2>2, Rest
<1>13. ASSUME Stop PROVE IInv'
  <2>1. Main \in Clients BY DEF Clients, Timed
  <2> QED BY <1>13, <2>1, QueueStep DEF Stop
<1> QED
  BY <1>1, <1>2, <1>3, <1>4, <1>5, <1>6, <1>7, <1>8, <1>9, <1>10, <1>11, <1>12, <1>13,
     GrantStep, RefuseStep, RowDoneStep DEF Next, Act

\* The counting invariant holds of every reachable state: it is what the pool's
\* promise rests on.
THEOREM Inductive == Spec => []IInv
BY InitIInv, StepIInv, PTL DEF Spec

\* The state of the process has its types (Worker's variables).
THEOREM TypeCorrect == Spec => []TypeOK
<1>1. IInv => TypeOK BY DEF IInv
<1> QED BY <1>1, Inductive, PTL

\* No client keeps a connection it should have given back, and none is on the
\* queue twice or waits without being on it, for any number of clients and
\* connections (executor.go:234-262).
THEOREM Balanced == Spec => []Accounted
<1>1. IInv => Accounted BY DEF IInv
<1> QED BY <1>1, Inductive, PTL

-----------------------------------------------------------------------------
(* The pool does not wait for itself *)

\* If all the connections were with the listener and with clients that wait for
\* a second one, two would be with one client.
LEMMA Pigeons == ASSUME IInv, Ample PROVE SomeoneMoves
<1> USE Parts
<1> SUFFICES ASSUME Free = {}, \A k \in Conns : holder[k] = Listener \/ Waiting(holder[k])
             PROVE  FALSE
  BY DEF SomeoneMoves
<1>1. \A k \in Conns : holder[k] \in Clients BY DEF Free
<1>2. \A k \in Conns : Cardinality(Uses(holder[k])) # 0
  <2> SUFFICES ASSUME NEW k \in Conns PROVE Cardinality(Uses(holder[k])) # 0 OBVIOUS
  <2>1. Uses(holder[k]) # {} BY DEF Uses
  <2> QED BY <2>1, Finite, FS_EmptySet, Zenon
<1>3. ASSUME NEW k \in Conns
      PROVE  holder[k] \in Keepers /\ Cardinality(Uses(holder[k])) = 1
  <2>1. Count(at[holder[k]]) = Cardinality(Uses(holder[k])) /\ at[holder[k]] \in Places
    BY <1>1 DEF Held
  <2>2. CASE Waiting(holder[k])
    <3>1. at[holder[k]] = "second" BY <1>2, <2>1, <2>2 DEF Waiting, Count
    <3>2. holder[k] \in Loops \cup Runs BY <1>1, <3>1 DEF Keeping
    <3> QED BY <2>1, <3>1, <3>2 DEF Count, Keepers
  <2>3. CASE holder[k] = Listener
    <3>1. at[holder[k]] \notin {"second", "two"}
      BY <1>1, <2>3, WorkerAssumption DEF Keeping
    <3>2. Count(at[holder[k]]) \in {0, 1} BY <2>1, <3>1 DEF Count
    <3> QED BY <1>2, <2>1, <2>3, <3>2 DEF Keepers
  <2> QED BY <2>2, <2>3
<1>4. holder \in [Conns -> Keepers] BY <1>3
<1>5. IsFiniteSet(Keepers)
  <2>1. IsFiniteSet({Listener}) BY FS_Singleton
  <2>2. IsFiniteSet({Listener} \cup Loops) BY <2>1, FS_Union, WorkerAssumption
  <2> QED BY <2>2, FS_Union, WorkerAssumption DEF Keepers
<1>6. PICK k \in Conns, l \in Conns : k # l /\ holder[k] = holder[l]
  BY <1>4, <1>5, FS_PigeonHole, WorkerAssumption DEF Ample
<1>7. PICK x : Uses(holder[k]) = {x} BY <1>3, Finite, FS_Singleton
<1>8. k \in Uses(holder[k]) /\ l \in Uses(holder[k]) BY <1>6 DEF Uses
<1> QED BY <1>6, <1>7, <1>8

\* With more connections than clients that can keep one, some client that has a
\* connection can always go on, for any numbers of them (config.go:65,
\* executor.go:234-262).
THEOREM NoPoolDeadlock == Ample => (Spec => []SomeoneMoves)
<1> SUFFICES ASSUME Ample PROVE Spec => []SomeoneMoves OBVIOUS
<1>1. IInv => SomeoneMoves BY Pigeons
<1> QED BY <1>1, Inductive, PTL
=============================================================================
