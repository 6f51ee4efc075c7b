------------------------------ MODULE Iteration ------------------------------
(***************************************************************************)
(* Induction over the natural numbers in terms of sets and functions, and   *)
(* the function a start value and a step define: what proofs about a loop   *)
(* need that is written as a recursive function.                            *)
(***************************************************************************)
EXTENDS Integers, TLAPS, WellFoundedInduction

LessThan == {ss \in Nat \X Nat : ss[1] < ss[2]}

\* The order of the natural numbers has no infinite descent.
LEMMA LessThanIsWellFounded == IsWellFoundedOn(LessThan, Nat)
BY NatLessThanWellFounded DEF OpToRel, LessThan

\* A set of natural numbers has a least element.
LEMMA LeastElement ==
  ASSUME NEW T \in SUBSET Nat, T # {}
  PROVE  \E x \in T : \A y \in T : x <= y
<1>1. PICK x \in T : \A y \in T : ~ (<<y, x>> \in LessThan)
  BY LessThanIsWellFounded, WFMin
<1>2. \A y \in T : y < x => <<y, x>> \in LessThan
  BY DEF LessThan
<1>3. x \in Int /\ \A y \in T : y \in Int
  OBVIOUS
<1>4. ASSUME NEW y \in T
      PROVE  x <= y
  <2>1. ~ (y < x)
    BY <1>1, <1>2
  <2> QED
    BY <2>1, <1>3
<1> QED
  BY <1>4

\* Induction, over the members of a set.
LEMMA SetInduction ==
  ASSUME NEW S, 0 \in S, \A n \in Nat : n \in S => n + 1 \in S
  PROVE  Nat \subseteq S
<1>1. SUFFICES ASSUME Nat \ S # {} PROVE FALSE
  OBVIOUS
<1>2. PICK x \in Nat \ S : \A y \in Nat \ S : x <= y
  BY <1>1, LeastElement
<1>3. x # 0 /\ x - 1 \in Nat /\ x - 1 < x /\ (x - 1) + 1 = x
  BY <1>2
<1>4. x - 1 \in S
  BY <1>2, <1>3
<1> QED
  BY <1>2, <1>3, <1>4

\* The functions that follow the start a and the step H up to n.
Approximations(V, a, H, n) ==
  {f \in [0 .. n -> V] : f[0] = a /\ \A i \in 0 .. n - 1 : f[i + 1] = H[f[i]]}

\* There is one for every n.
LEMMA ApproximationExists ==
  ASSUME NEW V, NEW a \in V, NEW H \in [V -> V]
  PROVE  \A n \in Nat : Approximations(V, a, H, n) # {}
<1> DEFINE S == {n \in Nat : Approximations(V, a, H, n) # {}}
<1>1. 0 \in S
  <2>1. [i \in 0 .. 0 |-> a] \in Approximations(V, a, H, 0)
    BY DEF Approximations
  <2> QED
    BY <2>1
<1>2. ASSUME NEW n \in Nat, n \in S
      PROVE  n + 1 \in S
  <2>1. PICK f \in [0 .. n -> V] : f[0] = a /\ \A i \in 0 .. n - 1 : f[i + 1] = H[f[i]]
    BY <1>2 DEF Approximations
  <2> DEFINE g == [i \in 0 .. n + 1 |-> IF i = n + 1 THEN H[f[n]] ELSE f[i]]
  <2>2. g \in [0 .. n + 1 -> V]
    BY <2>1
  <2>3. g[0] = a /\ \A i \in 0 .. (n + 1) - 1 : g[i + 1] = H[g[i]]
    BY <2>1
  <2>4. g \in Approximations(V, a, H, n + 1)
    BY <2>2, <2>3 DEF Approximations
  <2> QED
    BY <2>4
<1> HIDE DEF S
<1>3. Nat \subseteq S
  BY <1>1, <1>2, SetInduction
<1> QED
  BY <1>3 DEF S

\* Where two of them are defined they agree.
LEMMA ApproximationsAgree ==
  ASSUME NEW V, NEW a \in V, NEW H \in [V -> V], NEW n \in Nat, NEW m \in Nat,
         NEW f \in Approximations(V, a, H, n), NEW g \in Approximations(V, a, H, m)
  PROVE  \A i \in Nat : i <= n /\ i <= m => f[i] = g[i]
<1> DEFINE S == {i \in Nat : i <= n /\ i <= m => f[i] = g[i]}
<1>1. /\ f[0] = a /\ \A i \in 0 .. n - 1 : f[i + 1] = H[f[i]]
      /\ g[0] = a /\ \A i \in 0 .. m - 1 : g[i + 1] = H[g[i]]
  BY DEF Approximations
<1>2. 0 \in S
  BY <1>1
<1>3. ASSUME NEW i \in Nat, i \in S
      PROVE  i + 1 \in S
  <2>1. i + 1 <= n /\ i + 1 <= m => i \in 0 .. n - 1 /\ i \in 0 .. m - 1
    OBVIOUS
  <2> QED
    BY <1>1, <1>3, <2>1
<1> HIDE DEF S
<1>4. Nat \subseteq S
  BY <1>2, <1>3, SetInduction
<1> QED
  BY <1>4 DEF S

\* So the start and the step define one function on the natural numbers.
LEMMA IterationExists ==
  ASSUME NEW V, NEW a \in V, NEW H \in [V -> V]
  PROVE  \E f \in [Nat -> V] : f[0] = a /\ \A n \in Nat : f[n + 1] = H[f[n]]
<1> DEFINE A(n) == CHOOSE f \in Approximations(V, a, H, n) : TRUE
           F == [n \in Nat |-> A(n)[n]]
<1>1. \A n \in Nat : A(n) \in Approximations(V, a, H, n)
  BY ApproximationExists
<1> HIDE DEF A
<1>2. ASSUME NEW n \in Nat
      PROVE  /\ A(n) \in [0 .. n -> V] /\ A(n)[0] = a
             /\ \A i \in 0 .. n - 1 : A(n)[i + 1] = H[A(n)[i]]
  BY <1>1 DEF Approximations
<1>3. F \in [Nat -> V]
  <2>1. ASSUME NEW n \in Nat
        PROVE  A(n)[n] \in V
    BY <1>2
  <2> QED
    BY <2>1
<1>4. F[0] = a
  BY <1>2
<1>5. ASSUME NEW n \in Nat
      PROVE  F[n + 1] = H[F[n]]
  <2>1. n + 1 \in Nat /\ n \in 0 .. (n + 1) - 1
    OBVIOUS
  <2>2. A(n + 1)[n + 1] = H[A(n + 1)[n]]
    BY <1>2, <2>1
  <2>3. A(n + 1)[n] = A(n)[n]
    <3>1. A(n) \in Approximations(V, a, H, n) /\ A(n + 1) \in Approximations(V, a, H, n + 1)
      BY <1>1, <2>1
    <3>2. \A i \in Nat : i <= n + 1 /\ i <= n => A(n + 1)[i] = A(n)[i]
      BY <2>1, <3>1, ApproximationsAgree
    <3> QED
      BY <3>2
  <2> QED
    BY <2>1, <2>2, <2>3
<1> HIDE DEF F
<1> QED
  BY <1>3, <1>4, <1>5

\* f is the function of a recursive definition with this start and this step.
Recurs(V, a, H, f) ==
  /\ f \in [Nat -> V]
  /\ \A n \in Nat : f[n] = IF n = 0 THEN a ELSE H[f[n - 1]]

\* There is one.
LEMMA RecursionExists ==
  ASSUME NEW V, NEW a \in V, NEW H \in [V -> V]
  PROVE  \E f : Recurs(V, a, H, f)
<1>1. PICK f \in [Nat -> V] : f[0] = a /\ \A n \in Nat : f[n + 1] = H[f[n]]
  BY IterationExists
<1>2. ASSUME NEW n \in Nat, n # 0
      PROVE  f[n] = H[f[n - 1]]
  <2>1. n - 1 \in Nat /\ (n - 1) + 1 = n
    BY <1>2
  <2>2. f[(n - 1) + 1] = H[f[n - 1]]
    BY <1>1, <2>1
  <2> QED
    BY <2>1, <2>2
<1>3. Recurs(V, a, H, f)
  BY <1>1, <1>2 DEF Recurs
<1> QED
  BY <1>3
=============================================================================
