--------------------------- MODULE AttemptsProofs ---------------------------
(***************************************************************************)
(* Theorems of Attempts for every retry policy: the types, which commands  *)
(* of one step may be at work side by side, and how its waits grow.        *)
(***************************************************************************)
EXTENDS Attempts, Iteration, TLAPS

CommandState ==
  [client : {"none", "alive", "zero", "failed"},
   rest : {"none", "piped", "loose", "container"}]

\* A product wraps into the durations (calculateBackoff).
LEMMA WrapRange ==
  ASSUME NEW x \in Int
  PROVE  Wrap(x) \in -Top .. Top - 1
BY AttemptsAssumption, SMTT(30) DEF Wrap

\* A product that is a duration does not wrap.
LEMMA WrapFits ==
  ASSUME NEW x \in Nat, x < Top
  PROVE  Wrap(x) = x
<1>1. x + Top \in Nat /\ x + Top < 2 * Top
  BY AttemptsAssumption, SMT
<1>2. (x + Top) % (2 * Top) = x + Top
  BY <1>1, AttemptsAssumption, SMTT(30)
<1> QED
  BY <1>2, AttemptsAssumption, SMT DEF Wrap

-----------------------------------------------------------------------------
(* The loop that doubles the factor *)

\* What the loop does in one round.
LEMMA FactorLoop ==
  /\ Factor \in [Nat -> Int]
  /\ Factor[0] = 1
  /\ \A n \in Nat : Factor[n + 1] = Wrap(2 * Factor[n])
<1> DEFINE H == [x \in Int |-> Wrap(2 * x)]
           Body(f) == [n \in Nat |-> IF n = 0 THEN 1 ELSE Wrap(2 * f[n - 1])]
<1>1. H \in [Int -> Int]
  <2>1. ASSUME NEW x \in Int
        PROVE  Wrap(2 * x) \in Int
    <3>1. 2 * x \in Int
      OBVIOUS
    <3> QED
      BY <3>1, WrapRange, AttemptsAssumption, SMT
  <2> QED
    BY <2>1
<1>2. PICK f : Recurs(Int, 1, H, f)
  <2> HIDE DEF H
  <2> QED
    BY <1>1, RecursionExists
<1>3. f = Body(f)
  <2>1. ASSUME NEW n \in Nat, n # 0
        PROVE  H[f[n - 1]] = Wrap(2 * f[n - 1])
    BY <1>2, <2>1 DEF Recurs
  <2> HIDE DEF H
  <2> QED
    BY <1>2, <2>1 DEF Recurs
<1>4. Factor = Body(Factor)
  <2>1. Factor = CHOOSE g : g = Body(g)
    BY DEF Factor
  <2> HIDE DEF Body
  <2> QED
    BY <1>3, <2>1
<1>5. Factor[0] = 1
  BY <1>4
<1>6. \A n \in Nat : Factor[n + 1] = Wrap(2 * Factor[n])
  <2>1. ASSUME NEW n \in Nat
        PROVE  Factor[n + 1] = Wrap(2 * Factor[n])
    <3>1. n + 1 \in Nat /\ n + 1 # 0 /\ (n + 1) - 1 = n
      OBVIOUS
    <3> QED
      BY <1>4, <3>1
  <2> QED
    BY <2>1
<1>7. Factor \in [Nat -> Int]
  <2> DEFINE S == {n \in Nat : Factor[n] \in Int}
  <2>1. 0 \in S
    BY <1>5
  <2>2. ASSUME NEW n \in Nat, n \in S
        PROVE  n + 1 \in S
    <3>1. 2 * Factor[n] \in Int
      BY <2>2
    <3>2. Wrap(2 * Factor[n]) \in Int
      BY <3>1, WrapRange, AttemptsAssumption, SMT
    <3> QED
      BY <1>6, <3>2
  <2>3. Nat \subseteq S
    <3> HIDE DEF S
    <3> QED
      BY <2>1, <2>2, SetInduction
  <2>4. Factor = [n \in Nat |-> Factor[n]]
    BY <1>4
  <2>5. \A n \in Nat : Factor[n] \in Int
    BY <2>3
  <2> QED
    BY <2>4, <2>5
<1> QED
  BY <1>5, <1>6, <1>7

\* The powers of two.
LEMMA PowerLoop ==
  /\ Power \in [Nat -> Nat \ {0}]
  /\ Power[0] = 1
  /\ \A n \in Nat : Power[n + 1] = 2 * Power[n]
<1> DEFINE V == Nat \ {0}
           H == [x \in V |-> 2 * x]
           Body(f) == [n \in Nat |-> IF n = 0 THEN 1 ELSE 2 * f[n - 1]]
<1>1. H \in [V -> V] /\ 1 \in V
  OBVIOUS
<1>2. PICK f : Recurs(V, 1, H, f)
  <2> HIDE DEF H, V
  <2> QED
    BY <1>1, RecursionExists
<1>3. f = Body(f)
  <2>1. ASSUME NEW n \in Nat, n # 0
        PROVE  H[f[n - 1]] = 2 * f[n - 1]
    BY <1>2, <2>1 DEF Recurs
  <2> HIDE DEF H
  <2> QED
    BY <1>2, <2>1 DEF Recurs
<1>4. Power = Body(Power)
  <2>1. Power = CHOOSE g : g = Body(g)
    BY DEF Power
  <2> HIDE DEF Body
  <2> QED
    BY <1>3, <2>1
<1>5. Power[0] = 1
  BY <1>4
<1>6. ASSUME NEW n \in Nat
      PROVE  Power[n + 1] = 2 * Power[n]
  <2>1. n + 1 \in Nat /\ n + 1 # 0 /\ (n + 1) - 1 = n
    OBVIOUS
  <2> QED
    BY <1>4, <2>1
<1>7. \A n \in Nat : Power[n] \in Nat \ {0}
  <2> DEFINE S == {n \in Nat : Power[n] \in Nat \ {0}}
  <2>1. 0 \in S
    BY <1>5
  <2>2. ASSUME NEW n \in Nat, n \in S
        PROVE  n + 1 \in S
    BY <1>6, <2>2
  <2>3. Nat \subseteq S
    <3> HIDE DEF S
    <3> QED
      BY <2>1, <2>2, SetInduction
  <2> QED
    BY <2>3
<1>8. Power = [n \in Nat |-> Power[n]]
  BY <1>4
<1> QED
  BY <1>5, <1>6, <1>7, <1>8

\* The factor is the power of two as long as that is a duration.
LEMMA FactorIsPower == \A n \in Nat : Power[n] < Top => Factor[n] = Power[n]
<1> DEFINE S == {n \in Nat : Power[n] < Top => Factor[n] = Power[n]}
<1>1. 0 \in S
  BY FactorLoop, PowerLoop
<1>2. ASSUME NEW n \in Nat, n \in S
      PROVE  n + 1 \in S
  <2>1. SUFFICES ASSUME Power[n + 1] < Top
                 PROVE  Factor[n + 1] = Power[n + 1]
    OBVIOUS
  <2>2. Power[n] \in Nat /\ Power[n + 1] \in Nat /\ Power[n + 1] = 2 * Power[n]
    BY PowerLoop
  <2>3. Power[n] < Top
    BY <2>1, <2>2, AttemptsAssumption
  <2>4. Factor[n + 1] = Wrap(2 * Power[n])
    BY <1>2, <2>3, FactorLoop
  <2> QED
    BY <2>1, <2>2, <2>4, WrapFits
<1>3. Nat \subseteq S
  <2> HIDE DEF S
  <2> QED
    BY <1>1, <1>2, SetInduction
<1> QED
  BY <1>3

\* An exponential wait that fits is the product, cut at the maximum.
LEMMA ExponentialWait ==
  ASSUME NEW n \in Nat, Fits(n), step.backoff = "exponential"
  PROVE  /\ InitialWait * Power[n] \in Nat
         /\ calculateBackoff(n) = IF InitialWait * Power[n] > MaxWait THEN MaxWait
                                  ELSE InitialWait * Power[n]
<1> DEFINE x == InitialWait * Power[n]
           y == InitialWait * Factor[n]
<1>1. Power[n] \in Nat \ {0} /\ Factor[n] \in Int /\ InitialWait \in Nat
  BY PowerLoop, FactorLoop, AttemptsAssumption DEF Fits
<1>2. x \in Nat /\ x < Top
  <2>1. x \in Nat
    BY <1>1, SMT
  <2> QED
    BY <2>1 DEF Fits
<1>3. y = x
  <2>1. CASE InitialWait = 0
    BY <1>1, <2>1, SMT
  <2>2. CASE InitialWait # 0
    <3>1. Power[n] <= x
      BY <1>1, <2>2, SMT
    <3>2. Power[n] < Top
      BY <1>1, <1>2, <3>1, AttemptsAssumption
    <3> QED
      BY <3>2, FactorIsPower
  <2> QED
    BY <2>1, <2>2
<1> HIDE DEF x, y
<1>4. Wrap(y) = x
  BY <1>2, <1>3, WrapFits
<1> QED
  BY <1>2, <1>4 DEF calculateBackoff, x, y

\* Less than what fits fits, and its wait is not longer.
LEMMA ExponentialWaitGrows ==
  ASSUME NEW n \in Nat, Fits(n + 1), step.backoff = "exponential"
  PROVE  calculateBackoff(n) <= calculateBackoff(n + 1)
<1> DEFINE x == InitialWait * Power[n]
           y == InitialWait * Power[n + 1]
<1>1. Power[n] \in Nat /\ Power[n + 1] = 2 * Power[n] /\ InitialWait \in Nat
  BY PowerLoop, AttemptsAssumption DEF Fits
<1>2. x \in Nat /\ y = 2 * x
  BY <1>1, SMT
<1>3. y < Top
  BY DEF Fits
<1>4. Fits(n)
  <2> HIDE DEF x, y
  <2>1. x < Top
    BY <1>2, <1>3, AttemptsAssumption
  <2> QED
    BY <1>1, <2>1 DEF Fits, x
<1>5. /\ calculateBackoff(n) = IF x > MaxWait THEN MaxWait ELSE x
      /\ calculateBackoff(n + 1) = IF y > MaxWait THEN MaxWait ELSE y
  <2>1. n + 1 \in Nat
    OBVIOUS
  <2> QED
    BY <1>4, <2>1, ExponentialWait
<1> HIDE DEF x, y
<1> QED
  BY <1>2, <1>5, AttemptsAssumption, SMT

\* Whatever the product overflows to, the wait is cut at the maximum.
LEMMA ExponentialCut ==
  ASSUME NEW n \in Nat, step.backoff = "exponential"
  PROVE  calculateBackoff(n) <= MaxWait
<1> DEFINE d == Wrap(InitialWait * Factor[n])
<1>1. d \in Int
  <2>1. InitialWait * Factor[n] \in Int
    BY FactorLoop, AttemptsAssumption, SMT
  <2> QED
    BY <2>1, WrapRange, AttemptsAssumption
<1>2. calculateBackoff(n) = IF d > MaxWait THEN MaxWait ELSE d
  BY DEF calculateBackoff
<1> HIDE DEF d
<1> QED
  BY <1>1, <1>2, AttemptsAssumption, SMT

\* Whatever the policy, the wait is a duration.
LEMMA BackoffRange ==
  ASSUME NEW n \in Nat, step \in Definitions
  PROVE  calculateBackoff(n) \in -Top .. Top - 1
<1> DEFINE d == Wrap(InitialWait * Factor[n])
<1>1. Factor[n] \in Int
  BY FactorLoop
<1>2. d \in -Top .. Top - 1
  <2>1. InitialWait * Factor[n] \in Int
    BY <1>1, AttemptsAssumption, SMT
  <2> QED
    BY <2>1, WrapRange
<1>3. Wrap(InitialWait * n) \in -Top .. Top - 1
  <2>1. InitialWait * n \in Int
    BY AttemptsAssumption, SMT
  <2> QED
    BY <2>1, WrapRange
<1>4. step.backoff \in {"exponential", "linear", "fixed"}
  BY DEF Definitions
<1> HIDE DEF d
<1>5. (IF d > MaxWait THEN MaxWait ELSE d) \in -Top .. Top - 1
  BY <1>2, AttemptsAssumption, SMT
<1>6. InitialWait \in -Top .. Top - 1
  BY AttemptsAssumption, SMT
<1> QED
  BY <1>3, <1>4, <1>5, <1>6 DEF calculateBackoff, d

\* The commands are told apart, and the compensation is no attempt.
LEMMA Jobs ==
  /\ Comp \in Job
  /\ Attempt \subseteq Job
  /\ Comp \notin Attempt
  /\ Attempt \subseteq Nat
  /\ \A j \in Job : j = Comp \/ j \in Attempt
BY AttemptsAssumption, SMT DEF Comp, Job, Attempt

-----------------------------------------------------------------------------
(* Changes of a command *)

\* The initial states.
LEMMA InitInv == Init => IInv
<1> SUFFICES ASSUME Init PROVE IInv
  OBVIOUS
<1>1. TypeOK
  <2>1. attempt \in Attempt
    BY AttemptsAssumption, SMT DEF Init, Attempt
  <2>2. wait \in -Top .. Top - 1
    BY AttemptsAssumption, SMT DEF Init
  <2>3. job \in [Job -> CommandState]
    BY DEF Init, CommandState
  <2> QED
    BY <2>1, <2>2, <2>3 DEF Init, TypeOK, CommandState
<1>2. \A j \in Job : job[j].client = "none" /\ job[j].rest = "none"
  BY DEF Init
<1>3. Watched
  BY <1>2, Jobs DEF Watched, Attached
<1>4. Contained
  BY <1>2, Jobs DEF Contained
<1>5. Waits
  BY DEF Init, Waits
<1>6. Told
  <2>1. attempt \in Attempt /\ attempt \in Nat /\ attempt = 1 /\ \A j \in Attempt : ~(j < 1)
    BY <1>1, Jobs, SMT DEF Init, TypeOK, Attempt
  <2> QED
    BY <1>2, <2>1, Jobs DEF Told, Init
<1> QED
  BY <1>1, <1>3, <1>4, <1>5, <1>6 DEF IInv, Init, Due

\* Only the runner of a command launches it, and a launched command is refused,
\* or a shell without children, or a docker command with its container.
LEMMA RunType ==
  ASSUME job \in [Job -> CommandState], NEW j \in Job, NEW runner \in Runners \cup {"other"},
         Run(runner, j)
  PROVE  /\ job' \in [Job -> CommandState]
         /\ \A i \in Job : i # j => job'[i] = job[i]
         /\ \/ job'[j] = [client |-> "failed", rest |-> "none"]
            \/ /\ runner = "docker" /\ j # Comp /\ ~NameTaken(j)
               /\ job'[j] = [client |-> "alive", rest |-> "container"]
            \/ runner = "local" /\ job'[j] = [client |-> "alive", rest |-> "none"]
<1> DEFINE c == IF Refuses(runner, j) THEN [client |-> "failed", rest |-> "none"]
                ELSE [client |-> "alive", rest |-> IF runner = "docker" THEN "container" ELSE "none"]
<1>1. /\ job' = [job EXCEPT ![j] = c]
      /\ \/ c = [client |-> "failed", rest |-> "none"]
         \/ /\ runner = "docker" /\ j # Comp /\ ~NameTaken(j)
            /\ c = [client |-> "alive", rest |-> "container"]
         \/ runner = "local" /\ c = [client |-> "alive", rest |-> "none"]
  BY DEF Run, Refuses, NoLogin, NotRegistered, Runners
<1> HIDE DEF c
<1>2. c \in CommandState
  BY <1>1 DEF CommandState
<1> QED
  BY <1>1, <1>2

\* A change of one command while executeStep stands still: the command is not
\* attached again, gets no container, and children are of shells.
LEMMA Weaker ==
  ASSUME IInv, NEW j \in Job, NEW c \in CommandState,
         job' = [job EXCEPT ![j] = c],
         UNCHANGED <<step, pc, attempt, wait, ended>>,
         c.client = "alive" \/ c.rest = "piped" => Attached(j),
         c.rest = "container" => job[j].rest = "container",
         c.rest \in {"piped", "loose"} /\ j # Comp => step.runner = "local",
         c.client = "alive" /\ job[j].rest = "container" => c.rest = "container",
         c.client # job[j].client => job[j].client = "alive" /\ c.client # "none"
  PROVE  IInv'
<1>1. job \in [Job -> CommandState]
  BY DEF IInv, TypeOK, CommandState
<1>2. job' \in [Job -> CommandState] /\ job'[j] = c /\ \A i \in Job : i # j => job'[i] = job[i]
  BY <1>1
<1>3. TypeOK'
  BY <1>2 DEF IInv, TypeOK, CommandState
<1>4. Watched'
  <2>1. \A i \in Job : Attached(i)' => Attached(i)
    BY <1>2 DEF Attached
  <2> QED
    BY <2>1, Jobs DEF IInv, Watched
<1>5. Contained'
  <2>1. \A i \in Job : job'[i].rest = "container" => job[i].rest = "container"
    BY <1>2
  <2>2. job'[Comp].rest # "container"
    BY <2>1, Jobs DEF IInv, Contained
  <2>3. ASSUME NEW i \in Attempt
        PROVE  /\ job'[i].rest = "container" => step'.runner = "docker"
               /\ job'[i].rest \in {"piped", "loose"} => step'.runner = "local"
               /\ job'[i].client = "alive" /\ step'.runner # "local" => job'[i].rest = "container"
    <3>1. CASE i = j
      BY <3>1, <1>2, Jobs DEF IInv, Contained
    <3>2. CASE i # j
      BY <3>2, <1>2, Jobs DEF IInv, Contained
    <3> QED
      BY <3>1, <3>2
  <2>4. \A i, k \in Attempt :
          job'[i].rest = "container" /\ job'[k].rest = "container" => i = k
    BY <2>1, Jobs DEF IInv, Contained
  <2> QED
    BY <2>2, <2>3, <2>4 DEF Contained
<1>6. Waits'
  BY DEF IInv, Waits, calculateBackoff
<1>7. Told'
  <2>1. \A i \in Job : job'[i].client # job[i].client => i = j /\ job[j].client = "alive"
    BY <1>2
  <2>2. \A i \in Job : job[i].client \in {"none", "failed"} => job'[i].client = job[i].client
    BY <2>1
  <2>3. job'[Comp].client # "none" => job[Comp].client # "none"
    BY <2>2, Jobs
  <2>4. attempt \in Attempt
    BY DEF IInv, TypeOK
  <2> QED
    BY <2>2, <2>3, <2>4, Jobs DEF IInv, Told
<1> QED
  BY <1>3, <1>4, <1>5, <1>6, <1>7 DEF IInv, Due

\* The processes, while the runner waits.
LEMMA ProcessStep ==
  ASSUME IInv, NEW j \in Job, Fork(j) \/ Exit(j) \/ Lose(j) \/ Kill(j) \/ RestEnds(j)
  PROVE  IInv'
<1>1. job \in [Job -> CommandState] /\ job[j] \in CommandState
  BY DEF IInv, TypeOK, CommandState
<1>2. j # Comp => j \in Attempt
  BY Jobs
<1>3. CASE Fork(j)
  <2>1. PICK r \in {"piped", "loose"} : job' = [job EXCEPT ![j].rest = r]
    BY <1>3 DEF Fork
  <2> DEFINE c == [job[j] EXCEPT !.rest = r]
  <2>2. c \in CommandState /\ c.client = "alive" /\ c.rest = r
    BY <1>1, <1>3 DEF Fork, CommandState
  <2>3. job' = [job EXCEPT ![j] = c]
    BY <2>1
  <2>4. job[j].client = "alive" /\ job[j].rest = "none" /\ (j # Comp => step.runner = "local")
    BY <1>3 DEF Fork, Runner
  <2> HIDE DEF c
  <2> QED
    BY <1>3, <2>2, <2>3, <2>4, Weaker DEF Fork, Attached
<1>4. CASE Exit(j)
  <2>1. PICK code \in {"zero", "failed"} :
          job' = [job EXCEPT ![j] =
            [client |-> code, rest |-> IF job[j].rest = "container" THEN "none" ELSE job[j].rest]]
    BY <1>4 DEF Exit
  <2> DEFINE c == [client |-> code, rest |-> IF job[j].rest = "container" THEN "none" ELSE job[j].rest]
  <2>2. c \in CommandState /\ c.client \in {"zero", "failed"} /\ c.rest # "container"
        /\ (c.rest # "none" => c.rest = job[j].rest)
    BY <1>1 DEF CommandState
  <2>3. job' = [job EXCEPT ![j] = c]
    BY <2>1
  <2> HIDE DEF c
  <2>4. c.rest \in {"piped", "loose"} /\ j # Comp => step.runner = "local"
    BY <1>2, <2>2 DEF IInv, Contained
  <2>5. job[j].client = "alive" /\ UNCHANGED <<step, pc, attempt, wait, ended>>
    BY <1>4 DEF Exit
  <2> QED
    BY <2>2, <2>3, <2>4, <2>5, Weaker DEF Attached
<1>5. CASE Lose(j) \/ Kill(j)
  <2> DEFINE c == [job[j] EXCEPT !.client = "failed"]
  <2>1. job' = [job EXCEPT ![j] = c]
    BY <1>5 DEF Lose, Kill
  <2>2. c \in CommandState /\ c.client = "failed" /\ c.rest = job[j].rest
    BY <1>1 DEF CommandState
  <2> HIDE DEF c
  <2>3. c.rest \in {"piped", "loose"} /\ j # Comp => step.runner = "local"
    BY <1>2, <2>2 DEF IInv, Contained
  <2>4. job[j].client = "alive" /\ UNCHANGED <<step, pc, attempt, wait, ended>>
    BY <1>5 DEF Lose, Kill
  <2> QED
    BY <2>1, <2>2, <2>3, <2>4, Weaker DEF Attached
<1>6. CASE RestEnds(j)
  <2> DEFINE c == [job[j] EXCEPT !.rest = "none"]
  <2>1. job' = [job EXCEPT ![j] = c]
    BY <1>6 DEF RestEnds
  <2>2. c \in CommandState /\ c.client = job[j].client /\ c.rest = "none"
    BY <1>1 DEF CommandState
  <2>3. job[j].rest = "container" => job[j].client # "alive"
    BY <1>6 DEF RestEnds
  <2> HIDE DEF c
  <2> QED
    BY <1>6, <2>1, <2>2, <2>3, Weaker DEF RestEnds, Attached
<1> QED
  BY <1>3, <1>4, <1>5, <1>6

-----------------------------------------------------------------------------
(* executeStep *)

\* A command is launched when nothing of the step is attached.
LEMMA TryStep == ASSUME IInv, Try PROVE IInv'
<1>1. job \in [Job -> CommandState] /\ attempt \in Attempt /\ attempt \in Job
      /\ step.runner \in Runners
  BY Jobs DEF IInv, TypeOK, CommandState, Definitions
<1>2. /\ job' \in [Job -> CommandState]
      /\ \A i \in Job : i # attempt => job'[i] = job[i]
      /\ \/ job'[attempt] = [client |-> "failed", rest |-> "none"]
         \/ /\ step.runner = "docker" /\ ~NameTaken(attempt)
            /\ job'[attempt] = [client |-> "alive", rest |-> "container"]
         \/ step.runner = "local" /\ job'[attempt] = [client |-> "alive", rest |-> "none"]
  BY <1>1, RunType DEF Try
<1>3. pc = "attempt" /\ pc' = "running" /\ UNCHANGED <<step, attempt, wait, ended>>
  BY DEF Try
<1>4. TypeOK'
  BY <1>2, <1>3 DEF IInv, TypeOK, CommandState
<1>5. Watched'
  <2>1. \A i \in Job : ~Attached(i)
    BY <1>3, Jobs DEF IInv, Watched
  <2>2. \A i \in Job : i # attempt => ~Attached(i)'
    BY <1>2, <2>1 DEF Attached
  <2> QED
    BY <1>1, <1>3, <2>2, Jobs DEF Watched
<1>6. Contained'
  <2>1. job'[Comp].rest # "container"
    BY <1>1, <1>2, Jobs DEF IInv, Contained
  <2>2. ASSUME NEW i \in Attempt
        PROVE  /\ job'[i].rest = "container" => step'.runner = "docker"
               /\ job'[i].rest \in {"piped", "loose"} => step'.runner = "local"
               /\ job'[i].client = "alive" /\ step'.runner # "local" => job'[i].rest = "container"
    <3>1. CASE i = attempt
      BY <3>1, <1>2, <1>3
    <3>2. CASE i # attempt
      BY <3>2, <1>2, <1>3, Jobs DEF IInv, Contained
    <3> QED
      BY <3>1, <3>2
  <2>3. ASSUME NEW i \in Attempt, NEW k \in Attempt,
               job'[i].rest = "container", job'[k].rest = "container"
        PROVE  i = k
    <3>1. CASE i # attempt /\ k # attempt
      BY <3>1, <2>3, <1>2, Jobs DEF IInv, Contained
    <3>2. ASSUME job'[attempt].rest = "container", NEW n \in Attempt, n # attempt,
                 job'[n].rest = "container"
          PROVE  FALSE
      <4>1. ~NameTaken(attempt)
        BY <3>2, <1>2
      <4>2. job[n].rest = "container"
        BY <3>2, <1>2, Jobs
      <4> QED
        BY <4>1, <4>2, <1>1, Jobs DEF NameTaken
    <3> QED
      BY <3>1, <3>2, <2>3
  <2> QED
    BY <2>1, <2>2, <2>3 DEF Contained
<1>7. Waits'
  BY <1>3 DEF IInv, Waits, calculateBackoff
<1>8. Told'
  <2>1. \A i \in Attempt : i # attempt => job'[i] = job[i]
    BY <1>2, Jobs
  <2>2. \A i \in Attempt : i < attempt \/ i > attempt => i # attempt
    BY <1>1, Jobs
  <2>3. job'[Comp] = job[Comp]
    BY <1>1, <1>2, Jobs
  <2> QED
    BY <1>3, <2>1, <2>2, <2>3 DEF IInv, Told
<1> QED
  BY <1>3, <1>4, <1>5, <1>6, <1>7, <1>8 DEF IInv, Due

\* The compensation is launched when no attempt is attached, and never a container.
LEMMA CompensationStep == ASSUME IInv, runCompensation PROVE IInv'
<1>1. job \in [Job -> CommandState] /\ Comp \in Job
  BY Jobs DEF IInv, TypeOK, CommandState
<1>2. pc = "compensate" /\ pc' = "compensating" /\ UNCHANGED <<step, attempt, wait, ended>>
  BY DEF runCompensation
<1>3. /\ job' \in [Job -> CommandState]
      /\ \A i \in Job : i # Comp => job'[i] = job[i]
      /\ job'[Comp].rest = "none"
  <2>1. step.comp \in Runners \cup {"other"}
    BY <1>2 DEF IInv, TypeOK, Definitions, Due
  <2>2. Run(step.comp, Comp)
    BY DEF runCompensation
  <2> QED
    BY <1>1, <2>1, <2>2, RunType
<1>4. TypeOK'
  BY <1>2, <1>3 DEF IInv, TypeOK, CommandState
<1>5. Watched'
  <2>1. \A i \in Attempt : ~Attached(i)
    BY <1>2 DEF IInv, Watched
  <2>2. \A i \in Attempt : ~Attached(i)'
    BY <1>3, <2>1, Jobs DEF Attached
  <2> QED
    BY <1>2, <2>2 DEF Watched
<1>6. Contained'
  <2>1. \A i \in Attempt : job'[i] = job[i]
    BY <1>3, Jobs
  <2> QED
    BY <1>2, <1>3, <2>1 DEF IInv, Contained
<1>7. Due'
  BY <1>2 DEF IInv, Due
<1>8. Waits'
  BY <1>2 DEF Waits
<1>9. Told'
  <2>1. \A i \in Attempt : job'[i] = job[i]
    BY <1>3, Jobs
  <2>2. attempt \in Attempt
    BY DEF IInv, TypeOK
  <2> QED
    BY <1>2, <2>1, <2>2 DEF IInv, Told
<1> QED
  BY <1>4, <1>5, <1>6, <1>7, <1>8, <1>9 DEF IInv

\* The rest of executeStep moves on when the runner waits for nothing.
LEMMA ControlStep ==
  ASSUME IInv,
         Succeed \/ Backoff \/ Retry \/ GiveUp \/ Fail \/ Compensated
           \/ \E c \in {"run", "step", "comp"} : EndContext(c)
  PROVE  IInv'
<1>1. UNCHANGED <<step, job>>
  BY DEF Succeed, Backoff, Retry, GiveUp, Fail, Compensated, EndContext
<1>2. attempt \in Attempt /\ attempt \in Nat /\ pc' \in {"attempt", "running", "backoff", "compensate", "compensating", "ended"}
      /\ (pc' = pc \/ pc' \in {"backoff", "ended", "compensate", "attempt"})
  BY Jobs DEF IInv, TypeOK, Succeed, Backoff, Retry, GiveUp, Fail, Compensated, EndContext
<1>3. TypeOK'
  <2>1. attempt' \in Attempt
    <3>1. CASE Retry
      BY <3>1, <1>2, AttemptsAssumption, SMT DEF Retry, IInv, Due, Attempt
    <3>2. CASE ~Retry
      BY <3>2, <1>2 DEF Succeed, Backoff, GiveUp, Fail, Compensated, EndContext
    <3> QED
      BY <3>1, <3>2
  <2>2. wait' \in -Top .. Top - 1
    <3>1. CASE Backoff
      BY <3>1, <1>2, BackoffRange DEF Backoff, IInv, TypeOK
    <3>2. CASE ~Backoff
      BY <3>2 DEF IInv, TypeOK, Succeed, Retry, GiveUp, Fail, Compensated, EndContext
    <3> QED
      BY <3>1, <3>2
  <2>3. ended' \subseteq {"run", "step", "comp"}
    BY DEF IInv, TypeOK, Succeed, Backoff, Retry, GiveUp, Fail, Compensated, EndContext
  <2> QED
    BY <1>1, <1>2, <2>1, <2>2, <2>3 DEF IInv, TypeOK
<1>4. Watched'
  <2>1. \A i \in Job : Attached(i)' <=> Attached(i)
    BY <1>1 DEF Attached
  <2>2. ASSUME NEW i \in Attempt, Attached(i)
        PROVE  i = attempt' /\ pc' = "running"
    <3>1. i = attempt /\ pc = "running" /\ ~Waited(attempt)
      BY <2>2 DEF IInv, Watched, Attached, Waited
    <3> QED
      BY <3>1 DEF Succeed, Backoff, Retry, GiveUp, Fail, Compensated, EndContext
  <2>3. ASSUME Attached(Comp)
        PROVE  pc' = "compensating"
    <3>1. pc = "compensating" /\ ~Waited(Comp)
      BY <2>3 DEF IInv, Watched, Attached, Waited
    <3> QED
      BY <3>1 DEF Succeed, Backoff, Retry, GiveUp, Fail, Compensated, EndContext
  <2> QED
    BY <2>1, <2>2, <2>3, Jobs DEF Watched
<1>5. Contained'
  BY <1>1 DEF IInv, Contained
<1>6. Due'
  <2>1. pc' = "backoff" => attempt' < MaxAttempts
    BY DEF IInv, Due, Succeed, Backoff, Retry, GiveUp, Fail, Compensated, EndContext
  <2>2. pc' \in {"compensate", "compensating"} => step'.comp # "none"
    BY <1>1 DEF IInv, Due, Succeed, Backoff, Retry, GiveUp, Fail, Compensated, EndContext
  <2> QED
    BY <2>1, <2>2 DEF Due
<1>7. Waits'
  <2>1. CASE Retry
    <3>1. pc = "backoff" /\ attempt' = attempt + 1 /\ wait' = wait /\ pc' = "attempt"
      BY <2>1 DEF Retry
    <3>2. wait = calculateBackoff(attempt)
      BY <3>1 DEF IInv, Waits
    <3>3. attempt' # 1 /\ attempt' - 1 = attempt
      BY <1>2, <3>1, Jobs, AttemptsAssumption, SMT DEF Attempt
    <3>4. pc' = "attempt" /\ wait' = calculateBackoff(attempt) /\ step' = step
      BY <1>1, <3>1, <3>2
    <3>5. wait' = calculateBackoff(attempt - 1)'
      BY <3>3, <3>4 DEF calculateBackoff
    <3> QED
      BY <3>3, <3>4, <3>5 DEF Waits
  <2>2. CASE \E c \in {"run", "step", "comp"} : EndContext(c)
    BY <2>2 DEF EndContext, IInv, Waits, calculateBackoff
  <2>3. CASE Backoff
    <3>1. pc' = "backoff" /\ attempt' = attempt /\ wait' = calculateBackoff(attempt)
      BY <2>3 DEF Backoff
    <3> QED
      BY <1>1, <3>1 DEF Waits, calculateBackoff
  <2>4. CASE Succeed \/ GiveUp \/ Fail \/ Compensated
    BY <2>4 DEF Succeed, GiveUp, Fail, Compensated, Waits
  <2> QED
    BY <2>1, <2>2, <2>3, <2>4
<1>8. Told'
  <2>1. CASE Retry
    <3>1. pc = "backoff" /\ attempt' = attempt + 1 /\ pc' = "attempt"
      BY <2>1 DEF Retry
    <3>2. /\ \A i \in Attempt : /\ i < attempt' => job[i].client = "failed"
                                /\ i > attempt' => job[i].client = "none"
          /\ attempt' \in Attempt /\ job[attempt'].client = "none"
      <4>1. \A i \in Attempt : /\ i < attempt' => i < attempt \/ i = attempt
                               /\ i > attempt' => i > attempt
        BY <1>2, <3>1, Jobs, SMT
      <4>2. attempt' \in Attempt /\ attempt' > attempt
        BY <1>2, <1>3, <3>1 DEF TypeOK
      <4> QED
        BY <3>1, <4>1, <4>2 DEF IInv, Told
    <3> QED
      BY <1>1, <3>1, <3>2 DEF IInv, Told
  <2>2. CASE Succeed \/ Backoff \/ GiveUp \/ Fail \/ Compensated
             \/ \E c \in {"run", "step", "comp"} : EndContext(c)
    <3>1. attempt' = attempt
      BY <2>2 DEF Succeed, Backoff, GiveUp, Fail, Compensated, EndContext
    <3>2. /\ pc' = "attempt" => pc = "attempt"
          /\ pc' \in {"backoff", "compensate", "compensating"} => job[attempt].client = "failed"
          /\ pc' \in {"compensate", "compensating"} => attempt = MaxAttempts
      BY <2>2 DEF IInv, Told, Succeed, Backoff, GiveUp, Fail, Compensated, EndContext
    <3>3. pc \in {"compensating", "ended"} => pc' \in {"compensating", "ended"}
      BY <2>2 DEF Succeed, Backoff, GiveUp, Fail, Compensated, EndContext
    <3> QED
      BY <1>1, <3>1, <3>2, <3>3 DEF IInv, Told
  <2> QED
    BY <2>1, <2>2
<1> QED
  BY <1>3, <1>4, <1>5, <1>6, <1>7, <1>8 DEF IInv

-----------------------------------------------------------------------------
(* The theorems *)

\* IInv holds in every reachable state: what the runner waits for is the current
\* command, and there is one container at most (executor.go:156-191).
THEOREM Inductive == Spec => []IInv
<1>1. IInv /\ [Next]_vars => IInv'
  <2> SUFFICES ASSUME IInv, [Next]_vars PROVE IInv'
    OBVIOUS
  <2>1. CASE UNCHANGED vars
    BY <2>1 DEF vars, IInv, TypeOK, Watched, Attached, Contained, Due, Told, Waits,
       calculateBackoff
  <2>2. CASE Try
    BY <2>2, TryStep
  <2>3. CASE runCompensation
    BY <2>3, CompensationStep
  <2>4. CASE Succeed \/ Backoff \/ Retry \/ GiveUp \/ Fail \/ Compensated
               \/ \E c \in {"run", "step", "comp"} : EndContext(c)
    BY <2>4, ControlStep
  <2>5. CASE \E j \in Job : Fork(j) \/ Exit(j) \/ Lose(j) \/ Kill(j) \/ RestEnds(j)
    BY <2>5, ProcessStep
  <2> QED
    BY <2>1, <2>2, <2>3, <2>4, <2>5 DEF Next, Proceed
<1> QED
  BY <1>1, InitInv, PTL DEF Spec

\* The state of the step and its commands keeps its types, overflown waits included.
THEOREM TypeCorrect == Spec => []TypeOK
<1>1. IInv => TypeOK
  BY DEF IInv
<1> QED
  BY <1>1, Inductive, PTL

\* At most one command of a step is at work, however many attempts there are, but
\* for a child with redirected output and a container beside the compensation
\* (local.go:28, :48, docker.go:30).
THEOREM CommandsAreAlone == Spec => []OneCommand
<1>1. IInv => OneCommand
  <2> SUFFICES ASSUME IInv, NEW i \in Job, NEW j \in Job, Works(i), Works(j), i # j,
                      ~LeftLoose(i), ~LeftLoose(j),
                      job[i].rest # "container" \/ Comp \notin {i, j},
                      job[j].rest # "container" \/ Comp \notin {i, j}
               PROVE  FALSE
    BY DEF OneCommand
  <2>1. \A k \in {i, j} : Attached(k) \/ job[k].rest = "container"
    BY DEF Works, LeftLoose, Attached, IInv, TypeOK
  <2>2. CASE i \in Attempt /\ j \in Attempt
    <3>1. ~(Attached(i) /\ Attached(j))
      BY <2>2 DEF IInv, Watched
    <3>2. \A k \in Attempt :
            Attached(k) /\ step.runner = "docker" => job[k].rest = "container"
      BY DEF IInv, Contained, Attached
    <3>3. ~(job[i].rest = "container" /\ job[j].rest = "container")
      BY <2>2 DEF IInv, Contained
    <3>4. \A k \in Attempt : job[k].rest = "container" => step.runner = "docker"
      BY DEF IInv, Contained
    <3> QED
      BY <2>1, <2>2, <3>1, <3>2, <3>3, <3>4
  <2>3. CASE i = Comp \/ j = Comp
    <3>1. Attached(i) /\ Attached(j)
      BY <2>1, <2>3
    <3> QED
      BY <2>3, <3>1, Jobs DEF IInv, Watched
  <2> QED
    BY <2>2, <2>3, Jobs
<1> QED
  BY <1>1, Inductive, PTL

\* For every policy and any number of attempts, no exponential wait exceeds the
\* maximum, and none is shorter than the one before it until the product overflows
\* or is negative (executor.go:465-479).
THEOREM WaitsGrowUpToMax == Spec => WaitsGrow
<1> DEFINE Grows ==
      pc' = "backoff" /\ pc # "backoff" /\ step.backoff = "exponential"
        => /\ wait' <= MaxWait
           /\ attempt > 1 /\ Fits(attempt) => wait <= wait'
<1>1. IInv /\ [Next]_vars => Grows
  <2> SUFFICES ASSUME IInv, [Next]_vars, pc' = "backoff", pc # "backoff",
                      step.backoff = "exponential"
               PROVE  /\ wait' <= MaxWait
                      /\ attempt > 1 /\ Fits(attempt) => wait <= wait'
    OBVIOUS
  <2>1. Backoff
    BY DEF Next, vars, Proceed, Try, Succeed, Retry, GiveUp, Fail, runCompensation,
           Compensated, Fork, Exit, Lose, Kill, RestEnds, EndContext
  <2>2. pc = "running" /\ wait' = calculateBackoff(attempt) /\ attempt \in Nat /\ attempt # 0
    BY <2>1, Jobs DEF Backoff, IInv, TypeOK, Comp
  <2>3. wait' <= MaxWait
    BY <2>2, ExponentialCut
  <2>4. ASSUME attempt > 1, Fits(attempt)
        PROVE  wait <= wait'
    <3>1. attempt - 1 \in Nat /\ (attempt - 1) + 1 = attempt
      BY <2>2
    <3>2. wait = calculateBackoff(attempt - 1)
      BY <2>2, <2>4 DEF IInv, Waits
    <3>3. calculateBackoff(attempt - 1) <= calculateBackoff(attempt)
      BY <2>4, <3>1, ExponentialWaitGrows
    <3> QED
      BY <2>2, <3>2, <3>3
  <2> QED
    BY <2>3, <2>4
<1>2. Spec => [][Grows]_vars
  BY <1>1, Inductive, PTL DEF Spec
<1> QED
  BY <1>2 DEF WaitsGrow

-----------------------------------------------------------------------------
(* Attempts implements StepLoop *)

\* No command succeeded before the current attempt's client is gone.
LEMMA NoneSucceeded ==
  ASSUME IInv, \/ pc \in {"attempt", "backoff", "compensate", "compensating"}
               \/ pc = "running" /\ job[attempt].client # "zero"
  PROVE  \A j \in Attempt : job[j].client # "zero"
<1>1. attempt \in Attempt /\ \A j \in Attempt : j < attempt \/ j = attempt \/ j > attempt
  BY Jobs, SMT DEF IInv, TypeOK
<1> QED
  BY <1>1 DEF IInv, Told

\* The processes: one of them succeeds, for good.
LEMMA ProcessLoop ==
  ASSUME IInv, NEW j \in Job, Fork(j) \/ Exit(j) \/ Lose(j) \/ Kill(j) \/ RestEnds(j)
  PROVE  Loop!Next \/ UNCHANGED Loop!vars
<1> DEFINE Zero == \E i \in Attempt : job[i].client = "zero"
<1>1. job \in [Job -> CommandState] /\ attempt \in Attempt /\ attempt \in Nat
      /\ attempt # 0 /\ UNCHANGED <<pc, attempt>>
  BY Jobs DEF IInv, TypeOK, CommandState, Comp, Fork, Exit, Lose, Kill, RestEnds
<1>2. \A i \in Job : i # j => job'[i] = job[i]
  BY <1>1 DEF Fork, Exit, Lose, Kill, RestEnds
<1>3. CASE j \in Attempt /\ job[j].client = "alive" /\ job'[j].client = "zero"
  <2>1. j = attempt /\ pc = "running"
    BY <1>3 DEF IInv, Watched, Attached
  <2>2. ~Zero /\ Zero'
    BY <1>1, <1>3, <2>1, NoneSucceeded
  <2>3. job[Comp].client = "none" /\ job'[Comp] = job[Comp]
    BY <1>2, <1>3, <2>1, Jobs DEF IInv, Told
  <2>4. Launches = attempt /\ Launches' = Launches /\ attempt > 0
    BY <1>1, <2>1 DEF Launches
  <2>5. Loop!Succeed("step")
    BY <2>2, <2>3, <2>4 DEF Loop!Succeed
  <2> QED
    BY <2>5 DEF Loop!Next
<1>4. CASE ~(j \in Attempt /\ job[j].client = "alive" /\ job'[j].client = "zero")
  <2>1. \/ job'[j].client = job[j].client
        \/ job[j].client = "alive" /\ job'[j].client \in {"zero", "failed"}
    BY <1>1 DEF Fork, Exit, Lose, Kill, RestEnds, CommandState
  <2>2. \A i \in Attempt : job'[i].client = "zero" <=> job[i].client = "zero"
    BY <1>2, <1>4, <2>1, Jobs
  <2>3. job'[Comp].client = "none" <=> job[Comp].client = "none"
    BY <1>2, <2>1, Jobs
  <2>4. UNCHANGED Launches
    BY <1>1 DEF Launches
  <2> QED
    BY <2>2, <2>3, <2>4 DEF Loop!vars
<1> QED
  BY <1>3, <1>4

\* The loop: Try launches, the compensation undoes, and the rest counts.
LEMMA ProceedLoop ==
  ASSUME IInv, Proceed \/ \E c \in {"run", "step", "comp"} : EndContext(c)
  PROVE  Loop!Next \/ UNCHANGED Loop!vars
<1>1. job \in [Job -> CommandState] /\ attempt \in Attempt /\ attempt \in Nat
      /\ attempt \in Job /\ attempt <= MaxAttempts /\ attempt # Comp
      /\ step.runner \in Runners \cup {"other"}
  BY Jobs, AttemptsAssumption, SMT DEF IInv, TypeOK, CommandState, Attempt, Definitions, Comp
<1>2. CASE Try
  <2>1. pc = "attempt" /\ pc' = "running" /\ attempt' = attempt /\ Run(step.runner, attempt)
    BY <1>2 DEF Try
  <2>2. /\ \A i \in Job : i # attempt => job'[i] = job[i]
        /\ job'[attempt].client \in {"failed", "alive"}
    BY <1>1, <2>1, RunType
  <2>3. \A i \in Attempt : job[i].client # "zero"
    BY <2>1, NoneSucceeded
  <2>4. \A i \in Attempt : job'[i].client # "zero"
    BY <2>2, <2>3, Jobs
  <2>5. job[Comp].client = "none" /\ job'[Comp].client = "none"
    BY <1>1, <2>1, <2>2, Jobs DEF IInv, Told
  <2>6. Launches = attempt - 1 /\ Launches' = Launches + 1 /\ Launches < MaxAttempts
    BY <1>1, <2>1, AttemptsAssumption, SMT DEF Launches
  <2>7. Loop!Launch("step")
    BY <2>3, <2>4, <2>5, <2>6 DEF Loop!Launch
  <2> QED
    BY <2>7 DEF Loop!Next
<1>3. CASE runCompensation
  <2>1. pc = "compensate" /\ pc' = "compensating" /\ attempt' = attempt /\ Run(step.comp, Comp)
        /\ step.comp \in Runners \cup {"other"}
    BY <1>3 DEF runCompensation, IInv, TypeOK, Definitions, Due
  <2>2. /\ \A i \in Job : i # Comp => job'[i] = job[i]
        /\ job'[Comp].client \in {"failed", "alive"}
    <3>1. job \in [Job -> CommandState] /\ Comp \in Job
      BY <1>1, Jobs
    <3>2. step.comp \in Runners \cup {"other"} /\ Run(step.comp, Comp)
      BY <2>1
    <3> QED
      BY <3>1, <3>2, RunType
  <2>3. \A i \in Attempt : job[i].client # "zero"
    BY <2>1, NoneSucceeded
  <2>4. \A i \in Attempt : job'[i].client # "zero"
    BY <2>2, <2>3, Jobs
  <2>5. job[Comp].client = "none" /\ job'[Comp].client # "none"
    BY <2>1, <2>2 DEF IInv, Told
  <2>6. Launches = MaxAttempts /\ Launches' = Launches
    BY <2>1 DEF Launches, IInv, Told
  <2>7. Loop!Undo("step")
    BY <2>3, <2>4, <2>5, <2>6 DEF Loop!Undo
  <2> QED
    BY <2>7 DEF Loop!Next
<1>4. CASE Succeed \/ Backoff \/ Retry \/ GiveUp \/ Fail \/ Compensated
           \/ \E c \in {"run", "step", "comp"} : EndContext(c)
  <2>1. job' = job
    BY <1>4 DEF Succeed, Backoff, Retry, GiveUp, Fail, Compensated, EndContext
  <2>2. Launches' = Launches
    <3>1. CASE Retry
      BY <1>1, <3>1 DEF Retry, Launches
    <3>2. CASE ~Retry
      BY <1>4, <3>2 DEF Succeed, Backoff, GiveUp, Fail, Compensated, EndContext, Launches
    <3> QED
      BY <3>1, <3>2
  <2> QED
    BY <2>1, <2>2 DEF Loop!vars
<1> QED
  BY <1>2, <1>3, <1>4 DEF Proceed

\* The retry loop and the processes it starts keep the promise of StepLoop for
\* every retry policy: Executor's account of a step is what happens on the host.
THEOREM LoopRefinement == Spec => KeepsLoop
<1>1. Init => Loop!Init
  <2> SUFFICES ASSUME Init PROVE Loop!Init
    OBVIOUS
  <2>1. Launches = 0
    BY DEF Init, Launches
  <2>2. \A j \in Job : job[j].client = "none"
    BY DEF Init
  <2> QED
    BY <2>1, <2>2, Jobs DEF Loop!Init
<1>2. IInv /\ [Next]_vars => [Loop!Next]_(Loop!vars)
  <2>1. CASE UNCHANGED vars
    BY <2>1 DEF vars, Loop!vars, Launches
  <2>2. CASE Next
    BY <2>2, ProcessLoop, ProceedLoop DEF Next
  <2> QED
    BY <2>1, <2>2
<1> QED
  BY <1>1, <1>2, Inductive, PTL DEF Spec, KeepsLoop, Loop!Spec
=============================================================================
