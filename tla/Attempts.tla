------------------------------ MODULE Attempts ------------------------------
(***************************************************************************)
(* What one step leaves on the host: the retry loop of executeStep, the    *)
(* compensation, and the processes the three runners start for them.       *)
(*                                                                         *)
(* In Executor a command is one step that succeeds or fails. Here it is a  *)
(* client the runner waits for (the shell, or the docker command) and what *)
(* the client left behind, which a deadline does not reach.                *)
(***************************************************************************)
EXTENDS Integers

CONSTANTS
  MaxAttempts,      \* the step's retry.max_attempts
  InitialWait,      \* retry.initial_wait, in some unit of time, of either sign
  MaxWait,          \* retry.max_wait
  Top               \* the least number that is no time.Duration: 2^63 in the code

ASSUME AttemptsAssumption ==
  /\ MaxAttempts \in Nat \ {0}       \* validator.go:95
  /\ Top \in Nat \ {0}
  /\ InitialWait \in -Top .. Top - 1 \* time.ParseDuration, which takes "-5s"
  /\ MaxWait \in -Top .. Top - 1

Attempt == 1 .. MaxAttempts
Comp    == 0
Job     == Attempt \cup {Comp}

VARIABLES
  step,     \* the definition: its runner, the one of its compensation, its backoff
  pc,       \* where executeStep is
  attempt,  \* the number of the attempt
  wait,     \* the last backoff
  ended,    \* the contexts that are done
  job       \* the commands: the client, and the rest of it

vars == <<step, pc, attempt, wait, ended, job>>

Runners == {"local", "docker", "ssh"}

\* A compensation without a runner has the step's; one that is not registered
\* is "other".
Definitions ==
  [runner : Runners, comp : Runners \cup {"none", "other"},
   backoff : {"exponential", "linear", "fixed"}]

Init ==
  /\ step \in Definitions
  /\ pc = "attempt"
  /\ attempt = 1
  /\ wait = 0
  /\ ended = {}
  /\ job = [j \in Job |-> [client |-> "none", rest |-> "none"]]

-----------------------------------------------------------------------------
(* calculateBackoff *)

\* A product of durations, which has a sign and overflows.
Wrap(x) == ((x + Top) % (2 * Top)) - Top

\* The factor after n rounds of the loop that doubles it.
Factor[n \in Nat] == IF n = 0 THEN 1 ELSE Wrap(2 * Factor[n - 1])

\* Mutant: the maximum is looked at before the last doubling.
calculateBackoffLate(n) ==
  LET d == Wrap(InitialWait * Factor[n]) IN
  CASE step.backoff = "exponential" -> IF d > 2 * MaxWait THEN MaxWait ELSE d
    [] step.backoff = "linear"      -> Wrap(InitialWait * n)
    [] step.backoff = "fixed"       -> InitialWait

calculateBackoff(n) ==
  LET d == Wrap(InitialWait * Factor[n]) IN
  CASE step.backoff = "exponential" -> IF d > MaxWait THEN MaxWait ELSE d
    [] step.backoff = "linear"      -> Wrap(InitialWait * n)
    [] step.backoff = "fixed"       -> InitialWait

-----------------------------------------------------------------------------
(* The runners *)

\* Mutant: the compensation has a context without end.
DoneWithStep(j) == j # Comp /\ ended \cap {"run", "step"} # {}

\* The context of the command: the step's deadline covers all attempts and the
\* waits between them, the compensation has two minutes, and both end with the run's.
Done(j) == ended \cap {"run", IF j = Comp THEN "comp" ELSE "step"} # {}

\* Mutant: every attempt has a container of its own.
NameFree(j) == FALSE

\* The containers of all attempts have one name.
NameTaken(j) == j # Comp /\ \E i \in Attempt : job[i].rest = "container"

\* No request carries a secret, so there is never a key or a password to log in with.
NoLogin(runner) == runner = "ssh"

\* The factory knows three runners.
NotRegistered(runner) == runner = "other"

\* No process goes on: the context is done (Start asks it), the runner refuses, or
\* "docker run" fails because the name is in use. A compensation has no image: its
\* request carries neither that nor a host.
Refuses(runner, j) ==
  \/ Done(j) \/ NoLogin(runner) \/ NotRegistered(runner)
  \/ runner = "docker" /\ (j = Comp \/ NameTaken(j))

\* Run, up to the process.
Run(runner, j) ==
  job' = [job EXCEPT ![j] =
    IF Refuses(runner, j) THEN [client |-> "failed", rest |-> "none"]
    ELSE [client |-> "alive", rest |-> IF runner = "docker" THEN "container" ELSE "none"]]

Runner(j) == IF j = Comp THEN step.comp ELSE step.runner

\* A shell starts a process in the background, with the output pipe or without.
Fork(j) ==
  /\ Runner(j) = "local" /\ job[j].client = "alive" /\ job[j].rest = "none"
  /\ \E r \in {"piped", "loose"} : job' = [job EXCEPT ![j].rest = r]
  /\ UNCHANGED <<step, pc, attempt, wait, ended>>

\* The command is over, and with it its container.
Exit(j) ==
  /\ job[j].client = "alive"
  /\ \E code \in {"zero", "failed"} :
       job' = [job EXCEPT ![j] =
         [client |-> code, rest |-> IF @.rest = "container" THEN "none" ELSE @.rest]]
  /\ UNCHANGED <<step, pc, attempt, wait, ended>>

\* The docker command loses its daemon; the container goes on.
Lose(j) ==
  /\ job[j].client = "alive" /\ job[j].rest = "container"
  /\ job' = [job EXCEPT ![j].client = "failed"]
  /\ UNCHANGED <<step, pc, attempt, wait, ended>>

\* CommandContext kills the client, and nothing but the client: not the group
\* Setpgid made, not the container.
Kill(j) ==
  /\ Done(j) /\ job[j].client = "alive"
  /\ job' = [job EXCEPT ![j].client = "failed"]
  /\ UNCHANGED <<step, pc, attempt, wait, ended>>

\* What was left behind ends by itself.
RestEnds(j) ==
  /\ job[j].rest # "none" /\ (job[j].rest = "container" => job[j].client # "alive")
  /\ job' = [job EXCEPT ![j].rest = "none"]
  /\ UNCHANGED <<step, pc, attempt, wait, ended>>

\* Mutant: Wait does not wait for the copies of the output.
WaitedForClient(j) == job[j].client \in {"zero", "failed"}

\* Wait returns when the client is gone and nobody has the output pipe any more.
Waited(j) == job[j].client \in {"zero", "failed"} /\ job[j].rest # "piped"

-----------------------------------------------------------------------------
(* executeStep *)

Try ==
  /\ pc = "attempt"
  /\ pc' = "running"
  /\ Run(step.runner, attempt)
  /\ UNCHANGED <<step, attempt, wait, ended>>

Succeed ==
  /\ pc = "running" /\ Waited(attempt) /\ job[attempt].client = "zero"
  /\ pc' = "ended"
  /\ UNCHANGED <<step, attempt, wait, ended, job>>

\* Mutant: one attempt more than the policy has.
BackoffAlways ==
  /\ pc = "running" /\ Waited(attempt) /\ job[attempt].client = "failed"
  /\ attempt <= MaxAttempts
  /\ pc' = "backoff"
  /\ wait' = calculateBackoff(attempt)
  /\ UNCHANGED <<step, attempt, ended, job>>

Backoff ==
  /\ pc = "running" /\ Waited(attempt) /\ job[attempt].client = "failed"
  /\ attempt < MaxAttempts
  /\ pc' = "backoff"
  /\ wait' = calculateBackoff(attempt)
  /\ UNCHANGED <<step, attempt, ended, job>>

\* The wait is over; a deadline that came meanwhile may be seen now or by Run.
Retry ==
  /\ pc = "backoff"
  /\ pc' = "attempt"
  /\ attempt' = attempt + 1
  /\ UNCHANGED <<step, wait, ended, job>>

\* Mutant: a deadline in the wait counts as the last failure.
GiveUpCompensates ==
  /\ pc = "backoff" /\ ended \cap {"run", "step"} # {}
  /\ pc' = IF step.comp = "none" THEN "ended" ELSE "compensate"
  /\ UNCHANGED <<step, attempt, wait, ended, job>>

\* The deadline is seen in the wait: no compensation.
GiveUp ==
  /\ pc = "backoff" /\ ended \cap {"run", "step"} # {}
  /\ pc' = "ended"
  /\ UNCHANGED <<step, attempt, wait, ended, job>>

Fail ==
  /\ pc = "running" /\ Waited(attempt) /\ job[attempt].client = "failed"
  /\ attempt = MaxAttempts
  /\ pc' = IF step.comp = "none" THEN "ended" ELSE "compensate"
  /\ UNCHANGED <<step, attempt, wait, ended, job>>

runCompensation ==
  /\ pc = "compensate"
  /\ pc' = "compensating"
  /\ Run(step.comp, Comp)
  /\ UNCHANGED <<step, attempt, wait, ended>>

\* Whatever the compensation's exit code is.
Compensated ==
  /\ pc = "compensating" /\ Waited(Comp)
  /\ pc' = "ended"
  /\ UNCHANGED <<step, attempt, wait, ended, job>>

\* A deadline passes, or the run is cancelled with its process.
EndContext(c) ==
  /\ pc # "ended" /\ c \notin ended
  /\ c = "comp" => pc = "compensating"
  /\ c = "step" => pc \notin {"compensate", "compensating"}
  /\ ended' = ended \cup {c}
  /\ UNCHANGED <<step, pc, attempt, wait, job>>

Proceed == Try \/ Succeed \/ Backoff \/ Retry \/ GiveUp \/ Fail
             \/ runCompensation \/ Compensated

Next ==
  \/ Proceed
  \/ \E j \in Job : Fork(j) \/ Exit(j) \/ Lose(j) \/ Kill(j) \/ RestEnds(j)
  \/ \E c \in {"run", "step", "comp"} : EndContext(c)

Spec == Init /\ [][Next]_vars

\* The goroutine is scheduled, deadlines pass, and a killed client is gone; no
\* command and nothing it left behind has to end.
Fairness ==
  /\ WF_vars(Proceed)
  /\ \A c \in {"step", "comp"} : WF_vars(EndContext(c))
  /\ \A j \in Job : WF_vars(Kill(j))

FairSpec == Spec /\ Fairness

-----------------------------------------------------------------------------
(* What must hold *)

TypeOK ==
  /\ step \in Definitions
  /\ pc \in {"attempt", "running", "backoff", "compensate", "compensating", "ended"}
  /\ attempt \in Attempt
  /\ wait \in -Top .. Top - 1
  /\ ended \subseteq {"run", "step", "comp"}
  /\ job \in [Job -> [client : {"none", "alive", "zero", "failed"},
                      rest : {"none", "piped", "loose", "container"}]]

\* A child a shell left behind, which does not have its output.
LeftLoose(j) == job[j].client # "alive" /\ job[j].rest = "loose"

\* The command can still do what it was started for: its client is alive, or what
\* the client left behind goes on.
Works(j) == job[j].client = "alive" \/ job[j].rest # "none"

\* At most one command of a step is at work, but for two that nothing waits for:
\* a child of a shell that redirected its output may go on beside any command
\* after its own (CommandContext kills the shell alone, local.go:28), and a
\* container that lost its client beside the compensation. Whoever has the output
\* of a shell is waited for (local.go:48), and one container name is for all
\* attempts (docker.go:30).
OneCommand ==
  \A i, j \in Job :
    Works(i) /\ Works(j) /\ i # j =>
      \/ LeftLoose(i) \/ LeftLoose(j)
      \/ Comp \in {i, j} /\ \E k \in {i, j} : job[k].rest = "container"

\* The loop launches a command once for each attempt, none after one succeeded,
\* and the compensation only when the last has failed, whichever processes are
\* killed, lost or left behind: what Executor counts as launches is what this
\* module does with processes (executor.go:139-191, :303-322).
Launches == IF pc = "attempt" THEN attempt - 1 ELSE attempt

Loop == INSTANCE StepLoop WITH
  Steps     <- {"step"},
  Max       <- [s \in {"step"} |-> MaxAttempts],
  launches  <- [s \in {"step"} |-> Launches],
  succeeded <- {s \in {"step"} : \E j \in Attempt : job[j].client = "zero"},
  undone    <- {s \in {"step"} : job[Comp].client # "none"}

KeepsLoop == Loop!Spec

\* A child of a shell that was killed, or of one that exited, has the output.
HeldUp == \E j \in Job : job[j].client \in {"zero", "failed"} /\ job[j].rest = "piped"

\* A step ends, in time of its timeout and the compensation's two minutes, unless
\* a background process keeps the output of its shell open (executor.go:131-191).
Ends == <>(pc = "ended" \/ HeldUp)

\* The powers of two, which do not overflow.
Power[n \in Nat] == IF n = 0 THEN 1 ELSE 2 * Power[n - 1]

\* The product of the wait and its factor is still a time.Duration.
Fits(n) == 0 <= InitialWait /\ InitialWait * Power[n] < Top

\* No exponential wait exceeds the maximum, whatever the product overflows to; and
\* none is shorter than the one before it, as long as the initial wait is not
\* negative and its product fits (executor.go:465-479). Beyond that the code keeps
\* no order: a wait that overflowed may be negative, and is then none.
WaitsGrow ==
  [][ pc' = "backoff" /\ pc # "backoff" /\ step.backoff = "exponential"
        => /\ wait' <= MaxWait
           /\ attempt > 1 /\ Fits(attempt) => wait <= wait' ]_vars

-----------------------------------------------------------------------------
(* The inductive invariant of AttemptsProofs, in parts *)

\* The runner still waits for the command.
Attached(j) == job[j].client = "alive" \/ job[j].rest = "piped"

Watched ==
  /\ \A j \in Attempt : Attached(j) => j = attempt /\ pc = "running"
  /\ Attached(Comp) => pc = "compensating"

\* Containers are of attempts, have a client at first, and there is one at most.
Contained ==
  /\ job[Comp].rest # "container"
  /\ \A j \in Attempt :
       /\ job[j].rest = "container" => step.runner = "docker"
       /\ job[j].rest \in {"piped", "loose"} => step.runner = "local"
       /\ job[j].client = "alive" /\ step.runner # "local" => job[j].rest = "container"
  /\ \A i, j \in Attempt :
       job[i].rest = "container" /\ job[j].rest = "container" => i = j

\* What comes next is there: an attempt, a compensation.
Due ==
  /\ pc = "backoff" => attempt < MaxAttempts
  /\ pc \in {"compensate", "compensating"} => step.comp # "none"

\* Every attempt before this one has failed, none after it was made, and the
\* compensation waits for the last.
Told ==
  /\ \A j \in Attempt : /\ j < attempt => job[j].client = "failed"
                        /\ j > attempt => job[j].client = "none"
  /\ pc = "attempt" => job[attempt].client = "none"
  /\ pc \in {"backoff", "compensate", "compensating"} => job[attempt].client = "failed"
  /\ pc \in {"compensate", "compensating"} => attempt = MaxAttempts
  /\ job[Comp].client # "none" => pc \in {"compensating", "ended"}

\* Until the attempt has failed, the wait is the one before it.
Waits ==
  /\ pc \in {"attempt", "running"} =>
       wait = IF attempt = 1 THEN 0 ELSE calculateBackoff(attempt - 1)
  /\ pc = "backoff" => wait = calculateBackoff(attempt)

IInv == TypeOK /\ Watched /\ Contained /\ Due /\ Told /\ Waits
=============================================================================
