# A TLA+ model of FlowCtl

FlowCtl runs workflows: DAGs of steps (shell commands on a local, Docker or SSH
runner) and approvals (gates a human opens). A server offers an HTTP API over
PostgreSQL; any number of server and worker processes run a scheduler that picks
queued executions from the database and drives them. There is no coordination
but the database: rows, UNIQUE constraints, advisory locks and LISTEN/NOTIFY.
This directory models that coordination, what happens to a definition from its
text to the commands on the host, and the database connections it all runs on;
checks it with TLC and proves the safety part of it with TLAPS.

Paths below are relative to `src/`; the Go packages are under `internal/`.

- [Inventory](#inventory) · [Plan](#plan) · [Modules](#modules)
- [Runs](#runs) · [Fairness](#fairness) · [What the runs found](#what-the-runs-found)
- [Proofs](#proofs) · [Abstractions and limits](#abstractions-and-limits)

## Inventory

| component | source | state | operations |
|---|---|---|---|
| executor | `engine/executor.go`, `engine/statemachine.go`, `model/execution.go` | rows of `executions`, `execution_steps`, `approvals`; the locals of each call of `Execute` | load, transitions, steps with retries and a timeout, compensation, approvals, checkpoints |
| scheduler | `engine/scheduler.go` | `scheduler_nodes`, `executions.scheduler_node`, advisory locks, the map `running` | poll, acquire, run, heartbeat, takeover, cron, Start, Stop |
| DAG | `engine/dag.go` | maps of one call | BuildDAG, TopologicalSort, GetReadyNodes |
| validator | `validator/validator.go` | a result of one call | names, dependencies, fields of a definition |
| executions API | `api/handler/execution.go`, `approval.go` | the same tables | Start, Retry, Get, List, Cancel; Approve, Reject |
| workflows API | `api/handler/workflow.go`, `common.go` | `workflows`, `workflow_versions`, `cron_schedules` | Create, Update, Delete, Publish, Rollback; schedules |
| connection pool | every user of `pgxpool`; `cmd/flowctl-server/main.go` | who has a connection, who waits for one | acquire, release, timeouts, shutdown |
| log stream | `api/websocket/handler.go` | a connection, the last id sent | history, LISTEN, polling of new lines |
| HUML | `huml/*.go` | none (pure) | lexer, parser, evaluator, conversion |
| runners | `runner/*.go` | processes, containers, SSH sessions | run a command until its exit, or the context's end |
| auth and RBAC | `auth/*.go`, `api/middleware/*.go`, `api/handler/auth.go` | users, tokens | login, token checks, permission match |
| secrets | `secrets/vault.go`, `api/handler/common.go` | `secrets` | encrypted upsert and read |
| tenants | `api/handler/tenant.go` | `tenants` | CRUD, one statement each |
| schema | `repository/migrations/001_initial_schema.sql` | all tables | UNIQUEs, references, cascades, notify triggers |
| client, CLI | `pkg/client`, `pkg/workflow`, `internal/cli`, `cmd/flowctl` | none | HTTP calls |
| processes | `cmd/flowctl-server`, `cmd/flowctl-worker`, `config`, `api/router.go` | the phase of the shutdown | wiring, start and stop |
| web | `web/src` | the browser's | a front end over the API |

How they interact, and what is hard:

- **API → database → scheduler.** `Start` inserts a queued row; every node polls
  for queued rows without an owner, takes a PostgreSQL advisory lock on a
  *pooled* connection, writes the owner and calls `Execute` in a goroutine. The
  lock and its release may use different connections, so a lock may be leaked or
  not exclude anything. What must hold: one driver per execution, nothing queued
  is forgotten.
- **Nodes ↔ nodes.** A node whose heartbeat is late is taken over: its
  executions are requeued, and nothing tells it. Two runs of one execution then
  write the same rows, each trusting its own memory. What must hold: no command
  twice, no step before its dependencies, no false outcome in the tables.
- **Crashes.** A run can stop between any two statements; the next one resumes
  from the checkpoint last written. Statements fail, and many errors are only
  logged. What must hold: a checkpoint is always a sound place to resume from.
- **API ↔ a running execution.** Cancel, Approve and Reject are UPDATEs; a run
  learns of an approval by polling its own `approvals` row, and of a cancellation
  not at all.
- **API ↔ API.** No handler uses a transaction: Publish is four statements,
  Start up to three, Rollback two, and two clients' statements interleave. What must hold:
  version numbers stay dense, pointers stay within their workflow, one
  idempotency key names one execution.
- **Validator → executor.** Definitions are admitted once and walked by every
  run. What must hold: whatever was accepted cannot strand an execution.
- **Everybody ↔ the pool.** `handleApproval` keeps a connection for LISTEN and
  needs a second one for every check, without a timeout; the loops keep a query
  open while they work on its rows. What must hold: the pool never waits for
  itself, nobody loses a connection, the shutdown gets them all back.
- **Executor → runner → host.** A deadline kills the shell or the docker
  command and nothing else; children and containers go on. What must hold: an
  attempt waits for whatever it can wait for of the one before, and a step ends
  unless a child holds its output.
- **Text → definition → decision.** A document is lexed, parsed, converted,
  stored as JSON, and its expressions are cut out of strings again at run time.
  What must hold: what runs is what the author wrote, after a crash as well; the
  model says for which documents that is so.

The hazards with their lines are listed in `PROJECT.json`, with the properties
that watch them.

## Plan

Done, in this order, because the first two are where executions are lost or run
twice:

1. `ExecStatus`, `Executor`, `DagRun` and `StepLoop` (abstract), `ExecutorProofs`
2. `Scheduler`, `Ownership` (abstract), `SchedulerProofs`, `SchedulerLossProofs`
3. `Dag`, `DagProofs`
4. `Catalog`, `Archive` (abstract), `CatalogProofs`
5. `HumlExpr`, `Huml`
6. `Worker`, `WorkerProofs`
7. `Attempts`, which has `StepLoop` in common with `Executor`, `AttemptsProofs`, `Iteration`
8. `RunStatus` (abstract), which `Scheduler` and `Executor` have in common

Left:

- The lines of the log stream (`websocket/handler.go:94-174`). Nothing in the
  repository writes `step_logs`, so there is no writer whose order could be modelled;
  a stream is only a holder of a connection, in `Worker`.
- Induction over documents for the properties of `huml`: with the argument of
  `Iteration` it is possible in principle, once lexer and parser are written as functions
  instead of RECURSIVE operators.
- Authentication, permissions, secrets and tenants: see *Not modelled*.

## Modules

| module | what it is |
|---|---|
| `ExecStatus` | statuses and transition table of `statemachine.go` |
| `Executor` | one execution and any number of `Execute` calls for it |
| `DagRun` | the abstract promise of the engine about one execution |
| `StepLoop` | the abstract promise about the commands of one step, kept by `Executor` and `Attempts` |
| `RunStatus` | what a call of `Execute` does to the status column, kept by `Executor` and `Scheduler` |
| `Attempts` | one step on the host: retries, waits, compensation, and the processes of the runners |
| `Scheduler` | the nodes that share out executions |
| `Ownership` | the abstract promise of the scheduler: one holder, work once per grant |
| `Worker` | the connection pool of one process, its users and its shutdown |
| `Dag` | admission of a definition: BuildDAG and TopologicalSort |
| `Catalog` | workflows, versions, schedules and what starts executions |
| `Archive` | the abstract promise of the catalog: a log of versions per workflow, and executions of its entries |
| `HumlExpr` | expressions: parsing, printing and evaluation of `${...}` |
| `Huml` | documents: lexer, parser, conversion, and the head of executeStep |
| `…Proofs` | theorems about the module they extend |
| `Iteration` | lemmas: induction and recursion over the naturals, for `AttemptsProofs` |
| `MC…` | instances for TLC |

`Executor` extends `ExecStatus` and instantiates `DagRun`, `StepLoop` and `RunStatus`;
`Scheduler` instantiates `Ownership` and `RunStatus`, `Attempts` instantiates `StepLoop`,
`Catalog` instantiates `Archive` (all refinements). `Executor`,
`Scheduler` and `Catalog` meet in the table `executions`: `Catalog` inserts its rows,
`Scheduler` writes their owner and reads their status, `Executor` writes their status.
Each sees the others' writes as actions of its environment (`Dispatch` and
`Requeue` in `Executor` are the statements of `Scheduler`'s `SetOwner` and
`Requeue`; a run in `Scheduler` is `Executor`'s cut down to its status, and that
the two cut it alike is what `RunStatus` is for). Likewise `StepLoop` is what
`Executor`, which has a step's rows and runs, and `Attempts`, which has its
processes and waits, agree on.
`Dag` decides which graphs `Executor`'s `Deps` may be, and `Huml` makes the
definitions `Dag` admits. `Attempts` opens up what is one answer of the runner in
`Executor`; `Worker` opens up what is one statement in all of them.

### Correspondence with the code

In all modules an action is **one SQL statement, or one answer of the outside
world, with the code up to the next one**, because that is what other processes
can interleave with. Definitions carry the names of the functions, columns or
locals they stand for, or their comment names them; `PROJECT.json` maps each to
its lines. A failed statement, a crash and a cancelled context are actions or
alternatives of their own (`Abort`, `transitionLost`, `Fail`, `Abandon`).

`Executor`: `pc[r]` is the place of run `r` in `Execute`, `executeStep` or
`handleApproval`; `mem`, `done`, `todo`, `cur` and `attempt` are its locals;
`status`, `finished`, `owned`, `checkpoint`, `row` and `approval` are columns.
`transitionExecution` checks against `mem` and writes whatever the row says, as
the code does. Its UPDATE may fail, and then it was made or not: where the caller
returns the error the run is over (`Abort`), where the caller drops it
(`executor.go:232`, `:248`, `:275`) the run goes on after any of the three
(`transitionIgnored`), with a column that says what the run does not remember or the
other way round. `launches`, `ok`, `skipped` and `undone` are history variables:
what really happened to the commands, against which the tables are judged.

`Scheduler`: `TryLock`, `SetOwner` and `GiveUp` are the three statements of
`tryAcquireExecution`, `SetOwnerUnheard` the second of them made with its answer lost;
`lock[e]` names the node one of whose sessions holds the lock, and `Unlock` may or may
not hit that session; `ExpireConn` is the pool closing it. Between `SetOwner` and
`Enlist`, the insertion into the map `running`, a run is `starting`: its node owns the
execution, and Stop does not know the run. `FindDead`, `TakeOver`/`TakeOverFails` and
`DeleteNode`/`KeepNode` are the statements of `performTakeover`. `mem` of a run is
`exec.Status` as `Execute` has it: `Load` reads it, `Write` goes with what it allows. At
a gate an UPDATE of the status may fail without the run noticing, made or not
(`executor.go:232`, `:248`, `:275`): `Await` has both alternatives, and so has
`ResumeUnmarked`, which goes on from a gate without a change of memory. `deposed`,
`hidden` and `revived` are history. `MaxFaults` bounds crashes, stops, late heartbeats
and lost statements; any node may stop or crash, the last one too.

The mapping to `Ownership` is `holder <- owner` and, for its workers, the pairs of a
run and the node it runs on, as long as it was not deposed.

The mapping to `RunStatus` shows of each run its place (`loading`, `entering`,
`running`, `waiting`), its execution and its memory, all terminal statuses as one.
In `Executor` everything between two writes of the column is the place `running`.

The mapping to `StepLoop` is, for each step in `Executor`, the history of its
commands over all runs; in `Attempts`, that of the one loop.

`Attempts`: a command is the `client` the runner waits for (the shell, `docker
run`) and the `rest` it leaves behind: a child that has the output pipe, one
that has not, a container. `ended` are the contexts that are done: the run's, the
step's (over all attempts and waits), the compensation's. `Refuses` collects
why a runner starts nothing. `calculateBackoff` computes in signed numbers that
wrap at `Top`, as `time.Duration` does at 2^63. A second run of the step after
a takeover fails at its INSERT before any command (`Executor`), and is not here.

`Worker`: `at[c]` says how many connections a client has and whether it waits
for one, `queue` is the pool's. A loop keeps its query open over its `rows`.
`Expire` is a context that ends, `Refuse` the answer of a closed pool, `Cancel`,
`Stop` and `Close` the deferred calls of `main`. CHOOSE over connections
stands for any of them: they are alike.

`Huml`: a document is given as the tree its author has in mind and printed to
glyphs – a sign, a run of digits, or a whole word where only the word
matters – in a layout. `Lex`, `Parse` and `ConvertTree` are the functions of the
code on it; `Start` evaluates each step as `executeStep` does, `StartResumed` does
so with the context that a checkpoint brings back: without the outputs of skipped
steps, and with U+FFFD for every byte that is no UTF-8 (`Marshalled`). What the tree *means* is
defined beside it, on trees alone, and compared.

`Dag`: one action per phase of the validation; a layer is a set because the code
iterates maps. A depends_on list is a sequence, since the code counts a repeated
entry twice and must take it off twice.

`Catalog`: a request is one call of a handler or one trigger of a schedule, with
its locals in a record; rows are named by the request that inserts them (the
handlers draw UUIDs). `during` is history: which versions were active since a
request began. `slot` is history: whether the expression came due again.

The mapping to `Archive` takes the versions of a workflow by their numbers as its log,
`active` as its head, the rows of `executions` as its book, and the deleted
workflows as what is gone.

## Runs

| run | instance | distinct states | what it shows |
|---|---|---|---|
| `executor_safety` | a step beside a gate and a join behind them; a retry, a condition, a compensation; two runs | 2,058,744 | the safety properties of `Executor`, that it implements `DagRun` and `StepLoop`, and that no path of a run is a cycle |
| `executor_progress` | the same with one run, fair | 10,778 | a run never spins: it ends, or stays at one command or gate; `Executor` implements `RunStatus` |
| `scheduler_runs` | two nodes, one gated execution, two calls of runExecution, one fault, fair | 142,108 | `Scheduler` implements `RunStatus`; an execution is finished, unless a run of it stays at a command or gate for ever or it is lost in a way `Abandoned` names |
| `scheduler_polls` | two nodes, two executions behind a LIMIT of 1, one fault, fair | 174,320 | queued work is picked up although locks leak |
| `scheduler_loss` | two nodes, one execution, two calls of runExecution, three faults | 781,870 | no execution is lost in any other way; Stop reaches the runs of its node that are in the map; `Scheduler` implements `Ownership` |
| `approval_orphan` | two nodes, one gated execution, one fault, fair | 9,370 | **violated**: an approval after a crash resumes nothing |
| `dag_sort` | all 9000 definitions of three declarations with up to two dependencies | 32,856 | order, cycles, no stranded execution |
| `catalog_safety` | two workflows, three requests, one key | 433,236 | `Catalog` implements `Archive`; one execution per key, started on an active version |
| `huml` | 2027 documents in three layouts, fresh and resumed | 47,675 | the author's tree is found, kept and obeyed, if its expressions are `Regular` |
| `worker` | four connections; the listener, a loop, a gate, a statement, a stream, the shutdown; fair | 85,105 | nobody loses a connection, the pool does not wait for itself, who waits is served, the process ends |
| `pool_exhausted` | three connections; the listener, two gates, a statement; fair | 5,610 | **violated**: two gates wait for each other's connection |
| `attempts` | four attempts, every runner and backoff, a product that overflows; fair | 27,522 | one command of a step at a time but for what nothing waits for, the step ends, waits grow within the maximum; `Attempts` implements `StepLoop` |

The states of a violated run are those TLC saw before it stopped.

Why the bounds are enough to be worth running:

- *Executor.* The DAG has a layer of two kinds of node and a join behind it: the smallest in which
  a checkpoint can be taken in the middle of a layer, a run can resume behind
  another, and a dependency can be missing. Two runs are what one takeover
  makes; Symmetry on runs only. One step has two attempts, so that counting can
  go wrong. The proofs remove these bounds.
- *Scheduler.* Three faults, in `scheduler_loss`, are what the longest way to lose an
  execution takes (see *What the runs found*); its properties are safety, so that the
  two nodes are kept apart by nothing and the runs are symmetric. The fair runs have one
  fault, anywhere. In `scheduler_runs` a takeover can put a second run of the execution
  beside the first, with a gate to be at meanwhile. `scheduler_polls` has two executions,
  for which `Batch = 1` makes the LIMIT bite; a fault and a takeover can use its one run
  up for a node that is gone, which `Unmanned` names. `KeepsRun`, `OnlyAbandoned`,
  `Stoppable` and `Leased` are proved for every number of all of these.
- *Dag.* Three nodes contain every kind of cycle (a loop, a pair, a triangle),
  duplicates, a step and an approval of one name, and unknown names. A larger
  graph adds nothing the induction of `DagProofs` does not cover.
- *Catalog.* Three requests: two that race and one between them. Two workflows
  because a version or a roll-back of another workflow must not be taken. The
  number of requests is the only bound on histories (`Requests`), and numbers of
  roll-backs range over as many as there are requests. The proofs remove it.
- *Huml.* Every pair of operators nested to either side is what precedence and
  associativity can get wrong; conditions stand bare and in quotes, in commands
  between texts with braces and quotes; literals have braces that match and braces that do
  not; every field of every kind of block is written somewhere. The layouts are the
  tightest, one with blanks, tabs, comments and newlines wherever they may stand, and one
  with newlines within the expressions; one context gives all values and an output that is
  no UTF-8, one has a missing step and a zero divisor. Without either half of `Regular`
  TLC finds `RoundTrip` and `SkipsAsMeant` violated, and without its half about braces
  `CommandAsMeant`; `ResumesAlike` without either half of `Lasts`.
- *Worker.* One client of each kind, and one connection more than clients that can
  keep one while they want another (`Ample`): the least with which the pool may
  work. `pool_exhausted` has exactly as many as keepers. `MaxRows` bounds the rows
  of a query. A request is a statement with a stream's timeout and adds no case;
  `Requests` is empty.
- *Attempts.* With `InitialWait = 5`, `MaxWait = 18` and `Top = 32` the first wait
  fits, the second is capped and the third overflows to a negative number.

`CHECK_DEADLOCK FALSE` is set everywhere because each instance ends: the
execution is finished, the calls are used up, the definition is decided.

Each property of a passing run has a mutant: a plausible bug in one mapped
definition (an `ON CONFLICT` that takes a row over, a missing
`scheduler_node IS NULL`, a dropped UNIQUE, …) under which TLC finds it violated.

## Fairness

- `Executor!FairSpec`: weak fairness of what a run does by itself (`OwnStep`). The Go
  runtime schedules goroutines, timers fire, and statements return or fail, as long as the
  pool has connections for them (`Worker`'s `Ample`). Nothing is assumed of the answers of a
  command, since `Wait` blocks past every deadline while a child holds the output pipe
  (`local.go:48`), nor of a gate, which needs a human and then a second connection without
  a timeout (`executor.go:234`): `RunProgress` says that a run stays at one of those
  or ends. Nothing is assumed of `Dispatch`, of aborts or of the API either.
- `Scheduler!Fairness`: weak fairness of the poll, watch and heartbeat loops of a
  node that is up (tickers; the statements are answered under `Ample`, too), of what its
  runs do but for reaching a gate or the end (`OwnStep`), of `ExpireConn` (pgxpool closes a
  connection at `MaxConnLifetime`, 30 minutes, `config/config.go:67`), and of the heartbeat of
  a *dead* node becoming late (time). No node is assumed to restart, no approval to be
  given, no run to get through its steps. The lapse of a live node's heartbeat is a fault.
- `Worker!Fairness`: the pool serves its queue (puddle), each client's statement
  returns, a gate looks again after 30 seconds at most, contexts end – the 30
  seconds of chi, the 5 of `Stop`, and after the signal that of the scheduler – and `main`
  goes on once it has the signal. Nobody has to ask, no gate to be answered, no
  signal to come.
- `Attempts!Fairness`: the goroutine goes on, the deadlines of the step and of the
  compensation pass, and a killed client is gone. No command, no child and no
  container has to end; hence `HeldUp` in `Ends`: a child that keeps the
  output of its shell open holds the step up past every deadline (`local.go:48`).

`Catalog`, `Dag` and `Huml` have no liveness: nothing in them waits for another.

## What the runs found

1. `ApprovedResumes` – an execution in `waiting_approval` whose node is gone is
   neither requeued (`scheduler.go:272`) nor resumed by the approval (`scheduler.go:219` only logs).
2. `Answered`, in `pool_exhausted` – when the gates and the listener hold all
   connections, no check of a gate gets its second one (`executor.go:234`); nor does a poll
   or a heartbeat, so other processes take the executions over.

Seen while modelling, and followed by the models without a run of their own:

- An execution without an approval is lost, neither finished nor ever run again, in
  four ways, which `Abandoned` names: its owner lives and runs it no more (an error
  before the first transition, a restart under the same id before the takeover, or an
  UPDATE of the owner whose answer was lost: `executor.go:34`, `scheduler.go:385`, `:343`); its owner is dead and has no row a takeover could
  find, because Stop deleted the row (`scheduler.go:87`) or the owner lived through a
  takeover (`scheduler.go:280`); it has no owner and is not queued, because
  a run that was taken over wrote a status after the requeue (`executor.go:378`); or
  it was already finished, by a cancellation, when its dead owner's row was deleted, and a
  run that had been taken over wrote `running` over that and then failed. The
  proof of `NoOtherLoss` found the last one: without it the invariant was not inductive,
  and TLC, given three faults, had the behaviour.
- `transitionExecution` writes over `cancelled` (`executor.go:378`): an execution
  the API cancelled (`handler/execution.go:188`) may end as `succeeded`.
- The map `running` is keyed by execution (`scheduler.go:371`): of two runs of one
  execution on a node the first to return hides the other from Stop. That takes a takeover
  of a node that lives: `Stoppable`. And between the UPDATE of the owner and the insertion
  (`scheduler.go:343`, `:363`) Stop does not know of the run at all.
- The errors of the transitions at a gate are dropped (`executor.go:232`, `:248`, `:275`): when
  such an UPDATE was made and its answer lost, the column says `waiting_approval` of a run that
  remembers `running`, or the reverse. In the second case the last transition is refused, and
  the column stays at `running` for ever with all nodes done.
- A Start without a key stores the empty string, which the UNIQUE admits once
  per tenant (`handler/execution.go:176`); Retry and schedules store NULL, which Get
  cannot scan into a string (`handler/execution.go:103`).
- `next_run_at` never moves: a due schedule fires on each tick (`scheduler.go:286`).
- A compensation's request has neither an image nor a host (`executor.go:317-322`),
  so a docker or ssh compensation never runs, `examples/deploy.huml:40-47` included;
  and no request carries secrets, so an ssh command never logs in (`ssh.go:97-103`).
- A deadline kills the shell alone (`local.go:28`): a child that redirected its output is at
  work beside the next attempts and the compensation, and nothing ever waits for it. A
  container that outlives its client is beside the compensation. `OneCommand` excepts
  exactly these two.
- Waits may be negative (`time.ParseDuration` takes `-5s`, `validator.go:94-102` does not look at
  them), and an exponential wait may overflow to a negative one (`executor.go:472-476`): the
  next attempt then follows at once. `WaitsGrow` promises growth for the others only.
- The end of `${...}` is found by counting braces, and quotes are not looked at, neither by the
  lexer (`lexer.go:240-251`) nor by `EvaluateString` (`evaluator.go:81-94`): a document with
  a bare `${contains(inputs.env, '}')}` is refused, the same in quotes fails its step, and
  `"${upper('{')} tail"` runs as `{`, without its tail. `ParseExpression` drops what it does not
  understand after a first expression (`parser.go:289-296`), and a newline is no blank to it
  (`parser.go:609-613`): of an expression that goes on in the next line the first line counts,
  or it is refused. `Regular` names both exceptions.
- `max_attempts = -3` is 3 and `2.5` is 25 (`convert.go:219-229`); a flag, null or a list where a
  text belongs is stored as the printed Go struct (`convert.go:207`), and a bare word among the
  settings as null (`convert.go:247`).
- Outputs are bytes (`local.go:60`) and JSON is text: what is no UTF-8 in a stdout is
  something else after a resumption (`executor.go:396`, `:354`), and so may be the commands
  and conditions that refer to it. `Lasts`, in `ResumesAlike`, excepts it.
- The trigger's payload is JSON and never equals the execution's id
  (`websocket/handler.go:94`): a stream sends the history only.

## Proofs

All theorems are proved from the modules' named assumptions, for every value of
the constants.

**Executor** (`GraphAssumption`, `RetryAssumption`, `RunAssumption`: nodes of one kind, dependencies
among them, at least one attempt). The properties are not inductive: that a
command is started at most `MaxAttempts` times says nothing about who may start
it next. `IInv` adds `Claims` – a run inside the retry loop holds the step's only
row, and its `attempt` is the row's whole history – and, for the order of steps,
`Layers`, `GateRows` and `RowsInOrder`: each run's completed nodes are a
dependency-closed set of settled nodes and the rest of its layer lies just
outside, so that any checkpoint it saves, over whatever other, is one as well.
The argument turns on the UNIQUE of `execution_steps`: with `attempt` always 1
it admits one row per step for the life of the execution, which is why two
runs never share a step (`StepsAreExclusive`), and also why a run that resumes in the middle
of a step fails. Theorems: the safety properties and three refinements. `Refinement`
(`Spec => KeepsPromise`) is about the order of the nodes; `LoopRefinement`
(`Spec => KeepsLoop`) about each step's commands, and rests on `Claims`: whichever run
starts one, the counter of the row's owner is that of all runs; `RunRefinement`
(`Spec => KeepsRun`) about the status column, and needs only the types: of the
sixteen places of a run the column tells five apart, a step inside one of them is a
stutter (`InsideQuiet`), and a transition the table has is one `RunStatus` has
(`Transits`); so is one the column has and the run was not told of (`transitionUnheard`), for
`RunStatus` lets a column and a memory part where the run goes on.

`RunsEnd` (`Spec => RunEnds`) is what can be proved of the end of a run without
liveness. Each step of a run descends in the order of four things: its stage (not begun,
loading, walking, over), the nodes not completed, the place between two completed nodes,
and the attempts left. A node is completed once because it is still in `todo`, which
`Layers` keeps apart from `done`; the attempts left are a natural number because
of `Claims`. So with finitely many nodes a run has finitely many steps, whatever others do
to its rows. That it takes them is fairness, and that the only place it may stay in
is an unanswered gate is `RunProgress`: TLC checks that.

**Scheduler** (`SchedulerAssumption`). `DriverOwns` and `SoleDriver` need `Placed`
(a run that is not free has a node and an execution) and `Unowned` (what a
poll holds was selected without an owner and only that poll makes its node
one). The advisory lock occurs nowhere in the argument: the owner column alone
keeps nodes apart, and takeovers are the only exception. `ImplementsOwnership`
(`Spec => Own!Spec`) goes through every action: a step of `Scheduler` is a grant
(`SetOwner`), a grant nobody hears of (`SetOwnerUnheard`, `Mislay` in `Ownership`), an end
of work, a revocation (`TakeOver`) or a stutter.
`ImplementsRunStatus` (`Spec => Col!Spec`) needs `Remembers`, what a run in each place
can remember, because only that makes its writes valid ones. With `RunRefinement` it
says that the run `Scheduler` reasons about and the run `Executor` has inside a DAG are the
same to anybody who looks at the column.

`OnlyAbandoned` has a proof of its own, `SchedulerLossProofs`. It is not inductive: what
an execution may be left in depends on how far a takeover of its owner has come.
`LossInv` adds that a run goes on only on a node that is up (`DriversUp`), that an
execution without a gate is never waiting (`Ungated`), and the heart of it, `Emptied`:
once a takeover of `d` has requeued (`GivenUp`), either `d` was seen alive meanwhile
(`hidden`), or it is dead and owns nothing but what is done – or was done when the
requeue passed over it and was written to since (`revived`). `NoOtherLoss` then is a
case split on the owner: none, up, or down with or without a row. Each way that
`Abandoned` names takes a fault, which is a theorem of its own: `Calm` says that until the
first one everybody is up and trusted and what is owned is done or driven, and so
nothing is lost, executions with a gate included (`NothingLostYet`). `StopReaches` is
about the map by which Stop cancels: unless a takeover met its node alive, a run that has
come to its insertion is its execution's entry, and one that has not finds the entry
empty. It rests on `SoleDriver` – a second run on the node would be the one to overwrite the
entry or to take it out – and on `MapInv`: who goes on after a takeover was met by it
(`DeposedMet`), an entry is a run inside `Execute` under its own node and execution
(`Listed`), and every such run of a node no takeover met has its entry (`Enlisted`).

**Dag** (`DefinitionAssumption`: a definition has finitely many edges). `Counted`
says that an in-degree is the number of entries whose dependency is not visited,
by a lemma that counts edges leaving a layer; `Grounded` that the visited
nodes are closed under dependencies and contain no circle. When a layer is
empty the unvisited nodes are a circle; when all is visited there is none. Hence
`CycleFound`; and `NeverStuck`, because incomplete nodes without a ready one
would be a circle among accepted nodes.

**Catalog** (`CatalogAssumption`: NULL, "" and keys differ). `ReadsHold` is the heart: what a
request read is still true when it uses it, *or its workflow is gone* – versions
are never deleted but with their workflow, so a number read as MAX + 1 has all
numbers below it taken, and a version found by Rollback is still the workflow's.
`Keyed` gives a key to one execution and makes answers name executions of their
key; `Seen` says that history has seen what is active. `ImplementsArchive`
(`Spec => Arc!Spec`) goes through every statement. It needs of the versions more than
that they are dense: a request files one version at the most and has done so when it is past
its INSERT (`Stamped`), hence an inserted one is in no log yet; and the numbers are 1 to
some k (`Filled`), so that the versions by number are a sequence, to which an INSERT appends. A deletion, with its cascades, is one
step of `Archive`, and a request that goes on over a workflow that is gone is a stutter.

**Worker** (`WorkerAssumption`: finite sets, the kinds of clients apart). `Accounted` – the
connections of a client are those of its place, and it is on the queue
once exactly if it waits – needs `Keeping`: only a gate, or a loop with a row to
come, asks for a second connection. `NoPoolDeadlock` is a pigeonhole over it:
if all connections are taken and there are more than `Keepers`, one of them is held by
somebody who needs no other. Its hypothesis is `Ample`, which
is what an operator has to set `DB_MAX_CONNS` by, and which the code does not ensure.

**Attempts** (`AttemptsAssumption`: the waits are Durations, of either sign). `Watched` says that
only the command executeStep waits for has a client or a pipe, `Contained` that
the fixed name admits one container; together they give `OneCommand`, whose exceptions are
what neither covers: children without the pipe, and a container beside the compensation. `Told` and `Due`
relate the attempt counter to what was told of the commands before, which `LoopRefinement`
needs. `WaitsGrowUpToMax` (`Spec => WaitsGrow`) is, for the maximum, a matter of the last
comparison, whatever the product wrapped to (`ExponentialCut`); for the growth it needs an induction: the factor of
the n-th wait is a recursive function, and that it is positive and grows has to be known for every n. The
library states induction with an operator as parameter, which no prover here can
instantiate; `Iteration` proves it in the form of sets, from the well-foundedness of
the order of the naturals in `WellFoundedInduction` (`SetInduction`: a set that has 0
and the successor of each of its members has all naturals), and from it
that the recursive function exists (`RecursionExists`).

| theorem | property |
|---|---|
| `ExecutorProofs!TypeCorrect`, `CheckpointIsSound`, `FinishedIsTerminal`, `RowsAreTrue`, `Refinement`, `LoopRefinement`, `RunsEnd` | the properties of `executor_safety` |
| `ExecutorProofs!RunRefinement`, `SchedulerProofs!ImplementsRunStatus` | `KeepsRun`, of `executor_progress` and `scheduler_runs` |
| `ExecutorProofs!AttemptsAreBounded`, `OrderIsKept`, `CompensationIsExclusive`, `SuccessIsComplete`, `StepsAreExclusive` | no run of their own: `KeepsLoop` and `KeepsPromise` are the same hazards |
| `SchedulerProofs!TypeCorrect`, `ImplementsOwnership` | those of `scheduler_runs`, `scheduler_loss` |
| `SchedulerProofs!OwnerDrives`, `OneDriver` | no run of their own: `Leased` is the same hazard |
| `SchedulerLossProofs!NoOtherLoss`, `StopReaches` | `OnlyAbandoned` and `Stoppable`, of `scheduler_loss` |
| `SchedulerLossProofs!NothingLostYet` | no run of its own: it is what `OnlyAbandoned` leaves open, the gated executions |
| `DagProofs!TypeCorrect`, `LayersAreOrdered`, `CyclesAreFound`, `AcceptedNeverStuck` | those of `dag_sort` |
| `CatalogProofs!TypeCorrect`, `StartedOnActive`, `AnswersDoAgree`, `ImplementsArchive` | those of `catalog_safety` |
| `CatalogProofs!VersionsAreDense`, `VersionsAreOwn`, `FilesInOrder` | no run of their own: `KeepsArchive` is the same hazard |
| `WorkerProofs!TypeCorrect`, `Balanced`, `NoPoolDeadlock` | the invariants of `worker` |
| `AttemptsProofs!TypeCorrect`, `CommandsAreAlone`, `WaitsGrowUpToMax`, `LoopRefinement` | those of `attempts` |

Only model-checked:

- liveness (`RunProgress`, `QueuedPickedUp`, `Drained`, `Served`, `Answered`,
  `ShutsDown`, `Ends`), which is outside the prover's reach;
- the five properties of `huml` (`RoundTrip`, `Declared`, `SkipsAsMeant`, `CommandAsMeant`,
  `ResumesAlike`): lexer, parser and evaluator are RECURSIVE operators, about which
  tlapm has no prover, and a proof would be an induction over documents;
- the violations.

## Abstractions and limits

- A failed statement was made or not. Both are modelled where the caller goes on (the
  dropped errors of transitions, the UPDATE of the owner, the statements of a takeover, the
  INSERTs); where it gives up, only where the two differ for anybody else.
- `saveCheckpoint` and the UPDATEs of `execution_steps` may not be made; that one was made
  with its answer lost is for the caller, who does not look at it, the same as made.
- In `Executor` expressions, inputs, outputs and logs are data: a `when` is true or false, an
  expression evaluates or does not, a command exits with 0 or not. `Huml` and
  `Attempts` say how that comes about.
- `Huml` has numbers as fractions (the code: float64, which it prints with up to one decimal
  place as the code does), runs of one or two digits, and words as glyphs: the length of a text
  is counted in them. It leaves out positions and texts of errors, and what is
  refused and how is not a property.
- `Attempts` has the options of `docker run`, the environment and the output of commands left out.
- `Executor` does not delete the workflow under a running execution
  (`Catalog` deletes its rows; a run then fails at its next statement, like `Abort`).
- The notification path of the scheduler is left out: its JSON payload is not the UUID
  it parses, so it only logs, and polling does the work.
- `Catalog` has one tenant and one schedule per workflow; slugs and `Update` are left out, and a
  workflow is created once. The scheduler's tick is a request like any other.
- A step and an approval of one name pass the validation (`validator.go:107`
  looks through each list apart) and become one node; `Dag` models that, and
  `Executor` assumes the two kinds apart.
- A response of the pool, the kernel or the docker daemon is one step; a connection
  that breaks stays with its holder (`scheduler.go:102` never replaces the listener's).

**Not modelled**, and why:

- *The lines of the log stream*: no writer of `step_logs` exists in the repository.
- *Authentication and permissions*: tokens, OIDC and SAML are external libraries around
  single reads; nothing is kept between requests and nothing is shared with the engine.
- *Secrets*: encryption and a single upsert; no workflow reads one.
- *Tenants*, lists and other single statements: no second step to interleave with. `CheckTenantConcurrency` is called by nobody.
- *Fields of the validator* (runner names, images, input types): independent tests of single values.
- *Client, CLI, web, configuration, routes*: no state beyond one call.

## Running it

    tlc -config MCExecutorSafety.cfg MCExecutor.tla
    tlapm ExecutorProofs.tla

and likewise for the other configurations and proof modules. Each run ends in
under three minutes on two workers.
