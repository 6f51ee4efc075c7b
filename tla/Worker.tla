------------------------------- MODULE Worker -------------------------------
(***************************************************************************)
(* The database connections of one server process (pgxpool, MaxConns of    *)
(* them) and all that compete for them: the scheduler's listener, its      *)
(* loops, the runs that wait at an approval, single statements, requests   *)
(* and log streams; and the shutdown of cmd/flowctl-server/main.go, which  *)
(* has to get every connection back.                                       *)
(*                                                                         *)
(* What a statement does to the tables is in Scheduler and Executor; here  *)
(* it is a connection taken and given back.                                *)
(***************************************************************************)
EXTENDS Integers, Sequences, FiniteSets

CONSTANTS
  Conns,      \* the connections: DB_MAX_CONNS of them
  Listener,   \* listenLoop
  Loops,      \* pollForWork and processCronSchedules
  Runs,       \* the calls of runExecution whose workflow has an approval
  Statements, \* goroutines of the scheduler with one statement at a time:
              \* heartbeats, takeovers, the other runs
  Requests,   \* HTTP handlers, under the 30 seconds of chi's Timeout
  Streams,    \* StreamLogs handlers, under the same
  Main,       \* Stop, with 5 seconds for deregisterNode
  MaxRows,    \* bound: the statements for the rows of one query
  None

Timed   == Requests \cup Streams \cup {Main}
Clients == {Listener} \cup Loops \cup Runs \cup Statements \cup Timed

ASSUME WorkerAssumption ==
  /\ IsFiniteSet(Conns) /\ Conns # {}
  /\ IsFiniteSet(Loops) /\ IsFiniteSet(Runs)
  /\ MaxRows \in Nat
  /\ None \notin Clients
  /\ Loops \cap Runs = {}
  /\ Listener \notin Loops \cup Runs

VARIABLES
  phase,      \* of the process
  at,         \* where each client is
  holder,     \* the client that has a connection
  queue,      \* the clients that wait for one, in the order they came
  rows,       \* the statements a loop still has to make inside its query
  answered    \* the runs whose approvals row is answered

vars == <<phase, at, holder, queue, rows, answered>>

(***************************************************************************)
(* "first" waits for a connection, "one" has it, "second" waits for one    *)
(* more while it keeps the first, "two" has both; "leaving" is a run       *)
(* that returned, "unlock" waits for the connection that gives its         *)
(* advisory lock back, "unlocking" has it.                                 *)
(***************************************************************************)
Places == {"idle", "first", "one", "second", "two", "leaving", "unlock", "unlocking"}
Waiting(c) == at[c] \in {"first", "second", "unlock"}

\* Connections are alike: CHOOSE stands for whichever the pool hands out.
Uses(c) == {k \in Conns : holder[k] = c}
Free == {k \in Conns : holder[k] = None}

\* scheduler.Start has returned with the listener's connection, and the server listens.
Init ==
  /\ phase = "serving"
  /\ at = [c \in Clients |-> IF c = Listener THEN "one" ELSE "idle"]
  /\ holder = [[k \in Conns |-> None] EXCEPT ![CHOOSE k \in Conns : TRUE] = Listener]
  /\ queue = <<>>
  /\ rows = [c \in Loops |-> 0]
  /\ answered = {}

-----------------------------------------------------------------------------
(* The pool: first come, first served *)

\* Acquire, from one place to the next.
Queue(c, from, to) ==
  /\ at[c] = from
  /\ at' = [at EXCEPT ![c] = to]
  /\ queue' = Append(queue, c)

\* The queue without a client, which is on it at most once.
Left(c) ==
  LET place == CHOOSE i \in DOMAIN queue : queue[i] = c IN
  IF \E i \in DOMAIN queue : queue[i] = c
  THEN [i \in 1 .. Len(queue) - 1 |-> queue[IF i < place THEN i ELSE i + 1]]
  ELSE queue

\* All the connections of a client go back and it is on no queue.
GiveBack(c, to) ==
  /\ at' = [at EXCEPT ![c] = to]
  /\ holder' = [k \in Conns |-> IF holder[k] = c THEN None ELSE holder[k]]
  /\ queue' = Left(c)

Granted == [first |-> "one", second |-> "two", unlock |-> "unlocking"]

\* The head of the queue gets a free connection; the rows of a loop's query are known.
Grant(c) ==
  /\ queue # <<>> /\ c = Head(queue)
  /\ phase \notin {"closing", "closed"}
  /\ Free # {}
  /\ holder' = [holder EXCEPT ![CHOOSE k \in Free : TRUE] = c]
  /\ at' = [at EXCEPT ![c] = Granted[at[c]]]
  /\ queue' = Tail(queue)
  /\ IF c \in Loops /\ at[c] = "first"
     THEN \E n \in 0 .. MaxRows : rows' = [rows EXCEPT ![c] = n]
     ELSE UNCHANGED rows
  /\ UNCHANGED <<phase, answered>>

\* A closed pool refuses (ErrClosedPool): a check is not resolved, a row is
\* passed over, and the first connection is kept.
Refuse(c) ==
  /\ queue # <<>> /\ c = Head(queue)
  /\ phase = "closing" /\ Free # {}
  /\ at' = [at EXCEPT ![c] = IF @ = "second" THEN "one" ELSE "idle"]
  /\ rows' = IF c \in Loops /\ at[c] = "second" THEN [rows EXCEPT ![c] = @ - 1] ELSE rows
  /\ queue' = Tail(queue)
  /\ UNCHANGED <<phase, holder, answered>>

-----------------------------------------------------------------------------
(* The clients *)

\* A tick, a statement, a request, or a run that reaches its approval.
Ask(c) ==
  /\ phase = "serving" /\ c # Main
  /\ Queue(c, "idle", "first")
  /\ answered' = answered \ {c}
  /\ UNCHANGED <<phase, holder, rows>>

\* A single statement is done and its connection released.
Finish(c) ==
  /\ c \in Statements \cup Requests \cup {Main}
  /\ at[c] = "one"
  /\ GiveBack(c, "idle")
  /\ phase' = IF c = Main THEN "closing" ELSE phase
  /\ UNCHANGED <<rows, answered>>

\* Mutant: one row more than there are.
NextRowAny(c) ==
  /\ c \in Loops
  /\ Queue(c, "one", "second")
  /\ UNCHANGED <<phase, holder, rows, answered>>

\* The query stays open while its rows are worked on, with other connections.
NextRow(c) ==
  /\ c \in Loops /\ rows[c] > 0
  /\ Queue(c, "one", "second")
  /\ UNCHANGED <<phase, holder, rows, answered>>

\* Mutant: the second connection is not released.
DropNone(c) ==
  /\ at[c] = "two"
  /\ at' = [at EXCEPT ![c] = "one"]
  /\ UNCHANGED <<holder, queue>>

\* The second connection of a client goes back.
DropOne(c) ==
  /\ at[c] = "two"
  /\ at' = [at EXCEPT ![c] = "one"]
  /\ holder' = [holder EXCEPT ![CHOOSE k \in Uses(c) : TRUE] = None]
  /\ UNCHANGED queue

RowDone(c) ==
  /\ c \in Loops
  /\ DropOne(c)
  /\ rows' = [rows EXCEPT ![c] = @ - 1]
  /\ UNCHANGED <<phase, answered>>

LastRow(c) ==
  /\ c \in Loops /\ rows[c] = 0 /\ at[c] = "one"
  /\ GiveBack(c, "idle")
  /\ UNCHANGED <<phase, rows, answered>>

\* Approve and Reject, by any server.
Answer(c) ==
  /\ c \in Runs /\ at[c] # "idle" /\ phase # "closed"
  /\ answered' = answered \cup {c}
  /\ UNCHANGED <<phase, at, holder, queue, rows>>

\* handleApproval keeps its LISTEN connection and looks at the row with another,
\* at once and after a notification, 30 seconds, or an error it does not look at.
Check(c) ==
  /\ c \in Runs
  /\ Queue(c, "one", "second")
  /\ UNCHANGED <<phase, holder, rows, answered>>

\* Mutant: the answer is not looked at.
UnresolvedAlways(c) ==
  /\ c \in Runs
  /\ DropOne(c)
  /\ UNCHANGED <<phase, rows, answered>>

Unresolved(c) ==
  /\ c \in Runs \ answered
  /\ DropOne(c)
  /\ UNCHANGED <<phase, rows, answered>>

\* Mutant: the LISTEN connection is not released.
ResolvedKeeps(c) ==
  /\ c \in Runs \cap answered /\ at[c] = "two"
  /\ at' = [at EXCEPT ![c] = "leaving"]
  /\ holder' = [holder EXCEPT ![CHOOSE k \in Uses(c) : TRUE] = None]
  /\ UNCHANGED queue
  /\ UNCHANGED <<phase, rows, answered>>

\* Both connections go back before the run ends with an unlock.
Resolved(c) ==
  /\ c \in Runs \cap answered /\ at[c] = "two"
  /\ GiveBack(c, "leaving")
  /\ UNCHANGED <<phase, rows, answered>>

\* The deferred unlock has a context without end.
Leave(c) ==
  /\ phase # "closed"
  /\ Queue(c, "leaving", "unlock")
  /\ UNCHANGED <<phase, holder, rows, answered>>

Unlocked(c) ==
  /\ at[c] = "unlocking"
  /\ GiveBack(c, "idle")
  /\ UNCHANGED <<phase, rows, answered>>

\* Mutant: the statements of a waiting run have no context.
CancelledNotRuns(c) == c \notin Runs /\ phase # "serving"

\* The context of the scheduler's goroutines ends with main's cancel().
Cancelled(c) == c \notin Timed /\ phase # "serving"

\* A context ends: the client leaves the queue and what it holds comes back.
Expire(c) ==
  /\ c \in Timed \/ Cancelled(c)
  /\ phase # "closed"
  /\ at[c] \in {"first", "one", "second", "two"}
  /\ GiveBack(c, IF c \in Runs THEN "leaving" ELSE "idle")
  /\ phase' = IF c = Main THEN "closing" ELSE phase
  /\ UNCHANGED <<rows, answered>>

-----------------------------------------------------------------------------
(* main *)

\* The signal, and cancel().
Cancel ==
  /\ phase = "serving"
  /\ phase' = "draining"
  /\ UNCHANGED <<at, holder, queue, rows, answered>>

\* srv.Shutdown returns, with the requests done or after 10 seconds; the first
\* deferred call is scheduler.Stop, with a statement of its own.
Stop ==
  /\ phase = "draining"
  /\ phase' = "stopping"
  /\ Queue(Main, "idle", "first")
  /\ UNCHANGED <<holder, rows, answered>>

\* The next is pool.Close, which waits for every connection.
Close ==
  /\ phase = "closing" /\ Free = Conns
  /\ phase' = "closed"
  /\ UNCHANGED <<at, holder, queue, rows, answered>>

Act(c) ==
  \/ Finish(c) \/ NextRow(c) \/ RowDone(c) \/ LastRow(c)
  \/ Check(c) \/ Unresolved(c) \/ Resolved(c) \/ Leave(c) \/ Unlocked(c)

Next ==
  \/ \E c \in Clients : Grant(c) \/ Refuse(c) \/ Ask(c) \/ Act(c) \/ Answer(c) \/ Expire(c)
  \/ Cancel \/ Stop \/ Close

Spec == Init /\ [][Next]_vars

\* The pool serves its queue, statements return, a run looks at its approval
\* again after 30 seconds, contexts end in time and main goes on once it has the
\* signal; no client has to ask, no approval to be answered, no signal to come.
Fairness ==
  /\ \A c \in Clients :
       WF_vars(Grant(c) \/ Refuse(c)) /\ WF_vars(Act(c)) /\ WF_vars(Expire(c))
  /\ WF_vars(Stop \/ Close)

FairSpec == Spec /\ Fairness

-----------------------------------------------------------------------------
(* What must hold *)

TypeOK ==
  /\ phase \in {"serving", "draining", "stopping", "closing", "closed"}
  /\ at \in [Clients -> Places]
  /\ holder \in [Conns -> Clients \cup {None}]
  /\ queue \in Seq(Clients)
  /\ rows \in [Loops -> 0 .. MaxRows]
  /\ answered \subseteq Runs

Count(place) ==
  CASE place \in {"idle", "first", "leaving", "unlock"} -> 0
    [] place \in {"one", "second", "unlocking"} -> 1
    [] place = "two" -> 2

Held == \A c \in Clients : Cardinality(Uses(c)) = Count(at[c])
Queued == \A c \in Clients : Waiting(c) <=> \E i \in DOMAIN queue : queue[i] = c
Once == \A i, j \in DOMAIN queue : queue[i] = queue[j] => i = j

\* Whatever way a client leaves its place, by an answer, a timeout, a cancelled
\* context or a closed pool, it has as many connections as the place says, and
\* waits for one exactly if it is on the queue, once (executor.go:234-262,
\* scheduler.go:232, :293, handler.go:67-73).
Accounted == Held /\ Queued /\ Once

\* There are more connections than clients that can keep one while they wait for
\* another, or for good.
Keepers == {Listener} \cup Loops \cup Runs
Ample == Cardinality(Keepers) < Cardinality(Conns)

\* When all connections are taken, one of those who have them can go on without
\* another: the pool does not wait for itself (executor.go:234-262).
SomeoneMoves ==
  Free = {} => \E k \in Conns : holder[k] # Listener /\ ~Waiting(holder[k])

\* Who has no timeout gets the connection: heartbeats, polls and the checks of
\* approvals go on whatever the approvals and the streams keep.
Served == \A c \in Clients \ (Timed \cup {Listener}) : Waiting(c) ~> ~Waiting(c) \/ phase = "closed"

\* "Wait for a notification with a timeout as fallback" (executor.go:252): a run
\* whose approval is answered leaves its wait.
Answered == \A c \in Runs : c \in answered /\ at[c] # "idle"
                              ~> at[c] \in {"idle", "leaving", "unlock", "unlocking"} \/ phase = "closed"

\* After the signal the process gets its connections back and ends, whoever has
\* them (main.go:136-148).
ShutsDown == phase = "draining" ~> phase = "closed"
-----------------------------------------------------------------------------
(* The inductive invariant of WorkerProofs, in parts *)

\* A second connection is for a run, or for a row that is still to come.
Keeping ==
  \A c \in Clients : at[c] \in {"second", "two"} =>
    c \in Runs \/ (c \in Loops /\ rows[c] > 0)

IInv == TypeOK /\ Accounted /\ Keeping
=============================================================================
