----------------------------- MODULE ExecStatus -----------------------------
(***************************************************************************)
(* The statuses of an execution and of a step, and the transition tables   *)
(* of internal/engine/statemachine.go.  The database column has no table   *)
(* of its own: only transitionExecution consults validExecutionTransitions,*)
(* and it does so against the status it holds in memory.                   *)
(***************************************************************************)

ExecutionStatus ==
  {"pending", "queued", "running", "waiting_approval", "paused",
   "succeeded", "failed", "cancelled", "retrying"}

\* IsTerminal: the statuses Cancel leaves alone and that set finished_at.
Terminal == {"succeeded", "failed", "cancelled"}

validExecutionTransitions ==
  {<<"pending", "queued">>, <<"queued", "running">>,
   <<"running", "succeeded">>, <<"running", "failed">>,
   <<"running", "waiting_approval">>, <<"running", "cancelled">>,
   <<"running", "paused">>, <<"waiting_approval", "running">>,
   <<"waiting_approval", "cancelled">>, <<"paused", "running">>,
   <<"paused", "cancelled">>, <<"failed", "retrying">>,
   <<"retrying", "running">>, <<"retrying", "failed">>,
   <<"pending", "cancelled">>, <<"queued", "cancelled">>}

ValidateExecutionTransition(from, to) == <<from, to>> \in validExecutionTransitions
=============================================================================
