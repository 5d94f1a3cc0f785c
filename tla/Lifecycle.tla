------------------------------ MODULE Lifecycle ------------------------------
(***************************************************************************)
(* The state machines of the orchestrator's three entities, as the domain  *)
(* classes Task, Run and Step of apps/orchestrator/src/domain define them: *)
(* the statuses, the transitions _transition accepts (every other target   *)
(* raises InvalidTransitionError or TerminalStateError), and the query     *)
(* helpers is_active.  "none" is the status of a row that does not exist.  *)
(***************************************************************************)

TaskStatus == {"draft", "pending", "running", "waiting_approval",
               "completed", "failed", "cancelled", "archived"}

TaskTransitions ==
    {<<"draft", "pending">>, <<"draft", "cancelled">>,
     <<"pending", "running">>, <<"pending", "cancelled">>,
     <<"running", "waiting_approval">>, <<"running", "completed">>,
     <<"running", "failed">>, <<"running", "cancelled">>,
     <<"waiting_approval", "running">>, <<"waiting_approval", "cancelled">>,
     <<"completed", "archived">>,
     <<"failed", "pending">>, <<"failed", "archived">>,
     <<"cancelled", "archived">>}

\* Task._transition: terminal statuses have no target, so one test suffices.
CanTask(from, to) == <<from, to>> \in TaskTransitions

RunStatus == {"queued", "preparing", "running", "waiting_approval",
              "completing", "completed", "failed", "cancelled", "timed_out"}

RunTransitions ==
    {<<"queued", "preparing">>, <<"queued", "cancelled">>,
     <<"preparing", "running">>, <<"preparing", "failed">>,
     <<"preparing", "cancelled">>,
     <<"running", "waiting_approval">>, <<"running", "completing">>,
     <<"running", "failed">>, <<"running", "cancelled">>,
     <<"running", "timed_out">>,
     <<"waiting_approval", "running">>, <<"waiting_approval", "cancelled">>,
     <<"completing", "completed">>, <<"completing", "failed">>,
     <<"timed_out", "cancelled">>}

CanRun(from, to) == <<from, to>> \in RunTransitions

\* Run.is_active, and the filter of list_active_by_task: timed_out is neither
\* active nor terminal.
ActiveRunStatus ==
    {"queued", "preparing", "running", "waiting_approval", "completing"}

TerminalRunStatus == {"completed", "failed", "cancelled"}

StepStatus == {"pending", "running", "waiting_approval", "blocked",
               "completed", "failed", "skipped", "cancelled"}

StepTransitions ==
    {<<"pending", "running">>, <<"pending", "skipped">>,
     <<"pending", "cancelled">>,
     <<"running", "waiting_approval">>, <<"running", "blocked">>,
     <<"running", "completed">>, <<"running", "failed">>,
     <<"running", "cancelled">>,
     <<"waiting_approval", "running">>, <<"waiting_approval", "cancelled">>,
     <<"blocked", "running">>, <<"blocked", "failed">>,
     <<"blocked", "cancelled">>}

CanStep(from, to) == <<from, to>> \in StepTransitions

\* Step.is_active, and the filter of list_active_by_run.
ActiveStepStatus == {"pending", "running", "waiting_approval", "blocked"}
=============================================================================
