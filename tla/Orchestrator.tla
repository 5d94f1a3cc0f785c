----------------------------- MODULE Orchestrator -----------------------------
(***************************************************************************)
(* The orchestrator service: tasks, their runs and steps in PostgreSQL,    *)
(* the HTTP handlers that change them, the execution of a task, and the    *)
(* recovery sweep.                                                         *)
(*                                                                         *)
(* Processes.  A worker is the event loop of one orchestrator instance: its*)
(* endpoints are "async def" functions that call the synchronous handlers  *)
(* directly, so it serves one request at a time, and a submit or a launch  *)
(* keeps it for the whole execution.  A sweeper is the thread in which an  *)
(* instance runs recover_stuck_entities; it is concurrent with the workers *)
(* of every instance, its own included.                                    *)
(*                                                                         *)
(* Transactions.  A repository's get_by_id takes no lock and save is an    *)
(* upsert of the whole row with no version or status condition, under READ *)
(* COMMITTED: what a transaction read may be stale when it writes.  So a   *)
(* handler is two actions, the unlocked read that decides whether the      *)
(* transition is legal and the write that commits it, with every other     *)
(* process in between.  A row written and not yet committed is locked:     *)
(* tlock[t] is the worker whose uncommitted upsert holds the row of task t.*)
(* The sweep reads runs and steps FOR UPDATE and holds the lock up to its  *)
(* commit, so each of those transactions is one action.                    *)
(***************************************************************************)
EXTENDS Integers, FiniteSets, Lifecycle

CONSTANTS Tasks,         \* task ids
          Drafts,        \* the tasks made by create_draft and started by launch;
                         \* the others are made and started by submit
          Workers,       \* event loops of the orchestrator instances
          Sweepers,      \* recovery sweep threads of the instances
          MaxRuns,       \* bound: executions requested (submits and launches)
          MaxFaults,     \* bound: requests and sweeps that die half way
          SlowDispatch,  \* may an execution outlast the stuck-run timeout?
          None           \* no task, no worker

ASSUME DraftsAssumption == Drafts \subseteq Tasks
ASSUME BoundsAssumption == MaxRuns \in Nat /\ MaxFaults \in Nat
ASSUME SlowAssumption   == SlowDispatch \in BOOLEAN
ASSUME NoneAssumption   == None \notin Tasks \cup Workers

Runs == 1..MaxRuns       \* in creation order: created_at orders the runs

\* What a dispatch reports: RuntimeExecutionResult.status.
Results == {"completed", "timed_out", "failed", "waiting_human"}

WorkerPc == {"idle", "exec_read", "exec_start", "dispatch", "final_read",
             "final_write", "cancel_write", "cancel_cascade", "retry_write",
             "launch_write", "brief_write"}

SweeperPc == {"idle", "runs", "steps", "tasks", "task_runs", "task_write"}

VARIABLES
    \* committed rows
    task,        \* [Tasks -> TaskStatus or "none"]
    brief,       \* [Tasks -> BOOLEAN]: all fields a launch requires are set
    run,         \* [Runs -> RunStatus or "none"]
    step,        \* [Runs -> StepStatus or "none"]: the one step of each run
    owner,       \* [Runs -> Tasks or None]: the run's task_id
    stale,       \* [Runs -> BOOLEAN]: updated_at is before the stuck cutoff
    recovered,   \* [Runs -> Nat]: run.recovered events in the outbox
    tlock,       \* [Tasks -> Workers or None]: uncommitted write of the row
    \* workers
    pc, wtask, wrun, result, seen,
    \* sweepers
    spc, sruns, stasks, scur, sout,
    \* bounds
    launched, faults

rows    == <<task, brief, run, step, owner, stale, recovered>>
runRows == <<run, step, owner, stale, recovered>>
wvars   == <<pc, wtask, wrun, result, seen>>
svars   == <<spc, sruns, stasks, scur, sout>>
bounds  == <<launched, faults>>
vars    == <<rows, tlock, wvars, svars, bounds>>

\* The tables tasks, runs and steps, as far as the handlers look at them: the
\* status of each entity, the brief of a task, the task of a run, and updated_at
\* as the sweep's cutoff divides it.
TaskRows == [Tasks -> TaskStatus \cup {"none"}]
Briefs   == [Tasks -> BOOLEAN]
RunRows  == [Runs -> RunStatus \cup {"none"}]
StepRows == [Runs -> StepStatus \cup {"none"}]
Owners   == [Runs -> Tasks \cup {None}]
Ages     == [Runs -> BOOLEAN]

\* run.recovered events, told apart by their number only.
RecoveredEvents == [Runs -> Nat]

\* What a command says: the task it is about.
Arguments == [Workers -> Tasks \cup {None}]

\* list_stuck: what a sweep has listed.
StuckRuns == [Sweepers -> SUBSET Runs]

TypeOK ==
    /\ task \in TaskRows
    /\ brief \in Briefs
    /\ run \in RunRows
    /\ step \in StepRows
    /\ owner \in Owners
    /\ stale \in Ages
    /\ recovered \in RecoveredEvents
    /\ tlock \in [Tasks -> Workers \cup {None}]
    /\ pc \in [Workers -> WorkerPc]
    /\ wtask \in Arguments
    /\ wrun \in [Workers -> Runs \cup {0}]
    /\ result \in [Workers -> Results]
    /\ seen \in [Workers -> SUBSET Runs]
    /\ spc \in [Sweepers -> SweeperPc]
    /\ sruns \in StuckRuns
    /\ stasks \in [Sweepers -> SUBSET Tasks]
    /\ scur \in [Sweepers -> Tasks \cup {None}]
    /\ sout \in [Sweepers -> {"completed", "failed"}]
    /\ launched \in 0..MaxRuns
    /\ faults \in 0..MaxFaults

Init ==
    /\ task = [t \in Tasks |-> "none"]
    /\ brief = [t \in Tasks |-> FALSE]
    /\ run = [r \in Runs |-> "none"]
    /\ step = [r \in Runs |-> "none"]
    /\ owner = [r \in Runs |-> None]
    /\ stale = [r \in Runs |-> FALSE]
    /\ recovered = [r \in Runs |-> 0]
    /\ tlock = [t \in Tasks |-> None]
    /\ pc = [p \in Workers |-> "idle"]
    /\ wtask = [p \in Workers |-> None]
    /\ wrun = [p \in Workers |-> 0]
    /\ result = [p \in Workers |-> "failed"]
    /\ seen = [p \in Workers |-> {}]
    /\ spc = [s \in Sweepers |-> "idle"]
    /\ sruns = [s \in Sweepers |-> {}]
    /\ stasks = [s \in Sweepers |-> {}]
    /\ scur = [s \in Sweepers |-> None]
    /\ sout = [s \in Sweepers |-> "failed"]
    /\ launched = 0
    /\ faults = 0

(***************************************************************************)
(* Queries of the repositories                                             *)
(***************************************************************************)
RunsOf(t) == {r \in Runs : owner[r] = t}

\* list_active_by_task
ActiveRuns(t) == {r \in RunsOf(t) : run[r] \in ActiveRunStatus}

\* Mutant: the sweep takes every latest run that has not failed for a success.
LatestNotFailed(t) ==
    \E r \in RunsOf(t) : run[r] # "failed" /\ \A q \in RunsOf(t) : q =< r

\* get_latest_by_task(t) is a completed run
LatestCompleted(t) ==
    \E r \in RunsOf(t) : run[r] = "completed" /\ \A q \in RunsOf(t) : q =< r

\* Mutant: runs that are executing are not candidates.
StuckBeforeRunning == {"preparing", "completing"}

\* _STUCK_RUN_STATUSES and _STUCK_STEP_STATUSES
StuckRunStatus  == {"preparing", "running", "completing"}
StuckStepStatus == {"running"}

\* save: an upsert of the row of t does not wait for another transaction.
Unlocked(t) == tlock[t] = None

\* The request of worker p is over: its unit of work is closed.
Finish(p) ==
    /\ pc' = [pc EXCEPT ![p] = "idle"]
    /\ wtask' = [wtask EXCEPT ![p] = None]
    /\ wrun' = [wrun EXCEPT ![p] = 0]
    /\ result' = [result EXCEPT ![p] = "failed"]
    /\ seen' = [seen EXCEPT ![p] = {}]

\* Worker p goes on to the next step of a request about task t.
Proceed(p, next, t) ==
    /\ pc' = [pc EXCEPT ![p] = next]
    /\ wtask' = [wtask EXCEPT ![p] = t]
    /\ UNCHANGED <<wrun, result, seen>>

(***************************************************************************)
(* Creating and starting a task                                            *)
(***************************************************************************)

\* handle_submit_task: a new row, draft -> pending, in one transaction; the
\* endpoint then calls run_real_execution.
Submit(p, t) ==
    /\ pc[p] = "idle" /\ t \notin Drafts /\ task[t] = "none"
    /\ launched < MaxRuns
    /\ task' = [task EXCEPT ![t] = "pending"]
    /\ launched' = launched + 1
    /\ Proceed(p, "exec_read", t)
    /\ UNCHANGED <<brief, runRows, tlock, svars, faults>>

\* handle_create_draft; b: were all required fields given?
CreateDraft(p, t, b) ==
    /\ pc[p] = "idle" /\ t \in Drafts /\ task[t] = "none"
    /\ task' = [task EXCEPT ![t] = "draft"]
    /\ brief' = [brief EXCEPT ![t] = b]
    /\ UNCHANGED <<runRows, tlock, wvars, svars, bounds>>

\* handle_update_brief: unlocked read, only in draft ...
BriefRead(p, t) ==
    /\ pc[p] = "idle" /\ task[t] = "draft"
    /\ Proceed(p, "brief_write", t)
    /\ UNCHANGED <<rows, tlock, svars, bounds>>

\* ... and the upsert of the whole row, task_status included.
BriefWrite(p, b) ==
    /\ pc[p] = "brief_write" /\ Unlocked(wtask[p])
    /\ task' = [task EXCEPT ![wtask[p]] = "draft"]
    /\ brief' = [brief EXCEPT ![wtask[p]] = b]
    /\ Finish(p)
    /\ UNCHANGED <<runRows, tlock, svars, bounds>>

\* handle_launch_task: _validate_launch_readiness on an unlocked read ...
LaunchRead(p, t) ==
    /\ pc[p] = "idle" /\ task[t] = "draft" /\ brief[t]
    /\ launched < MaxRuns
    /\ launched' = launched + 1
    /\ Proceed(p, "launch_write", t)
    /\ UNCHANGED <<rows, tlock, svars, faults>>

\* ... and draft -> pending; the endpoint then calls run_real_execution.
LaunchWrite(p) ==
    /\ pc[p] = "launch_write" /\ Unlocked(wtask[p])
    /\ task' = [task EXCEPT ![wtask[p]] = "pending"]
    /\ brief' = [brief EXCEPT ![wtask[p]] = TRUE]
    /\ Proceed(p, "exec_read", wtask[p])
    /\ UNCHANGED <<runRows, tlock, svars, bounds>>

(***************************************************************************)
(* Executing a task: run_real_execution                                    *)
(***************************************************************************)

\* Unlocked read; a task that is not pending raises and ends the request.
ExecRead(p) ==
    /\ pc[p] = "exec_read"
    /\ IF task[wtask[p]] = "pending"
         THEN Proceed(p, "exec_start", wtask[p])
         ELSE Finish(p)
    /\ UNCHANGED <<rows, tlock, svars, bounds>>

\* First transaction of _execute_single_task: the task starts, the run goes
\* queued -> preparing -> running and the step pending -> running, and all of
\* it is committed at once.
ExecStart(p) ==
    /\ pc[p] = "exec_start" /\ Unlocked(wtask[p])
    /\ \E r \in Runs :
         /\ run[r] = "none" /\ \A q \in Runs : q < r => run[q] # "none"
         /\ run' = [run EXCEPT ![r] = "running"]
         /\ step' = [step EXCEPT ![r] = "running"]
         /\ owner' = [owner EXCEPT ![r] = wtask[p]]
         /\ wrun' = [wrun EXCEPT ![p] = r]
    /\ task' = [task EXCEPT ![wtask[p]] = "running"]
    /\ pc' = [pc EXCEPT ![p] = "dispatch"]
    /\ UNCHANGED <<brief, stale, recovered, tlock, wtask, result, seen,
                   svars, bounds>>

\* Outside any transaction: provision the sandbox, dispatch to agent-runtime
\* and terminate the sandbox.  Every failure on the way is a "failed" result.
Dispatch(p, res) ==
    /\ pc[p] = "dispatch"
    /\ pc' = [pc EXCEPT ![p] = "final_read"]
    /\ result' = [result EXCEPT ![p] = res]
    /\ UNCHANGED <<rows, tlock, wtask, wrun, seen, svars, bounds>>

\* What _finalize_execution makes of a result: only "completed" is a success
\* and only "timed_out" a timeout, so waiting_human is a failure.
StepOutcome(res) == IF res = "completed" THEN "completed" ELSE "failed"
TaskOutcome(res) == IF res = "completed" THEN "completed" ELSE "failed"
RunOutcome(res)  == IF res \in {"completed", "timed_out"} THEN res ELSE "failed"

\* step, run and task accept the transitions of the result's handler.  A
\* success takes the run through completing.
FinalLegal(res, k, r, s) ==
    /\ CanStep(s, StepOutcome(res))
    /\ IF res = "completed"
         THEN CanRun(r, "completing") /\ CanRun("completing", "completed")
         ELSE CanRun(r, RunOutcome(res))
    /\ CanTask(k, TaskOutcome(res))

\* _finalize_execution: the rows are read again, unlocked.  An illegal
\* transition raises: nothing is written and the request ends.  (The three
\* reads are one action: a commit that falls between them either leaves this
\* run's rows alone or makes the step's transition illegal.)
FinalRead(p) ==
    /\ pc[p] = "final_read"
    /\ IF FinalLegal(result[p], task[wtask[p]], run[wrun[p]], step[wrun[p]])
         THEN /\ pc' = [pc EXCEPT ![p] = "final_write"]
              /\ UNCHANGED <<wtask, wrun, result, seen>>
         ELSE Finish(p)
    /\ UNCHANGED <<rows, tlock, svars, bounds>>

\* The upserts of step, run and task, and the commit.
FinalWrite(p) ==
    /\ pc[p] = "final_write" /\ Unlocked(wtask[p])
    /\ step' = [step EXCEPT ![wrun[p]] = StepOutcome(result[p])]
    /\ run' = [run EXCEPT ![wrun[p]] = RunOutcome(result[p])]
    /\ task' = [task EXCEPT ![wtask[p]] = TaskOutcome(result[p])]
    /\ Finish(p)
    /\ UNCHANGED <<brief, owner, stale, recovered, tlock, svars, bounds>>

(***************************************************************************)
(* Cancelling and retrying                                                 *)
(***************************************************************************)

\* handle_cancel_task: unlocked read of the task; task.cancel() must be legal.
CancelRead(p, t) ==
    /\ pc[p] = "idle" /\ CanTask(task[t], "cancelled")
    /\ Proceed(p, "cancel_write", t)
    /\ UNCHANGED <<rows, tlock, svars, bounds>>

\* Mutant: the runs are listed before the task's row is written and locked.
CancelWriteUnlocked(p) ==
    /\ pc[p] = "cancel_write"
    /\ seen' = [seen EXCEPT ![p] = ActiveRuns(wtask[p])]
    /\ pc' = [pc EXCEPT ![p] = "cancel_cascade"]
    /\ UNCHANGED <<rows, tlock, wtask, wrun, result, svars, bounds>>

\* The task's upsert takes its row lock; then the active runs are listed.  A
\* run that cannot be cancelled raises and the transaction is rolled back.
CancelWrite(p) ==
    /\ pc[p] = "cancel_write" /\ Unlocked(wtask[p])
    /\ IF \A r \in ActiveRuns(wtask[p]) : CanRun(run[r], "cancelled")
         THEN /\ tlock' = [tlock EXCEPT ![wtask[p]] = p]
              /\ seen' = [seen EXCEPT ![p] = ActiveRuns(wtask[p])]
              /\ pc' = [pc EXCEPT ![p] = "cancel_cascade"]
              /\ UNCHANGED <<wtask, wrun, result>>
         ELSE Finish(p) /\ UNCHANGED tlock
    /\ UNCHANGED <<rows, svars, bounds>>

\* Mutant: the cascade stops at the runs.
CancelCascadeRunsOnly(p) ==
    /\ pc[p] = "cancel_cascade"
    /\ task' = [task EXCEPT ![wtask[p]] = "cancelled"]
    /\ run' = [r \in Runs |-> IF r \in seen[p] THEN "cancelled" ELSE run[r]]
    /\ tlock' = [tlock EXCEPT ![wtask[p]] = None]
    /\ Finish(p)
    /\ UNCHANGED <<brief, step, owner, stale, recovered, svars, bounds>>

\* The upserts of the listed runs and of their active steps, and the commit.
CancelCascade(p) ==
    /\ pc[p] = "cancel_cascade"
    /\ task' = [task EXCEPT ![wtask[p]] = "cancelled"]
    /\ run' = [r \in Runs |-> IF r \in seen[p] THEN "cancelled" ELSE run[r]]
    /\ step' = [r \in Runs |->
                  IF r \in seen[p] /\ step[r] \in ActiveStepStatus
                    THEN "cancelled" ELSE step[r]]
    /\ tlock' = [tlock EXCEPT ![wtask[p]] = None]
    /\ Finish(p)
    /\ UNCHANGED <<brief, owner, stale, recovered, svars, bounds>>

\* handle_retry_task: failed -> pending.  The endpoint returns; nothing calls
\* run_real_execution and nothing polls pending tasks.
RetryRead(p, t) ==
    /\ pc[p] = "idle" /\ task[t] = "failed"
    /\ Proceed(p, "retry_write", t)
    /\ UNCHANGED <<rows, tlock, svars, bounds>>

RetryWrite(p) ==
    /\ pc[p] = "retry_write" /\ Unlocked(wtask[p])
    /\ task' = [task EXCEPT ![wtask[p]] = "pending"]
    /\ Finish(p)
    /\ UNCHANGED <<brief, runRows, tlock, svars, bounds>>

\* A request dies: its instance crashes, or PostgreSQL refuses its transaction
\* (connection lost, or victim of the deadlock between cancel, which locks
\* task, run, step, and finalize, which locks step, run, task).  What was not
\* committed is rolled back and its locks are released.
RequestDies(p) ==
    /\ pc[p] # "idle" /\ faults < MaxFaults
    /\ faults' = faults + 1
    /\ tlock' = [t \in Tasks |-> IF tlock[t] = p THEN None ELSE tlock[t]]
    /\ Finish(p)
    /\ UNCHANGED <<rows, svars, launched>>

(***************************************************************************)
(* The recovery sweep: recover_stuck_entities                              *)
(***************************************************************************)

\* Time passes: the rows of run r become older than the stuck cutoffs.  The
\* timeouts of an execution (AGENT_DISPATCH_TIMEOUT_MS, 120 s by default) are
\* far below them (30 minutes), so unless SlowDispatch holds only the rows of
\* a dead execution get that old.
Age(r) ==
    /\ ~stale[r] /\ run[r] \in ActiveRunStatus
    /\ SlowDispatch \/ \A p \in Workers : wrun[p] # r
    /\ stale' = [stale EXCEPT ![r] = TRUE]
    /\ UNCHANGED <<task, brief, run, step, owner, recovered, tlock,
                   wvars, svars, bounds>>

\* _recover_stuck_runs: the candidates are listed in a transaction of its own.
SweepList(s) ==
    /\ spc[s] = "idle"
    /\ spc' = [spc EXCEPT ![s] = "runs"]
    /\ sruns' = [sruns EXCEPT ![s] =
                   {r \in Runs : run[r] \in StuckRunStatus /\ stale[r]}]
    /\ UNCHANGED <<rows, tlock, wvars, stasks, scur, sout, bounds>>

\* Mutant: the status is not looked at again under the lock.
SweepRunBlind(s) ==
    /\ spc[s] = "runs"
    /\ \E r \in sruns[s] :
         /\ sruns' = [sruns EXCEPT ![s] = @ \ {r}]
         /\ run' = [run EXCEPT ![r] = "failed"]
         /\ step' = [step EXCEPT ![r] =
                       IF @ \in ActiveStepStatus THEN "cancelled" ELSE @]
         /\ recovered' = [recovered EXCEPT ![r] = @ + 1]
    /\ UNCHANGED <<task, brief, owner, stale, tlock, wvars,
                   spc, stasks, scur, sout, bounds>>

\* _recover_single_run: FOR UPDATE, terminal and status guards, the run's new
\* status, its active steps cancelled, run.recovered.
SweepRun(s) ==
    /\ spc[s] = "runs"
    /\ \E r \in sruns[s] :
         /\ sruns' = [sruns EXCEPT ![s] = @ \ {r}]
         /\ IF run[r] \in StuckRunStatus
              THEN /\ run' = [run EXCEPT ![r] =
                                IF @ = "completing" THEN "completed" ELSE "failed"]
                   /\ step' = [step EXCEPT ![r] =
                                IF @ \in ActiveStepStatus THEN "cancelled" ELSE @]
                   /\ recovered' = [recovered EXCEPT ![r] = @ + 1]
              ELSE UNCHANGED <<run, step, recovered>>
    /\ UNCHANGED <<task, brief, owner, stale, tlock, wvars,
                   spc, stasks, scur, sout, bounds>>

\* _recover_stuck_steps lists its candidates ...
SweepListSteps(s) ==
    /\ spc[s] = "runs" /\ sruns[s] = {}
    /\ spc' = [spc EXCEPT ![s] = "steps"]
    /\ sruns' = [sruns EXCEPT ![s] =
                   {r \in Runs : step[r] \in StuckStepStatus /\ stale[r]}]
    /\ UNCHANGED <<rows, tlock, wvars, stasks, scur, sout, bounds>>

\* ... and _recover_single_step fails each one that is still running.
SweepStep(s) ==
    /\ spc[s] = "steps"
    /\ \E r \in sruns[s] :
         /\ sruns' = [sruns EXCEPT ![s] = @ \ {r}]
         /\ step' = [step EXCEPT ![r] =
                       IF @ \in StuckStepStatus THEN "failed" ELSE @]
    /\ UNCHANGED <<task, brief, run, owner, stale, recovered, tlock, wvars,
                   spc, stasks, scur, sout, bounds>>

\* _recover_orphaned_tasks lists the running tasks.
SweepListTasks(s) ==
    /\ spc[s] = "steps" /\ sruns[s] = {}
    /\ spc' = [spc EXCEPT ![s] = "tasks"]
    /\ stasks' = [stasks EXCEPT ![s] = {t \in Tasks : task[t] = "running"}]
    /\ UNCHANGED <<rows, tlock, wvars, sruns, scur, sout, bounds>>

\* _recover_single_task: unlocked read of the task ...
SweepTaskRead(s) ==
    /\ spc[s] = "tasks"
    /\ \E t \in stasks[s] :
         /\ stasks' = [stasks EXCEPT ![s] = @ \ {t}]
         /\ IF task[t] = "running"
              THEN /\ spc' = [spc EXCEPT ![s] = "task_runs"]
                   /\ scur' = [scur EXCEPT ![s] = t]
              ELSE UNCHANGED <<spc, scur>>
    /\ UNCHANGED <<rows, tlock, wvars, sruns, sout, bounds>>

\* Mutant: active runs do not keep the sweep from ending the task.
SweepTaskRunsAnyway(s) ==
    /\ spc[s] = "task_runs"
    /\ spc' = [spc EXCEPT ![s] = "task_write"]
    /\ sout' = [sout EXCEPT ![s] =
                  IF LatestCompleted(scur[s]) THEN "completed" ELSE "failed"]
    /\ UNCHANGED <<rows, tlock, wvars, sruns, stasks, scur, bounds>>

\* Mutant: only a task with a completed run is ended.
SweepTaskRunsCompleted(s) ==
    /\ spc[s] = "task_runs"
    /\ IF LatestCompleted(scur[s])
         THEN /\ spc' = [spc EXCEPT ![s] = "task_write"]
              /\ sout' = [sout EXCEPT ![s] = "completed"]
              /\ UNCHANGED scur
         ELSE /\ spc' = [spc EXCEPT ![s] = "tasks"]
              /\ scur' = [scur EXCEPT ![s] = None]
              /\ UNCHANGED sout
    /\ UNCHANGED <<rows, tlock, wvars, sruns, stasks, bounds>>

\* The task's runs are read next: active ones leave the task alone, otherwise the
\* latest run decides ...
SweepTaskRuns(s) ==
    /\ spc[s] = "task_runs"
    /\ IF ActiveRuns(scur[s]) # {}
         THEN /\ spc' = [spc EXCEPT ![s] = "tasks"]
              /\ scur' = [scur EXCEPT ![s] = None]
              /\ UNCHANGED sout
         ELSE /\ spc' = [spc EXCEPT ![s] = "task_write"]
              /\ sout' = [sout EXCEPT ![s] =
                            IF LatestCompleted(scur[s]) THEN "completed" ELSE "failed"]
              /\ UNCHANGED scur
    /\ UNCHANGED <<rows, tlock, wvars, sruns, stasks, bounds>>

\* ... and the upsert of the task with task.recovered.
SweepTaskWrite(s) ==
    /\ spc[s] = "task_write" /\ Unlocked(scur[s])
    /\ task' = [task EXCEPT ![scur[s]] = sout[s]]
    /\ spc' = [spc EXCEPT ![s] = "tasks"]
    /\ scur' = [scur EXCEPT ![s] = None]
    /\ sout' = [sout EXCEPT ![s] = "failed"]
    /\ UNCHANGED <<brief, runRows, tlock, wvars, sruns, stasks, bounds>>

\* The sweep is over; the loop sleeps RECOVERY_INTERVAL_SECONDS.
SweepDone(s) ==
    /\ spc[s] = "tasks" /\ stasks[s] = {}
    /\ spc' = [spc EXCEPT ![s] = "idle"]
    /\ UNCHANGED <<rows, tlock, wvars, sruns, stasks, scur, sout, bounds>>

\* The transaction of one entity fails (reconciliation_failed): the sweep goes
\* on with the next one.
SweepItemFails(s) ==
    /\ faults < MaxFaults
    /\ faults' = faults + 1
    /\ \/ /\ spc[s] \in {"runs", "steps"}
          /\ \E r \in sruns[s] : sruns' = [sruns EXCEPT ![s] = @ \ {r}]
          /\ UNCHANGED <<spc, stasks, scur, sout>>
       \/ /\ spc[s] = "tasks"
          /\ \E t \in stasks[s] : stasks' = [stasks EXCEPT ![s] = @ \ {t}]
          /\ UNCHANGED <<spc, sruns, scur, sout>>
       \/ /\ spc[s] \in {"task_runs", "task_write"}
          /\ spc' = [spc EXCEPT ![s] = "tasks"]
          /\ scur' = [scur EXCEPT ![s] = None]
          /\ sout' = [sout EXCEPT ![s] = "failed"]
          /\ UNCHANGED <<sruns, stasks>>
    /\ UNCHANGED <<rows, tlock, wvars, launched>>

\* The instance crashes under the sweep; the next sweep starts from nothing.
SweepDies(s) ==
    /\ spc[s] # "idle" /\ faults < MaxFaults
    /\ faults' = faults + 1
    /\ spc' = [spc EXCEPT ![s] = "idle"]
    /\ sruns' = [sruns EXCEPT ![s] = {}]
    /\ stasks' = [stasks EXCEPT ![s] = {}]
    /\ scur' = [scur EXCEPT ![s] = None]
    /\ sout' = [sout EXCEPT ![s] = "failed"]
    /\ UNCHANGED <<rows, tlock, wvars, launched>>

-----------------------------------------------------------------------------
\* A user's request about a submitted task arrives at an idle worker ...
TaskRequest(p, t) ==
    \/ Submit(p, t)
    \/ CancelRead(p, t)
    \/ RetryRead(p, t)

\* ... or one about a draft.
BriefRequest(p, t) ==
    \/ \E b \in BOOLEAN : CreateDraft(p, t, b)
    \/ BriefRead(p, t)
    \/ LaunchRead(p, t)

Request(p) == \E t \in Tasks : TaskRequest(p, t) \/ BriefRequest(p, t)

\* The worker goes on with the request it serves.
WorkerStep(p) ==
    \/ \E b \in BOOLEAN : BriefWrite(p, b)
    \/ LaunchWrite(p)
    \/ ExecRead(p)
    \/ ExecStart(p)
    \/ \E res \in Results : Dispatch(p, res)
    \/ FinalRead(p)
    \/ FinalWrite(p)
    \/ CancelWrite(p)
    \/ CancelCascade(p)
    \/ RetryWrite(p)

SweeperStep(s) ==
    \/ SweepList(s)
    \/ SweepRun(s)
    \/ SweepListSteps(s)
    \/ SweepStep(s)
    \/ SweepListTasks(s)
    \/ SweepTaskRead(s)
    \/ SweepTaskRuns(s)
    \/ SweepTaskWrite(s)
    \/ SweepDone(s)

Next ==
    \/ \E p \in Workers : Request(p) \/ WorkerStep(p) \/ RequestDies(p)
    \/ \E s \in Sweepers : SweeperStep(s) \/ SweepItemFails(s) \/ SweepDies(s)
    \/ \E r \in Runs : Age(r)

Spec == Init /\ [][Next]_vars

(***************************************************************************)
(* Fairness: a worker finishes the request it serves (every call it makes  *)
(* has a timeout), the sweep loop runs for ever, and time passes.  Nothing *)
(* is assumed of users, and faults are never forced.                       *)
(***************************************************************************)
Fairness ==
    /\ \A p \in Workers : WF_vars(WorkerStep(p))
    /\ \A s \in Sweepers : WF_vars(SweeperStep(s))
    /\ \A r \in Runs : WF_vars(Age(r))

FairSpec == Spec /\ Fairness

(***************************************************************************)
(* Properties                                                              *)
(***************************************************************************)

\* A step is active only in a run that is active: whoever ends a run (the
\* finalization, the cancel cascade or the sweep) ends its step in the same
\* transaction, whatever the others had read before.  (doc 05, 2.7: no step
\* goes on after its run has ended.)
NoOrphanStep ==
    \A r \in Runs : step[r] \in ActiveStepStatus => run[r] \in ActiveRunStatus

\* A task is completed only if one of its runs is: neither the sweep's guess
\* from the latest run nor an overwritten finalization leaves a task that
\* claims a success no run had.
CompletedTaskHasCompletedRun ==
    \A t \in Tasks :
       task[t] = "completed" => \E r \in RunsOf(t) : run[r] = "completed"

\* Once a task has ended, none of its runs is active.  (doc 05, 1.5: when a
\* task is cancelled or fails, all active child runs are terminated.)
SettledTaskHasNoActiveRun ==
    \A t \in Tasks :
       task[t] \in {"completed", "failed", "cancelled"} => ActiveRuns(t) = {}

\* However many instances sweep at once, a run is recovered at most once: the
\* design note in _recover_stuck_runs relies on the row lock and the guards
\* of _recover_single_run for it.
RecoveredAtMostOnce == \A r \in Runs : recovered[r] =< 1

\* A completed run stays completed: neither a cancel that listed it while it
\* was active nor a sweep that listed it as stuck overwrites the success.
CompletedRunIsFinal ==
    [][\A r \in Runs : run[r] = "completed" => run'[r] = "completed"]_vars

\* A running task does not run for ever, even if the execution dies: the
\* execution ends it, or the sweep does.  (doc 12, F1: no entity stays in an
\* ambiguous state.)
RunningTaskEnds ==
    \A t \in Tasks : task[t] = "running" ~> task[t] # "running"

\* The same of runs, those of a task that has ended without them included.
ActiveRunEnds ==
    \A r \in Runs :
       run[r] \in ActiveRunStatus ~> run[r] \notin ActiveRunStatus

\* A pending task is picked up.  handle_retry_task says of the task it has put
\* back to pending: "The execution loop picks up the pending task and creates
\* a new Run".
PendingTaskIsPickedUp ==
    \A t \in Tasks : task[t] = "pending" ~> task[t] # "pending"

\* A cancelled task stays cancelled: _TASK_TRANSITIONS and doc 05, 1.3 let it
\* go nowhere but to archived.
CancelledTaskIsFinal ==
    [][\A t \in Tasks :
          task[t] = "cancelled" => task'[t] \in {"cancelled", "archived"}]_vars
=============================================================================
