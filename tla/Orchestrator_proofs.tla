-------------------------- MODULE Orchestrator_proofs --------------------------
(***************************************************************************)
(* Proofs about Orchestrator, for any sets of tasks, workers and sweepers  *)
(* and any bounds.                                                         *)
(*                                                                         *)
(* The safety properties are not inductive: they depend on what processes  *)
(* hold in memory between their unlocked read and their write.  The        *)
(* conjuncts below say what such a snapshot is still good for when it is   *)
(* written.                                                                *)
(***************************************************************************)
EXTENDS Orchestrator, TLAPS

\* The types of the variables are always expanded.
USE DEF TaskRows, Briefs, RunRows, StepRows, Owners, Ages, RecoveredEvents,
        Arguments, StuckRuns

\* The worker has created its run and not yet settled it.
Executing(p) == pc[p] \in {"dispatch", "final_read", "final_write"}

\* A run without a row has no step, no owner and no event.
FreshRuns ==
    \A r \in Runs :
       run[r] = "none" => owner[r] = None /\ step[r] = "none" /\ recovered[r] = 0

\* The transient statuses of a run are never committed.
CommittedRuns ==
    \A r \in Runs : run[r] \notin {"queued", "preparing", "completing"}

\* A request that is served is about a task.
BusyInv == \A p \in Workers : pc[p] # "idle" => wtask[p] \in Tasks

\* The run an execution holds exists, belongs to its task, is held by nobody
\* else, and is not completed before the execution itself completes it.
ExecutionInv ==
    \A p \in Workers : Executing(p) =>
       /\ wrun[p] \in Runs
       /\ owner[wrun[p]] = wtask[p]
       /\ run[wrun[p]] \notin {"none", "completed"}
       /\ \A q \in Workers : Executing(q) /\ wrun[q] = wrun[p] => q = p

\* A cancel that has listed the active runs holds the lock of the task's row,
\* which keeps its finalizations out: no listed run is completed meanwhile.
CancelInv ==
    \A p \in Workers : pc[p] = "cancel_cascade" =>
       /\ tlock[wtask[p]] = p
       /\ \A r \in seen[p] :
             owner[r] = wtask[p] /\ run[r] \notin {"none", "completed"}

\* A run with a run.recovered event is no longer in a stuck status.
RecoveryInv ==
    \A r \in Runs :
       \/ recovered[r] = 0
       \/ recovered[r] = 1 /\ run[r] \notin StuckRunStatus \cup {"none"}

\* A sweep that is about to complete a task has seen a completed run of it.
SweepInv ==
    \A s \in Sweepers : spc[s] = "task_write" /\ sout[s] = "completed" =>
       \E r \in Runs : owner[r] = scur[s] /\ run[r] = "completed"

RowInv == FreshRuns /\ CommittedRuns /\ RecoveryInv /\ NoOrphanStep

MemoryInv == BusyInv /\ ExecutionInv /\ CancelInv

SuccessInv == SweepInv /\ CompletedTaskHasCompletedRun

IInv == TypeOK /\ RowInv /\ MemoryInv /\ SuccessInv

\* Without drafts a task is started once: a worker about to start it finds no
\* run of it, and finds it alone.
Starting(p) == pc[p] \in {"exec_read", "exec_start"}

LaunchInv ==
    /\ \A t \in Tasks : task[t] # "draft"
    /\ \A p \in Workers : pc[p] \notin {"launch_write", "brief_write"}
    /\ \A p \in Workers : Starting(p) =>
          /\ wtask[p] \in Tasks
          /\ task[wtask[p]] # "none"
          /\ RunsOf(wtask[p]) = {}
          /\ \A q \in Workers : Starting(q) /\ wtask[q] = wtask[p] => q = p
    /\ \A t \in Tasks : task[t] \in {"none", "running"} =>
          (RunsOf(t) = {} <=> task[t] = "none")
    /\ \A q, r \in Runs : owner[q] = owner[r] /\ owner[q] # None => q = r

\* What a cancel and a sweep have read of a task's runs is still complete when
\* they write the task.
CascadeInv ==
    /\ \A p \in Workers :
          pc[p] = "cancel_cascade" => ActiveRuns(wtask[p]) \subseteq seen[p]
    /\ \A s \in Sweepers : spc[s] \in {"task_runs", "task_write"} =>
          scur[s] \in Tasks /\ RunsOf(scur[s]) # {}
    /\ \A s \in Sweepers : spc[s] = "task_write" => ActiveRuns(scur[s]) = {}

SettledInv == LaunchInv /\ CascadeInv /\ SettledTaskHasNoActiveRun

-----------------------------------------------------------------------------
(***************************************************************************)
(* Type correctness                                                        *)
(***************************************************************************)
\* The initial state is well typed.
LEMMA InitTypeOK == Init => TypeOK
  BY BoundsAssumption DEF Init, TypeOK, Runs, WorkerPc, SweeperPc, Results

\* Ending a request leaves the workers' memory well typed.
LEMMA FinishTypeOK ==
  ASSUME TypeOK, NEW p \in Workers, Finish(p)
  PROVE  /\ pc' \in [Workers -> WorkerPc]
         /\ wtask' \in [Workers -> Tasks \cup {None}]
         /\ wrun' \in [Workers -> Runs \cup {0}]
         /\ result' \in [Workers -> Results]
         /\ seen' \in [Workers -> SUBSET Runs]
  BY DEF TypeOK, Finish, WorkerPc, Results

\* So does going on with it.
LEMMA ProceedTypeOK ==
  ASSUME TypeOK, NEW p \in Workers, NEW n \in WorkerPc,
         NEW t \in Tasks \cup {None}, Proceed(p, n, t)
  PROVE  /\ pc' \in [Workers -> WorkerPc]
         /\ wtask' \in [Workers -> Tasks \cup {None}]
         /\ wrun' \in [Workers -> Runs \cup {0}]
         /\ result' \in [Workers -> Results]
         /\ seen' \in [Workers -> SUBSET Runs]
  BY DEF TypeOK, Proceed

\* The outcomes of a result are statuses.
LEMMA OutcomeStatus ==
  ASSUME NEW res \in Results
  PROVE  /\ RunOutcome(res) \in RunStatus
         /\ StepOutcome(res) \in StepStatus
         /\ TaskOutcome(res) \in TaskStatus
  BY DEF Results, RunOutcome, StepOutcome, TaskOutcome,
         RunStatus, StepStatus, TaskStatus

\* A request that arrives preserves the types.
LEMMA RequestTypeOK ==
  ASSUME TypeOK, NEW p \in Workers, Request(p)
  PROVE  TypeOK'
<1>. PICK t \in Tasks :
       \/ Submit(p, t)
       \/ \E b \in BOOLEAN : CreateDraft(p, t, b)
       \/ BriefRead(p, t) \/ LaunchRead(p, t)
       \/ CancelRead(p, t) \/ RetryRead(p, t)
  BY DEF Request, TaskRequest, BriefRequest
<1>. {"exec_read", "brief_write", "launch_write", "cancel_write",
      "retry_write"} \subseteq WorkerPc
  BY DEF WorkerPc
<1>1. CASE Submit(p, t)
  BY <1>1, ProceedTypeOK, BoundsAssumption
  DEF Submit, TypeOK, TaskStatus, runRows, svars
<1>2. CASE \E b \in BOOLEAN : CreateDraft(p, t, b)
  BY <1>2 DEF CreateDraft, TypeOK, TaskStatus, runRows, wvars, svars, bounds
<1>3. CASE BriefRead(p, t)
  BY <1>3, ProceedTypeOK DEF BriefRead, TypeOK, rows, svars, bounds
<1>4. CASE LaunchRead(p, t)
  BY <1>4, ProceedTypeOK, BoundsAssumption DEF LaunchRead, TypeOK, rows, svars
<1>5. CASE CancelRead(p, t)
  BY <1>5, ProceedTypeOK DEF CancelRead, TypeOK, rows, svars, bounds
<1>6. CASE RetryRead(p, t)
  BY <1>6, ProceedTypeOK DEF RetryRead, TypeOK, rows, svars, bounds
<1>. QED
  BY <1>1, <1>2, <1>3, <1>4, <1>5, <1>6

\* So does every step of a request, and its death.
LEMMA WorkerTypeOK ==
  ASSUME TypeOK, NEW p \in Workers, WorkerStep(p) \/ RequestDies(p)
  PROVE  TypeOK'
<1>. {"exec_read", "exec_start"} \subseteq WorkerPc
  BY DEF WorkerPc
<1>. wtask[p] \in Tasks \cup {None}
  BY DEF TypeOK
<1>1. CASE \E b \in BOOLEAN : BriefWrite(p, b)
  <2>1. PICK b \in BOOLEAN : BriefWrite(p, b)
    BY <1>1
  <2>2. /\ task' \in [Tasks -> TaskStatus \cup {"none"}]
        /\ brief' \in [Tasks -> BOOLEAN]
    BY <2>1 DEF BriefWrite, TypeOK, TaskStatus
  <2>. QED
    BY <2>1, <2>2, FinishTypeOK DEF BriefWrite, TypeOK, runRows, svars, bounds
<1>2. CASE LaunchWrite(p)
  BY <1>2, ProceedTypeOK
  DEF LaunchWrite, TypeOK, TaskStatus, runRows, svars, bounds
<1>3. CASE ExecRead(p)
  BY <1>3, ProceedTypeOK, FinishTypeOK DEF ExecRead, TypeOK, rows, svars, bounds
<1>4. CASE ExecStart(p)
  <2>1. PICK r \in Runs :
          /\ run' = [run EXCEPT ![r] = "running"]
          /\ step' = [step EXCEPT ![r] = "running"]
          /\ owner' = [owner EXCEPT ![r] = wtask[p]]
          /\ wrun' = [wrun EXCEPT ![p] = r]
    BY <1>4 DEF ExecStart
  <2>2. /\ run' \in [Runs -> RunStatus \cup {"none"}]
        /\ step' \in [Runs -> StepStatus \cup {"none"}]
        /\ owner' \in [Runs -> Tasks \cup {None}]
        /\ wrun' \in [Workers -> Runs \cup {0}]
    BY <2>1 DEF TypeOK, RunStatus, StepStatus
  <2>3. task' \in [Tasks -> TaskStatus \cup {"none"}]
    BY <1>4 DEF ExecStart, TypeOK, TaskStatus
  <2>4. pc' \in [Workers -> WorkerPc]
    BY <1>4 DEF ExecStart, TypeOK, WorkerPc
  <2>. QED
    BY <1>4, <2>2, <2>3, <2>4 DEF ExecStart, TypeOK, svars, bounds
<1>5. CASE \E res \in Results : Dispatch(p, res)
  BY <1>5 DEF Dispatch, TypeOK, WorkerPc, rows, svars, bounds
<1>6. CASE FinalRead(p)
  BY <1>6, FinishTypeOK DEF FinalRead, TypeOK, WorkerPc, rows, svars, bounds
<1>7. CASE FinalWrite(p)
  <2>1. run' \in [Runs -> RunStatus \cup {"none"}]
    BY <1>7, OutcomeStatus DEF FinalWrite, TypeOK
  <2>2. step' \in [Runs -> StepStatus \cup {"none"}]
    BY <1>7, OutcomeStatus DEF FinalWrite, TypeOK
  <2>3. task' \in [Tasks -> TaskStatus \cup {"none"}]
    BY <1>7, OutcomeStatus DEF FinalWrite, TypeOK
  <2>. QED
    BY <1>7, <2>1, <2>2, <2>3, FinishTypeOK DEF FinalWrite, TypeOK, svars, bounds
<1>8. CASE CancelWrite(p)
  <2>1. ActiveRuns(wtask[p]) \in SUBSET Runs
    BY DEF ActiveRuns, RunsOf
  <2>2. CASE Finish(p) /\ UNCHANGED tlock
    BY <1>8, <2>2, FinishTypeOK DEF CancelWrite, TypeOK, rows, svars, bounds
  <2>3. CASE /\ tlock' = [tlock EXCEPT ![wtask[p]] = p]
             /\ seen' = [seen EXCEPT ![p] = ActiveRuns(wtask[p])]
             /\ pc' = [pc EXCEPT ![p] = "cancel_cascade"]
             /\ UNCHANGED <<wtask, wrun, result>>
    BY <1>8, <2>1, <2>3 DEF CancelWrite, TypeOK, WorkerPc, rows, svars, bounds
  <2>. QED
    BY <1>8, <2>2, <2>3 DEF CancelWrite
<1>9. CASE CancelCascade(p)
  <2>1. run' \in [Runs -> RunStatus \cup {"none"}]
    BY <1>9 DEF CancelCascade, TypeOK, RunStatus
  <2>2. step' \in [Runs -> StepStatus \cup {"none"}]
    BY <1>9 DEF CancelCascade, TypeOK, StepStatus
  <2>3. task' \in [Tasks -> TaskStatus \cup {"none"}]
    BY <1>9 DEF CancelCascade, TypeOK, TaskStatus
  <2>4. tlock' \in [Tasks -> Workers \cup {None}]
    BY <1>9 DEF CancelCascade, TypeOK
  <2>. QED
    BY <1>9, <2>1, <2>2, <2>3, <2>4, FinishTypeOK
    DEF CancelCascade, TypeOK, svars, bounds
<1>10. CASE RetryWrite(p)
  BY <1>10, FinishTypeOK
  DEF RetryWrite, TypeOK, TaskStatus, runRows, svars, bounds
<1>11. CASE RequestDies(p)
  BY <1>11, FinishTypeOK, BoundsAssumption DEF RequestDies, TypeOK, rows, svars
<1>. QED
  BY <1>1, <1>2, <1>3, <1>4, <1>5, <1>6, <1>7, <1>8, <1>9, <1>10, <1>11
  DEF WorkerStep

\* And every step of a sweep.
LEMMA SweeperTypeOK ==
  ASSUME TypeOK, NEW s \in Sweepers,
         SweeperStep(s) \/ SweepItemFails(s) \/ SweepDies(s)
  PROVE  TypeOK'
<1>1. CASE SweepList(s)
  BY <1>1 DEF SweepList, TypeOK, SweeperPc, rows, wvars, bounds
<1>2. CASE SweepRun(s)
  <2>1. run' \in [Runs -> RunStatus \cup {"none"}]
    BY <1>2 DEF SweepRun, TypeOK, RunStatus
  <2>2. step' \in [Runs -> StepStatus \cup {"none"}]
    BY <1>2 DEF SweepRun, TypeOK, StepStatus
  <2>3. PICK r \in sruns[s] :
          /\ sruns' = [sruns EXCEPT ![s] = @ \ {r}]
          /\ \/ recovered' = [recovered EXCEPT ![r] = @ + 1]
             \/ UNCHANGED recovered
    BY <1>2 DEF SweepRun
  <2>4. recovered' \in [Runs -> Nat] /\ sruns' \in [Sweepers -> SUBSET Runs]
    BY <2>3 DEF TypeOK
  <2>. QED
    BY <1>2, <2>1, <2>2, <2>4 DEF SweepRun, TypeOK, wvars, bounds
<1>3. CASE SweepListSteps(s)
  BY <1>3 DEF SweepListSteps, TypeOK, SweeperPc, rows, wvars, bounds
<1>4. CASE SweepStep(s)
  BY <1>4 DEF SweepStep, TypeOK, StepStatus, wvars, bounds
<1>5. CASE SweepListTasks(s)
  BY <1>5 DEF SweepListTasks, TypeOK, SweeperPc, rows, wvars, bounds
<1>6. CASE SweepTaskRead(s)
  BY <1>6 DEF SweepTaskRead, TypeOK, SweeperPc, rows, wvars, bounds
<1>7. CASE SweepTaskRuns(s)
  BY <1>7 DEF SweepTaskRuns, TypeOK, SweeperPc, rows, wvars, bounds
<1>8. CASE SweepTaskWrite(s)
  BY <1>8 DEF SweepTaskWrite, TypeOK, SweeperPc, TaskStatus, runRows, wvars, bounds
<1>9. CASE SweepDone(s)
  BY <1>9 DEF SweepDone, TypeOK, SweeperPc, rows, wvars, bounds
<1>10. CASE SweepItemFails(s)
  <2>1. faults' \in 0..MaxFaults
    BY <1>10, BoundsAssumption DEF SweepItemFails, TypeOK
  <2>2. /\ spc' \in [Sweepers -> SweeperPc]
        /\ sruns' \in [Sweepers -> SUBSET Runs]
        /\ stasks' \in [Sweepers -> SUBSET Tasks]
        /\ scur' \in [Sweepers -> Tasks \cup {None}]
        /\ sout' \in [Sweepers -> {"completed", "failed"}]
    BY <1>10 DEF SweepItemFails, TypeOK, SweeperPc
  <2>. QED
    BY <1>10, <2>1, <2>2 DEF SweepItemFails, TypeOK, rows, wvars
<1>11. CASE SweepDies(s)
  BY <1>11, BoundsAssumption DEF SweepDies, TypeOK, SweeperPc, rows, wvars
<1>. QED
  BY <1>1, <1>2, <1>3, <1>4, <1>5, <1>6, <1>7, <1>8, <1>9, <1>10, <1>11
  DEF SweeperStep

\* Every step preserves the types.
LEMMA NextTypeOK == TypeOK /\ [Next]_vars => TypeOK'
<1>. SUFFICES ASSUME TypeOK, [Next]_vars PROVE TypeOK'
  OBVIOUS
<1>1. CASE \E p \in Workers : Request(p) \/ WorkerStep(p) \/ RequestDies(p)
  BY <1>1, RequestTypeOK, WorkerTypeOK
<1>2. CASE \E s \in Sweepers : SweeperStep(s) \/ SweepItemFails(s) \/ SweepDies(s)
  BY <1>2, SweeperTypeOK
<1>3. CASE \E r \in Runs : Age(r)
  BY <1>3 DEF Age, TypeOK, wvars, svars, bounds
<1>4. CASE UNCHANGED vars
  BY <1>4 DEF TypeOK, vars, rows, wvars, svars, bounds
<1>. QED
  BY <1>1, <1>2, <1>3, <1>4 DEF Next

\* Every reachable state of the orchestrator is well typed.
THEOREM TypeCorrect == Spec => []TypeOK
  BY InitTypeOK, NextTypeOK, PTL DEF Spec

(***************************************************************************)
(* Steps and recovery events: invariants of the rows alone                 *)
(***************************************************************************)

\* Five actions write runs, steps, owners or recovery events.
RowWrite ==
    \/ \E p \in Workers : ExecStart(p) \/ FinalWrite(p) \/ CancelCascade(p)
    \/ \E s \in Sweepers : SweepRun(s) \/ SweepStep(s)

\* No other action touches those rows.
LEMMA RowFrame ==
  ASSUME [Next]_vars
  PROVE  RowWrite \/ UNCHANGED <<run, step, owner, recovered>>
<1>1. CASE \E p \in Workers : Request(p)
  BY <1>1 DEF Request, TaskRequest, BriefRequest, Submit, CreateDraft, BriefRead, LaunchRead, CancelRead,
              RetryRead, rows, runRows
<1>2. CASE \E p \in Workers : WorkerStep(p) \/ RequestDies(p)
  BY <1>2 DEF RowWrite, WorkerStep, BriefWrite, LaunchWrite, ExecRead, Dispatch,
              FinalRead, CancelWrite, RetryWrite, RequestDies, rows, runRows
<1>3. CASE \E s \in Sweepers : SweeperStep(s) \/ SweepItemFails(s) \/ SweepDies(s)
  BY <1>3 DEF RowWrite, SweeperStep, SweepList, SweepListSteps, SweepListTasks,
              SweepTaskRead, SweepTaskRuns, SweepTaskWrite, SweepDone,
              SweepItemFails, SweepDies, rows, runRows
<1>4. CASE \E r \in Runs : Age(r)
  BY <1>4 DEF Age
<1>5. CASE UNCHANGED vars
  BY <1>5 DEF vars, rows
<1>. QED
  BY <1>1, <1>2, <1>3, <1>4, <1>5 DEF Next

\* The row invariants hold initially.
LEMMA InitRowInv == Init => RowInv
  BY DEF Init, RowInv, FreshRuns, CommittedRuns, RecoveryInv, NoOrphanStep,
         ActiveStepStatus

\* A sweep changes neither the memory of a worker nor a lock it holds.
LEMMA SweepersLeaveWorkers ==
  ASSUME NEW s \in Sweepers, SweeperStep(s) \/ SweepItemFails(s) \/ SweepDies(s)
  PROVE  UNCHANGED <<wvars, tlock>>
  BY DEF SweeperStep, SweepList, SweepRun, SweepListSteps, SweepStep,
         SweepListTasks, SweepTaskRead, SweepTaskRuns, SweepTaskWrite, SweepDone,
         SweepItemFails, SweepDies

\* What each of the five actions does to the rows of one run.
LEMMA RowStep ==
  ASSUME TypeOK, RowWrite, NEW r \in Runs
  PROVE  \/ UNCHANGED <<run[r], step[r], owner[r], recovered[r]>>
         \/ /\ run[r] = "none" /\ run'[r] = "running" /\ step'[r] = "running"
            /\ recovered'[r] = recovered[r]
         \/ /\ run'[r] \in {"completed", "timed_out", "failed"}
            /\ step'[r] \in {"completed", "failed"}
            /\ UNCHANGED <<owner[r], recovered[r]>>
         \/ /\ run'[r] = "cancelled" /\ step'[r] \notin ActiveStepStatus
            /\ UNCHANGED <<owner[r], recovered[r]>>
         \/ /\ run[r] \in StuckRunStatus
            /\ run'[r] = IF run[r] = "completing" THEN "completed" ELSE "failed"
            /\ step'[r] \notin ActiveStepStatus
            /\ recovered'[r] = recovered[r] + 1
            /\ owner'[r] = owner[r]
         \/ /\ step[r] = "running" /\ step'[r] = "failed"
            /\ UNCHANGED <<run[r], owner[r], recovered[r]>>
<1>1. CASE \E p \in Workers : ExecStart(p)
  BY <1>1 DEF ExecStart, TypeOK
<1>2. CASE \E p \in Workers : FinalWrite(p)
  <2>1. PICK p \in Workers : FinalWrite(p)
    BY <1>2
  <2>2. /\ RunOutcome(result[p]) \in {"completed", "timed_out", "failed"}
        /\ StepOutcome(result[p]) \in {"completed", "failed"}
    BY DEF RunOutcome, StepOutcome
  <2>. QED
    BY <2>1, <2>2 DEF FinalWrite, TypeOK
<1>3. CASE \E p \in Workers : CancelCascade(p)
  BY <1>3 DEF CancelCascade, TypeOK, ActiveStepStatus
<1>4. CASE \E s \in Sweepers : SweepRun(s)
  BY <1>4 DEF SweepRun, TypeOK, ActiveStepStatus
<1>5. CASE \E s \in Sweepers : SweepStep(s)
  BY <1>5 DEF SweepStep, TypeOK, StuckStepStatus
<1>. QED
  BY <1>1, <1>2, <1>3, <1>4, <1>5 DEF RowWrite

\* Every step preserves the row invariants.
LEMMA NextRowInv == TypeOK /\ RowInv /\ [Next]_vars => RowInv'
<1>. SUFFICES ASSUME TypeOK, RowInv, [Next]_vars PROVE RowInv'
  OBVIOUS
<1>1. CASE UNCHANGED <<run, step, owner, recovered>>
  BY <1>1 DEF RowInv, FreshRuns, CommittedRuns, RecoveryInv, NoOrphanStep
<1>2. CASE RowWrite
  <2>. SUFFICES ASSUME NEW r \in Runs
       PROVE  /\ run'[r] = "none" =>
                   owner'[r] = None /\ step'[r] = "none" /\ recovered'[r] = 0
              /\ run'[r] \notin {"queued", "preparing", "completing"}
              /\ \/ recovered'[r] = 0
                 \/ /\ recovered'[r] = 1
                    /\ run'[r] \notin StuckRunStatus \cup {"none"}
              /\ step'[r] \in ActiveStepStatus => run'[r] \in ActiveRunStatus
    BY DEF RowInv, FreshRuns, CommittedRuns, RecoveryInv, NoOrphanStep
  <2>. /\ run[r] = "none" =>
            owner[r] = None /\ step[r] = "none" /\ recovered[r] = 0
       /\ run[r] \notin {"queued", "preparing", "completing"}
       /\ \/ recovered[r] = 0
          \/ recovered[r] = 1 /\ run[r] \notin StuckRunStatus \cup {"none"}
       /\ step[r] \in ActiveStepStatus => run[r] \in ActiveRunStatus
    BY DEF RowInv, FreshRuns, CommittedRuns, RecoveryInv, NoOrphanStep
  <2>. QED
    BY <1>2, RowStep DEF StuckRunStatus, ActiveStepStatus, ActiveRunStatus
<1>. QED
  BY <1>1, <1>2, RowFrame

\* The row invariants hold in every reachable state: the transactions of runs and
\* steps keep them whatever the processes hold in memory.
THEOREM RowsInvariant == Spec => [](TypeOK /\ RowInv)
  BY InitTypeOK, InitRowInv, NextTypeOK, NextRowInv, PTL DEF Spec

\* Whoever ends a run ends its step in the same transaction.
THEOREM NoOrphanSteps == Spec => []NoOrphanStep
<1>1. RowInv => NoOrphanStep
  BY DEF RowInv
<1>. QED
  BY <1>1, RowsInvariant, PTL

\* A run is recovered at most once, however many sweeps run at once.
THEOREM RecoveredOnce == Spec => []RecoveredAtMostOnce
<1>1. RowInv => RecoveredAtMostOnce
  BY DEF RowInv, RecoveryInv, RecoveredAtMostOnce
<1>. QED
  BY <1>1, RowsInvariant, PTL

(***************************************************************************)
(* Completed runs: what the workers hold in memory                         *)
(***************************************************************************)
\* Every step preserves BusyInv.
LEMMA NextBusyInv == TypeOK /\ BusyInv /\ [Next]_vars => BusyInv'
<1>. SUFFICES ASSUME TypeOK, BusyInv, [Next]_vars PROVE BusyInv'
  OBVIOUS
<1>. USE DEF BusyInv, TypeOK
<1>1. CASE \E p \in Workers : Request(p)
  BY <1>1 DEF Request, TaskRequest, BriefRequest, Submit, CreateDraft, BriefRead, LaunchRead, CancelRead,
              RetryRead, Proceed, wvars
<1>2. ASSUME NEW p \in Workers, WorkerStep(p) \/ RequestDies(p) PROVE BusyInv'
  <2>1. CASE Finish(p)
    BY <2>1 DEF Finish
  <2>2. CASE LaunchWrite(p) \/ ExecRead(p)
    BY <2>2 DEF LaunchWrite, ExecRead, Proceed, Finish
  <2>3. CASE ExecStart(p) \/ FinalRead(p) \/ CancelWrite(p)
    BY <2>3 DEF ExecStart, FinalRead, CancelWrite, Finish
  <2>4. CASE \E res \in Results : Dispatch(p, res)
    BY <2>4 DEF Dispatch
  <2>. QED
    BY <1>2, <2>1, <2>2, <2>3, <2>4
    DEF WorkerStep, BriefWrite, FinalWrite, CancelCascade, RetryWrite, RequestDies
<1>3. CASE \E s \in Sweepers : SweeperStep(s) \/ SweepItemFails(s) \/ SweepDies(s)
  BY <1>3, SweepersLeaveWorkers DEF wvars
<1>4. CASE (\E r \in Runs : Age(r)) \/ UNCHANGED vars
  BY <1>4 DEF Age, vars, wvars
<1>. QED
  BY <1>1, <1>2, <1>3, <1>4 DEF Next

\* What a step does to the memory of one worker: nothing, or it leads it out of
\* the states in which it holds rows, or it is a step of the worker's own.
LEMMA WorkerFrame ==
  ASSUME TypeOK, [Next]_vars, NEW p \in Workers
  PROVE  \/ UNCHANGED <<pc[p], wtask[p], wrun[p], seen[p]>>
         \/ ~Executing(p)' /\ pc'[p] # "cancel_cascade"
         \/ ExecStart(p)
         \/ /\ Executing(p) /\ Executing(p)'
            /\ UNCHANGED <<wtask[p], wrun[p]>>
         \/ CancelWrite(p)
<1>. USE DEF Executing, TypeOK
<1>1. ASSUME NEW q \in Workers, Request(q), q = p
      PROVE  \/ UNCHANGED <<pc[p], wtask[p], wrun[p], seen[p]>>
             \/ pc'[p] \in {"exec_read", "brief_write", "launch_write",
                            "cancel_write", "retry_write"}
  BY <1>1 DEF Request, TaskRequest, BriefRequest, Submit, CreateDraft, BriefRead, LaunchRead, CancelRead,
              RetryRead, Proceed, wvars
<1>2. ASSUME NEW q \in Workers, Request(q), q # p
      PROVE  UNCHANGED <<pc[p], wtask[p], wrun[p], seen[p]>>
  BY <1>2 DEF Request, TaskRequest, BriefRequest, Submit, CreateDraft, BriefRead, LaunchRead, CancelRead,
              RetryRead, Proceed, wvars
<1>3. ASSUME NEW q \in Workers, WorkerStep(q) \/ RequestDies(q), q # p
      PROVE  UNCHANGED <<pc[p], wtask[p], wrun[p], seen[p]>>
  BY <1>3 DEF WorkerStep, BriefWrite, LaunchWrite, ExecRead, ExecStart, Dispatch,
              FinalRead, FinalWrite, CancelWrite, CancelCascade, RetryWrite,
              RequestDies, Finish, Proceed
<1>4. ASSUME WorkerStep(p) \/ RequestDies(p)
      PROVE  \/ pc'[p] \in {"idle", "exec_read", "exec_start"}
             \/ ExecStart(p)
             \/ Executing(p) /\ Executing(p)' /\ UNCHANGED <<wtask[p], wrun[p]>>
             \/ CancelWrite(p)
  <2>1. CASE Finish(p)
    BY <2>1 DEF Finish
  <2>2. CASE LaunchWrite(p) \/ ExecRead(p)
    BY <2>2 DEF LaunchWrite, ExecRead, Proceed, Finish
  <2>3. CASE FinalRead(p)
    BY <2>3 DEF FinalRead, Finish
  <2>4. CASE \E res \in Results : Dispatch(p, res)
    BY <2>4 DEF Dispatch
  <2>. QED
    BY <1>4, <2>1, <2>2, <2>3, <2>4
    DEF WorkerStep, BriefWrite, FinalWrite, CancelCascade, RetryWrite, RequestDies
<1>5. CASE \E s \in Sweepers : SweeperStep(s) \/ SweepItemFails(s) \/ SweepDies(s)
  BY <1>5, SweepersLeaveWorkers DEF wvars
<1>6. CASE (\E r \in Runs : Age(r)) \/ UNCHANGED vars
  BY <1>6 DEF Age, vars, wvars
<1>. QED
  BY <1>1, <1>2, <1>3, <1>4, <1>5, <1>6 DEF Next

\* A run keeps its task for ever.
LEMMA OwnerStays ==
  ASSUME TypeOK, [Next]_vars, NEW r \in Runs, run[r] # "none"
  PROVE  run'[r] # "none" /\ owner'[r] = owner[r]
<1>1. CASE UNCHANGED <<run, step, owner, recovered>>
  BY <1>1
<1>2. CASE RowWrite
  BY <1>2, RowStep
<1>. QED
  BY <1>1, <1>2, RowFrame

\* Only the execution that holds a run completes it.
LEMMA OnlyHolderCompletes ==
  ASSUME TypeOK, RowInv, [Next]_vars, NEW r \in Runs,
         run[r] # "completed", run'[r] = "completed"
  PROVE  \E p \in Workers : FinalWrite(p) /\ wrun[p] = r
<1>1. run[r] # "completing"
  BY DEF RowInv, CommittedRuns
<1>2. RowWrite
  BY RowFrame
<1>3. ASSUME NEW p \in Workers, ExecStart(p) PROVE FALSE
  BY <1>3 DEF ExecStart, TypeOK
<1>4. ASSUME NEW p \in Workers, CancelCascade(p) PROVE FALSE
  BY <1>4 DEF CancelCascade
<1>5. ASSUME NEW s \in Sweepers, SweepRun(s) PROVE FALSE
  BY <1>1, <1>5 DEF SweepRun, TypeOK
<1>6. ASSUME NEW s \in Sweepers, SweepStep(s) PROVE FALSE
  BY <1>6 DEF SweepStep
<1>7. ASSUME NEW p \in Workers, FinalWrite(p) PROVE wrun[p] = r
  BY <1>7 DEF FinalWrite, TypeOK
<1>. QED
  BY <1>2, <1>3, <1>4, <1>5, <1>6, <1>7 DEF RowWrite

\* A finalization ends its own execution and leaves the others alone.
LEMMA FinalWriteEnds ==
  ASSUME TypeOK, NEW p \in Workers, FinalWrite(p)
  PROVE  /\ Executing(p) /\ ~Executing(p)'
         /\ tlock[wtask[p]] = None
  BY DEF FinalWrite, Finish, Executing, TypeOK, Unlocked

\* Every step preserves ExecutionInv.
LEMMA NextExecutionInv ==
  TypeOK /\ RowInv /\ BusyInv /\ ExecutionInv /\ [Next]_vars => ExecutionInv'
<1>. SUFFICES ASSUME TypeOK, RowInv, BusyInv, ExecutionInv, [Next]_vars,
                     NEW p \in Workers, Executing(p)'
              PROVE  /\ wrun'[p] \in Runs
                     /\ owner'[wrun'[p]] = wtask'[p]
                     /\ run'[wrun'[p]] \notin {"none", "completed"}
                     /\ \A q \in Workers :
                           Executing(q)' /\ wrun'[q] = wrun'[p] => q = p
  BY DEF ExecutionInv, Executing
<1>1. CASE Executing(p) /\ UNCHANGED <<wtask[p], wrun[p]>>
  <2>1. /\ wrun[p] \in Runs
        /\ owner[wrun[p]] = wtask[p]
        /\ run[wrun[p]] \notin {"none", "completed"}
        /\ \A q \in Workers : Executing(q) /\ wrun[q] = wrun[p] => q = p
    BY <1>1 DEF ExecutionInv
  <2>2. owner'[wrun'[p]] = wtask'[p] /\ run'[wrun'[p]] # "none"
    BY <1>1, <2>1, OwnerStays
  <2>3. run'[wrun'[p]] # "completed"
    BY <1>1, <2>1, OnlyHolderCompletes, FinalWriteEnds
  <2>4. ASSUME NEW q \in Workers, Executing(q)', wrun'[q] = wrun'[p], q # p
        PROVE  FALSE
    <3>1. CASE Executing(q) /\ wrun'[q] = wrun[q]
      BY <1>1, <2>1, <2>4, <3>1
    <3>2. CASE ExecStart(q)
      BY <1>1, <2>1, <2>4, <3>2 DEF ExecStart, TypeOK
    <3>3. CASE CancelWrite(q)
      BY <2>4, <3>3 DEF CancelWrite, Finish, Executing, TypeOK
    <3>. QED
      BY <2>4, <3>1, <3>2, <3>3, WorkerFrame DEF Executing
  <2>. QED
    BY <1>1, <2>1, <2>2, <2>3, <2>4
<1>2. CASE ExecStart(p)
  <2>1. PICK r \in Runs : /\ run[r] = "none"
                          /\ run' = [run EXCEPT ![r] = "running"]
                          /\ owner' = [owner EXCEPT ![r] = wtask[p]]
                          /\ wrun' = [wrun EXCEPT ![p] = r]
    BY <1>2 DEF ExecStart
  <2>2. wtask' = wtask /\ pc' = [pc EXCEPT ![p] = "dispatch"]
    BY <1>2 DEF ExecStart
  <2>3. ASSUME NEW q \in Workers, Executing(q)', wrun'[q] = wrun'[p], q # p
        PROVE  FALSE
    <3>1. Executing(q) /\ wrun[q] = r
      BY <2>1, <2>2, <2>3 DEF Executing, TypeOK
    <3>. QED
      BY <2>1, <3>1 DEF ExecutionInv
  <2>. QED
    BY <2>1, <2>2, <2>3 DEF TypeOK
<1>3. CASE CancelWrite(p)
  BY <1>3 DEF CancelWrite, Finish, Executing, TypeOK
<1>. QED
  BY <1>1, <1>2, <1>3, WorkerFrame DEF Executing

\* The lock of a task's row is taken only when free, and given up only by the
\* worker that holds it.
LEMMA LockStays ==
  ASSUME TypeOK, BusyInv, CancelInv, [Next]_vars,
         NEW p \in Workers, NEW t \in Tasks, tlock[t] = p,
         pc[p] = "cancel_cascade", pc'[p] = "cancel_cascade"
  PROVE  tlock'[t] = p
<1>. p # None
  BY NoneAssumption
<1>1. CASE \E q \in Workers : Request(q)
  BY <1>1 DEF Request, TaskRequest, BriefRequest, Submit, CreateDraft, BriefRead, LaunchRead, CancelRead,
              RetryRead
<1>2. ASSUME NEW q \in Workers, CancelWrite(q) PROVE tlock'[t] = p
  BY <1>2 DEF CancelWrite, Unlocked, TypeOK
<1>3. ASSUME NEW q \in Workers, CancelCascade(q) PROVE tlock'[t] = p
  <2>1. q # p
    BY <1>3 DEF CancelCascade, Finish, TypeOK
  <2>2. wtask[q] # t
    BY <1>3, <2>1 DEF CancelCascade, CancelInv
  <2>. QED
    BY <1>3, <2>2 DEF CancelCascade, TypeOK
<1>4. ASSUME NEW q \in Workers, RequestDies(q) PROVE tlock'[t] = p
  <2>1. q # p
    BY <1>4 DEF RequestDies, Finish, TypeOK
  <2>. QED
    BY <1>4, <2>1 DEF RequestDies, TypeOK
<1>5. CASE \E q \in Workers : WorkerStep(q)
  BY <1>2, <1>3, <1>5
  DEF WorkerStep, BriefWrite, LaunchWrite, ExecRead, ExecStart, Dispatch,
      FinalRead, FinalWrite, RetryWrite
<1>6. CASE \E s \in Sweepers : SweeperStep(s) \/ SweepItemFails(s) \/ SweepDies(s)
  BY <1>6, SweepersLeaveWorkers
<1>7. CASE (\E r \in Runs : Age(r)) \/ UNCHANGED vars
  BY <1>7 DEF Age, vars
<1>. QED
  BY <1>1, <1>4, <1>5, <1>6, <1>7 DEF Next

\* Every step preserves CancelInv: the lock of the task's row keeps the
\* finalizations of its runs out.
LEMMA NextCancelInv ==
  TypeOK /\ RowInv /\ MemoryInv /\ [Next]_vars => CancelInv'
<1>. SUFFICES ASSUME TypeOK, RowInv, MemoryInv, [Next]_vars,
                     NEW p \in Workers, pc'[p] = "cancel_cascade"
              PROVE  /\ tlock'[wtask'[p]] = p
                     /\ \A r \in seen'[p] : /\ owner'[r] = wtask'[p]
                                            /\ run'[r] \notin {"none", "completed"}
  BY DEF CancelInv
<1>. USE DEF MemoryInv
<1>1. CASE CancelWrite(p)
  <2>1. /\ wtask[p] \in Tasks
        /\ tlock' = [tlock EXCEPT ![wtask[p]] = p]
        /\ seen' = [seen EXCEPT ![p] = ActiveRuns(wtask[p])]
        /\ UNCHANGED <<wtask, run, owner>>
    BY <1>1 DEF CancelWrite, Finish, BusyInv, TypeOK, rows
  <2>. QED
    BY <2>1 DEF ActiveRuns, RunsOf, ActiveRunStatus, TypeOK
<1>2. CASE UNCHANGED <<pc[p], wtask[p], wrun[p], seen[p]>>
  <2>1. /\ wtask[p] \in Tasks
        /\ tlock[wtask[p]] = p
        /\ \A r \in seen[p] :
              owner[r] = wtask[p] /\ run[r] \notin {"none", "completed"}
        /\ seen[p] \subseteq Runs
    BY <1>2 DEF BusyInv, CancelInv, TypeOK
  <2>2. tlock'[wtask'[p]] = p
    BY <1>2, <2>1, LockStays
  <2>3. ASSUME NEW r \in seen'[p]
        PROVE  owner'[r] = wtask'[p] /\ run'[r] \notin {"none", "completed"}
    <3>1. r \in Runs /\ owner[r] = wtask[p] /\ run[r] \notin {"none", "completed"}
      BY <1>2, <2>1
    <3>2. owner'[r] = wtask'[p] /\ run'[r] # "none"
      BY <1>2, <3>1, OwnerStays
    <3>3. ASSUME NEW q \in Workers, FinalWrite(q), wrun[q] = r PROVE FALSE
      <4>1. Executing(q) /\ tlock[wtask[q]] = None
        BY <3>3, FinalWriteEnds
      <4>2. wtask[q] = wtask[p]
        BY <3>1, <3>3, <4>1 DEF ExecutionInv
      <4>. QED
        BY <2>1, <4>1, <4>2, NoneAssumption
    <3>4. run'[r] # "completed"
      BY <3>1, <3>3, OnlyHolderCompletes
    <3>. QED
      BY <3>2, <3>4
  <2>. QED
    BY <2>2, <2>3
<1>3. CASE ExecStart(p) \/ Executing(p)'
  BY <1>3 DEF ExecStart, Executing, TypeOK
<1>. QED
  BY <1>1, <1>2, <1>3, WorkerFrame

\* No step overwrites a completed run.
LEMMA CompletedStays ==
  ASSUME TypeOK, RowInv, MemoryInv, [Next]_vars,
         NEW r \in Runs, run[r] = "completed"
  PROVE  run'[r] = "completed" /\ owner'[r] = owner[r]
<1>. owner'[r] = owner[r]
  BY OwnerStays
<1>1. CASE UNCHANGED <<run, step, owner, recovered>>
  BY <1>1
<1>2. ASSUME NEW p \in Workers, ExecStart(p) PROVE run'[r] = "completed"
  BY <1>2 DEF ExecStart, TypeOK
<1>3. ASSUME NEW p \in Workers, FinalWrite(p) PROVE run'[r] = "completed"
  <2>1. wrun[p] # r
    BY <1>3, FinalWriteEnds DEF MemoryInv, ExecutionInv
  <2>. QED
    BY <1>3, <2>1 DEF FinalWrite, TypeOK
<1>4. ASSUME NEW p \in Workers, CancelCascade(p) PROVE run'[r] = "completed"
  BY <1>4 DEF CancelCascade, MemoryInv, CancelInv
<1>5. ASSUME NEW s \in Sweepers, SweepRun(s) PROVE run'[r] = "completed"
  BY <1>5 DEF SweepRun, TypeOK, StuckRunStatus
<1>6. ASSUME NEW s \in Sweepers, SweepStep(s) PROVE run'[r] = "completed"
  BY <1>6 DEF SweepStep
<1>. QED
  BY <1>1, <1>2, <1>3, <1>4, <1>5, <1>6, RowFrame DEF RowWrite

(***************************************************************************)
(* Completed tasks                                                         *)
(***************************************************************************)

\* A sweep about to complete a task decided so at its last step of its own.
LEMMA SweeperFrame ==
  ASSUME TypeOK, [Next]_vars, NEW s \in Sweepers,
         spc'[s] = "task_write", sout'[s] = "completed"
  PROVE  SweepTaskRuns(s) \/ UNCHANGED <<spc[s], scur[s], sout[s]>>
<1>. USE DEF TypeOK
<1>1. CASE \E p \in Workers : Request(p)
  BY <1>1 DEF Request, TaskRequest, BriefRequest, Submit, CreateDraft, BriefRead, LaunchRead, CancelRead,
              RetryRead, svars
<1>2. CASE \E p \in Workers : WorkerStep(p) \/ RequestDies(p)
  BY <1>2 DEF WorkerStep, BriefWrite, LaunchWrite, ExecRead, ExecStart, Dispatch,
              FinalRead, FinalWrite, CancelWrite, CancelCascade, RetryWrite,
              RequestDies, svars
<1>3. ASSUME NEW u \in Sweepers, SweeperStep(u)
      PROVE  SweepTaskRuns(s) \/ UNCHANGED <<spc[s], scur[s], sout[s]>>
  <2>1. CASE SweepList(u) \/ SweepRun(u) \/ SweepListSteps(u) \/ SweepStep(u)
    BY <2>1 DEF SweepList, SweepRun, SweepListSteps, SweepStep
  <2>2. CASE SweepListTasks(u) \/ SweepTaskRead(u) \/ SweepDone(u)
    BY <2>2 DEF SweepListTasks, SweepTaskRead, SweepDone
  <2>3. CASE SweepTaskRuns(u)
    BY <2>3 DEF SweepTaskRuns
  <2>4. CASE SweepTaskWrite(u)
    BY <2>4 DEF SweepTaskWrite
  <2>. QED
    BY <1>3, <2>1, <2>2, <2>3, <2>4 DEF SweeperStep
<1>4. CASE \E u \in Sweepers : SweepItemFails(u) \/ SweepDies(u)
  BY <1>4 DEF SweepItemFails, SweepDies
<1>5. CASE (\E r \in Runs : Age(r)) \/ UNCHANGED vars
  BY <1>5 DEF Age, vars, svars
<1>. QED
  BY <1>1, <1>2, <1>3, <1>4, <1>5 DEF Next

\* A task is completed by a finalization or by a sweep.
LEMMA TaskCompleted ==
  ASSUME TypeOK, [Next]_vars, NEW t \in Tasks,
         task[t] # "completed", task'[t] = "completed"
  PROVE  \/ \E p \in Workers :
              FinalWrite(p) /\ wtask[p] = t /\ TaskOutcome(result[p]) = "completed"
         \/ \E s \in Sweepers :
              SweepTaskWrite(s) /\ scur[s] = t /\ sout[s] = "completed"
<1>. USE DEF TypeOK
<1>1. CASE \E p \in Workers : Request(p)
  BY <1>1 DEF Request, TaskRequest, BriefRequest, Submit, CreateDraft, BriefRead, LaunchRead, CancelRead,
              RetryRead, rows
<1>2. ASSUME NEW p \in Workers, WorkerStep(p) \/ RequestDies(p)
      PROVE  FinalWrite(p) /\ wtask[p] = t /\ TaskOutcome(result[p]) = "completed"
  <2>1. CASE FinalWrite(p)
    BY <2>1 DEF FinalWrite
  <2>2. CASE ExecStart(p) \/ CancelCascade(p) \/ RetryWrite(p) \/ LaunchWrite(p)
    BY <2>2 DEF ExecStart, CancelCascade, RetryWrite, LaunchWrite
  <2>3. CASE \E b \in BOOLEAN : BriefWrite(p, b)
    BY <2>3 DEF BriefWrite
  <2>. QED
    BY <1>2, <2>1, <2>2, <2>3 DEF WorkerStep, ExecRead, Dispatch, FinalRead,
                                  CancelWrite, RequestDies, rows
<1>3. ASSUME NEW s \in Sweepers, SweeperStep(s) \/ SweepItemFails(s) \/ SweepDies(s)
      PROVE  SweepTaskWrite(s) /\ scur[s] = t /\ sout[s] = "completed"
  BY <1>3 DEF SweeperStep, SweepList, SweepRun, SweepListSteps, SweepStep,
              SweepListTasks, SweepTaskRead, SweepTaskRuns, SweepTaskWrite,
              SweepDone, SweepItemFails, SweepDies, rows
<1>4. CASE (\E r \in Runs : Age(r)) \/ UNCHANGED vars
  BY <1>4 DEF Age, vars, rows
<1>. QED
  BY <1>1, <1>2, <1>3, <1>4 DEF Next

\* Every step preserves SuccessInv.
LEMMA NextSuccessInv == IInv /\ [Next]_vars => SuccessInv'
<1>. SUFFICES ASSUME IInv, [Next]_vars PROVE SuccessInv'
  OBVIOUS
<1>. TypeOK /\ RowInv /\ MemoryInv /\ SuccessInv
  BY DEF IInv
<1>1. SweepInv'
  <2>. SUFFICES ASSUME NEW s \in Sweepers,
                       spc'[s] = "task_write", sout'[s] = "completed"
                PROVE  \E r \in Runs : owner'[r] = scur'[s] /\ run'[r] = "completed"
    BY DEF SweepInv
  <2>1. CASE SweepTaskRuns(s)
    BY <2>1 DEF SweepTaskRuns, LatestCompleted, RunsOf, TypeOK, rows
  <2>2. CASE UNCHANGED <<spc[s], scur[s], sout[s]>>
    <3>1. PICK r \in Runs : owner[r] = scur[s] /\ run[r] = "completed"
      BY <2>2 DEF SuccessInv, SweepInv
    <3>. QED
      BY <2>2, <3>1, CompletedStays
  <2>. QED
    BY <2>1, <2>2, SweeperFrame
<1>2. CompletedTaskHasCompletedRun'
  <2>. SUFFICES ASSUME NEW t \in Tasks, task'[t] = "completed"
                PROVE  \E r \in Runs : owner'[r] = t /\ run'[r] = "completed"
    BY DEF CompletedTaskHasCompletedRun, RunsOf
  <2>1. CASE task[t] = "completed"
    <3>1. PICK r \in Runs : owner[r] = t /\ run[r] = "completed"
      BY <2>1 DEF SuccessInv, CompletedTaskHasCompletedRun, RunsOf
    <3>. QED
      BY <3>1, CompletedStays
  <2>2. ASSUME NEW p \in Workers, FinalWrite(p), wtask[p] = t,
               TaskOutcome(result[p]) = "completed"
        PROVE  \E r \in Runs : owner'[r] = t /\ run'[r] = "completed"
    <3>1. wrun[p] \in Runs /\ owner[wrun[p]] = t
      BY <2>2, FinalWriteEnds DEF MemoryInv, ExecutionInv
    <3>2. RunOutcome(result[p]) = "completed"
      BY <2>2 DEF TaskOutcome, RunOutcome
    <3>. QED
      BY <2>2, <3>1, <3>2 DEF FinalWrite, TypeOK
  <2>3. ASSUME NEW s \in Sweepers, SweepTaskWrite(s), scur[s] = t,
               sout[s] = "completed"
        PROVE  \E r \in Runs : owner'[r] = t /\ run'[r] = "completed"
    <3>1. PICK r \in Runs : owner[r] = t /\ run[r] = "completed"
      BY <2>3 DEF SweepTaskWrite, SuccessInv, SweepInv
    <3>. QED
      BY <3>1, CompletedStays
  <2>. QED
    BY <2>1, <2>2, <2>3, TaskCompleted
<1>. QED
  BY <1>1, <1>2 DEF SuccessInv

\* The inductive invariant holds initially.
LEMMA InitIInv == Init => IInv
<1>. SUFFICES ASSUME Init PROVE IInv
  OBVIOUS
<1>1. MemoryInv
  BY DEF Init, MemoryInv, BusyInv, ExecutionInv, CancelInv, Executing
<1>2. SuccessInv
  BY DEF Init, SuccessInv, SweepInv, CompletedTaskHasCompletedRun
<1>. QED
  BY <1>1, <1>2, InitTypeOK, InitRowInv DEF IInv

\* The inductive invariant holds in every reachable state of the orchestrator.
THEOREM Invariance == Spec => []IInv
<1>1. IInv /\ [Next]_vars => IInv'
  BY NextTypeOK, NextRowInv, NextBusyInv, NextExecutionInv, NextCancelInv,
     NextSuccessInv
  DEF IInv, MemoryInv
<1>. QED
  BY <1>1, InitIInv, PTL DEF Spec

\* A task that claims a success has a run that had it.
THEOREM CompletedTasks == Spec => []CompletedTaskHasCompletedRun
<1>1. IInv => CompletedTaskHasCompletedRun
  BY DEF IInv, SuccessInv
<1>. QED
  BY <1>1, Invariance, PTL

\* No cancel and no sweep overwrites a completed run.
THEOREM CompletedRuns == Spec => CompletedRunIsFinal
<1>1. IInv /\ [Next]_vars
        => [\A r \in Runs : run[r] = "completed" => run'[r] = "completed"]_vars
  BY CompletedStays DEF IInv
<1>. QED
  BY <1>1, Invariance, PTL DEF Spec, CompletedRunIsFinal

(***************************************************************************)
(* Settled tasks, in a system without drafts                               *)
(***************************************************************************)

\* What a step makes of the status of a task, if there are no drafts.
LEMMA TaskStep ==
  ASSUME TypeOK, LaunchInv, Drafts = {}, [Next]_vars, NEW t \in Tasks
  PROVE  \/ task'[t] = task[t]
         \/ \E p \in Workers : Submit(p, t)
         \/ \E p \in Workers : RetryWrite(p) /\ wtask[p] = t
         \/ \E p \in Workers : ExecStart(p) /\ wtask[p] = t
         \/ \E p \in Workers : FinalWrite(p) /\ wtask[p] = t
         \/ \E p \in Workers : CancelCascade(p) /\ wtask[p] = t
         \/ \E s \in Sweepers : SweepTaskWrite(s) /\ scur[s] = t
<1>. USE DEF TypeOK
<1>1. ASSUME NEW p \in Workers, Request(p)
      PROVE  Submit(p, t) \/ task'[t] = task[t]
  BY <1>1 DEF Request, TaskRequest, BriefRequest, Submit, CreateDraft, BriefRead, LaunchRead, CancelRead,
              RetryRead, rows
<1>2. ASSUME NEW p \in Workers, WorkerStep(p) \/ RequestDies(p)
      PROVE  \/ task'[t] = task[t]
             \/ RetryWrite(p) /\ wtask[p] = t
             \/ ExecStart(p) /\ wtask[p] = t
             \/ FinalWrite(p) /\ wtask[p] = t
             \/ CancelCascade(p) /\ wtask[p] = t
  <2>1. CASE RetryWrite(p) \/ ExecStart(p)
    BY <2>1 DEF RetryWrite, ExecStart
  <2>2. CASE FinalWrite(p) \/ CancelCascade(p)
    BY <2>2 DEF FinalWrite, CancelCascade
  <2>3. CASE LaunchWrite(p) \/ \E b \in BOOLEAN : BriefWrite(p, b)
    BY <2>3 DEF LaunchWrite, BriefWrite, LaunchInv
  <2>. QED
    BY <1>2, <2>1, <2>2, <2>3 DEF WorkerStep, ExecRead, Dispatch, FinalRead,
                                  CancelWrite, RequestDies, rows
<1>3. ASSUME NEW s \in Sweepers, SweeperStep(s) \/ SweepItemFails(s) \/ SweepDies(s)
      PROVE  task'[t] = task[t] \/ (SweepTaskWrite(s) /\ scur[s] = t)
  BY <1>3 DEF SweeperStep, SweepList, SweepRun, SweepListSteps, SweepStep,
              SweepListTasks, SweepTaskRead, SweepTaskRuns, SweepTaskWrite,
              SweepDone, SweepItemFails, SweepDies, rows
<1>4. CASE (\E r \in Runs : Age(r)) \/ UNCHANGED vars
  BY <1>4 DEF Age, vars, rows
<1>. QED
  BY <1>1, <1>2, <1>3, <1>4 DEF Next

\* A worker is about to start a task since its submit, and nothing leads to a
\* launch or to a write of the brief.
LEMMA StartFrame ==
  ASSUME TypeOK, LaunchInv, Drafts = {}, [Next]_vars, NEW p \in Workers
  PROVE  /\ pc'[p] \notin {"launch_write", "brief_write"}
         /\ Starting(p)' => \/ \E t \in Tasks : Submit(p, t)
                            \/ Starting(p) /\ wtask'[p] = wtask[p]
<1>. USE DEF TypeOK, Starting
<1>. pc[p] \notin {"launch_write", "brief_write"}
  BY DEF LaunchInv
<1>1. ASSUME NEW q \in Workers, Request(q), q # p PROVE UNCHANGED <<pc[p], wtask[p]>>
  BY <1>1 DEF Request, TaskRequest, BriefRequest, Submit, CreateDraft, BriefRead, LaunchRead, CancelRead,
              RetryRead, Proceed, wvars
<1>2. ASSUME NEW q \in Workers, WorkerStep(q) \/ RequestDies(q), q # p
      PROVE  UNCHANGED <<pc[p], wtask[p]>>
  BY <1>2 DEF WorkerStep, BriefWrite, LaunchWrite, ExecRead, ExecStart, Dispatch,
              FinalRead, FinalWrite, CancelWrite, CancelCascade, RetryWrite,
              RequestDies, Finish, Proceed
<1>3. CASE Request(p)
  <2>1. PICK t \in Tasks :
          \/ Submit(p, t) \/ (\E b \in BOOLEAN : CreateDraft(p, t, b))
          \/ BriefRead(p, t) \/ LaunchRead(p, t)
          \/ CancelRead(p, t) \/ RetryRead(p, t)
    BY <1>3 DEF Request, TaskRequest, BriefRequest
  <2>2. task[t] # "draft" /\ t \notin Drafts
    BY DEF LaunchInv
  <2>3. CASE Submit(p, t)
    BY <2>3 DEF Submit, Proceed
  <2>4. CASE CancelRead(p, t) \/ RetryRead(p, t)
    BY <2>4 DEF CancelRead, RetryRead, Proceed
  <2>. QED
    BY <2>1, <2>2, <2>3, <2>4 DEF CreateDraft, BriefRead, LaunchRead
<1>4. CASE WorkerStep(p) \/ RequestDies(p)
  <2>1. CASE Finish(p)
    BY <2>1 DEF Finish
  <2>2. CASE ExecRead(p)
    BY <2>2 DEF ExecRead, Proceed, Finish
  <2>3. CASE ExecStart(p) \/ FinalRead(p) \/ CancelWrite(p)
    BY <2>3 DEF ExecStart, FinalRead, CancelWrite, Finish
  <2>4. CASE \E res \in Results : Dispatch(p, res)
    BY <2>4 DEF Dispatch
  <2>. QED
    BY <1>4, <2>1, <2>2, <2>3, <2>4
    DEF WorkerStep, BriefWrite, LaunchWrite, FinalWrite, CancelCascade, RetryWrite,
        RequestDies
<1>5. CASE \E s \in Sweepers : SweeperStep(s) \/ SweepItemFails(s) \/ SweepDies(s)
  BY <1>5, SweepersLeaveWorkers DEF wvars
<1>6. CASE (\E r \in Runs : Age(r)) \/ UNCHANGED vars
  BY <1>6 DEF Age, vars, wvars
<1>. QED
  BY <1>1, <1>2, <1>3, <1>4, <1>5, <1>6 DEF Next

\* A run gets its task, and becomes active, only when an execution starts.
LEMMA OwnerStep ==
  ASSUME TypeOK, [Next]_vars, NEW r \in Runs
  PROVE  \/ /\ owner'[r] = owner[r]
            /\ run'[r] \in ActiveRunStatus => run[r] \in ActiveRunStatus
         \/ \E p \in Workers : ExecStart(p) /\ run[r] = "none" /\ owner'[r] = wtask[p]
<1>1. CASE UNCHANGED <<run, step, owner, recovered>>
  BY <1>1
<1>2. ASSUME NEW p \in Workers, ExecStart(p)
      PROVE  \/ UNCHANGED <<owner[r], run[r]>>
             \/ run[r] = "none" /\ owner'[r] = wtask[p]
  BY <1>2 DEF ExecStart, TypeOK
<1>3. CASE \E p \in Workers : CancelCascade(p)
  BY <1>3 DEF CancelCascade, ActiveRunStatus
<1>4. ASSUME NEW p \in Workers, FinalWrite(p)
      PROVE  /\ owner'[r] = owner[r]
             /\ run'[r] \in ActiveRunStatus => run[r] \in ActiveRunStatus
  <2>1. RunOutcome(result[p]) \notin ActiveRunStatus
    BY DEF RunOutcome, ActiveRunStatus
  <2>. QED
    BY <1>4, <2>1 DEF FinalWrite, TypeOK
<1>5. CASE \E s \in Sweepers : SweepRun(s)
  BY <1>5 DEF SweepRun, TypeOK, ActiveRunStatus
<1>6. CASE \E s \in Sweepers : SweepStep(s)
  BY <1>6 DEF SweepStep
<1>. QED
  BY <1>1, <1>2, <1>3, <1>4, <1>5, <1>6, RowFrame DEF RowWrite

\* The task of an execution that starts has no run, and no lock.
LEMMA StartFresh ==
  ASSUME TypeOK, BusyInv, LaunchInv, NEW p \in Workers, ExecStart(p)
  PROVE  /\ Starting(p) /\ wtask[p] \in Tasks
         /\ \A r \in Runs : owner[r] # wtask[p]
         /\ tlock[wtask[p]] = None
         /\ task'[wtask[p]] = "running"
         /\ \E r \in Runs : owner'[r] = wtask[p]
<1>1. Starting(p) /\ wtask[p] \in Tasks
  BY DEF ExecStart, Starting, BusyInv
<1>2. \A r \in Runs : owner[r] # wtask[p]
  BY <1>1 DEF LaunchInv, RunsOf
<1>3. tlock[wtask[p]] = None /\ task'[wtask[p]] = "running"
  BY <1>1 DEF ExecStart, Unlocked, TypeOK
<1>4. \E r \in Runs : owner'[r] = wtask[p]
  BY DEF ExecStart, TypeOK
<1>. QED
  BY <1>1, <1>2, <1>3, <1>4

\* Without drafts, every step preserves LaunchInv.
LEMMA NextLaunchInv ==
  ASSUME Drafts = {}
  PROVE  TypeOK /\ RowInv /\ BusyInv /\ LaunchInv /\ [Next]_vars => LaunchInv'
<1>. SUFFICES ASSUME TypeOK, RowInv, BusyInv, LaunchInv, [Next]_vars PROVE LaunchInv'
  OBVIOUS
<1>1. ASSUME NEW t \in Tasks
      PROVE  /\ task'[t] # "draft"
             /\ task'[t] = "none" => task[t] = "none"
             /\ task'[t] = "running" =>
                  \/ task[t] = "running"
                  \/ \E p \in Workers : ExecStart(p) /\ wtask[p] = t
  <2>0. task[t] # "draft"
    BY DEF LaunchInv
  <2>1. ASSUME NEW p \in Workers, Submit(p, t) PROVE task'[t] = "pending"
    BY <2>1 DEF Submit, TypeOK
  <2>2. ASSUME NEW p \in Workers, RetryWrite(p), wtask[p] = t PROVE task'[t] = "pending"
    BY <2>2 DEF RetryWrite, TypeOK
  <2>3. ASSUME NEW p \in Workers, ExecStart(p), wtask[p] = t PROVE task'[t] = "running"
    BY <2>3 DEF ExecStart, TypeOK
  <2>4. ASSUME NEW p \in Workers, FinalWrite(p), wtask[p] = t
        PROVE  task'[t] \in {"completed", "failed"}
    BY <2>4 DEF FinalWrite, TaskOutcome, TypeOK
  <2>5. ASSUME NEW p \in Workers, CancelCascade(p), wtask[p] = t
        PROVE  task'[t] = "cancelled"
    BY <2>5 DEF CancelCascade, TypeOK
  <2>6. ASSUME NEW s \in Sweepers, SweepTaskWrite(s), scur[s] = t
        PROVE  task'[t] \in {"completed", "failed"}
    BY <2>6 DEF SweepTaskWrite, TypeOK
  <2>. QED
    BY <2>0, <2>1, <2>2, <2>3, <2>4, <2>5, <2>6, TaskStep
<1>2. ASSUME NEW r \in Runs
      PROVE  \/ owner'[r] = owner[r]
             \/ \E p \in Workers :
                  ExecStart(p) /\ run[r] = "none" /\ owner'[r] = wtask[p]
  BY OwnerStep
<1>3. ASSUME NEW p \in Workers, Starting(p)'
      PROVE  /\ wtask'[p] \in Tasks
             /\ task'[wtask'[p]] # "none"
             /\ \A r \in Runs : owner'[r] # wtask'[p]
             /\ \A q \in Workers : Starting(q)' /\ wtask'[q] = wtask'[p] => q = p
  <2>1. CASE \E t \in Tasks : Submit(p, t)
    <3>1. PICK t \in Tasks : Submit(p, t)
      BY <2>1
    <3>2. /\ task[t] = "none" /\ task'[t] = "pending" /\ wtask'[p] = t
          /\ owner' = owner
          /\ \A q \in Workers : q # p => UNCHANGED <<pc[q], wtask[q]>>
      BY <3>1 DEF Submit, Proceed, TypeOK, runRows
    <3>3. \A r \in Runs : owner[r] # t
      BY <3>2 DEF LaunchInv, RunsOf
    <3>4. \A q \in Workers : Starting(q) => wtask[q] # t
      BY <3>2 DEF LaunchInv
    <3>. QED
      BY <3>2, <3>3, <3>4 DEF Starting
  <2>2. CASE Starting(p) /\ wtask'[p] = wtask[p]
    <3>1. /\ wtask[p] \in Tasks /\ task[wtask[p]] # "none"
          /\ \A r \in Runs : owner[r] # wtask[p]
          /\ \A q \in Workers : Starting(q) /\ wtask[q] = wtask[p] => q = p
      BY <2>2 DEF LaunchInv, RunsOf
    <3>2. ASSUME NEW q \in Workers, ExecStart(q) PROVE wtask[q] # wtask[p]
      <4>1. Starting(q) /\ q # p
        BY <1>3, <3>2, StartFresh DEF ExecStart, Starting, TypeOK
      <4>. QED
        BY <3>1, <4>1
    <3>3. \A r \in Runs : owner'[r] # wtask'[p]
      BY <1>2, <2>2, <3>1, <3>2
    <3>4. ASSUME NEW q \in Workers, Starting(q)', wtask'[q] = wtask'[p] PROVE q = p
      <4>1. CASE Starting(q) /\ wtask'[q] = wtask[q]
        BY <2>2, <3>1, <3>4, <4>1
      <4>2. CASE \E t \in Tasks : Submit(q, t)
        BY <2>2, <3>1, <3>4, <4>2 DEF Submit, Proceed, TypeOK
      <4>. QED
        BY <3>4, <4>1, <4>2, StartFrame
    <3>. QED
      BY <1>1, <2>2, <3>1, <3>3, <3>4
  <2>. QED
    BY <1>3, <2>1, <2>2, StartFrame
<1>4. ASSUME NEW t \in Tasks, task'[t] \in {"none", "running"}
      PROVE  (\A r \in Runs : owner'[r] # t) <=> task'[t] = "none"
  <2>1. CASE \E p \in Workers : ExecStart(p) /\ wtask[p] = t
    BY <2>1, StartFresh
  <2>2. CASE ~\E p \in Workers : ExecStart(p) /\ wtask[p] = t
    <3>1. task[t] = task'[t]
      BY <1>1, <1>4, <2>2
    <3>2. (\A r \in Runs : owner[r] # t) <=> task[t] = "none"
      BY <1>4, <3>1 DEF LaunchInv, RunsOf
    <3>3. ASSUME NEW r \in Runs PROVE owner'[r] = t <=> owner[r] = t
      <4>1. run[r] = "none" => owner[r] # t
        BY NoneAssumption DEF RowInv, FreshRuns
      <4>. QED
        BY <1>2, <2>2, <4>1
    <3>. QED
      BY <3>1, <3>2, <3>3
  <2>. QED
    BY <2>1, <2>2
<1>5. ASSUME NEW q \in Runs, NEW r \in Runs, owner'[q] = owner'[r], owner'[q] # None
      PROVE  q = r
  <2>1. CASE owner'[q] = owner[q] /\ owner'[r] = owner[r]
    BY <1>5, <2>1 DEF LaunchInv
  <2>2. CASE \E p \in Workers : ExecStart(p)
    <3>1. PICK p \in Workers : ExecStart(p)
      BY <2>2
    <3>2. PICK n \in Runs : owner' = [owner EXCEPT ![n] = wtask[p]]
      BY <3>1 DEF ExecStart
    <3>3. \A x \in Runs : owner[x] # wtask[p]
      BY <3>1, StartFresh
    <3>4. \A x, y \in Runs : owner[x] = owner[y] /\ owner[x] # None => x = y
      BY DEF LaunchInv
    <3>5. /\ owner'[q] = IF q = n THEN wtask[p] ELSE owner[q]
          /\ owner'[r] = IF r = n THEN wtask[p] ELSE owner[r]
      BY <3>2 DEF TypeOK
    <3>. QED
      BY <1>5, <3>3, <3>4, <3>5
  <2>. QED
    BY <1>2, <2>1, <2>2
<1>. QED
  BY <1>1, <1>3, <1>4, <1>5, StartFrame DEF LaunchInv, RunsOf, Starting

\* A sweep that considers a task read it running, or considered it already.
LEMMA SweepTaskFrame ==
  ASSUME TypeOK, [Next]_vars, NEW s \in Sweepers,
         spc'[s] \in {"task_runs", "task_write"}
  PROVE  \/ /\ spc'[s] = "task_runs" /\ scur'[s] \in Tasks
            /\ task[scur'[s]] = "running"
            /\ owner' = owner
         \/ SweepTaskRuns(s)
         \/ UNCHANGED <<spc[s], scur[s]>>
<1>. USE DEF TypeOK
<1>1. CASE \E p \in Workers : Request(p)
  BY <1>1 DEF Request, TaskRequest, BriefRequest, Submit, CreateDraft, BriefRead, LaunchRead, CancelRead,
              RetryRead, svars
<1>2. CASE \E p \in Workers : WorkerStep(p) \/ RequestDies(p)
  BY <1>2 DEF WorkerStep, BriefWrite, LaunchWrite, ExecRead, ExecStart, Dispatch,
              FinalRead, FinalWrite, CancelWrite, CancelCascade, RetryWrite,
              RequestDies, svars
<1>3. ASSUME NEW u \in Sweepers, SweeperStep(u)
      PROVE  \/ /\ spc'[s] = "task_runs" /\ scur'[s] \in Tasks
                /\ task[scur'[s]] = "running"
                /\ owner' = owner
             \/ SweepTaskRuns(s)
             \/ UNCHANGED <<spc[s], scur[s]>>
  <2>1. CASE SweepList(u) \/ SweepRun(u) \/ SweepListSteps(u) \/ SweepStep(u)
    BY <2>1 DEF SweepList, SweepRun, SweepListSteps, SweepStep
  <2>2. CASE SweepListTasks(u) \/ SweepDone(u) \/ SweepTaskWrite(u)
    BY <2>2 DEF SweepListTasks, SweepDone, SweepTaskWrite
  <2>3. CASE SweepTaskRead(u)
    BY <2>3 DEF SweepTaskRead, rows
  <2>4. CASE SweepTaskRuns(u)
    BY <2>4 DEF SweepTaskRuns
  <2>. QED
    BY <1>3, <2>1, <2>2, <2>3, <2>4 DEF SweeperStep
<1>4. CASE \E u \in Sweepers : SweepItemFails(u) \/ SweepDies(u)
  BY <1>4 DEF SweepItemFails, SweepDies
<1>5. CASE (\E r \in Runs : Age(r)) \/ UNCHANGED vars
  BY <1>5 DEF Age, vars, svars
<1>. QED
  BY <1>1, <1>2, <1>3, <1>4, <1>5 DEF Next

\* Every step preserves CascadeInv.
LEMMA NextCascadeInv ==
  IInv /\ LaunchInv /\ CascadeInv /\ [Next]_vars => CascadeInv'
<1>. SUFFICES ASSUME IInv, LaunchInv, CascadeInv, [Next]_vars PROVE CascadeInv'
  OBVIOUS
<1>. TypeOK /\ RowInv /\ BusyInv /\ CancelInv
  BY DEF IInv, MemoryInv
<1>1. ASSUME NEW p \in Workers, pc'[p] = "cancel_cascade",
             NEW r \in Runs, owner'[r] = wtask'[p], run'[r] \in ActiveRunStatus
      PROVE  r \in seen'[p]
  <2>1. CASE CancelWrite(p)
    BY <1>1, <2>1 DEF CancelWrite, Finish, ActiveRuns, RunsOf, TypeOK, rows
  <2>2. CASE UNCHANGED <<pc[p], wtask[p], wrun[p], seen[p]>>
    <3>1. wtask[p] \in Tasks /\ tlock[wtask[p]] = p /\ p # None
      BY <1>1, <2>2, NoneAssumption DEF BusyInv, CancelInv
    <3>2. ~\E q \in Workers : ExecStart(q) /\ wtask[q] = wtask[p]
      BY <3>1, StartFresh
    <3>3. owner[r] = wtask[p] /\ run[r] \in ActiveRunStatus
      BY <1>1, <2>2, <3>2, OwnerStep
    <3>. QED
      BY <1>1, <2>2, <3>3 DEF CascadeInv, ActiveRuns, RunsOf
  <2>3. CASE ExecStart(p) \/ Executing(p)'
    BY <1>1, <2>3 DEF ExecStart, Executing, TypeOK
  <2>. QED
    BY <1>1, <2>1, <2>2, <2>3, WorkerFrame
<1>2. ASSUME NEW s \in Sweepers, spc'[s] \in {"task_runs", "task_write"}
      PROVE  /\ scur'[s] \in Tasks
             /\ \E r \in Runs : owner'[r] = scur'[s]
             /\ spc'[s] = "task_write" =>
                  \A r \in Runs :
                     owner'[r] = scur'[s] => run'[r] \notin ActiveRunStatus
  <2>1. CASE /\ spc'[s] = "task_runs" /\ scur'[s] \in Tasks
             /\ task[scur'[s]] = "running"
             /\ owner' = owner
    BY <2>1 DEF LaunchInv, RunsOf
  <2>2. CASE SweepTaskRuns(s)
    <3>1. /\ spc[s] = "task_runs" /\ scur'[s] = scur[s]
          /\ ActiveRuns(scur[s]) = {}
          /\ UNCHANGED <<run, owner>>
      BY <1>2, <2>2 DEF SweepTaskRuns, TypeOK, rows
    <3>2. scur[s] \in Tasks /\ \E r \in Runs : owner[r] = scur[s]
      BY <3>1 DEF CascadeInv, RunsOf
    <3>. QED
      BY <3>1, <3>2 DEF ActiveRuns, RunsOf
  <2>3. CASE UNCHANGED <<spc[s], scur[s]>>
    <3>1. PICK n \in Runs : owner[n] = scur[s]
      BY <1>2, <2>3 DEF CascadeInv, RunsOf
    <3>2. scur[s] \in Tasks
      BY <1>2, <2>3 DEF CascadeInv
    <3>3. run[n] # "none"
      BY <3>1, <3>2, NoneAssumption DEF RowInv, FreshRuns
    <3>4. ~\E q \in Workers : ExecStart(q) /\ wtask[q] = scur[s]
      BY <3>1, StartFresh
    <3>5. ASSUME spc'[s] = "task_write", NEW r \in Runs, owner'[r] = scur'[s]
          PROVE  run'[r] \notin ActiveRunStatus
      <4>1. /\ owner[r] = scur[s]
            /\ run'[r] \in ActiveRunStatus => run[r] \in ActiveRunStatus
        BY <2>3, <3>4, <3>5, OwnerStep
      <4>2. run[r] \notin ActiveRunStatus
        BY <2>3, <3>5, <4>1 DEF CascadeInv, ActiveRuns, RunsOf
      <4>. QED
        BY <4>1, <4>2
    <3>. QED
      BY <2>3, <3>1, <3>2, <3>3, <3>5, OwnerStays
  <2>. QED
    BY <1>2, <2>1, <2>2, <2>3, SweepTaskFrame
<1>. QED
  BY <1>1, <1>2 DEF CascadeInv, ActiveRuns, RunsOf

\* Without drafts, no step leaves an ended task with an active run.
LEMMA NextSettled ==
  ASSUME Drafts = {}
  PROVE  IInv /\ SettledInv /\ [Next]_vars => SettledTaskHasNoActiveRun'
<1>. SUFFICES ASSUME IInv, SettledInv, [Next]_vars,
                     NEW t \in Tasks,
                     task'[t] \in {"completed", "failed", "cancelled"},
                     NEW r \in Runs, owner'[r] = t, run'[r] \in ActiveRunStatus
              PROVE  FALSE
  BY DEF SettledTaskHasNoActiveRun, ActiveRuns, RunsOf
<1>. /\ TypeOK /\ RowInv /\ BusyInv /\ ExecutionInv
     /\ LaunchInv /\ CascadeInv /\ SettledTaskHasNoActiveRun
  BY DEF IInv, MemoryInv, SettledInv
<1>1. ~\E p \in Workers : ExecStart(p) /\ wtask[p] = t
  BY StartFresh
<1>2. owner[r] = t /\ run[r] \in ActiveRunStatus
  BY <1>1, OwnerStep
<1>3. ASSUME task'[t] = task[t] PROVE FALSE
  BY <1>2, <1>3 DEF SettledTaskHasNoActiveRun, ActiveRuns, RunsOf
<1>4. ASSUME NEW p \in Workers, Submit(p, t) \/ (RetryWrite(p) /\ wtask[p] = t)
      PROVE  FALSE
  BY <1>4 DEF Submit, RetryWrite, TypeOK
<1>5. ASSUME NEW p \in Workers, FinalWrite(p), wtask[p] = t PROVE FALSE
  <2>1. wrun[p] \in Runs /\ owner[wrun[p]] = t
    BY <1>5, FinalWriteEnds DEF ExecutionInv
  <2>2. wrun[p] = r
    BY <1>2, <2>1, NoneAssumption DEF LaunchInv
  <2>3. RunOutcome(result[p]) \notin ActiveRunStatus
    BY DEF RunOutcome, ActiveRunStatus
  <2>. QED
    BY <1>5, <2>2, <2>3 DEF FinalWrite, TypeOK
<1>6. ASSUME NEW p \in Workers, CancelCascade(p), wtask[p] = t PROVE FALSE
  <2>1. r \in seen[p]
    BY <1>2, <1>6 DEF CancelCascade, CascadeInv, ActiveRuns, RunsOf
  <2>. QED
    BY <1>6, <2>1 DEF CancelCascade, ActiveRunStatus
<1>7. ASSUME NEW s \in Sweepers, SweepTaskWrite(s), scur[s] = t PROVE FALSE
  BY <1>2, <1>7 DEF SweepTaskWrite, CascadeInv, ActiveRuns, RunsOf
<1>. QED
  BY <1>1, <1>3, <1>4, <1>5, <1>6, <1>7, TaskStep

\* The invariants about settled tasks hold initially.
LEMMA InitSettled == Init => SettledInv
<1>. SUFFICES ASSUME Init PROVE SettledInv
  OBVIOUS
<1>1. LaunchInv
  BY NoneAssumption DEF Init, LaunchInv, Starting, RunsOf
<1>2. CascadeInv
  BY DEF Init, CascadeInv
<1>3. SettledTaskHasNoActiveRun
  BY DEF Init, SettledTaskHasNoActiveRun
<1>. QED
  BY <1>1, <1>2, <1>3 DEF SettledInv

\* If every task is submitted and none is a draft, a task that has ended has no
\* active run.
THEOREM SettledTasks ==
  ASSUME Drafts = {}
  PROVE  Spec => []SettledTaskHasNoActiveRun
<1>1. IInv /\ SettledInv /\ [Next]_vars => SettledInv'
  BY NextLaunchInv, NextCascadeInv, NextSettled DEF SettledInv, IInv, MemoryInv
<1>2. SettledInv => SettledTaskHasNoActiveRun
  BY DEF SettledInv
<1>. QED
  BY <1>1, <1>2, InitSettled, Invariance, PTL DEF Spec
=============================================================================
