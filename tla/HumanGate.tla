------------------------------- MODULE HumanGate -------------------------------
(***************************************************************************)
(* The human gate of a tool call, end to end: the orchestrator dispatches  *)
(* a task to the agent-runtime, a gated tool pauses the invocation and asks*)
(* for an approval, a reviewer decides, and the orchestrator resumes the   *)
(* invocation.  Composes Approval (orchestrator) and Invocation            *)
(* (agent-runtime) with the dispatching task and its sandbox.              *)
(*                                                                         *)
(* At this commit the two calls between the services carry an              *)
(* X-Internal-Auth header, while both endpoints depend on require_service, *)
(* which wants a bearer token; and DbInvocationUnitOfWork has no           *)
(* "invocations" for ResumeInvocationHandler.resume to read.  Wired says   *)
(* whether these calls get through: FALSE is the code as it stands, TRUE   *)
(* the protocol its handlers implement, with the rest of the code the same.*)
(***************************************************************************)
EXTENDS Approval, Invocation

CONSTANTS Wired,        \* see above
          MaxFaults     \* bound: processes that die and calls between the
                        \*   services that fail or are not answered in time

ASSUME CallsAreInvocations == Calls = Invocations
ASSUME WiringAssumption == Wired \in BOOLEAN
ASSUME FaultBound == MaxFaults \in Nat

VARIABLES
    task,       \* [Invocations -> status of the task that was dispatched]
    sandbox,    \* [Invocations -> does its sandbox still run?]
    faults      \* processes that have died and calls that have failed

hostVars == <<task, sandbox, faults>>

vars == <<approvalVars, invocationVars, hostVars>>

TaskStatus == {"pending", "running", "completed", "failed", "timed_out"}

TypeOK ==
    /\ ApprovalTypeOK
    /\ InvocationTypeOK
    /\ task \in [Invocations -> TaskStatus]
    /\ sandbox \in [Invocations -> BOOLEAN]
    /\ faults \in 0..MaxFaults

Init ==
    /\ ApprovalInit
    /\ InvocationInit
    /\ task = [i \in Invocations |-> "pending"]
    /\ sandbox = [i \in Invocations |-> TRUE]
    /\ faults = 0

Fault == faults < MaxFaults /\ faults' = faults + 1

\* A call between the services fails: always, when they are not wired.
CallFails ==
    \/ ~Wired /\ UNCHANGED faults
    \/ Wired /\ Fault

-----------------------------------------------------------------------------
(* The orchestrator's side of an execution *)

\* execute_task: the dispatch reaches a thread of the agent-runtime.
Dispatch(t, i) ==
    /\ task[i] = "pending"
    /\ task' = [task EXCEPT ![i] = "running"]
    /\ ExecuteStart(t, i)
    /\ UNCHANGED <<approvalVars, sandbox, faults>>

\* Mutant: what is no failure is a success.
TaskResultOptimist(response) ==
    IF response \in {"failed", "timed_out"} THEN response ELSE "completed"

\* _finalize_execution: is_success, is_timeout, or else a failure; a paused
\* invocation is a failure, too.
TaskResult(response) == IF response \in {"completed", "timed_out"} THEN response ELSE "failed"

\* execute_task after dispatch has returned: the sandbox is terminated
\* whatever the outcome (a failure to do so is logged), and the task ends.
Finalize(i, response, terminated) ==
    /\ task[i] = "running"
    /\ task' = [task EXCEPT ![i] = TaskResult(response)]
    /\ sandbox' = [sandbox EXCEPT ![i] = ~terminated]
    /\ UNCHANGED <<approvalVars, invocationVars>>

\* The answer of the agent-runtime arrives.
AnswerArrives(i, terminated) ==
    /\ answer[i] # "none"
    /\ Finalize(i, answer[i], terminated)
    /\ UNCHANGED faults

\* HttpRuntimeClient.dispatch: no answer within the budget (timed_out), or the
\* connection breaks (failed).  The budget is exhausted, so nothing is retried.
AnswerIsLost(i, response, terminated) ==
    /\ answer[i] = "none"
    /\ response \in {"timed_out", "failed"}
    /\ Finalize(i, response, terminated)
    /\ Fault

-----------------------------------------------------------------------------
(* The calls between the two services *)

\* request_tool_approval: the orchestrator stores the request.
AskStored(t, a) ==
    /\ Wired
    /\ thread[t].pc = "ask"
    /\ CreateToolApproval(a, thread[t].id)
    /\ Asked(t)
    /\ UNCHANGED hostVars

\* request_tool_approval raises: refused, or the orchestrator is not reached.
\* _request_tool_approval logs it and the invocation stays paused.
AskFails(t) ==
    /\ Asked(t)
    /\ CallFails
    /\ UNCHANGED <<approvalVars, task, sandbox>>

\* resume_invocation: the background task reaches a thread.
ResumeArrives(r, t) ==
    /\ Wired
    /\ request[r].pc = "background"
    /\ ResumeRead(t, request[r].target, request[r].decision)
    /\ CallResume(r)
    /\ UNCHANGED hostVars

\* resume_invocation: refused, not reached, or timed out.
ResumeFails(r) ==
    /\ CallResume(r)
    /\ CallFails
    /\ UNCHANGED <<invocationVars, task, sandbox>>

\* A tool succeeds only in a sandbox that runs.
ToolsRun(t) ==
    /\ thread[t].pc = "tools"
    /\ sandbox[thread[t].id]
    /\ ToolsSucceed(t)
    /\ UNCHANGED <<approvalVars, hostVars>>

\* The answer of such a call is lost.
ToolRetried(t) ==
    /\ thread[t].pc = "tools"
    /\ sandbox[thread[t].id]
    /\ ToolAnswerLost(t)
    /\ Fault
    /\ UNCHANGED <<approvalVars, task, sandbox>>

-----------------------------------------------------------------------------

Reviewer ==
    /\ \/ \E a \in Approvals, x \in Artifacts : CreateApproval(a, x)
       \/ \E a \in Approvals : AnnounceToolApproval(a)
       \/ \E r \in Requests, a \in Approvals, d \in Decisions : BeginDecide(r, a, d)
       \/ \E r \in Requests : CommitDecide(r) \/ RefuseDecide(r)
    /\ UNCHANGED <<invocationVars, hostVars>>

Runtime ==
    /\ \/ \E t \in Threads : ThreadStep(t) \/ \E a \in Answers : Respond(t, a)
       \/ \E i \in Invocations : Age(i)
       \/ SweepSelect
       \/ SweepUpdate
    /\ UNCHANGED <<approvalVars, hostVars>>

Crash ==
    /\ Fault
    /\ \/ OrchestratorCrash /\ UNCHANGED invocationVars
       \/ RuntimeCrash /\ UNCHANGED approvalVars
    /\ UNCHANGED <<task, sandbox>>

Next ==
    \/ \E t \in Threads, i \in Invocations : Dispatch(t, i)
    \/ \E i \in Invocations, b \in BOOLEAN : AnswerArrives(i, b)
    \/ \E i \in Invocations, b \in BOOLEAN, s \in {"timed_out", "failed"} :
           AnswerIsLost(i, s, b)
    \/ \E t \in Threads :
           AskFails(t) \/ ToolsRun(t) \/ ToolRetried(t) \/ \E a \in Approvals : AskStored(t, a)
    \/ \E r \in Requests : ResumeFails(r) \/ \E t \in Threads : ResumeArrives(r, t)
    \/ Reviewer
    \/ Runtime
    \/ Crash

Spec == Init /\ [][Next]_vars

\* The orchestrator's background tasks and the runtime's threads run; a pool
\* with a free thread accepts a call.  Nobody has to decide, and nothing
\* calls the recovery endpoint.
ThreadRuns(t) ==
    \/ (ThreadStep(t) \/ \E a \in Answers : Respond(t, a)) /\ UNCHANGED <<approvalVars, hostVars>>
    \/ ToolsRun(t)
    \/ AskFails(t)
    \/ \E a \in Approvals : AskStored(t, a)

RequestRuns(r) ==
    \/ (CommitDecide(r) \/ RefuseDecide(r)) /\ UNCHANGED <<invocationVars, hostVars>>
    \/ ResumeFails(r)
    \/ \E t \in Threads : ResumeArrives(r, t)

FairSpec ==
    /\ Spec
    /\ \A t \in Threads : WF_vars(ThreadRuns(t))
    /\ \A r \in Requests : WF_vars(RequestRuns(r))

-----------------------------------------------------------------------------
(* Properties *)

Approved(i) == \E a \in Approvals : approval[a] = [target |-> i, decision |-> "approved"]
Rejected(i) == \E a \in Approvals : approval[a] = [target |-> i, decision |-> "rejected"]

\* Gated tool calls are dispatched at most once, and only when a reviewer has
\* approved and none has rejected them: two reviewers, an override, a sweep and
\* a resume may all be under way (resume_handler.resume takes no lock; the
\* orchestrator's locked decision and its single call make up for it).  They
\* are executed again only when the answer of an execution was lost
\* (HttpExecutionServiceClient.call_tool).
GatedCallsRunOnce ==
    \A i \in Invocations :
        /\ ran[i] <= 1
        /\ ran[i] = 1 => Approved(i) /\ ~Rejected(i)
        /\ executed[i] <= ran[i] + faults

\* What the reviewers say of an approval is a decision: of those who decide at
\* a time one does, its event is the only one, and an approval of tool calls
\* lets them be dispatched once, afterwards, across two services that take no
\* common lock.
Review == INSTANCE Decision
            WITH Subjects <- Approvals,
                 Outcomes <- Decided,
                 Open     <- "open",
                 Acting   <- {"approved"},
                 outcome  <- [a \in Approvals |-> IF approval[a].decision \in Decided
                                                    THEN approval[a].decision ELSE "open"],
                 told     <- [a \in Approvals |-> published[a]["decided"]],
                 acted    <- [a \in Approvals |-> IF approval[a].target \in Invocations
                                                    THEN ran[approval[a].target] ELSE 0]

ReviewIsDecision == Review!Spec

\* An invocation that has ended stays as it ended, unless it was the recovery
\* that ended it (the threads upsert what they have in memory; the recovery
\* updates only rows without completed_at).
EndIsFinal ==
    [][\A i \in Invocations :
          row[i].done /\ i \notin swept => row'[i] = row[i]]_vars

\* A task is completed only if its invocation is, for good: no sweep and no
\* resume takes the completion back (_finalize_execution acts on an answer that
\* execute saved before it gave it).
CompletedTaskHasCompletedInvocation ==
    \A i \in Invocations : task[i] = "completed" => row[i].status = "completed"

\* An invocation does not stay running: its loop ends it or pauses it, whatever
\* the model asks for, whichever tools fail or are retried and whoever resumes
\* it, because the turns of a loop and of its resumption are bounded and every
\* way out of them saves the row.  It stays only if the process that ran it died
\* and nobody runs it any more.
LoopsEnd ==
    \A i \in Invocations :
        row[i].status \in {"running", "waiting_tool"} ~>
            \/ row[i].done
            \/ row[i].status = "waiting_human"
            \/ Serving(i) = {} /\ faults > 0

-----------------------------------------------------------------------------
(* What the code does not keep *)

\* A decision takes effect: the invocation it is about ends.  Violated with Wired:
\* a background call that fails or dies with its process is not made again.
\* Without it no tool call's approval is ever stored, so none is decided.
DecisionTakesEffect ==
    \A i \in Invocations : (Approved(i) \/ Rejected(i)) ~> row[i].done

\* A pause reaches the reviewers (check_tool_approval_gate, step 3).  Violated:
\* without Wired by every pause, and with it when the request fails, which is
\* only logged.
PauseIsAsked ==
    \A i \in Invocations :
        row[i].status = "waiting_human" ~>
            (row[i].done \/ \E a \in Approvals : approval[a].target = i)

\* What the recovery has failed stays failed: violated by a slow loop's upsert.
RecoveryIsFinal ==
    [][\A i \in Invocations : i \in swept => row'[i] = row[i]]_vars

\* No tool in _GATED_TOOLS is dispatched without a decision on it: violated by
\* the turns after a resume.
NoUngatedCalls == ungated = {}

\* Approved tool calls are dispatched while the task that wants them runs:
\* violated, a pause has failed the task.
ApprovedCallsServeTheTask ==
    [][\A i \in Invocations : ran'[i] > ran[i] => task[i] = "running"]_vars
=============================================================================
