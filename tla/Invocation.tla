------------------------------ MODULE Invocation ------------------------------
(***************************************************************************)
(* The agent-runtime: invocation rows in PostgreSQL, the threads that run  *)
(* the model and tool loop, the resumption of a paused invocation, and the *)
(* recovery of stuck ones.                                                 *)
(*                                                                         *)
(* Every endpoint is a sync def, so each request has a thread of its own.  *)
(* A thread reads the row once, without a lock, keeps the entity in memory *)
(* and upserts all of it at every save; the recovery updates the row       *)
(* behind its back.                                                        *)
(*                                                                         *)
(* What the model answers, what a tool returns and whether the budget has  *)
(* run out are choices; the tokens, messages and latencies are left out.   *)
(***************************************************************************)
EXTENDS Naturals

CONSTANTS Invocations,  \* invocation ids
          Threads,         \* threads of the agent-runtime's pool
          MaxTurns,     \* MAX_TOOL_TURNS
          MaxToolTries, \* _MAX_RETRY_ATTEMPTS of the execution-service client
          ApprovalMode, \* TOOL_APPROVAL_MODE: "none", "warn" or "gate"
          Slow          \* may an execution outlast the stuck timeout?

ASSUME TurnAssumption == MaxTurns \in Nat \ {0} /\ MaxToolTries \in Nat \ {0}
ASSUME ModeAssumption == ApprovalMode \in {"none", "warn", "gate"}
ASSUME SlowAssumption == Slow \in BOOLEAN

InvocationStatus == {"initializing", "starting", "running", "waiting_human",
                     "waiting_tool", "completed", "failed", "timed_out",
                     "cancelled", "interrupted", "compensating", "compensated"}

\* _INVOCATION_TRANSITIONS
InvocationTransitions ==
    [initializing  |-> {"starting", "cancelled", "failed"},
     starting      |-> {"running", "failed", "cancelled"},
     running       |-> {"waiting_human", "waiting_tool", "completed", "failed",
                        "timed_out", "cancelled", "interrupted"},
     waiting_human |-> {"running", "failed", "cancelled", "interrupted"},
     waiting_tool  |-> {"running", "failed", "cancelled", "interrupted"},
     completed     |-> {},
     failed        |-> {"compensating"},
     timed_out     |-> {"compensating"},
     cancelled     |-> {},
     interrupted   |-> {"compensating"},
     compensating  |-> {"compensated", "failed"},
     compensated   |-> {}]

\* AgentInvocation._transition
CanInvocation(from, to) ==
    from \in InvocationStatus /\ to \in InvocationTransitions[from]

\* The statuses mark_completed, mark_failed, mark_timed_out and mark_cancelled
\* set completed_at with.
Ended == {"completed", "failed", "timed_out", "cancelled"}

\* _STUCK_STATES
StuckStates == {"initializing", "starting", "running", "waiting_human", "waiting_tool"}

NoRow == [status |-> "none", done |-> FALSE]

\* A row: done says that completed_at is set.
Rows == [status : InvocationStatus, done : BOOLEAN]

\* ResumeInvocationBody.decision
ResumeDecisions == {"approved", "rejected", "override", "cancel"}

Modes == {"execute"} \cup ResumeDecisions

ThreadPc == {"read", "route", "resumed", "model", "ask", "tools", "artifact", "answer"}

\* A thread: the invocation it serves, what it was asked for, the status of
\* the entity in its memory, the turns it has left, and whether the tool
\* calls at hand were gated.
Thread == [pc : ThreadPc, id : Invocations, mode : Modes, status : InvocationStatus,
           turns : 0..MaxTurns, gated : BOOLEAN]

IdleThread == [pc |-> "idle"]

VARIABLES
    row,        \* [Invocations -> Rows or NoRow]
    thread,     \* [Threads -> Thread or IdleThread]
    old,        \* invocations started more than the stuck timeout ago
    sweep,      \* invocations an open recovery transaction has selected
    swept,      \* invocations the recovery has failed
    ran,        \* [Invocations -> dispatches of the gated calls, counted to 2]
    executed,   \* [Invocations -> executions of the gated calls]
    ungated,    \* invocations that dispatched a gated tool nobody was asked about
    answer      \* [Invocations -> what the dispatching request got back]

invocationVars == <<row, thread, old, sweep, swept, ran, executed, ungated, answer>>

Answers == {"none", "completed", "failed", "timed_out", "waiting_human"}

\* The table agent_invocations: get_by_id finds a row or nothing.
InvocationRows == [Invocations -> Rows \cup {NoRow}]

InvocationTypeOK ==
    /\ row \in InvocationRows
    /\ thread \in [Threads -> Thread \cup {IdleThread}]
    /\ old \subseteq Invocations
    /\ sweep \subseteq Invocations
    /\ swept \subseteq Invocations
    /\ ran \in [Invocations -> 0..2]
    /\ executed \in [Invocations -> 0..MaxToolTries]
    /\ ungated \subseteq Invocations
    /\ answer \in [Invocations -> Answers]

InvocationInit ==
    /\ row = [i \in Invocations |-> NoRow]
    /\ thread = [t \in Threads |-> IdleThread]
    /\ old = {}
    /\ sweep = {}
    /\ swept = {}
    /\ ran = [i \in Invocations |-> 0]
    /\ executed = [i \in Invocations |-> 0]
    /\ ungated = {}
    /\ answer = [i \in Invocations |-> "none"]

Serving(i) == {t \in Threads : thread[t].pc # "idle" /\ thread[t].id = i}

\* save_with_event: the transition to status, the upsert of the whole row and
\* the event, in one transaction.  The thread goes on at pc.
Save(t, status, pc) ==
    /\ CanInvocation(thread[t].status, status)
    /\ row' = [row EXCEPT ![thread[t].id] =
                  [status |-> status, done |-> status \in Ended]]
    /\ thread' = [thread EXCEPT ![t].status = status, ![t].pc = pc]

\* resume_from_wait without a save.
Mark(t, status, pc) ==
    /\ CanInvocation(thread[t].status, status)
    /\ thread' = [thread EXCEPT ![t].status = status, ![t].pc = pc]
    /\ UNCHANGED row

\* Variables the threads' steps leave alone.
sweeping == <<old, sweep, swept>>

-----------------------------------------------------------------------------
(* execute_invocation *)

\* ExecuteInvocationHandler.execute up to the first save: the entity is
\* created, marked starting and running, and inserted.
ExecuteStart(t, i) ==
    /\ thread[t] = IdleThread
    /\ row[i] = NoRow
    /\ row' = [row EXCEPT ![i] = [status |-> "running", done |-> FALSE]]
    /\ thread' = [thread EXCEPT ![t] =
          [pc |-> "model", id |-> i, mode |-> "execute", status |-> "running",
           turns |-> MaxTurns, gated |-> FALSE]]
    /\ UNCHANGED <<sweeping, ran, executed, ungated, answer>>

\* The first test of a turn: the budget is used up.
BudgetExhausted(t) ==
    /\ thread[t].pc = "model"
    /\ thread[t].turns > 0
    /\ Save(t, "timed_out", "answer")
    /\ UNCHANGED <<sweeping, ran, executed, ungated, answer>>

\* handle_gateway_error: a TIMEOUT of run_tool_loop's call is timed_out; the
\* loops that continue after a resume fail whatever the error.
GatewayVerdicts(mode) == IF mode = "execute" THEN {"timed_out", "failed"} ELSE {"failed"}

\* The call of the model fails, after its retries.
GatewayFails(t) ==
    /\ thread[t].pc = "model"
    /\ thread[t].turns > 0
    /\ \E status \in GatewayVerdicts(thread[t].mode) : Save(t, status, "answer")
    /\ UNCHANGED <<sweeping, ran, executed, ungated, answer>>

\* validate_tool_calls keeps none of the calls.  After an override the loop
\* just ends, as with an answer.
MalformedCalls(t) ==
    /\ thread[t].pc = "model"
    /\ thread[t].turns > 0
    /\ thread[t].mode # "override"
    /\ Save(t, "failed", "answer")
    /\ UNCHANGED <<sweeping, ran, executed, ungated, answer>>

\* The model answers without tool calls, or the turns are used up.
Complete(t) ==
    /\ thread[t].pc = "model"
    /\ Save(t, "completed", IF thread[t].mode = "execute" THEN "artifact" ELSE "answer")
    /\ UNCHANGED <<sweeping, ran, executed, ungated, answer>>

\* evaluate_tool_approval: the policy's word on a turn; risky says that one of
\* its tools is in _GATED_TOOLS.
ToolPolicy(risky) ==
    IF ~risky \/ ApprovalMode = "none" THEN "allow" ELSE ApprovalMode

\* check_tool_approval_gate: a gated tool pauses the whole turn.  Only
\* run_tool_loop calls it.
TurnIsGated(t) ==
    /\ thread[t].pc = "model"
    /\ thread[t].turns > 0
    /\ thread[t].mode = "execute"
    /\ ToolPolicy(TRUE) = "gate"
    /\ Save(t, "waiting_human", "ask")
    /\ UNCHANGED <<sweeping, ran, executed, ungated, answer>>

\* Mutant: the loop is not bounded.
TurnCallsToolsForever(t, risky) ==
    /\ thread[t].pc = "model"
    /\ thread[t].turns > 0
    /\ thread[t].mode = "execute" => ToolPolicy(risky) # "gate"
    /\ CanInvocation(thread[t].status, "waiting_tool")
    /\ row' = [row EXCEPT ![thread[t].id] = [status |-> "waiting_tool", done |-> FALSE]]
    /\ thread' = [thread EXCEPT ![t].status = "waiting_tool", ![t].pc = "tools",
                                ![t].gated = FALSE]
    /\ ungated' = IF risky THEN ungated \cup {thread[t].id} ELSE ungated
    /\ UNCHANGED <<sweeping, ran, executed, answer>>

\* Tool calls that are dispatched at once: of ungated tools, or, when the loop
\* was resumed, of any tool.
TurnCallsTools(t, risky) ==
    /\ thread[t].pc = "model"
    /\ thread[t].turns > 0
    /\ thread[t].mode = "execute" => ToolPolicy(risky) # "gate"
    /\ CanInvocation(thread[t].status, "waiting_tool")
    /\ row' = [row EXCEPT ![thread[t].id] = [status |-> "waiting_tool", done |-> FALSE]]
    /\ thread' = [thread EXCEPT ![t].status = "waiting_tool", ![t].pc = "tools",
                                ![t].turns = @ - 1, ![t].gated = FALSE]
    /\ ungated' = IF risky THEN ungated \cup {thread[t].id} ELSE ungated
    /\ UNCHANGED <<sweeping, ran, executed, answer>>

\* execute_tool, in _dispatch_tools or its copies after a resume: at least one
\* tool succeeds.  Only run_tool_loop saves the entity it has marked running.
ToolsSucceed(t) ==
    /\ thread[t].pc = "tools"
    /\ thread[t].gated => executed[thread[t].id] < MaxToolTries
    /\ IF thread[t].mode = "execute" THEN Save(t, "running", "model")
                                     ELSE Mark(t, "running", "model")
    /\ executed' = [executed EXCEPT ![thread[t].id] = IF thread[t].gated THEN @ + 1 ELSE @]
    /\ UNCHANGED <<sweeping, ran, ungated, answer>>

\* HttpExecutionServiceClient.call_tool: the tool has run, the answer is lost
\* or is a 503, and the call will be made again.
ToolAnswerLost(t) ==
    /\ thread[t].pc = "tools"
    /\ thread[t].gated
    /\ executed[thread[t].id] < MaxToolTries
    /\ executed' = [executed EXCEPT ![thread[t].id] = @ + 1]
    /\ UNCHANGED <<row, thread, sweeping, ran, ungated, answer>>

\* All tools of the turn fail.  The loop that continues after a resume does
\* not look: it goes on.
ToolsFail(t) ==
    /\ thread[t].pc = "tools"
    /\ IF thread[t].mode = "execute" \/ thread[t].gated
       THEN Save(t, "failed", "answer")
       ELSE Mark(t, "running", "model")
    /\ UNCHANGED <<sweeping, ran, executed, ungated, answer>>

\* create_artifact_best_effort: the outcome is logged, never propagated.
StoreArtifact(t) ==
    /\ thread[t].pc = "artifact"
    /\ thread' = [thread EXCEPT ![t].pc = "answer"]
    /\ UNCHANGED <<row, sweeping, ran, executed, ungated, answer>>

\* The request for approval has been made, or has failed.
Asked(t) ==
    /\ thread[t].pc = "ask"
    /\ thread' = [thread EXCEPT ![t].pc = "answer"]
    /\ UNCHANGED <<row, sweeping, ran, executed, ungated, answer>>

\* The status of the response.  handle_budget_exhausted answers failed for an
\* invocation it has marked timed_out, handle_gateway_error answers timed_out.
Responses(status) == IF status = "timed_out" THEN {"timed_out", "failed"} ELSE {status}

\* The response of an execution; that of a resume is only logged.
Respond(t, response) ==
    /\ thread[t].pc = "answer"
    /\ response \in Responses(thread[t].status)
    /\ answer' = IF thread[t].mode = "execute"
                 THEN [answer EXCEPT ![thread[t].id] = response]
                 ELSE answer
    /\ thread' = [thread EXCEPT ![t] = IdleThread]
    /\ UNCHANGED <<row, sweeping, ran, executed, ungated>>

-----------------------------------------------------------------------------
(* resume_invocation *)

\* ResumeInvocationHandler.resume reads the row, without a lock.
ResumeRead(t, i, decision) ==
    /\ thread[t] = IdleThread
    /\ row[i] # NoRow
    /\ thread' = [thread EXCEPT ![t] =
          [pc |-> "route", id |-> i, mode |-> decision, status |-> row[i].status,
           turns |-> MaxTurns - 1, gated |-> FALSE]]
    /\ UNCHANGED <<row, sweeping, ran, executed, ungated, answer>>

\* resume: the invocation does not wait for a human (INVALID_STATE).
RefuseResume(t) ==
    /\ thread[t].pc = "route"
    /\ thread[t].status # "waiting_human"
    /\ thread' = [thread EXCEPT ![t] = IdleThread]
    /\ UNCHANGED <<row, sweeping, ran, executed, ungated, answer>>

\* _handle_rejected and _handle_cancel.
Deny(t) ==
    /\ thread[t].pc = "route"
    /\ thread[t].status = "waiting_human"
    /\ thread[t].mode \in {"rejected", "cancel"}
    /\ Save(t, IF thread[t].mode = "rejected" THEN "failed" ELSE "cancelled", "answer")
    /\ UNCHANGED <<sweeping, ran, executed, ungated, answer>>

\* handle_approved and handle_override, to their first save.
Grant(t) ==
    /\ thread[t].pc = "route"
    /\ thread[t].status = "waiting_human"
    /\ thread[t].mode \in {"approved", "override"}
    /\ Save(t, "running", IF thread[t].mode = "approved" THEN "resumed" ELSE "model")
    /\ UNCHANGED <<sweeping, ran, executed, ungated, answer>>

\* handle_approved: the gated tool calls are about to be dispatched.
DispatchGated(t) ==
    /\ thread[t].pc = "resumed"
    /\ CanInvocation(thread[t].status, "waiting_tool")
    /\ row' = [row EXCEPT ![thread[t].id] = [status |-> "waiting_tool", done |-> FALSE]]
    /\ thread' = [thread EXCEPT ![t].status = "waiting_tool", ![t].pc = "tools",
                                ![t].gated = TRUE]
    /\ ran' = [ran EXCEPT ![thread[t].id] = IF @ < 2 THEN @ + 1 ELSE @]
    /\ UNCHANGED <<sweeping, executed, ungated, answer>>

-----------------------------------------------------------------------------
(* Time, recovery and crashes *)

\* The stuck timeout (300 s from started_at) passes.  It is longer than the
\* budget of an execution (120 s) and its last call, so unless Slow an
\* invocation does not get old while a thread works on it.  The time a
\* human takes counts: started_at is not set again by a resume.
Age(i) ==
    /\ row[i] # NoRow
    /\ i \notin old
    /\ Slow \/ Serving(i) = {}
    /\ old' = old \cup {i}
    /\ UNCHANGED <<row, thread, sweep, swept, ran, executed, ungated, answer>>

Stuck(i) == row[i].status \in StuckStates /\ ~row[i].done /\ i \in old

\* recover_stuck_invocations, the SELECT.
SweepSelect ==
    /\ sweep = {}
    /\ sweep' = {i \in Invocations : Stuck(i)}
    /\ sweep' # {}
    /\ UNCHANGED <<row, thread, old, swept, ran, executed, ungated, answer>>

\* Mutant: the UPDATE without AND completed_at IS NULL.
SweepUpdateAll ==
    /\ sweep # {}
    /\ row' = [i \in Invocations |->
                  IF i \in sweep THEN [status |-> "failed", done |-> TRUE] ELSE row[i]]
    /\ swept' = swept \cup sweep
    /\ sweep' = {}
    /\ UNCHANGED <<thread, old, ran, executed, ungated, answer>>

\* recover_stuck_invocations: the UPDATEs, WHERE completed_at IS NULL, and the
\* commit.  Neither the status nor the age is looked at again, and no event
\* is written.
SweepUpdate ==
    /\ sweep # {}
    /\ LET hit == {i \in sweep : ~row[i].done}
       IN /\ row' = [i \in Invocations |->
                        IF i \in hit THEN [status |-> "failed", done |-> TRUE] ELSE row[i]]
          /\ swept' = swept \cup hit
    /\ sweep' = {}
    /\ UNCHANGED <<thread, old, ran, executed, ungated, answer>>

\* The process dies with all its threads.
RuntimeCrash ==
    /\ \E t \in Threads : thread[t] # IdleThread
    /\ thread' = [t \in Threads |-> IdleThread]
    /\ sweep' = {}
    /\ UNCHANGED <<row, old, swept, ran, executed, ungated, answer>>

-----------------------------------------------------------------------------
(* The endpoints, as the steps of the thread that serves them *)

\* run_tool_loop: every turn asks the gate.
RunToolLoop(t) ==
    /\ thread[t].mode = "execute"
    /\ \/ BudgetExhausted(t) \/ GatewayFails(t) \/ MalformedCalls(t)
       \/ TurnIsGated(t)
       \/ \E risky \in BOOLEAN : TurnCallsTools(t, risky)
       \/ ToolsFail(t)

\* _continue_model_loop: no turn asks the gate, and a turn whose tools all
\* fail does not end the loop.
ContinueModelLoop(t) ==
    /\ thread[t].mode = "approved"
    /\ \/ BudgetExhausted(t) \/ GatewayFails(t) \/ MalformedCalls(t)
       \/ \E risky \in BOOLEAN : TurnCallsTools(t, risky)
       \/ ToolsFail(t)

\* The same loop in handle_override.
OverrideLoop(t) ==
    /\ thread[t].mode = "override"
    /\ \/ BudgetExhausted(t) \/ GatewayFails(t)
       \/ \E risky \in BOOLEAN : TurnCallsTools(t, risky)
       \/ ToolsFail(t)

\* resume: by status, then by decision.
Resume(t) ==
    RefuseResume(t) \/ Deny(t) \/ Grant(t) \/ DispatchGated(t)

\* What a thread does by itself, whatever it is asked.
ThreadStep(t) ==
    \/ thread[t].pc \in {"model", "tools"} /\
           (RunToolLoop(t) \/ ContinueModelLoop(t) \/ OverrideLoop(t))
    \/ Complete(t)
    \/ StoreArtifact(t)
    \/ Resume(t)
=============================================================================
