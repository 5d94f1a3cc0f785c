------------------------------- MODULE Approval -------------------------------
(***************************************************************************)
(* Approval requests of the orchestrator: the aggregate, the transactions  *)
(* that create and decide it, and what a request does after its commit.    *)
(*                                                                         *)
(* A decision locks its row (SELECT ... FOR UPDATE) from the read to the   *)
(* commit, so BeginDecide and CommitDecide are two steps with the lock in  *)
(* between.  The call that resumes the invocation runs after the response, *)
(* as a background task of the same process: a crash loses it.             *)
(*                                                                         *)
(* The code creates approvals of artifacts (by a user) and of tool calls   *)
(* (by the agent-runtime).  The target types task, run and step are never  *)
(* created, and no code expires or cancels an approval.                    *)
(***************************************************************************)
EXTENDS Naturals

CONSTANTS Approvals,       \* approval ids
          Requests,        \* requests the orchestrator serves at a time
          Calls,           \* targets of tool_call approvals: invocation ids
          Artifacts        \* targets of artifact approvals

ASSUME TargetAssumption == Calls \cap Artifacts = {}

Targets == Calls \cup Artifacts

\* "none" is what an approval that does not exist is about.
ASSUME NamesAssumption == "none" \notin Targets

\* The states of ApprovalDecision the code reaches.
Pending  == "pending"
Decided  == {"approved", "rejected"}

\* decide_approval_endpoint: what a reviewer may send.
Decisions == {"approve", "reject", "override", "cancel"}

\* Mutant: an override is recorded as a rejection.
OverrideRejects(d) == IF d = "approve" THEN "approved" ELSE "rejected"

\* decide_approval_endpoint, then ApprovalRequest.approve or reject: an
\* override grants the approval, a cancel denies it.
Outcome(d) == IF d \in {"approve", "override"} THEN "approved" ELSE "rejected"

\* Mutant: the runtime is resumed without the decision.
RuntimeProceeds(d) == IF d \in {"override", "cancel"} THEN d ELSE "approved"

\* decide_approval_endpoint: what the agent-runtime is told.
RuntimeDecision(d) == IF d \in {"override", "cancel"} THEN d ELSE Outcome(d)

RuntimeDecisions == {"approved", "rejected", "override", "cancel"}

VARIABLES
    approval,   \* [Approvals -> Approval or NoApproval]
    request,    \* [Requests -> the decision a request is working on]
    creating,   \* tool approvals whose request is between its transactions
    published   \* [Approvals -> events in the outbox, by type]

approvalVars == <<approval, request, creating, published>>

NoApproval == [target |-> "none", decision |-> "none"]

Approval == [target : Targets, decision : {Pending} \cup Decided]

NoRequest == [pc |-> "idle"]

Request ==
         [pc : {"deciding"}, id : Approvals, decision : Decisions, seen : Approval]
    \cup [pc : {"background"}, target : Calls, decision : RuntimeDecisions]

EventTypes == {"requested", "tool_requested", "decided"}

\* Bound: an event is counted up to here, one more than may ever be written.
MaxEvents == 2

\* The table approval_requests.
ApprovalRows == [Approvals -> Approval \cup {NoApproval}]

ApprovalTypeOK ==
    /\ approval \in ApprovalRows
    /\ request \in [Requests -> Request \cup {NoRequest}]
    /\ creating \subseteq Approvals
    /\ published \in [Approvals -> [EventTypes -> 0..MaxEvents]]

ApprovalInit ==
    /\ approval = [a \in Approvals |-> NoApproval]
    /\ request = [r \in Requests |-> NoRequest]
    /\ creating = {}
    /\ published = [a \in Approvals |-> [e \in EventTypes |-> 0]]

\* uow.outbox.write of an event of approval a.
Published(a, e) ==
    [published EXCEPT ![a][e] = IF @ < MaxEvents THEN @ + 1 ELSE @]

-----------------------------------------------------------------------------
(* Creation *)

\* handle_create_approval: the row and approval.requested, one transaction.
Insert(a, x) ==
    /\ approval[a] = NoApproval
    /\ approval' = [approval EXCEPT ![a] = [target |-> x, decision |-> Pending]]
    /\ published' = Published(a, "requested")

\* create_approval_endpoint: a user asks for a review of an artifact.
CreateApproval(a, x) ==
    /\ x \in Artifacts
    /\ Insert(a, x)
    /\ UNCHANGED <<request, creating>>

\* create_tool_approval_endpoint, its first transaction.
CreateToolApproval(a, i) ==
    /\ Insert(a, i)
    /\ creating' = creating \cup {a}
    /\ UNCHANGED request

\* create_tool_approval_endpoint, its second transaction.
AnnounceToolApproval(a) ==
    /\ a \in creating
    /\ creating' = creating \ {a}
    /\ published' = Published(a, "tool_requested")
    /\ UNCHANGED <<approval, request>>

-----------------------------------------------------------------------------
(* Decision *)

LockHolders(a) == {r \in Requests : request[r].pc = "deciding" /\ request[r].id = a}

\* Mutant: get_by_id in the place of get_by_id_for_update.
BeginDecideUnlocked(r, a, d) ==
    /\ request[r] = NoRequest
    /\ approval[a] # NoApproval
    /\ request' = [request EXCEPT ![r] =
          [pc |-> "deciding", id |-> a, decision |-> d, seen |-> approval[a]]]
    /\ UNCHANGED <<approval, creating, published>>

\* handle_decide_approval: the read, which takes the row's lock.
BeginDecide(r, a, d) ==
    /\ request[r] = NoRequest
    /\ approval[a] # NoApproval
    /\ LockHolders(a) = {}
    /\ request' = [request EXCEPT ![r] =
          [pc |-> "deciding", id |-> a, decision |-> d, seen |-> approval[a]]]
    /\ UNCHANGED <<approval, creating, published>>

\* decide_approval_endpoint: the background task of a tool_call approval.
AfterDecision(x, d) ==
    IF x \in Calls
    THEN [pc |-> "background", target |-> x, decision |-> RuntimeDecision(d)]
    ELSE NoRequest

\* handle_decide_approval: the transition, approval.decided and the commit.
CommitDecide(r) ==
    /\ request[r].pc = "deciding"
    /\ request[r].seen.decision = Pending
    /\ LET a == request[r].id
           d == request[r].decision
           x == request[r].seen.target
       IN /\ approval' = [approval EXCEPT ![a] =
                             [target |-> x, decision |-> Outcome(d)]]
          /\ published' = Published(a, "decided")
          /\ request' = [request EXCEPT ![r] = AfterDecision(x, d)]
    /\ UNCHANGED creating

\* ApprovalRequest._transition raises TerminalStateError: 409.
RefuseDecide(r) ==
    /\ request[r].pc = "deciding"
    /\ request[r].seen.decision \in Decided
    /\ request' = [request EXCEPT ![r] = NoRequest]
    /\ UNCHANGED <<approval, creating, published>>

\* resume_invocation: the background task calls the agent-runtime, and logs
\* whatever comes back; a failed call is never retried.
CallResume(r) ==
    /\ request[r].pc = "background"
    /\ request' = [request EXCEPT ![r] = NoRequest]
    /\ UNCHANGED <<approval, creating, published>>

\* The process dies: open transactions roll back, background tasks are gone.
OrchestratorCrash ==
    /\ creating # {} \/ \E r \in Requests : request[r] # NoRequest
    /\ request' = [r \in Requests |-> NoRequest]
    /\ creating' = {}
    /\ UNCHANGED <<approval, published>>

-----------------------------------------------------------------------------
(* Properties *)

\* An approval is decided once: reviewers who decide at the same time get one
\* success and one 409, and one approval.decided is published
\* (get_by_id_for_update and ApprovalRequest._transition).
DecidedOnce ==
    \A a \in Approvals :
        published[a]["decided"] = IF approval[a].decision \in Decided THEN 1 ELSE 0

\* What the agent-runtime is told to do agrees with the decision that was
\* recorded: a tool runs or is overridden only under an approved request
\* (decide_approval_endpoint maps the four decisions to two, and back).
ResumeAgrees ==
    \A r \in Requests :
        request[r].pc = "background" =>
            \E a \in Approvals :
                /\ approval[a].target = request[r].target
                /\ approval[a].decision = "approved" <=>
                       request[r].decision \in {"approved", "override"}
=============================================================================
