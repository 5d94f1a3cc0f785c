------------------------------- MODULE Workspace -------------------------------
(***************************************************************************)
(* Workspaces, their members and their policies: a request on its way      *)
(* through the api-gateway, the policy-service and the workspace-service.  *)
(*                                                                         *)
(* The gateway asks the workspace-service for the role of the user, then   *)
(* the policy-service whether that role and the workspace's rules allow    *)
(* the operation, and then forwards the request; the workspace-service     *)
(* looks at the role again before it writes.  Each of these reads is a     *)
(* transaction or a statement of its own, and other requests change roles  *)
(* and rules between them.                                                 *)
(***************************************************************************)
EXTENDS Naturals, FiniteSets

CONSTANTS Workspaces,   \* ids create_workspace may draw
          Users,        \* registered users
          Slugs,        \* slugs they ask for
          Requests,     \* requests that may be under way at once
          Granted,      \* bound: the roles that are given to members
          RuleLists,    \* bound: the lists of rules that policies are given
          MaxPolicies,  \* bound: policies of all workspaces
          PolicyLimit,  \* how many policies of a workspace are read (50)
          None          \* no value

Roles == {"owner", "admin", "editor", "viewer"}

Permissions == {"workspace:delete", "workspace:manage_members", "workspace:manage_policy"}

Rules == {"allow", "deny"} \X Permissions

ASSUME BoundsAssumption ==
    /\ Granted \subseteq Roles /\ RuleLists \subseteq SUBSET Rules
    /\ MaxPolicies \in Nat /\ PolicyLimit \in Nat \ {0}

\* None is not a role, a user or a slug, and no slug reads as a deletion.
ASSUME NamesAssumption == None \notin Roles \cup Users \cup Slugs /\ "deleted" \notin Slugs

VARIABLES
    workspace,  \* [Workspaces -> the slug of its row, None before, "deleted" after]
    role,       \* [Workspaces -> [Users -> role of a row of members, or None]]
    policy,     \* [Policies -> [ws, rules] of a row of policies, or None]
    told,       \* [Workspaces -> [Users -> role]], as the outbox's events tell it
    request     \* [Requests -> the request of this slot]

vars == <<workspace, role, policy, told, request>>

\* Policies are numbered by their created_at, which orders them.
Policies == 1..MaxPolicies

Op(kind, w, u, x) == [kind |-> kind, ws |-> w, who |-> u, what |-> x]

\* What requests ask for; None is no operation.
Ops == {Op("create", w, None, n) : w \in Workspaces, n \in Slugs}
       \cup {Op("delete", w, None, None) : w \in Workspaces}
       \cup {Op(k, w, u, r) : k \in {"invite", "setrole"}, w \in Workspaces,
                              u \in Users, r \in Granted}
       \cup {Op("remove", w, u, None) : w \in Workspaces, u \in Users}
       \cup {Op(k, w, p, x) : k \in {"addPolicy", "patchPolicy"}, w \in Workspaces,
                              p \in Policies, x \in RuleLists}

ASSUME NoOpAssumption == None \notin Ops

\* sent: the token is verified; known: the gateway knows the role; forwarded:
\* the gateway has let the request through; checked: the service is about to
\* write; done: it has taken effect; error: a constraint was violated.  A request
\* that is refused is over.
Stages == {"idle", "sent", "known", "forwarded", "checked", "done", "error"}

\* role is what the gateway has read.  led, free and asked tell of the time
\* since the request was sent: was its user once an owner or admin, was its
\* permission once under no deny rule that is read, has the policy-service
\* allowed it?
Request == [stage : Stages, user : Users \cup {None}, op : Ops \cup {None},
            role : Roles \cup {None}, led : BOOLEAN, free : BOOLEAN, asked : BOOLEAN]

Idle == [stage |-> "idle", user |-> None, op |-> None, role |-> None,
         led |-> FALSE, free |-> FALSE, asked |-> FALSE]

\* The tables workspaces, workspace_members and policies, and the outbox, of
\* which only what it tells about the members matters.
WorkspaceRows == [Workspaces -> Slugs \cup {None, "deleted"}]
MemberRows    == [Workspaces -> [Users -> Roles \cup {None}]]
PolicyRows    == [Policies -> [ws : Workspaces, rules : RuleLists] \cup {None}]
Outbox        == [Workspaces -> [Users -> Roles \cup {None}]]

TypeOK ==
    /\ workspace \in WorkspaceRows
    /\ role \in MemberRows
    /\ policy \in PolicyRows
    /\ told \in Outbox
    /\ request \in [Requests -> Request]

Nobody == [u \in Users |-> None]

Init ==
    /\ workspace = [w \in Workspaces |-> None]
    /\ role = [w \in Workspaces |-> Nobody]
    /\ policy = [p \in Policies |-> None]
    /\ told = [w \in Workspaces |-> Nobody]
    /\ request = [q \in Requests |-> Idle]

Exists(w) == workspace[w] \in Slugs

-----------------------------------------------------------------------------
(* Roles, permissions and rules *)

Leads(r) == r \in {"owner", "admin"}

\* PERMISSION_MAP of the gateway.
Permission(op) ==
    CASE op.kind = "delete" -> "workspace:delete"
      [] op.kind \in {"invite", "setrole", "remove"} -> "workspace:manage_members"
      [] op.kind \in {"addPolicy", "patchPolicy"} -> "workspace:manage_policy"

\* ROLE_PERMISSIONS of the policy-service.
RolePermissions(r) ==
    IF r = "owner" THEN Permissions
    ELSE IF r = "admin" THEN Permissions \ {"workspace:delete"} ELSE {}

\* Mutant: an allow rule is looked for first.
AllowWins(r, p, known) ==
    <<"allow", p>> \in known \/ (p \in RolePermissions(r) /\ <<"deny", p>> \notin known)

\* resolve_permission: a deny rule, then an allow rule, then the role.
Resolve(r, p, known) ==
    /\ <<"deny", p>> \notin known
    /\ <<"allow", p>> \in known \/ p \in RolePermissions(r)

\* find_policies_by_workspace: the oldest PolicyLimit policies of w.
FirstPolicies(w, rows) ==
    LET own == {p \in Policies : rows[p] # None /\ rows[p].ws = w}
    IN  {p \in own : Cardinality({o \in own : o < p}) < PolicyLimit}

\* The rules check_permission collects, by workspace.
RulesRead(rows) ==
    [w \in Workspaces |-> UNION {rows[p].rules : p \in FirstPolicies(w, rows)}]

-----------------------------------------------------------------------------
(* What was true while a request was under way *)

Witness(req, roles, known) ==
    [q \in Requests |->
        IF req[q].op = None \/ req[q].op.kind = "create" THEN req[q]
        ELSE LET w == req[q].op.ws
             IN  [req[q] EXCEPT
                    !.led = @ \/ Leads(roles[w][req[q].user]),
                    !.free = @ \/ <<"deny", Permission(req[q].op)>> \notin known[w]]]

\* The slot is free for another request.
Over(q) == [request EXCEPT ![q] = Idle]

-----------------------------------------------------------------------------
(* The gateway *)

\* A request arrives with a valid token.  A new workspace draws a fresh id; a new
\* policy is created after those that are there, and before or after those whose
\* requests overlap with this one.
Send(q, u, op) ==
    /\ request[q].stage = "idle"
    /\ op.kind = "create" => /\ workspace[op.ws] = None
                             /\ \A p \in Requests : request[p].op # None => request[p].op.ws # op.ws
    /\ op.kind # "create" => workspace[op.ws] # None
    /\ op.kind = "addPolicy" =>
          /\ \A p \in Policies : policy[p] # None => p < op.who
          /\ \A p \in Requests : request[p].op # None /\ request[p].op.kind = "addPolicy"
                                   => request[p].op.who # op.who
    /\ request' = Witness(
            [request EXCEPT ![q] = [Idle EXCEPT
                !.stage = IF op.kind = "create" THEN "forwarded" ELSE "sent",
                !.user = u, !.op = op]], role, RulesRead(policy))
    /\ UNCHANGED <<workspace, role, policy, told>>

\* check_permission_or_fail: the user's role, ...
ReadMember(q) ==
    /\ request[q].stage = "sent"
    /\ LET r == role[request[q].op.ws][request[q].user]
       IN  request' = IF r = None THEN Over(q)
                      ELSE [request EXCEPT ![q].stage = "known", ![q].role = r]
    /\ UNCHANGED <<workspace, role, policy, told>>

\* ... and the policy-service's decision on the rules it reads, which it has
\* logged.
AskPolicy(q) ==
    /\ request[q].stage = "known"
    /\ LET op == request[q].op
           allowed == Resolve(request[q].role, Permission(op), RulesRead(policy)[op.ws])
       IN  request' = IF allowed
                      THEN [request EXCEPT ![q].stage = "forwarded", ![q].role = None,
                                           ![q].asked = TRUE]
                      ELSE Over(q)
    /\ UNCHANGED <<workspace, role, policy, told>>

\* A service cannot be reached, or answers with an error: the gateway fails
\* closed.
Unavailable(q) ==
    /\ request[q].stage \in {"sent", "known"}
    /\ request' = Over(q)
    /\ UNCHANGED <<workspace, role, policy, told>>

-----------------------------------------------------------------------------
(* The services *)

\* Mutant: the service leaves the question to the gateway.
LeaveItToTheGateway(u, r, op) == r # None

\* The routes' own role checks; a member may remove itself.
MayWrite(u, r, op) ==
    CASE op.kind = "delete" -> r = "owner"
      [] op.kind = "remove" -> r # None /\ (op.who = u \/ Leads(r))
      [] op.kind \in {"invite", "setrole"} -> Leads(r)

\* What create_workspace and invite_member look for before they insert.
Conflict(op) ==
    CASE op.kind = "create" -> \E w \in Workspaces : workspace[w] = op.what
      [] op.kind = "invite" -> role[op.ws][op.who] # None
      [] OTHER -> FALSE

\* The reads of the workspace-service.  The policy routes read nothing.
Check(q) ==
    /\ request[q].stage = "forwarded"
    /\ LET op == request[q].op
           u == request[q].user
           allowed == \/ op.kind \in {"create", "addPolicy", "patchPolicy"}
                      \/ MayWrite(u, role[op.ws][u], op)
       IN  request' = IF allowed /\ ~Conflict(op)
                      THEN [request EXCEPT ![q].stage = "checked"] ELSE Over(q)
    /\ UNCHANGED <<workspace, role, policy, told>>

\* Mutant: members have no foreign key.
NoForeignKey(op) ==
    \/ op.kind = "create" /\ \E w \in Workspaces : workspace[w] = op.what
    \/ op.kind = "invite" /\ role[op.ws][op.who] # None

\* The unique slug, the unique member, the member's foreign key.
Violates(op) ==
    \/ op.kind = "create" /\ \E w \in Workspaces : workspace[w] = op.what
    \/ op.kind = "invite" /\ (role[op.ws][op.who] # None \/ ~Exists(op.ws))

\* An UPDATE or DELETE that finds no row: the 404s.
FindsNothing(op) ==
    \/ op.kind = "delete" /\ ~Exists(op.ws)
    \/ op.kind \in {"setrole", "remove"} /\ role[op.ws][op.who] = None
    \/ op.kind = "patchPolicy" /\ policy[op.who] = None

\* The members of the workspace once op is committed; the foreign key takes
\* them along with the workspace.
MembersAfter(user, op) ==
    CASE op.kind = "create" -> [Nobody EXCEPT ![user] = "owner"]
      [] op.kind = "delete" -> Nobody
      [] op.kind \in {"invite", "setrole"} -> [role[op.ws] EXCEPT ![op.who] = op.what]
      [] op.kind = "remove" -> [role[op.ws] EXCEPT ![op.who] = None]
      [] OTHER -> role[op.ws]

\* Mutant: removing a member is not announced.
TellsAdditions(user, op) ==
    CASE op.kind = "create" -> [Nobody EXCEPT ![user] = "owner"]
      [] op.kind = "delete" -> Nobody
      [] op.kind \in {"invite", "setrole"} -> [told[op.ws] EXCEPT ![op.who] = op.what]
      [] OTHER -> told[op.ws]

\* What a reader of the outbox makes of the event: workspace.created names the
\* owner, workspace.deleted ends every membership.
ToldAfter(user, op) ==
    CASE op.kind = "create" -> [Nobody EXCEPT ![user] = "owner"]
      [] op.kind = "delete" -> Nobody
      [] op.kind \in {"invite", "setrole"} -> [told[op.ws] EXCEPT ![op.who] = op.what]
      [] op.kind = "remove" -> [told[op.ws] EXCEPT ![op.who] = None]
      [] OTHER -> told[op.ws]

\* create_policy inserts a row.  update_policy replaces the rules of the row with
\* the policy's id; the route compares its workspace with the path's only after
\* the commit, and then answers 404.
PoliciesAfter(op) ==
    CASE op.kind = "addPolicy" ->
             [policy EXCEPT ![op.who] = [ws |-> op.ws, rules |-> op.what]]
      [] op.kind = "patchPolicy" ->
             [policy EXCEPT ![op.who] = [ws |-> policy[op.who].ws, rules |-> op.what]]
      [] OTHER -> policy

\* The transaction: rows and event are committed together, or nothing is.
Write(q) ==
    /\ request[q].stage = "checked"
    /\ LET op == request[q].op
           u == request[q].user
           w == op.ws
       IN  \/ /\ Violates(op)
              /\ request' = [request EXCEPT ![q].stage = "error"]
              /\ UNCHANGED <<workspace, role, policy, told>>
           \/ /\ ~Violates(op) /\ FindsNothing(op)
              /\ request' = Over(q)
              /\ UNCHANGED <<workspace, role, policy, told>>
           \/ /\ ~Violates(op) /\ ~FindsNothing(op)
              /\ workspace' = [workspace EXCEPT ![w] =
                    IF op.kind = "create" THEN op.what
                    ELSE IF op.kind = "delete" THEN "deleted" ELSE @]
              /\ role' = [role EXCEPT ![w] = MembersAfter(u, op)]
              /\ told' = [told EXCEPT ![w] = ToldAfter(u, op)]
              /\ policy' = PoliciesAfter(op)
              /\ request' = Witness([request EXCEPT ![q].stage = "done"], role', RulesRead(policy'))

\* The answer is read.
Answer(q) ==
    /\ request[q].stage \in {"done", "error"}
    /\ request' = Over(q)
    /\ UNCHANGED <<workspace, role, policy, told>>

-----------------------------------------------------------------------------
Handle(q) == ReadMember(q) \/ AskPolicy(q) \/ Unavailable(q) \/ Check(q) \/ Write(q) \/ Answer(q)

Next == \E q \in Requests :
    \/ \E u \in Users, op \in Ops : Send(q, u, op)
    \/ Handle(q)

Spec == Init /\ [][Next]_vars

-----------------------------------------------------------------------------
(* Properties *)

\* Of two requests for a slug that both find it free, one creates the
\* workspace.
SlugIsUnique ==
    \A v, w \in Workspaces : Exists(v) /\ workspace[v] = workspace[w] => v = w

\* Whoever reads the workspace-service's events knows who is in a workspace
\* and as what, however writes of several requests interleave.
EventsTellMembers == told = role

\* A workspace that is gone has no members, and an invitation on its way does
\* not bring one back.
GoneHasNoMembers == \A w \in Workspaces : ~Exists(w) => role[w] = Nobody

Applied(q) == request[q].stage = "done" /\ request[q].op.kind # "create"

\* Members are changed for somebody who was an owner or admin at some moment
\* of the request, whatever rules let it pass the gateway.
LedWhenApplied ==
    \A q \in Requests : Applied(q) /\ request[q].op.kind \in {"invite", "setrole", "delete"}
        => request[q].led

\* A deny rule that is among those check_permission reads from before the request
\* until its end is obeyed: nothing is applied that the policy-service has not
\* allowed at a moment when no such rule denied it, however policies are added
\* and patched meanwhile.
DenyHolds == \A q \in Requests : Applied(q) => request[q].free /\ request[q].asked

-----------------------------------------------------------------------------
(* What the code does not keep *)

\* A workspace has an owner: violated by the last owner's demotion or removal.
WorkspaceHasOwner == \A w \in Workspaces : Exists(w) => \E u \in Users : role[w][u] = "owner"

\* Two requests for one slug, or two invitations of one user, are told that it
\* is taken (409): violated, the loser's constraint error is a 500.
RacesAreConflicts == \A q \in Requests : request[q].stage # "error"

\* "Members can remove themselves": violated, the gateway asks for
\* workspace:manage_members.
MembersMayLeave ==
    \A q \in Requests :
        LET op == request[q].op IN
        request[q].stage = "known" /\ op.kind = "remove" /\ op.who = request[q].user
        => \/ Resolve(request[q].role, Permission(op), RulesRead(policy)[op.ws])
           \/ <<"deny", Permission(op)>> \in RulesRead(policy)[op.ws]

\* Policies go with their workspace: violated, they are another service's.
GoneHasNoRules ==
    \A p \in Policies : policy[p] # None => workspace[policy[p].ws] # "deleted"

\* Every policy of a workspace counts: violated, only the first PolicyLimit do.
EveryPolicyCounts ==
    \A p \in Policies : policy[p] # None =>
        policy[p].rules \subseteq RulesRead(policy)[policy[p].ws]

\* A policy is changed only through its own workspace: violated by a PATCH whose
\* path names another one.
PoliciesAreSeparate ==
    [][\A p \in Policies : policy[p] # None /\ policy'[p] # policy[p] =>
          \E q \in Requests : request[q].stage = "checked"
                              /\ request[q].op.ws = policy[p].ws]_policy
=============================================================================
