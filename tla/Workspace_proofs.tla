---------------------------- MODULE Workspace_proofs ----------------------------
(***************************************************************************)
(* What is proved about workspaces, members and policies, for any number   *)
(* of users, workspaces and requests under way at once.                    *)
(*                                                                         *)
(* The argument is about one request at a time: as long as it is under     *)
(* way, what its record says of the time since it was sent (led, free) is  *)
(* true whenever it is true now, whoever has changed roles and policies in *)
(* between.  What a stage then needs to have seen stays seen.              *)
(***************************************************************************)
EXTENDS Workspace, TLAPS

\* The types of the variables are always expanded.
USE DEF WorkspaceRows, MemberRows, PolicyRows, Outbox

\* A request changes an existing workspace.
Changes(r) == r.op # None /\ r.op.kind # "create"

\* What has been true of a request includes what is true of it now.
Remembers(r, roles, known) ==
    Changes(r) =>
        /\ Leads(roles[r.op.ws][r.user]) => r.led
        /\ <<"deny", Permission(r.op)>> \notin known[r.op.ws] => r.free

\* What a stage has behind it.
StageOK(r) ==
    /\ r.stage # "idle" => r.op \in Ops /\ r.user \in Users
    /\ r.stage = "idle" => r = Idle
    /\ r.stage \in {"sent", "known"} => Changes(r)
    /\ Changes(r) /\ r.stage \in {"forwarded", "checked", "done"} => r.free /\ r.asked
    /\ Changes(r) /\ r.stage \in {"checked", "done"}
          /\ r.op.kind \in {"invite", "setrole", "delete"} => r.led

RequestOK(r, roles, known) == r \in Request /\ StageOK(r) /\ Remembers(r, roles, known)

\* The inductive invariant.
IInv ==
    /\ TypeOK
    /\ \A q \in Requests : RequestOK(request[q], role, RulesRead(policy))
    /\ EventsTellMembers
    /\ GoneHasNoMembers
    /\ SlugIsUnique

\* The fields of the operations.
LEMMA OpFields ==
    ASSUME NEW op \in Ops
    PROVE  /\ op.ws \in Workspaces
           /\ op.kind \in {"create", "delete", "invite", "setrole", "remove", "addPolicy", "patchPolicy"}
           /\ op.kind = "create" => op.what \in Slugs
           /\ op.kind \in {"invite", "setrole", "remove"} => op.who \in Users
           /\ op.kind \in {"invite", "setrole"} => op.what \in Granted
           /\ op.kind \in {"addPolicy", "patchPolicy"} =>
                 op.who \in Policies /\ op.what \in RuleLists
BY DEF Ops, Op

\* A free slot is as it should be.
LEMMA IdleIsOK ==
    ASSUME NEW roles, NEW known
    PROVE  RequestOK(Idle, roles, known)
BY NoOpAssumption DEF RequestOK, StageOK, Remembers, Changes, Idle, Request, Stages

\* Requests remember what becomes true of them.
LEMMA WitnessOK ==
    ASSUME NEW req \in [Requests -> Request], NEW roles, NEW known, NEW q \in Requests,
           StageOK(req[q])
    PROVE  RequestOK(Witness(req, roles, known)[q], roles, known)
<1> DEFINE r == req[q]
           w == r.op.ws
           s == Witness(req, roles, known)[q]
<1>1. r \in Request
  OBVIOUS
<1>2. CASE ~Changes(r)
  <2>1. s = r
    BY <1>2 DEF Witness, Changes
  <2> QED
    BY <1>1, <1>2, <2>1 DEF RequestOK, Remembers
<1>3. CASE Changes(r)
  <2>1. s = [r EXCEPT !.led = @ \/ Leads(roles[w][r.user]),
                      !.free = @ \/ <<"deny", Permission(r.op)>> \notin known[w]]
    BY <1>3 DEF Witness, Changes
  <2>2. /\ s.stage = r.stage /\ s.user = r.user /\ s.op = r.op
        /\ s.role = r.role /\ s.asked = r.asked
    BY <1>1, <2>1 DEF Request
  <2>3. /\ s.led = (r.led \/ Leads(roles[w][r.user]))
        /\ s.free = (r.free \/ <<"deny", Permission(r.op)>> \notin known[w])
    BY <1>1, <2>1 DEF Request
  <2>4. s \in Request
    BY <1>1, <2>1 DEF Request
  <2>5. r.stage # "idle"
    BY <1>3 DEF StageOK, Idle, Changes
  <2>6. StageOK(s)
    BY <1>3, <2>2, <2>3, <2>5 DEF StageOK, Changes
  <2> QED
    BY <2>2, <2>3, <2>4, <2>6 DEF RequestOK, Remembers
<1> QED
  BY <1>2, <1>3

-----------------------------------------------------------------------------
(* Steps that change one request only *)

\* When only slot q changes, and to a request that is as it should be, the
\* invariant holds.
LEMMA OneRequest ==
    ASSUME IInv, NEW q \in Requests, NEW r,
           RequestOK(r, role, RulesRead(policy)),
           request' = [request EXCEPT ![q] = r],
           UNCHANGED <<workspace, role, policy, told>>
    PROVE  IInv'
<1>1. \A p \in Requests : request'[p] = IF p = q THEN r ELSE request[p]
  BY DEF IInv, TypeOK
<1>2. \A p \in Requests : RequestOK(request'[p], role, RulesRead(policy))
  BY <1>1 DEF IInv
<1>3. (\A p \in Requests : RequestOK(request[p], role, RulesRead(policy)))'
  BY <1>2
<1>4. TypeOK'
  <2>1. r \in Request
    BY DEF RequestOK
  <2> QED
    BY <2>1 DEF IInv, TypeOK, Request, Exists
<1> QED
  BY <1>3, <1>4 DEF IInv, EventsTellMembers, GoneHasNoMembers, SlugIsUnique, Exists

LEMMA OverKeeps ==
    ASSUME IInv, NEW q \in Requests, request' = Over(q),
           UNCHANGED <<workspace, role, policy, told>>
    PROVE  IInv'
BY OneRequest, IdleIsOK DEF Over

LEMMA ReadMemberKeeps ==
    ASSUME IInv, NEW q \in Requests, ReadMember(q)
    PROVE  IInv'
<1> DEFINE r == role[request[q].op.ws][request[q].user]
           s == [request[q] EXCEPT !.stage = "known", !.role = r]
<1>1. CASE r = None
  BY <1>1, OverKeeps DEF ReadMember
<1>2. CASE r # None
  <2>1. request' = [request EXCEPT ![q] = s]
    BY <1>2 DEF ReadMember, IInv, TypeOK, Request
  <2>2. RequestOK(request[q], role, RulesRead(policy)) /\ request[q].stage = "sent"
    BY DEF ReadMember, IInv
  <2>3. request[q].op \in Ops /\ request[q].user \in Users /\ Changes(request[q])
    BY <2>2 DEF RequestOK, StageOK
  <2>4. r \in Roles \cup {None}
    BY <2>3, OpFields DEF IInv, TypeOK
  <2>5. request[q] \in Request
    BY <2>2 DEF RequestOK
  <2>6. s \in Request
    BY <2>4, <2>5 DEF Request, Stages
  <2>7. /\ s.stage = "known" /\ s.user = request[q].user /\ s.op = request[q].op
        /\ s.led = request[q].led /\ s.free = request[q].free
    BY <2>5 DEF Request
  <2>8. StageOK(s)
    BY <2>3, <2>7 DEF StageOK, Changes
  <2>9. Remembers(s, role, RulesRead(policy))
    BY <2>2, <2>7 DEF RequestOK, Remembers, Changes
  <2> QED
    BY <2>1, <2>6, <2>8, <2>9, OneRequest DEF RequestOK, ReadMember
<1> QED
  BY <1>1, <1>2

LEMMA AskPolicyKeeps ==
    ASSUME IInv, NEW q \in Requests, AskPolicy(q)
    PROVE  IInv'
<1> DEFINE r == request[q]
           allowed == Resolve(r.role, Permission(r.op), RulesRead(policy)[r.op.ws])
           s == [r EXCEPT !.stage = "forwarded", !.role = None, !.asked = TRUE]
<1>1. CASE ~allowed
  BY <1>1, OverKeeps DEF AskPolicy
<1>2. CASE allowed
  <2>1. request' = [request EXCEPT ![q] = s]
    BY <1>2 DEF AskPolicy, IInv, TypeOK, Request
  <2>2. RequestOK(r, role, RulesRead(policy)) /\ r.stage = "known"
    BY DEF AskPolicy, IInv
  <2>3. r.op \in Ops /\ r.user \in Users /\ Changes(r) /\ r \in Request
    BY <2>2 DEF RequestOK, StageOK
  <2>4. r.free
    BY <1>2, <2>2, <2>3 DEF Resolve, RequestOK, Remembers
  <2>5. s \in Request
    BY <2>3 DEF Request, Stages
  <2>6. /\ s.stage = "forwarded" /\ s.user = r.user /\ s.op = r.op
        /\ s.led = r.led /\ s.free = r.free /\ s.asked = TRUE
    BY <2>3 DEF Request
  <2>7. StageOK(s)
    BY <2>3, <2>4, <2>6 DEF StageOK, Changes
  <2>8. Remembers(s, role, RulesRead(policy))
    BY <2>2, <2>6 DEF RequestOK, Remembers, Changes
  <2> QED
    BY <2>1, <2>5, <2>7, <2>8, OneRequest DEF RequestOK, AskPolicy
<1> QED
  BY <1>1, <1>2

\* The service lets only owners and admins invite, set roles and delete.
LEMMA CheckKeeps ==
    ASSUME IInv, NEW q \in Requests, Check(q)
    PROVE  IInv'
<1> DEFINE r == request[q]
           op == r.op
           allowed == \/ op.kind \in {"create", "addPolicy", "patchPolicy"}
                      \/ MayWrite(r.user, role[op.ws][r.user], op)
           s == [r EXCEPT !.stage = "checked"]
<1>1. CASE ~(allowed /\ ~Conflict(op))
  BY <1>1, OverKeeps DEF Check
<1>2. CASE allowed /\ ~Conflict(op)
  <2>1. request' = [request EXCEPT ![q] = s]
    BY <1>2 DEF Check, IInv, TypeOK, Request
  <2>2. RequestOK(r, role, RulesRead(policy)) /\ r.stage = "forwarded"
    BY DEF Check, IInv
  <2>3. op \in Ops /\ r.user \in Users /\ r \in Request
    BY <2>2 DEF RequestOK, StageOK
  <2>4. op.kind \in {"invite", "setrole", "delete"} => r.led
    <3> SUFFICES ASSUME op.kind \in {"invite", "setrole", "delete"} PROVE r.led
      OBVIOUS
    <3>1. MayWrite(r.user, role[op.ws][r.user], op)
      BY <1>2
    <3>2. Leads(role[op.ws][r.user])
      BY <3>1 DEF MayWrite, Leads
    <3>3. Changes(r)
      BY <2>3, NoOpAssumption DEF Changes
    <3> QED
      BY <2>2, <3>2, <3>3 DEF RequestOK, Remembers
  <2>5. s \in Request
    BY <2>3 DEF Request, Stages
  <2>6. /\ s.stage = "checked" /\ s.user = r.user /\ s.op = r.op
        /\ s.led = r.led /\ s.free = r.free /\ s.asked = r.asked
    BY <2>3 DEF Request
  <2>7. StageOK(s)
    BY <2>2, <2>3, <2>4, <2>6 DEF RequestOK, StageOK, Changes
  <2>8. Remembers(s, role, RulesRead(policy))
    BY <2>2, <2>6 DEF RequestOK, Remembers, Changes
  <2> QED
    BY <2>1, <2>5, <2>7, <2>8, OneRequest DEF RequestOK, Check
<1> QED
  BY <1>1, <1>2

-----------------------------------------------------------------------------
(* Steps that witness *)

\* A new request has seen what is true when it is sent.
LEMMA SendKeeps ==
    ASSUME IInv, NEW q \in Requests, NEW u \in Users, NEW op \in Ops, Send(q, u, op)
    PROVE  IInv'
<1> DEFINE first == IF op.kind = "create" THEN "forwarded" ELSE "sent"
           r == [Idle EXCEPT !.stage = first, !.user = u, !.op = op]
           req == [request EXCEPT ![q] = r]
<1>1. request' = Witness(req, role, RulesRead(policy))
  BY DEF Send
<1>2. /\ r.stage = first /\ r.user = u /\ r.op = op /\ r.role = None
      /\ r.led = FALSE /\ r.free = FALSE /\ r.asked = FALSE
  BY DEF Idle
<1>3. r \in Request
  BY DEF Idle, Request, Stages
<1>4. StageOK(r)
  BY <1>2, NoOpAssumption DEF StageOK, Changes
<1>5. req \in [Requests -> Request]
  BY <1>3 DEF IInv, TypeOK
<1>6. \A p \in Requests : StageOK(req[p])
  BY <1>4, <1>5 DEF IInv, RequestOK, TypeOK
<1>7. \A p \in Requests : RequestOK(request'[p], role, RulesRead(policy))
  BY <1>1, <1>5, <1>6, WitnessOK
<1>8. request' \in [Requests -> Request]
  BY <1>1, <1>7 DEF RequestOK, Witness
<1> QED
  BY <1>7, <1>8 DEF IInv, TypeOK, EventsTellMembers, GoneHasNoMembers, SlugIsUnique, Exists, Send

\* A transaction that applies an operation.
LEMMA ApplyKeeps ==
    ASSUME IInv, NEW q \in Requests, request[q].stage = "checked",
           NEW u, u = request[q].user, NEW op, op = request[q].op, NEW w, w = op.ws,
           ~Violates(op), ~FindsNothing(op),
           workspace' = [workspace EXCEPT ![w] =
                IF op.kind = "create" THEN op.what
                ELSE IF op.kind = "delete" THEN "deleted" ELSE @],
           role' = [role EXCEPT ![w] = MembersAfter(u, op)],
           told' = [told EXCEPT ![w] = ToldAfter(u, op)],
           policy' = PoliciesAfter(op),
           request' = Witness([request EXCEPT ![q].stage = "done"], role', RulesRead(policy'))
    PROVE  IInv'
<1>1. RequestOK(request[q], role, RulesRead(policy)) /\ request[q] \in Request /\ op \in Ops /\ u \in Users
  BY DEF IInv, RequestOK, StageOK
<1>2. w \in Workspaces
  BY <1>1, OpFields
<1>3. role[w] \in [Users -> Roles \cup {None}]
  BY <1>2 DEF IInv, TypeOK
<1>4. Nobody \in [Users -> Roles \cup {None}]
  BY DEF Nobody
<1>5. MembersAfter(u, op) \in [Users -> Roles \cup {None}]
  BY <1>1, <1>3, <1>4, OpFields, BoundsAssumption DEF MembersAfter, Roles
<1>6. role' \in [Workspaces -> [Users -> Roles \cup {None}]]
  BY <1>5 DEF IInv, TypeOK
<1>7. op.kind \in {"addPolicy", "patchPolicy"} =>
          op.who \in Policies /\ op.what \in RuleLists
  BY <1>1, OpFields
<1>8. policy' \in PolicyRows
  <2>1. policy \in [Policies -> [ws : Workspaces, rules : RuleLists] \cup {None}]
    BY DEF IInv, TypeOK
  <2>2. CASE op.kind = "addPolicy"
    BY <2>1, <2>2, <1>2, <1>7 DEF PoliciesAfter
  <2>3. CASE op.kind = "patchPolicy"
    <3>1. policy[op.who] \in [ws : Workspaces, rules : RuleLists]
      BY <2>1, <2>3, <1>7 DEF FindsNothing
    <3>2. [ws |-> policy[op.who].ws, rules |-> op.what] \in [ws : Workspaces, rules : RuleLists]
      BY <3>1, <2>3, <1>7
    <3> QED
      BY <2>1, <2>3, <3>2, <1>7 DEF PoliciesAfter
  <2>4. CASE op.kind \notin {"addPolicy", "patchPolicy"}
    BY <2>1, <2>4 DEF PoliciesAfter
  <2> QED
    BY <2>2, <2>3, <2>4
<1>9. workspace' \in [Workspaces -> Slugs \cup {None, "deleted"}]
  BY <1>1, <1>2, OpFields DEF IInv, TypeOK
<1>10. told' = role'
  <2>1. told = role
    BY DEF IInv, EventsTellMembers
  <2>2. ToldAfter(u, op) = MembersAfter(u, op)
    BY <2>1 DEF ToldAfter, MembersAfter
  <2> QED
    BY <2>1, <2>2
<1>11. \A v \in Workspaces : /\ v # w => workspace'[v] = workspace[v] /\ role'[v] = role[v]
                             /\ v = w => role'[v] = MembersAfter(u, op)
  BY DEF IInv, TypeOK
<1>12. workspace'[w] = IF op.kind = "create" THEN op.what
                       ELSE IF op.kind = "delete" THEN "deleted" ELSE workspace[w]
  BY <1>2 DEF IInv, TypeOK
<1>13. (\A v \in Workspaces : ~Exists(v) => role[v] = Nobody)'
  <2> SUFFICES ASSUME NEW v \in Workspaces, workspace'[v] \notin Slugs
               PROVE  role'[v] = Nobody
    BY DEF Exists, Nobody
  <2>1. CASE v # w
    BY <2>1, <1>11 DEF IInv, GoneHasNoMembers, Exists
  <2>2. CASE v = w
    <3>1. op.kind # "create"
      BY <2>2, <1>1, <1>12, OpFields
    <3>2. CASE op.kind = "delete"
      BY <3>2, <2>2, <1>11 DEF MembersAfter
    <3>3. CASE op.kind # "delete"
      <4>1. ~Exists(w)
        BY <2>2, <3>1, <3>3, <1>12 DEF Exists
      <4>2. role[w] = Nobody
        BY <4>1, <1>2 DEF IInv, GoneHasNoMembers
      <4>3. op.kind # "invite"
        BY <4>1 DEF Violates
      <4>4. op.kind \notin {"setrole", "remove"}
        BY <4>2, <1>1, OpFields DEF FindsNothing, Nobody
      <4>5. MembersAfter(u, op) = role[w]
        BY <3>1, <3>3, <4>3, <4>4, <1>1, OpFields DEF MembersAfter
      <4> QED
        BY <4>2, <4>5, <2>2, <1>11
    <3> QED
      BY <3>2, <3>3
  <2> QED
    BY <2>1, <2>2
<1>14. SlugIsUnique'
  <2> SUFFICES ASSUME NEW v \in Workspaces, NEW x \in Workspaces,
                      workspace'[v] \in Slugs, workspace'[v] = workspace'[x]
               PROVE  v = x
    BY DEF SlugIsUnique, Exists
  <2>1. CASE op.kind = "create"
    <3>1. \A y \in Workspaces : workspace[y] # op.what
      BY <2>1 DEF Violates
    <3> QED
      BY <2>1, <3>1, <1>11, <1>12 DEF IInv, SlugIsUnique, Exists
  <2>2. CASE op.kind = "delete"
    BY <2>2, <1>11, <1>12, NamesAssumption DEF IInv, SlugIsUnique, Exists
  <2>3. CASE op.kind \notin {"create", "delete"}
    BY <2>3, <1>11, <1>12 DEF IInv, SlugIsUnique, Exists
  <2> QED
    BY <2>1, <2>2, <2>3
<1>15. \A p \in Requests : RequestOK(request'[p], role', RulesRead(policy'))
  <2> DEFINE s == [request[q] EXCEPT !.stage = "done"]
             req == [request EXCEPT ![q] = s]
  <2>1. [request EXCEPT ![q].stage = "done"] = req
    BY DEF IInv, TypeOK, Request
  <2>2. s \in Request
    BY <1>1 DEF Request, Stages
  <2>3. /\ s.stage = "done" /\ s.user = request[q].user /\ s.op = request[q].op
        /\ s.led = request[q].led /\ s.free = request[q].free /\ s.asked = request[q].asked
    BY <1>1 DEF Request
  <2>4. StageOK(s)
    BY <1>1, <2>3 DEF RequestOK, StageOK, Changes
  <2>5. req \in [Requests -> Request]
    BY <2>2 DEF IInv, TypeOK
  <2>6. \A p \in Requests : StageOK(req[p])
    BY <2>4, <2>5 DEF IInv, RequestOK, TypeOK
  <2>7. request' = Witness(req, role', RulesRead(policy'))
    BY <2>1
  <2> QED
    BY <2>5, <2>6, <2>7, WitnessOK
<1>16. request' \in [Requests -> Request]
  BY <1>15 DEF RequestOK, Witness
<1>17. TypeOK'
  BY <1>6, <1>8, <1>9, <1>10, <1>16 DEF TypeOK
<1> QED
  BY <1>10, <1>13, <1>14, <1>15, <1>17 DEF IInv, EventsTellMembers, GoneHasNoMembers, Exists

LEMMA WriteKeeps ==
    ASSUME IInv, NEW q \in Requests, Write(q)
    PROVE  IInv'
<1> DEFINE op == request[q].op
           u == request[q].user
<1>1. CASE request' = [request EXCEPT ![q].stage = "error"]
           /\ UNCHANGED <<workspace, role, policy, told>>
  <2> DEFINE s == [request[q] EXCEPT !.stage = "error"]
  <2>1. request' = [request EXCEPT ![q] = s]
    BY <1>1 DEF IInv, TypeOK, Request
  <2>2. RequestOK(request[q], role, RulesRead(policy)) /\ request[q].stage = "checked"
    BY DEF Write, IInv
  <2>3. op \in Ops /\ u \in Users /\ request[q] \in Request
    BY <2>2 DEF RequestOK, StageOK
  <2>4. s \in Request
    BY <2>3 DEF Request, Stages
  <2>5. /\ s.stage = "error" /\ s.user = u /\ s.op = op
        /\ s.led = request[q].led /\ s.free = request[q].free
    BY <2>3 DEF Request
  <2>6. StageOK(s) /\ Remembers(s, role, RulesRead(policy))
    BY <2>2, <2>3, <2>5 DEF RequestOK, StageOK, Remembers, Changes
  <2> QED
    BY <1>1, <2>1, <2>4, <2>6, OneRequest DEF RequestOK
<1>2. CASE request' = Over(q) /\ UNCHANGED <<workspace, role, policy, told>>
  BY <1>2, OverKeeps
<1>3. CASE /\ ~Violates(op) /\ ~FindsNothing(op)
           /\ workspace' = [workspace EXCEPT ![op.ws] =
                IF op.kind = "create" THEN op.what
                ELSE IF op.kind = "delete" THEN "deleted" ELSE @]
           /\ role' = [role EXCEPT ![op.ws] = MembersAfter(u, op)]
           /\ told' = [told EXCEPT ![op.ws] = ToldAfter(u, op)]
           /\ policy' = PoliciesAfter(op)
           /\ request' = Witness([request EXCEPT ![q].stage = "done"], role', RulesRead(policy'))
  <2>1. request[q].stage = "checked"
    BY DEF Write
  <2> QED
    BY <1>3, <2>1, ApplyKeeps
<1> QED
  BY <1>1, <1>2, <1>3 DEF Write

-----------------------------------------------------------------------------
(* The theorems *)

LEMMA InitHolds == Init => IInv
<1> SUFFICES ASSUME Init PROVE IInv
  OBVIOUS
<1>1. TypeOK
  BY IdleIsOK DEF Init, TypeOK, Nobody, RequestOK
<1>2. \A q \in Requests : RequestOK(request[q], role, RulesRead(policy))
  BY IdleIsOK DEF Init
<1> QED
  BY <1>1, <1>2, NamesAssumption
     DEF Init, IInv, EventsTellMembers, GoneHasNoMembers, SlugIsUnique, Exists

LEMMA NextKeeps == IInv /\ [Next]_vars => IInv'
<1> SUFFICES ASSUME IInv, [Next]_vars PROVE IInv'
  OBVIOUS
<1>1. ASSUME NEW q \in Requests, NEW u \in Users, NEW op \in Ops, Send(q, u, op)
      PROVE  IInv'
  BY <1>1, SendKeeps
<1>2. ASSUME NEW q \in Requests, Handle(q)
      PROVE  IInv'
  <2>1. CASE ReadMember(q)
    BY <2>1, ReadMemberKeeps
  <2>2. CASE AskPolicy(q)
    BY <2>2, AskPolicyKeeps
  <2>3. CASE Unavailable(q)
    BY <2>3, OverKeeps DEF Unavailable
  <2>4. CASE Check(q)
    BY <2>4, CheckKeeps
  <2>5. CASE Write(q)
    BY <2>5, WriteKeeps
  <2>6. CASE Answer(q)
    BY <2>6, OverKeeps DEF Answer
  <2> QED
    BY <1>2, <2>1, <2>2, <2>3, <2>4, <2>5, <2>6 DEF Handle
<1>3. CASE UNCHANGED vars
  BY <1>3 DEF vars, IInv, TypeOK, RequestOK, Remembers, EventsTellMembers, GoneHasNoMembers,
              SlugIsUnique, Exists
<1> QED
  BY <1>1, <1>2, <1>3 DEF Next

THEOREM Invariance == Spec => []IInv
BY InitHolds, NextKeeps, PTL DEF Spec

\* Type correctness of requests, rows and rules.
THEOREM TypeCorrect == Spec => []TypeOK
<1>1. IInv => TypeOK
  BY DEF IInv
<1> QED
  BY <1>1, Invariance, PTL

\* The slug check is made before the insert and without a lock; the unique
\* column decides.
THEOREM UniqueSlugs == Spec => []SlugIsUnique
<1>1. IInv => SlugIsUnique
  BY DEF IInv
<1> QED
  BY <1>1, Invariance, PTL

\* Rows and events of the workspace-service tell the same members.
THEOREM EventsAgree == Spec => []EventsTellMembers
<1>1. IInv => EventsTellMembers
  BY DEF IInv
<1> QED
  BY <1>1, Invariance, PTL

\* An invitation on its way does not bring a deleted workspace's member back.
THEOREM GoneIsEmpty == Spec => []GoneHasNoMembers
<1>1. IInv => GoneHasNoMembers
  BY DEF IInv
<1> QED
  BY <1>1, Invariance, PTL

\* The service's own role check stands behind the gateway's older one.
THEOREM LedByLeaders == Spec => []LedWhenApplied
<1>1. IInv => LedWhenApplied
  BY NoOpAssumption DEF IInv, RequestOK, StageOK, Changes, LedWhenApplied, Applied
<1> QED
  BY <1>1, Invariance, PTL

\* A deny rule that is read throughout a request stops it.
THEOREM DeniedIsRefused == Spec => []DenyHolds
<1>1. IInv => DenyHolds
  BY NoOpAssumption DEF IInv, RequestOK, StageOK, Changes, DenyHolds, Applied
<1> QED
  BY <1>1, Invariance, PTL

=============================================================================
