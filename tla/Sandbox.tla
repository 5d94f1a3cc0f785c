------------------------------- MODULE Sandbox -------------------------------
(***************************************************************************)
(* The execution-service: sandbox rows in PostgreSQL, the containers behind*)
(* them, the endpoints that provision, use and terminate a sandbox, and the*)
(* recovery of stuck sandboxes.                                            *)
(*                                                                         *)
(* Every endpoint calls the container backend between two transactions.    *)
(* get_by_id takes no lock and save upserts the whole row; only the claim  *)
(* of a sandbox and the recovery's check read FOR UPDATE, and are one      *)
(* action each.  provision and terminate do not read the row again after   *)
(* the backend call: they write the entity they hold in memory.            *)
(*                                                                         *)
(* A worker serves one request at a time.  Even one instance has several:  *)
(* provision and terminate run on its event loop, and every execution of a *)
(* tool in a thread of its own (asyncio.to_thread).                        *)
(***************************************************************************)
EXTENDS Integers, FiniteSets

CONSTANTS Boxes,             \* sandbox ids
          Invocations,       \* agent invocations that ask for a sandbox
          Workers,           \* event loops and threads of the instances
          Sweepers,          \* processes that run recover_stuck_sandboxes
          MaxRequests,       \* bound: requests of an invocation (client retries)
          MaxExecutions,     \* bound: tool executions
          MaxCrashes,        \* bound: requests and sweeps that die
          MaxBackendFaults,  \* bound: failing calls of the backend
          None               \* no sandbox, no invocation

ASSUME RequestBounds == MaxRequests \in Nat /\ MaxExecutions \in Nat
ASSUME FaultBounds   == MaxCrashes \in Nat /\ MaxBackendFaults \in Nat
ASSUME NoneAssumption == None \notin Boxes \cup Invocations

SandboxStatus == {"provisioning", "ready", "executing", "idle", "failed",
                  "terminating", "terminated"}

\* _SANDBOX_TRANSITIONS
SandboxTransitions ==
    [provisioning |-> {"ready", "failed"},
     ready        |-> {"executing", "terminating"},
     executing    |-> {"idle", "failed", "terminating"},
     idle         |-> {"executing", "terminating"},
     failed       |-> {"terminating"},
     terminating  |-> {"terminated"},
     terminated   |-> {}]

\* Sandbox._transition
CanSandbox(from, to) ==
    from \in SandboxStatus /\ to \in SandboxTransitions[from]

\* _STUCK_STATUSES
StuckStatus == {"provisioning", "executing"}

Executions == 1..MaxExecutions

WorkerPc == {"idle", "provision", "ready_write", "failed_write", "execute",
             "exec_run", "idle_read", "idle_write", "terminating_write", "terminate",
             "terminated_write"}

VARIABLES
    row,        \* [Boxes -> SandboxStatus or "none"]
    inv,        \* [Boxes -> Invocations or None]: agent_invocation_id
    stale,      \* [Boxes -> BOOLEAN]: updated_at is before the stuck cutoff
    attempt,    \* [Executions -> "none", "running" or "finished"]
    alive,      \* [Boxes -> BOOLEAN]: the container runs
    command,    \* [Executions -> Boxes or None]: where its command runs
    \* workers
    pc, wbox, wexec,
    \* sweepers
    spc, listed, scur,
    \* bounds
    asked, crashes, backendFaults,
    \* history
    overtaken   \* sandboxes whose container the recovery removed while
                \*   provision_sandbox was still having it created

rows       == <<row, inv, stale, attempt>>
containers == <<alive, command>>
wvars      == <<pc, wbox, wexec>>
svars      == <<spc, listed, scur, overtaken>>
bounds     == <<asked, crashes, backendFaults>>
vars       == <<rows, containers, wvars, svars, bounds>>

\* The tables sandboxes and sandbox_attempts; a sandbox's row names the
\* invocation its provisioning request was for.
SandboxRows == [Boxes -> SandboxStatus \cup {"none"}]
RequestedBy == [Boxes -> Invocations \cup {None}]
AttemptRows == [Executions -> {"none", "running", "finished"}]

\* The sandbox a worker has looked up.
Found == [Workers -> Boxes \cup {None}]

TypeOK ==
    /\ row \in SandboxRows
    /\ inv \in RequestedBy
    /\ stale \in [Boxes -> BOOLEAN]
    /\ attempt \in AttemptRows
    /\ alive \in [Boxes -> BOOLEAN]
    /\ command \in [Executions -> Boxes \cup {None}]
    /\ pc \in [Workers -> WorkerPc]
    /\ wbox \in Found
    /\ wexec \in [Workers -> Executions \cup {0}]
    /\ spc \in [Sweepers -> {"idle", "kill", "mark"}]
    /\ listed \in [Sweepers -> SUBSET Boxes]
    /\ scur \in [Sweepers -> Boxes \cup {None}]
    /\ asked \in [Invocations -> 0..MaxRequests]
    /\ crashes \in 0..MaxCrashes
    /\ backendFaults \in 0..MaxBackendFaults
    /\ overtaken \subseteq Boxes

Init ==
    /\ row = [b \in Boxes |-> "none"]
    /\ inv = [b \in Boxes |-> None]
    /\ stale = [b \in Boxes |-> FALSE]
    /\ attempt = [x \in Executions |-> "none"]
    /\ alive = [b \in Boxes |-> FALSE]
    /\ command = [x \in Executions |-> None]
    /\ pc = [p \in Workers |-> "idle"]
    /\ wbox = [p \in Workers |-> None]
    /\ wexec = [p \in Workers |-> 0]
    /\ spc = [s \in Sweepers |-> "idle"]
    /\ listed = [s \in Sweepers |-> {}]
    /\ scur = [s \in Sweepers |-> None]
    /\ asked = [i \in Invocations |-> 0]
    /\ crashes = 0
    /\ backendFaults = 0
    /\ overtaken = {}

(***************************************************************************)
(* Helpers                                                                 *)
(***************************************************************************)

\* The worker goes on with its request about sandbox b.
Proceed(p, to, b) ==
    /\ pc' = [pc EXCEPT ![p] = to]
    /\ wbox' = [wbox EXCEPT ![p] = b]
    /\ UNCHANGED wexec

\* The request ends.
Finish(p) ==
    /\ pc' = [pc EXCEPT ![p] = "idle"]
    /\ wbox' = [wbox EXCEPT ![p] = None]
    /\ wexec' = [wexec EXCEPT ![p] = 0]

\* SqlSandboxRepository.save of an entity whose status is st
Save(b, st) ==
    /\ row' = [row EXCEPT ![b] = st]
    /\ stale' = [stale EXCEPT ![b] = FALSE]

\* The container of b is started or removed; no command is left running in it.
Container(b, up) ==
    /\ alive' = [alive EXCEPT ![b] = up]
    /\ command' = [x \in Executions |-> IF command[x] = b THEN None ELSE command[x]]

\* A call of the backend that is to start or to remove the container of b; a
\* call that fails may have done its work all the same.
BackendCall(b, up) ==
    /\ Container(b, up)
    /\ UNCHANGED backendFaults

BackendFails(b, up) ==
    /\ backendFaults < MaxBackendFaults
    /\ backendFaults' = backendFaults + 1
    /\ UNCHANGED containers \/ Container(b, up)

(***************************************************************************)
(* provision_sandbox                                                       *)
(***************************************************************************)

\* A new row, whatever sandboxes the invocation has.
Provision(p, b, i) ==
    /\ pc[p] = "idle" /\ row[b] = "none" /\ asked[i] < MaxRequests
    /\ asked' = [asked EXCEPT ![i] = @ + 1]
    /\ inv' = [inv EXCEPT ![b] = i]
    /\ Save(b, "provisioning")
    /\ Proceed(p, "provision", b)
    /\ UNCHANGED <<attempt, containers, svars, crashes, backendFaults>>

ProvisionBackend(p) ==
    /\ pc[p] = "provision"
    /\ \/ BackendCall(wbox[p], TRUE) /\ Proceed(p, "ready_write", wbox[p])
       \/ BackendFails(wbox[p], TRUE) /\ Proceed(p, "failed_write", wbox[p])
    /\ UNCHANGED <<rows, svars, asked, crashes>>

ProvisionReady(p) ==
    /\ pc[p] = "ready_write"
    /\ Save(wbox[p], "ready")
    /\ Finish(p)
    /\ UNCHANGED <<inv, attempt, containers, svars, bounds>>

\* The commit fails: the container is removed again.
ProvisionUndone(p) ==
    /\ pc[p] = "ready_write" /\ crashes < MaxCrashes
    /\ crashes' = crashes + 1
    /\ BackendCall(wbox[p], FALSE) \/ BackendFails(wbox[p], FALSE)
    /\ Finish(p)
    /\ UNCHANGED <<rows, svars, asked>>

ProvisionFailed(p) ==
    /\ pc[p] = "failed_write"
    /\ Save(wbox[p], "failed")
    /\ Finish(p)
    /\ UNCHANGED <<inv, attempt, containers, svars, bounds>>

(***************************************************************************)
(* execute_tool                                                            *)
(***************************************************************************)

\* Mutant: the claim does not look at the status.
ClaimAny(p, b, x) ==
    /\ pc[p] = "idle" /\ row[b] \in {"ready", "idle", "executing"} /\ attempt[x] = "none"
    /\ Save(b, "executing")
    /\ attempt' = [attempt EXCEPT ![x] = "running"]
    /\ pc' = [pc EXCEPT ![p] = "execute"]
    /\ wbox' = [wbox EXCEPT ![p] = b]
    /\ wexec' = [wexec EXCEPT ![p] = x]
    /\ UNCHANGED <<inv, containers, svars, bounds>>

\* claim_for_execution, under the row's lock: a sandbox that is neither ready
\* nor idle is busy.  A tool the sandbox's type does not allow is refused in
\* the same transaction, which leaves nothing behind.
Claim(p, b, x) ==
    /\ pc[p] = "idle" /\ row[b] \in {"ready", "idle"} /\ attempt[x] = "none"
    /\ Save(b, "executing")
    /\ attempt' = [attempt EXCEPT ![x] = "running"]
    /\ pc' = [pc EXCEPT ![p] = "execute"]
    /\ wbox' = [wbox EXCEPT ![p] = b]
    /\ wexec' = [wexec EXCEPT ![p] = x]
    /\ UNCHANGED <<inv, containers, svars, bounds>>

\* Mutant: a missing container ends the request without a record.
ExecuteUnrecorded(p) ==
    /\ pc[p] = "execute"
    /\ IF alive[wbox[p]]
         THEN /\ command' = [command EXCEPT ![wexec[p]] = wbox[p]]
              /\ pc' = [pc EXCEPT ![p] = "exec_run"]
              /\ UNCHANGED <<wbox, wexec>>
         ELSE Finish(p) /\ UNCHANGED command
    /\ UNCHANGED <<rows, alive, svars, bounds>>

\* exec_in_sandbox up to exec_run: the command starts in the container, if there
\* is one.
Execute(p) ==
    /\ pc[p] = "execute"
    /\ IF alive[wbox[p]]
         THEN /\ command' = [command EXCEPT ![wexec[p]] = wbox[p]]
              /\ pc' = [pc EXCEPT ![p] = "exec_run"]
         ELSE /\ pc' = [pc EXCEPT ![p] = "idle_read"]
              /\ UNCHANGED command
    /\ UNCHANGED <<rows, alive, wbox, wexec, svars, bounds>>

\* exec_run answers: the command has exited, `timeout` has stopped it, or the
\* container was removed under it.
ExecAnswers(p) ==
    /\ pc[p] = "exec_run"
    /\ command' = [command EXCEPT ![wexec[p]] = None]
    /\ pc' = [pc EXCEPT ![p] = "idle_read"]
    /\ UNCHANGED <<rows, alive, wbox, wexec, svars, bounds>>

\* exec_run raises, on a connection that broke or timed out: the command goes on,
\* and the request records a failure.
ExecRaises(p) ==
    /\ pc[p] = "exec_run" /\ backendFaults < MaxBackendFaults
    /\ backendFaults' = backendFaults + 1
    /\ pc' = [pc EXCEPT ![p] = "idle_read"]
    /\ UNCHANGED <<rows, containers, wbox, wexec, svars, asked, crashes>>

\* A command nobody waits for exits.
CommandEnds(x) ==
    /\ command[x] # None
    /\ \A p \in Workers : wexec[p] = x => pc[p] # "exec_run"
    /\ command' = [command EXCEPT ![x] = None]
    /\ UNCHANGED <<rows, alive, wvars, svars, bounds>>

\* The row is read again.  If mark_idle is illegal the transaction is rolled
\* back: the attempt stays running.
IdleRead(p) ==
    /\ pc[p] = "idle_read"
    /\ IF CanSandbox(row[wbox[p]], "idle")
         THEN /\ pc' = [pc EXCEPT ![p] = "idle_write"]
              /\ UNCHANGED <<wbox, wexec>>
         ELSE Finish(p)
    /\ UNCHANGED <<rows, containers, svars, bounds>>

IdleWrite(p) ==
    /\ pc[p] = "idle_write"
    /\ Save(wbox[p], "idle")
    /\ attempt' = [attempt EXCEPT ![wexec[p]] = "finished"]
    /\ Finish(p)
    /\ UNCHANGED <<inv, containers, svars, bounds>>

(***************************************************************************)
(* terminate_sandbox                                                       *)
(***************************************************************************)
TerminateRead(p, b) ==
    /\ pc[p] = "idle" /\ CanSandbox(row[b], "terminating")
    /\ Proceed(p, "terminating_write", b)
    /\ UNCHANGED <<rows, containers, svars, bounds>>

\* Mutant: the backend is not called.
TerminateWriteOnly(p) ==
    /\ pc[p] = "terminating_write"
    /\ Save(wbox[p], "terminating")
    /\ Proceed(p, "terminated_write", wbox[p])
    /\ UNCHANGED <<inv, attempt, containers, svars, bounds>>

TerminateWrite(p) ==
    /\ pc[p] = "terminating_write"
    /\ Save(wbox[p], "terminating")
    /\ Proceed(p, "terminate", wbox[p])
    /\ UNCHANGED <<inv, attempt, containers, svars, bounds>>

\* A failing backend does not stop it.
TerminateBackend(p) ==
    /\ pc[p] = "terminate"
    /\ BackendCall(wbox[p], FALSE) \/ BackendFails(wbox[p], FALSE)
    /\ Proceed(p, "terminated_write", wbox[p])
    /\ UNCHANGED <<rows, svars, asked, crashes>>

TerminateDone(p) ==
    /\ pc[p] = "terminated_write"
    /\ Save(wbox[p], "terminated")
    /\ Finish(p)
    /\ UNCHANGED <<inv, attempt, containers, svars, bounds>>

\* The instance crashes, or a transaction fails, under a request.
RequestDies(p) ==
    /\ pc[p] # "idle" /\ crashes < MaxCrashes
    /\ crashes' = crashes + 1
    /\ Finish(p)
    /\ UNCHANGED <<rows, containers, svars, asked, backendFaults>>

(***************************************************************************)
(* recover_stuck_sandboxes                                                 *)
(***************************************************************************)

\* The row has not been updated for STUCK_PROVISIONING_MINUTES or
\* STUCK_EXECUTING_MINUTES, be its request dead or only slow.
Age(b) ==
    /\ row[b] \in StuckStatus /\ ~ stale[b]
    /\ stale' = [stale EXCEPT ![b] = TRUE]
    /\ UNCHANGED <<row, inv, attempt, containers, wvars, svars, bounds>>

\* list_stuck and the threshold of each status
SweepList(s) ==
    /\ spc[s] = "idle"
    /\ LET stuck == {b \in Boxes : row[b] \in StuckStatus /\ stale[b]}
       IN  /\ stuck # {}
           /\ listed' = [listed EXCEPT ![s] = stuck]
    /\ spc' = [spc EXCEPT ![s] = "kill"]
    /\ UNCHANGED <<rows, containers, wvars, scur, overtaken, bounds>>

\* The loop goes on to the next sandbox, or ends.
SweepNext(s) ==
    /\ spc' = [spc EXCEPT ![s] = IF listed[s] = {} THEN "idle" ELSE "kill"]
    /\ scur' = [scur EXCEPT ![s] = None]
    /\ UNCHANGED <<listed, overtaken>>

\* _recover_single_sandbox, before its transaction: the container is removed on
\* the strength of the list.
SweepKill(s, b) ==
    /\ spc[s] = "kill" /\ b \in listed[s]
    /\ BackendCall(b, FALSE) \/ BackendFails(b, FALSE)
    /\ listed' = [listed EXCEPT ![s] = @ \ {b}]
    /\ spc' = [spc EXCEPT ![s] = "mark"]
    /\ scur' = [scur EXCEPT ![s] = b]
    /\ overtaken' = overtaken \cup
           {c \in {b} : \E p \in Workers : wbox[p] = c /\ pc[p] = "provision"}
    /\ UNCHANGED <<rows, wvars, asked, crashes>>

\* Mutant: the entity is marked failed and not saved.
SweepMarkUnsaved(s) ==
    /\ spc[s] = "mark"
    /\ SweepNext(s)
    /\ UNCHANGED <<rows, containers, wvars, bounds>>

\* _recover_single_sandbox, under the row's lock: a sandbox that is no longer
\* stuck is left alone.
SweepMark(s) ==
    /\ spc[s] = "mark"
    /\ IF row[scur[s]] \in StuckStatus
         THEN Save(scur[s], "failed")
         ELSE UNCHANGED <<row, stale>>
    /\ SweepNext(s)
    /\ UNCHANGED <<inv, attempt, containers, wvars, bounds>>

\* The transaction fails; the loop goes on.
SweepMarkFails(s) ==
    /\ spc[s] = "mark" /\ crashes < MaxCrashes
    /\ crashes' = crashes + 1
    /\ SweepNext(s)
    /\ UNCHANGED <<rows, containers, wvars, asked, backendFaults>>

\* The process crashes under a sweep.
SweepDies(s) ==
    /\ spc[s] # "idle" /\ crashes < MaxCrashes
    /\ crashes' = crashes + 1
    /\ spc' = [spc EXCEPT ![s] = "idle"]
    /\ listed' = [listed EXCEPT ![s] = {}]
    /\ scur' = [scur EXCEPT ![s] = None]
    /\ UNCHANGED <<rows, containers, wvars, overtaken, asked, backendFaults>>

(***************************************************************************)
(* The specification                                                       *)
(***************************************************************************)

\* The steps of a request that is being served
Serve(p) ==
    \/ ProvisionBackend(p) \/ ProvisionReady(p) \/ ProvisionFailed(p)
    \/ Execute(p) \/ ExecAnswers(p) \/ IdleRead(p) \/ IdleWrite(p)
    \/ TerminateWrite(p) \/ TerminateBackend(p) \/ TerminateDone(p)

\* The steps of a sweep that has listed its sandboxes
Sweep(s) == (\E b \in Boxes : SweepKill(s, b)) \/ SweepMark(s)

Next ==
    \/ \E p \in Workers :
         \/ \E b \in Boxes, i \in Invocations : Provision(p, b, i)
         \/ \E b \in Boxes, x \in Executions : Claim(p, b, x)
         \/ \E b \in Boxes : TerminateRead(p, b)
         \/ Serve(p) \/ ExecRaises(p) \/ ProvisionUndone(p) \/ RequestDies(p)
    \/ \E s \in Sweepers :
         SweepList(s) \/ Sweep(s) \/ SweepMarkFails(s) \/ SweepDies(s)
    \/ \E b \in Boxes : Age(b)
    \/ \E x \in Executions : CommandEnds(x)

Spec == Init /\ [][Next]_vars

\* A worker goes on with its request (`timeout` ends the command it waits for),
\* and a sweep that has begun goes on.  Nothing makes a client ask for anything,
\* and nothing in the repository starts a sweep.
Fairness ==
    /\ \A p \in Workers : WF_vars(Serve(p))
    /\ \A s \in Sweepers : WF_vars(Sweep(s))

FairSpec == Spec /\ Fairness

(***************************************************************************)
(* Properties                                                              *)
(***************************************************************************)

\* The worker executes a tool in sandbox b, or records how that went.
ExecutingIn(p, b) ==
    wbox[p] = b /\ pc[p] \in {"execute", "exec_run", "idle_read", "idle_write"}

\* claim_for_execution serialises executions: whatever the instances, crashes,
\* sweeps and writes of stale entities, no two requests ever execute a tool in
\* one sandbox.
ExclusiveExecution ==
    \A b \in Boxes : \A p, q \in Workers :
        ExecutingIn(p, b) /\ ExecutingIn(q, b) => p = q

\* A request that died, or whose call of the backend raised, leaves its command
\* running in a sandbox that is or becomes free.  That is the only way two
\* commands get to run in one container at a time.
CommandsApart ==
    \A b \in Boxes :
        Cardinality({x \in Executions : command[x] = b})
            <= 1 + crashes + backendFaults

\* Unless a call of the backend failed, or the recovery overtook provision_sandbox,
\* no container outlives its sandbox, be it terminated, or marked failed by the
\* recovery, however slow the requests are and whatever else is asked meanwhile.
EndedIsGone ==
    backendFaults = 0 =>
        \A b \in Boxes \ overtaken :
            row[b] \in {"failed", "terminated"} => ~ alive[b]

\* Only a request that dies strands its sandbox: while one serves it, a sandbox
\* that is provisioning or executing gets out of it, without the recovery, unless
\* something crashes.
OnlyDeathStrands ==
    \A b \in Boxes, n \in 0..MaxCrashes :
        (\E p \in Workers : wbox[p] = b) /\ crashes = n ~>
            row[b] \notin {"provisioning", "executing"} \/ crashes > n

\* A sweep that lists a stuck sandbox gets it out of provisioning and executing,
\* whatever the backend says, unless something crashes.
ListedSandboxEnds ==
    \A b \in Boxes, s \in Sweepers, n \in 0..MaxCrashes :
        b \in listed[s] /\ crashes = n ~>
            row[b] \notin {"provisioning", "executing"} \/ crashes > n

\* A sandbox that execute_tool would claim has its container; false of the code,
\* where the recovery removes the container before it looks at the row.
ReadyHasContainer ==
    \A b \in Boxes : row[b] \in {"ready", "idle"} => alive[b]

\* "Only TERMINATED is truly terminal (no outbound edges)"
TerminatedIsFinal ==
    [][\A b \in Boxes : row[b] = "terminated" => row'[b] = "terminated"]_vars

\* "Entities must not remain in an ambiguous state": a sandbox whose termination
\* was requested is terminated in the end.
TerminatingEnds ==
    \A b \in Boxes : row[b] = "terminating" ~> row[b] = "terminated"

\* "2 Sandboxes running the same AgentInvocation" are prevented by a lock.
OneSandboxPerInvocation ==
    \A b, c \in Boxes :
        alive[b] /\ alive[c] /\ inv[b] = inv[c] => b = c
=============================================================================
