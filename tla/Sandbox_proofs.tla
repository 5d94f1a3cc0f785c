---------------------------- MODULE Sandbox_proofs ----------------------------
(***************************************************************************)
(* Proofs about Sandbox, for any number of sandboxes, workers and sweepers *)
(* and any bounds: type correctness, that claim_for_execution keeps tool   *)
(* executions of one sandbox apart, and that a container goes with its     *)
(* sandbox unless the backend failed or the recovery overtook a request.   *)
(***************************************************************************)
EXTENDS Sandbox, TLAPS

\* The types of the variables are always expanded.
USE DEF SandboxRows, RequestedBy, AttemptRows, Found

-----------------------------------------------------------------------------
\* A call of the backend, failing or not, keeps the types of what it changes.
LEMMA BackendTypes ==
    ASSUME TypeOK, NEW b, NEW up \in BOOLEAN,
           BackendCall(b, up) \/ BackendFails(b, up)
    PROVE  /\ alive' \in [Boxes -> BOOLEAN]
           /\ command' \in [Executions -> Boxes \cup {None}]
           /\ backendFaults' \in 0..MaxBackendFaults
<1>1. Container(b, up) \/ UNCHANGED <<alive, command>>
  BY DEF BackendCall, BackendFails, containers
<1>2. [alive EXCEPT ![b] = up] \in [Boxes -> BOOLEAN]
  BY Zenon DEF TypeOK
<1>3. alive' \in [Boxes -> BOOLEAN]
  BY <1>1, <1>2 DEF Container, TypeOK
<1>4. command' \in [Executions -> Boxes \cup {None}]
  BY <1>1 DEF Container, TypeOK
<1>5. backendFaults' \in 0..MaxBackendFaults
  <2>1. CASE BackendCall(b, up)
    BY <2>1 DEF BackendCall, TypeOK
  <2>2. CASE BackendFails(b, up)
    <3>1. backendFaults < MaxBackendFaults /\ backendFaults' = backendFaults + 1
      BY <2>2 DEF BackendFails
    <3> QED
      BY <3>1, FaultBounds DEF TypeOK
  <2> QED
    BY <2>1, <2>2
<1> QED
  BY <1>3, <1>4, <1>5

\* Every step keeps the types: a status the service writes is one of its state
\* machine, and the counters stay within their bounds.
LEMMA TypeStep == TypeOK /\ [Next]_vars => TypeOK'
<1> SUFFICES ASSUME TypeOK, [Next]_vars
             PROVE  TypeOK'
  OBVIOUS
<1>0. TypeOK
  OBVIOUS
<1> USE RequestBounds, FaultBounds
<1>1. ASSUME NEW p \in Workers, NEW b \in Boxes, NEW i \in Invocations, Provision(p, b, i)
      PROVE  TypeOK'
  BY <1>0, <1>1 DEF TypeOK, SandboxStatus, WorkerPc, svars, containers, Provision, Save,
     Proceed
<1>2. ASSUME NEW p \in Workers, NEW b \in Boxes, NEW x \in Executions, Claim(p, b, x)
      PROVE  TypeOK'
  BY <1>0, <1>2 DEF TypeOK, SandboxStatus, WorkerPc, svars, containers, bounds, Claim,
     Save
<1>3. ASSUME NEW p \in Workers, NEW b \in Boxes, TerminateRead(p, b)
      PROVE  TypeOK'
  BY <1>0, <1>3 DEF TypeOK, WorkerPc, rows, svars, containers, bounds, TerminateRead,
     Proceed
<1>4. ASSUME NEW p \in Workers, ProvisionBackend(p)
      PROVE  TypeOK'
  <2>1. /\ alive' \in [Boxes -> BOOLEAN]
        /\ command' \in [Executions -> Boxes \cup {None}]
        /\ backendFaults' \in 0..MaxBackendFaults
    BY <1>0, <1>4, BackendTypes DEF ProvisionBackend
  <2>2. /\ \E to \in {"ready_write", "failed_write"} : Proceed(p, to, wbox[p])
          /\ UNCHANGED <<rows, svars, asked, crashes>>
    BY <1>4 DEF ProvisionBackend
  <2> QED
    BY <1>0, <2>1, <2>2 DEF Proceed, TypeOK, WorkerPc, rows, wvars, svars, containers
<1>5. ASSUME NEW p \in Workers, ProvisionReady(p)
      PROVE  TypeOK'
  BY <1>0, <1>5 DEF TypeOK, SandboxStatus, WorkerPc, svars, containers, bounds,
     ProvisionReady, Save, Finish
<1>6. ASSUME NEW p \in Workers, ProvisionFailed(p)
      PROVE  TypeOK'
  BY <1>0, <1>6 DEF TypeOK, SandboxStatus, WorkerPc, svars, containers, bounds,
     ProvisionFailed, Save, Finish
<1>7. ASSUME NEW p \in Workers, ProvisionUndone(p)
      PROVE  TypeOK'
  <2>1. /\ alive' \in [Boxes -> BOOLEAN]
        /\ command' \in [Executions -> Boxes \cup {None}]
        /\ backendFaults' \in 0..MaxBackendFaults
    BY <1>0, <1>7, BackendTypes DEF ProvisionUndone
  <2>2. /\ crashes' \in 0..MaxCrashes
          /\ Finish(p) /\ UNCHANGED <<rows, svars, asked>>
    BY <1>0, <1>7 DEF ProvisionUndone, TypeOK
  <2> QED
    BY <1>0, <2>1, <2>2 DEF Finish, TypeOK, WorkerPc, rows, wvars, svars, containers
<1>8. ASSUME NEW p \in Workers, Execute(p)
      PROVE  TypeOK'
  BY <1>0, <1>8 DEF TypeOK, WorkerPc, rows, svars, containers, bounds, Execute
<1>9. ASSUME NEW p \in Workers, IdleRead(p)
      PROVE  TypeOK'
  BY <1>0, <1>9 DEF TypeOK, WorkerPc, rows, svars, containers, bounds, IdleRead, Finish
<1>10. ASSUME NEW p \in Workers, IdleWrite(p)
      PROVE  TypeOK'
  BY <1>0, <1>10 DEF TypeOK, SandboxStatus, WorkerPc, svars, containers, bounds,
     IdleWrite, Save, Finish
<1>11. ASSUME NEW p \in Workers, TerminateWrite(p)
      PROVE  TypeOK'
  BY <1>0, <1>11 DEF TypeOK, SandboxStatus, WorkerPc, svars, containers, bounds,
     TerminateWrite, Save, Proceed
<1>12. ASSUME NEW p \in Workers, TerminateBackend(p)
      PROVE  TypeOK'
  <2>1. /\ alive' \in [Boxes -> BOOLEAN]
        /\ command' \in [Executions -> Boxes \cup {None}]
        /\ backendFaults' \in 0..MaxBackendFaults
    BY <1>0, <1>12, BackendTypes DEF TerminateBackend
  <2>2. /\ Proceed(p, "terminated_write", wbox[p])
          /\ UNCHANGED <<rows, svars, asked, crashes>>
    BY <1>12 DEF TerminateBackend
  <2> QED
    BY <1>0, <2>1, <2>2 DEF Proceed, TypeOK, WorkerPc, rows, wvars, svars, containers
<1>13. ASSUME NEW p \in Workers, TerminateDone(p)
      PROVE  TypeOK'
  BY <1>0, <1>13 DEF TypeOK, SandboxStatus, WorkerPc, svars, containers, bounds,
     TerminateDone, Save, Finish
<1>14. ASSUME NEW p \in Workers, RequestDies(p)
      PROVE  TypeOK'
  BY <1>0, <1>14 DEF TypeOK, WorkerPc, rows, svars, containers, RequestDies, Finish
<1>15. ASSUME NEW s \in Sweepers, SweepList(s)
      PROVE  TypeOK'
  BY <1>0, <1>15 DEF TypeOK, rows, wvars, containers, bounds, SweepList
<1>16. ASSUME NEW s \in Sweepers, SweepMark(s)
      PROVE  TypeOK'
  BY <1>0, <1>16 DEF TypeOK, SandboxStatus, wvars, containers, bounds, SweepMark, Save,
     SweepNext
<1>17. ASSUME NEW s \in Sweepers, SweepMarkFails(s)
      PROVE  TypeOK'
  BY <1>0, <1>17 DEF TypeOK, rows, wvars, containers, SweepMarkFails, SweepNext
<1>18. ASSUME NEW s \in Sweepers, SweepDies(s)
      PROVE  TypeOK'
  BY <1>0, <1>18 DEF TypeOK, rows, wvars, containers, SweepDies
<1>19. ASSUME NEW s \in Sweepers, NEW b \in Boxes, SweepKill(s, b)
      PROVE  TypeOK'
  <2>1. /\ alive' \in [Boxes -> BOOLEAN]
        /\ command' \in [Executions -> Boxes \cup {None}]
        /\ backendFaults' \in 0..MaxBackendFaults
    BY <1>0, <1>19, BackendTypes DEF SweepKill
  <2>2. /\ listed' = [listed EXCEPT ![s] = @ \ {b}]
          /\ spc' = [spc EXCEPT ![s] = "mark"]
          /\ scur' = [scur EXCEPT ![s] = b]
          /\ overtaken' \subseteq overtaken \cup {b}
          /\ UNCHANGED <<rows, wvars, asked, crashes>>
    BY <1>19 DEF SweepKill
  <2> QED
    BY <1>0, <2>1, <2>2 DEF TypeOK, WorkerPc, rows, wvars, svars, containers
<1>20. ASSUME NEW b \in Boxes, Age(b)
      PROVE  TypeOK'
  BY <1>0, <1>20 DEF TypeOK, wvars, svars, containers, bounds, Age
<1>21. CASE UNCHANGED vars
  BY <1>0, <1>21 DEF TypeOK, vars, rows, containers, wvars, svars, bounds
<1>22. ASSUME NEW p \in Workers, ExecAnswers(p)
      PROVE  TypeOK'
  BY <1>0, <1>22 DEF TypeOK, WorkerPc, rows, svars, bounds, ExecAnswers
<1>23. ASSUME NEW p \in Workers, ExecRaises(p)
      PROVE  TypeOK'
  BY <1>0, <1>23 DEF TypeOK, WorkerPc, rows, containers, svars, ExecRaises
<1>24. ASSUME NEW x \in Executions, CommandEnds(x)
      PROVE  TypeOK'
  BY <1>0, <1>24 DEF TypeOK, rows, wvars, svars, bounds, CommandEnds
<1> QED
  BY <1>1, <1>2, <1>3, <1>4, <1>5, <1>6, <1>7, <1>8, <1>9, <1>10, <1>11, <1>12,
     <1>13, <1>14, <1>15, <1>16, <1>17, <1>18, <1>19, <1>20, <1>21, <1>22,
     <1>23, <1>24 DEF Next, Serve, Sweep

\* Type correctness of the execution-service, for every value of the constants.
THEOREM TypeCorrect == Spec => []TypeOK
<1>1. Init => TypeOK
  BY RequestBounds, FaultBounds DEF Init, TypeOK, WorkerPc
<1> QED
  BY <1>1, TypeStep, PTL DEF Spec
-----------------------------------------------------------------------------
(***************************************************************************)
(* A request owns the sandbox it provisions or executes in.  terminate and *)
(* the recovery write rows they do not own, but never a status from which  *)
(* a sandbox can be claimed; only an owner does, and it then gives up the  *)
(* sandbox.                                                                *)
(***************************************************************************)
Owns(p, b) ==
    /\ wbox[p] = b
    /\ pc[p] \in {"provision", "ready_write", "failed_write",
                  "execute", "exec_run", "idle_read", "idle_write"}

OneOwner ==
    \A b \in Boxes : \A p, q \in Workers : Owns(p, b) /\ Owns(q, b) => p = q

OwnedIsTaken ==
    \A b \in Boxes : \A p \in Workers :
        Owns(p, b) => row[b] \notin {"none", "ready", "idle"}

Ownership == TypeOK /\ OneOwner /\ OwnedIsTaken

\* Every step of a worker, of a sweeper and of the clock keeps the ownership.
LEMMA OwnershipStep ==
    Ownership /\ [Next]_vars => OneOwner' /\ OwnedIsTaken'
<1> SUFFICES ASSUME Ownership, [Next]_vars
             PROVE  (OneOwner /\ OwnedIsTaken)'
  OBVIOUS
<1>0. TypeOK /\ OneOwner /\ OwnedIsTaken
  BY DEF Ownership
<1>1. ASSUME NEW p \in Workers, NEW b \in Boxes, NEW i \in Invocations, Provision(p, b, i)
      PROVE  (OneOwner /\ OwnedIsTaken)'
  BY <1>0, <1>1 DEF TypeOK, OneOwner, OwnedIsTaken, Owns, svars, Provision,
     Save, Proceed
<1>2. ASSUME NEW p \in Workers, NEW b \in Boxes, NEW x \in Executions, Claim(p, b, x)
      PROVE  (OneOwner /\ OwnedIsTaken)'
  BY <1>0, <1>2 DEF TypeOK, OneOwner, OwnedIsTaken, Owns, svars, bounds,
     Claim, Save
<1>3. ASSUME NEW p \in Workers, NEW b \in Boxes, TerminateRead(p, b)
      PROVE  (OneOwner /\ OwnedIsTaken)'
  BY <1>0, <1>3 DEF TypeOK, OneOwner, OwnedIsTaken, Owns, rows, svars, bounds,
     TerminateRead, Proceed
<1>4. ASSUME NEW p \in Workers, ProvisionBackend(p)
      PROVE  (OneOwner /\ OwnedIsTaken)'
  <2>1. /\ pc[p] = "provision"
        /\ \E to \in {"ready_write", "failed_write"} : Proceed(p, to, wbox[p])
        /\ UNCHANGED row
    BY <1>4 DEF ProvisionBackend, rows
  <2> QED
    BY <1>0, <2>1 DEF TypeOK, OneOwner, OwnedIsTaken, Owns, Proceed
<1>5. ASSUME NEW p \in Workers, ProvisionReady(p)
      PROVE  (OneOwner /\ OwnedIsTaken)'
  BY <1>0, <1>5 DEF TypeOK, OneOwner, OwnedIsTaken, Owns, svars, bounds,
     ProvisionReady, Save, Finish
<1>6. ASSUME NEW p \in Workers, ProvisionFailed(p)
      PROVE  (OneOwner /\ OwnedIsTaken)'
  BY <1>0, <1>6 DEF TypeOK, OneOwner, OwnedIsTaken, Owns, svars, bounds,
     ProvisionFailed, Save, Finish
<1>7. ASSUME NEW p \in Workers, ProvisionUndone(p)
      PROVE  (OneOwner /\ OwnedIsTaken)'
  BY <1>0, <1>7 DEF TypeOK, OneOwner, OwnedIsTaken, Owns, rows, svars,
     ProvisionUndone, Finish
<1>8. ASSUME NEW p \in Workers, Execute(p)
      PROVE  (OneOwner /\ OwnedIsTaken)'
  BY <1>0, <1>8 DEF TypeOK, OneOwner, OwnedIsTaken, Owns, rows, svars, bounds,
     Execute
<1>9. ASSUME NEW p \in Workers, IdleRead(p)
      PROVE  (OneOwner /\ OwnedIsTaken)'
  <2>1. /\ pc[p] = "idle_read"
        /\ UNCHANGED row
        /\ \/ pc' = [pc EXCEPT ![p] = "idle_write"] /\ UNCHANGED wbox
           \/ Finish(p)
    BY <1>9 DEF IdleRead, rows
  <2>2. CASE pc' = [pc EXCEPT ![p] = "idle_write"] /\ UNCHANGED wbox
    <3>1. ASSUME NEW q \in Workers, NEW b \in Boxes, Owns(q, b)'
          PROVE  Owns(q, b)
      BY <1>0, <2>1, <2>2, <3>1 DEF TypeOK, Owns
    <3> QED
      BY <1>0, <2>1, <3>1 DEF OneOwner, OwnedIsTaken
  <2>3. CASE Finish(p)
    <3>1. ASSUME NEW q \in Workers, NEW b \in Boxes, Owns(q, b)'
          PROVE  Owns(q, b)
      BY <1>0, <2>1, <2>3, <3>1 DEF TypeOK, Owns, Finish
    <3> QED
      BY <1>0, <2>1, <3>1 DEF OneOwner, OwnedIsTaken
  <2> QED
    BY <2>1, <2>2, <2>3
<1>10. ASSUME NEW p \in Workers, IdleWrite(p)
      PROVE  (OneOwner /\ OwnedIsTaken)'
  BY <1>0, <1>10 DEF TypeOK, OneOwner, OwnedIsTaken, Owns, svars, bounds,
     IdleWrite, Save, Finish
<1>11. ASSUME NEW p \in Workers, TerminateWrite(p)
      PROVE  (OneOwner /\ OwnedIsTaken)'
  BY <1>0, <1>11 DEF TypeOK, OneOwner, OwnedIsTaken, Owns, svars, bounds,
     TerminateWrite, Save, Proceed
<1>12. ASSUME NEW p \in Workers, TerminateBackend(p)
      PROVE  (OneOwner /\ OwnedIsTaken)'
  BY <1>0, <1>12 DEF TypeOK, OneOwner, OwnedIsTaken, Owns, rows, svars,
     TerminateBackend, Proceed
<1>13. ASSUME NEW p \in Workers, TerminateDone(p)
      PROVE  (OneOwner /\ OwnedIsTaken)'
  BY <1>0, <1>13 DEF TypeOK, OneOwner, OwnedIsTaken, Owns, svars, bounds,
     TerminateDone, Save, Finish
<1>14. ASSUME NEW p \in Workers, RequestDies(p)
      PROVE  (OneOwner /\ OwnedIsTaken)'
  BY <1>0, <1>14 DEF TypeOK, OneOwner, OwnedIsTaken, Owns, rows, svars,
     RequestDies, Finish
<1>15. ASSUME NEW s \in Sweepers, SweepList(s)
      PROVE  (OneOwner /\ OwnedIsTaken)'
  BY <1>0, <1>15 DEF TypeOK, OneOwner, OwnedIsTaken, Owns, StuckStatus, rows,
     wvars, bounds, SweepList
<1>16. ASSUME NEW s \in Sweepers, SweepMark(s)
      PROVE  (OneOwner /\ OwnedIsTaken)'
  BY <1>0, <1>16 DEF TypeOK, OneOwner, OwnedIsTaken, Owns, StuckStatus, wvars,
     bounds, SweepMark, Save, SweepNext
<1>17. ASSUME NEW s \in Sweepers, SweepMarkFails(s)
      PROVE  (OneOwner /\ OwnedIsTaken)'
  BY <1>0, <1>17 DEF TypeOK, OneOwner, OwnedIsTaken, Owns, rows, wvars,
     SweepMarkFails, SweepNext
<1>18. ASSUME NEW s \in Sweepers, SweepDies(s)
      PROVE  (OneOwner /\ OwnedIsTaken)'
  BY <1>0, <1>18 DEF TypeOK, OneOwner, OwnedIsTaken, Owns, rows, wvars,
     SweepDies
<1>19. ASSUME NEW s \in Sweepers, NEW b \in Boxes, SweepKill(s, b)
      PROVE  (OneOwner /\ OwnedIsTaken)'
  BY <1>0, <1>19 DEF TypeOK, OneOwner, OwnedIsTaken, Owns, rows, wvars,
     SweepKill
<1>20. ASSUME NEW b \in Boxes, Age(b)
      PROVE  (OneOwner /\ OwnedIsTaken)'
  BY <1>0, <1>20 DEF TypeOK, OneOwner, OwnedIsTaken, Owns, StuckStatus, wvars,
     svars, bounds, Age
<1>21. CASE UNCHANGED vars
  BY <1>0, <1>21 DEF OneOwner, OwnedIsTaken, Owns, vars, rows, wvars
<1>22. ASSUME NEW p \in Workers, ExecAnswers(p)
      PROVE  (OneOwner /\ OwnedIsTaken)'
  BY <1>0, <1>22 DEF TypeOK, OneOwner, OwnedIsTaken, Owns, rows, ExecAnswers
<1>23. ASSUME NEW p \in Workers, ExecRaises(p)
      PROVE  (OneOwner /\ OwnedIsTaken)'
  BY <1>0, <1>23 DEF TypeOK, OneOwner, OwnedIsTaken, Owns, rows, ExecRaises
<1>24. ASSUME NEW x \in Executions, CommandEnds(x)
      PROVE  (OneOwner /\ OwnedIsTaken)'
  BY <1>0, <1>24 DEF TypeOK, OneOwner, OwnedIsTaken, Owns, rows, wvars, CommandEnds
<1> QED
  BY <1>1, <1>2, <1>3, <1>4, <1>5, <1>6, <1>7, <1>8, <1>9, <1>10, <1>11, <1>12,
     <1>13, <1>14, <1>15, <1>16, <1>17, <1>18, <1>19, <1>20, <1>21, <1>22,
     <1>23, <1>24 DEF Next, Serve, Sweep

\* No two requests execute a tool in one sandbox, whatever the instances, crashes,
\* sweeps and writes of stale entities.
THEOREM ExecutionIsExclusive == Spec => []ExclusiveExecution
<1>1. Init => Ownership
  <2>1. Init => TypeOK
    BY RequestBounds, FaultBounds DEF Init, TypeOK, WorkerPc
  <2> QED
    BY <2>1 DEF Init, Ownership, OneOwner, OwnedIsTaken, Owns
<1>2. Ownership /\ [Next]_vars => Ownership'
  BY TypeStep, OwnershipStep DEF Ownership
<1>3. Ownership => ExclusiveExecution
  BY DEF Ownership, OneOwner, Owns, ExclusiveExecution, ExecutingIn
<1> QED
  BY <1>1, <1>2, <1>3, PTL DEF Spec
-----------------------------------------------------------------------------
(***************************************************************************)
(* Why a container goes with its sandbox: only provision_sandbox starts    *)
(* one, at a row that is provisioning and that nobody else serves, unless  *)
(* the recovery has overtaken it.  A row is ended only behind a call that  *)
(* removed the container, and none can be started after it.                *)
(***************************************************************************)

\* Nobody knows of a sandbox before its row is there.
NotYetKnown ==
    \A b \in Boxes : row[b] = "none" =>
        /\ \A p \in Workers : wbox[p] # b
        /\ \A s \in Sweepers : b \notin listed[s] /\ scur[s] # b

\* A request that is having a container started has its sandbox to itself.
Undisturbed ==
    \A b \in Boxes \ overtaken : \A p \in Workers :
        wbox[p] = b /\ pc[p] = "provision" =>
            /\ row[b] = "provisioning"
            /\ \A q \in Workers : wbox[q] = b => q = p
            /\ \A s \in Sweepers : scur[s] # b

\* Whoever is about to end a row has removed the container.
Removed ==
    backendFaults = 0 =>
        /\ \A p \in Workers : pc[p] # "failed_write"
        /\ \A b \in Boxes \ overtaken :
             alive[b] =>
                 /\ row[b] \notin {"failed", "terminated"}
                 /\ \A p \in Workers : wbox[p] = b => pc[p] # "terminated_write"
                 /\ \A s \in Sweepers : scur[s] # b

GoneInv == TypeOK /\ NotYetKnown /\ Undisturbed /\ Removed

\* Every step keeps the three parts.
LEMMA GoneStep ==
    GoneInv /\ [Next]_vars => NotYetKnown' /\ Undisturbed' /\ Removed'
<1> SUFFICES ASSUME GoneInv, [Next]_vars
             PROVE  NotYetKnown' /\ Undisturbed' /\ Removed'
  OBVIOUS
<1>0. TypeOK /\ NotYetKnown /\ Undisturbed /\ Removed
  BY DEF GoneInv
<1> USE NoneAssumption
<1>1. ASSUME NEW p \in Workers, NEW b \in Boxes, NEW i \in Invocations, Provision(p, b, i)
      PROVE  NotYetKnown' /\ Undisturbed' /\ Removed'
  <2>1. NotYetKnown'
    BY <1>0, <1>1 DEF TypeOK, NotYetKnown, Provision, Save, Proceed, containers, svars
  <2>2. Undisturbed'
    BY <1>0, <1>1 DEF TypeOK, NotYetKnown, Undisturbed, Provision, Save, Proceed,
       containers, svars
  <2>3. Removed'
    BY <1>0, <1>1 DEF TypeOK, Undisturbed, Removed, Provision, Save, Proceed,
       containers, svars
  <2> QED
    BY <2>1, <2>2, <2>3
<1>2. ASSUME NEW p \in Workers, NEW b \in Boxes, NEW x \in Executions, Claim(p, b, x)
      PROVE  NotYetKnown' /\ Undisturbed' /\ Removed'
  <2>1. NotYetKnown'
    BY <1>0, <1>2 DEF TypeOK, NotYetKnown, Claim, Save, containers, svars, bounds
  <2>2. Undisturbed'
    BY <1>0, <1>2 DEF TypeOK, NotYetKnown, Undisturbed, Claim, Save, containers, svars,
       bounds
  <2>3. Removed'
    BY <1>0, <1>2 DEF TypeOK, Undisturbed, Removed, Claim, Save, containers, svars,
       bounds
  <2> QED
    BY <2>1, <2>2, <2>3
<1>3. ASSUME NEW p \in Workers, NEW b \in Boxes, TerminateRead(p, b)
      PROVE  NotYetKnown' /\ Undisturbed' /\ Removed'
  <2>1. NotYetKnown'
    BY <1>0, <1>3 DEF TypeOK, NotYetKnown, TerminateRead, CanSandbox, SandboxTransitions,
       SandboxStatus, Proceed, rows, containers, svars, bounds
  <2>2. Undisturbed'
    BY <1>0, <1>3 DEF TypeOK, NotYetKnown, Undisturbed, TerminateRead, CanSandbox,
       SandboxTransitions, SandboxStatus, Proceed, rows, containers, svars, bounds
  <2>3. Removed'
    BY <1>0, <1>3 DEF TypeOK, Undisturbed, Removed, TerminateRead, CanSandbox,
       SandboxTransitions, SandboxStatus, Proceed, rows, containers, svars, bounds
  <2> QED
    BY <2>1, <2>2, <2>3
<1>4. ASSUME NEW p \in Workers, ProvisionBackend(p)
      PROVE  NotYetKnown' /\ Undisturbed' /\ Removed'
  <2>1. NotYetKnown'
    BY <1>0, <1>4 DEF TypeOK, NotYetKnown, ProvisionBackend, BackendCall, BackendFails,
       Container, Proceed, rows, containers, svars
  <2>2. Undisturbed'
    BY <1>0, <1>4 DEF TypeOK, NotYetKnown, Undisturbed, ProvisionBackend, BackendCall,
       BackendFails, Container, Proceed, rows, containers, svars
  <2>3. Removed'
    BY <1>0, <1>4 DEF TypeOK, Undisturbed, Removed, ProvisionBackend, BackendCall,
       BackendFails, Container, Proceed, rows, containers, svars
  <2> QED
    BY <2>1, <2>2, <2>3
<1>5. ASSUME NEW p \in Workers, ProvisionReady(p)
      PROVE  NotYetKnown' /\ Undisturbed' /\ Removed'
  <2>1. NotYetKnown'
    BY <1>0, <1>5 DEF TypeOK, NotYetKnown, ProvisionReady, Save, Finish, containers,
       svars, bounds
  <2>2. Undisturbed'
    BY <1>0, <1>5 DEF TypeOK, NotYetKnown, Undisturbed, ProvisionReady, Save, Finish,
       containers, svars, bounds
  <2>3. Removed'
    BY <1>0, <1>5 DEF TypeOK, Undisturbed, Removed, ProvisionReady, Save, Finish,
       containers, svars, bounds
  <2> QED
    BY <2>1, <2>2, <2>3
<1>6. ASSUME NEW p \in Workers, ProvisionFailed(p)
      PROVE  NotYetKnown' /\ Undisturbed' /\ Removed'
  <2>1. NotYetKnown'
    BY <1>0, <1>6 DEF TypeOK, NotYetKnown, ProvisionFailed, Save, Finish, containers,
       svars, bounds
  <2>2. Undisturbed'
    BY <1>0, <1>6 DEF TypeOK, NotYetKnown, Undisturbed, ProvisionFailed, Save, Finish,
       containers, svars, bounds
  <2>3. Removed'
    BY <1>0, <1>6 DEF TypeOK, Undisturbed, Removed, ProvisionFailed, Save, Finish,
       containers, svars, bounds
  <2> QED
    BY <2>1, <2>2, <2>3
<1>7. ASSUME NEW p \in Workers, ProvisionUndone(p)
      PROVE  NotYetKnown' /\ Undisturbed' /\ Removed'
  <2>1. NotYetKnown'
    BY <1>0, <1>7 DEF TypeOK, NotYetKnown, ProvisionUndone, BackendCall, BackendFails,
       Container, Finish, rows, containers, svars
  <2>2. Undisturbed'
    BY <1>0, <1>7 DEF TypeOK, NotYetKnown, Undisturbed, ProvisionUndone, BackendCall,
       BackendFails, Container, Finish, rows, containers, svars
  <2>3. Removed'
    BY <1>0, <1>7 DEF TypeOK, Undisturbed, Removed, ProvisionUndone, BackendCall,
       BackendFails, Container, Finish, rows, containers, svars
  <2> QED
    BY <2>1, <2>2, <2>3
<1>8. ASSUME NEW p \in Workers, Execute(p)
      PROVE  NotYetKnown' /\ Undisturbed' /\ Removed'
  <2>1. NotYetKnown'
    BY <1>0, <1>8 DEF TypeOK, NotYetKnown, Execute, rows, svars, bounds
  <2>2. Undisturbed'
    BY <1>0, <1>8 DEF TypeOK, NotYetKnown, Undisturbed, Execute, rows, svars, bounds
  <2>3. Removed'
    BY <1>0, <1>8 DEF TypeOK, Undisturbed, Removed, Execute, rows, svars, bounds
  <2> QED
    BY <2>1, <2>2, <2>3
<1>9. ASSUME NEW p \in Workers, ExecAnswers(p)
      PROVE  NotYetKnown' /\ Undisturbed' /\ Removed'
  <2>1. NotYetKnown'
    BY <1>0, <1>9 DEF TypeOK, NotYetKnown, ExecAnswers, rows, svars, bounds
  <2>2. Undisturbed'
    BY <1>0, <1>9 DEF TypeOK, NotYetKnown, Undisturbed, ExecAnswers, rows, svars, bounds
  <2>3. Removed'
    BY <1>0, <1>9 DEF TypeOK, Undisturbed, Removed, ExecAnswers, rows, svars, bounds
  <2> QED
    BY <2>1, <2>2, <2>3
<1>10. ASSUME NEW p \in Workers, ExecRaises(p)
      PROVE  NotYetKnown' /\ Undisturbed' /\ Removed'
  <2>1. NotYetKnown'
    BY <1>0, <1>10 DEF TypeOK, NotYetKnown, ExecRaises, rows, containers, svars
  <2>2. Undisturbed'
    BY <1>0, <1>10 DEF TypeOK, NotYetKnown, Undisturbed, ExecRaises, rows, containers,
       svars
  <2>3. Removed'
    BY <1>0, <1>10 DEF TypeOK, Undisturbed, Removed, ExecRaises, rows, containers,
       svars
  <2> QED
    BY <2>1, <2>2, <2>3
<1>11. ASSUME NEW p \in Workers, IdleRead(p)
      PROVE  NotYetKnown' /\ Undisturbed' /\ Removed'
  <2>1. NotYetKnown'
    BY <1>0, <1>11 DEF TypeOK, NotYetKnown, IdleRead, Finish, rows, containers, svars,
       bounds
  <2>2. Undisturbed'
    BY <1>0, <1>11 DEF TypeOK, NotYetKnown, Undisturbed, IdleRead, Finish, rows,
       containers, svars, bounds
  <2>3. Removed'
    BY <1>0, <1>11 DEF TypeOK, Undisturbed, Removed, IdleRead, Finish, rows,
       containers, svars, bounds
  <2> QED
    BY <2>1, <2>2, <2>3
<1>12. ASSUME NEW p \in Workers, IdleWrite(p)
      PROVE  NotYetKnown' /\ Undisturbed' /\ Removed'
  <2>1. NotYetKnown'
    BY <1>0, <1>12 DEF TypeOK, NotYetKnown, IdleWrite, Save, Finish, containers, svars,
       bounds
  <2>2. Undisturbed'
    BY <1>0, <1>12 DEF TypeOK, NotYetKnown, Undisturbed, IdleWrite, Save, Finish,
       containers, svars, bounds
  <2>3. Removed'
    BY <1>0, <1>12 DEF TypeOK, Undisturbed, Removed, IdleWrite, Save, Finish,
       containers, svars, bounds
  <2> QED
    BY <2>1, <2>2, <2>3
<1>13. ASSUME NEW p \in Workers, TerminateWrite(p)
      PROVE  NotYetKnown' /\ Undisturbed' /\ Removed'
  <2>1. NotYetKnown'
    BY <1>0, <1>13 DEF TypeOK, NotYetKnown, TerminateWrite, Save, Proceed, containers,
       svars, bounds
  <2>2. Undisturbed'
    BY <1>0, <1>13 DEF TypeOK, NotYetKnown, Undisturbed, TerminateWrite, Save, Proceed,
       containers, svars, bounds
  <2>3. Removed'
    BY <1>0, <1>13 DEF TypeOK, Undisturbed, Removed, TerminateWrite, Save, Proceed,
       containers, svars, bounds
  <2> QED
    BY <2>1, <2>2, <2>3
<1>14. ASSUME NEW p \in Workers, TerminateBackend(p)
      PROVE  NotYetKnown' /\ Undisturbed' /\ Removed'
  <2>1. NotYetKnown'
    BY <1>0, <1>14 DEF TypeOK, NotYetKnown, TerminateBackend, BackendCall, BackendFails,
       Container, Proceed, rows, containers, svars
  <2>2. Undisturbed'
    BY <1>0, <1>14 DEF TypeOK, NotYetKnown, Undisturbed, TerminateBackend, BackendCall,
       BackendFails, Container, Proceed, rows, containers, svars
  <2>3. Removed'
    BY <1>0, <1>14 DEF TypeOK, Undisturbed, Removed, TerminateBackend, BackendCall,
       BackendFails, Container, Proceed, rows, containers, svars
  <2> QED
    BY <2>1, <2>2, <2>3
<1>15. ASSUME NEW p \in Workers, TerminateDone(p)
      PROVE  NotYetKnown' /\ Undisturbed' /\ Removed'
  <2>1. NotYetKnown'
    BY <1>0, <1>15 DEF TypeOK, NotYetKnown, TerminateDone, Save, Finish, containers,
       svars, bounds
  <2>2. Undisturbed'
    BY <1>0, <1>15 DEF TypeOK, NotYetKnown, Undisturbed, TerminateDone, Save, Finish,
       containers, svars, bounds
  <2>3. Removed'
    BY <1>0, <1>15 DEF TypeOK, Undisturbed, Removed, TerminateDone, Save, Finish,
       containers, svars, bounds
  <2> QED
    BY <2>1, <2>2, <2>3
<1>16. ASSUME NEW p \in Workers, RequestDies(p)
      PROVE  NotYetKnown' /\ Undisturbed' /\ Removed'
  <2>1. NotYetKnown'
    BY <1>0, <1>16 DEF TypeOK, NotYetKnown, RequestDies, Finish, rows, containers, svars
  <2>2. Undisturbed'
    BY <1>0, <1>16 DEF TypeOK, NotYetKnown, Undisturbed, RequestDies, Finish, rows,
       containers, svars
  <2>3. Removed'
    BY <1>0, <1>16 DEF TypeOK, Undisturbed, Removed, RequestDies, Finish, rows,
       containers, svars
  <2> QED
    BY <2>1, <2>2, <2>3
<1>17. ASSUME NEW s \in Sweepers, SweepList(s)
      PROVE  NotYetKnown' /\ Undisturbed' /\ Removed'
  <2>1. NotYetKnown'
    BY <1>0, <1>17 DEF TypeOK, NotYetKnown, SweepList, StuckStatus, rows, containers,
       wvars, bounds
  <2>2. Undisturbed'
    BY <1>0, <1>17 DEF TypeOK, NotYetKnown, Undisturbed, SweepList, StuckStatus, rows,
       containers, wvars, bounds
  <2>3. Removed'
    BY <1>0, <1>17 DEF TypeOK, Undisturbed, Removed, SweepList, StuckStatus, rows,
       containers, wvars, bounds
  <2> QED
    BY <2>1, <2>2, <2>3
<1>18. ASSUME NEW s \in Sweepers, NEW b \in Boxes, SweepKill(s, b)
      PROVE  NotYetKnown' /\ Undisturbed' /\ Removed'
  <2>1. NotYetKnown'
    BY <1>0, <1>18 DEF TypeOK, NotYetKnown, SweepKill, BackendCall, BackendFails,
       Container, rows, containers, wvars
  <2>2. Undisturbed'
    BY <1>0, <1>18 DEF TypeOK, NotYetKnown, Undisturbed, SweepKill, BackendCall,
       BackendFails, Container, rows, containers, wvars
  <2>3. Removed'
    BY <1>0, <1>18 DEF TypeOK, Undisturbed, Removed, SweepKill, BackendCall,
       BackendFails, Container, rows, containers, wvars
  <2> QED
    BY <2>1, <2>2, <2>3
<1>19. ASSUME NEW s \in Sweepers, SweepMark(s)
      PROVE  NotYetKnown' /\ Undisturbed' /\ Removed'
  <2>1. NotYetKnown'
    BY <1>0, <1>19 DEF TypeOK, NotYetKnown, SweepMark, SweepNext, StuckStatus, Save,
       containers, wvars, bounds
  <2>2. Undisturbed'
    BY <1>0, <1>19 DEF TypeOK, NotYetKnown, Undisturbed, SweepMark, SweepNext,
       StuckStatus, Save, containers, wvars, bounds
  <2>3. Removed'
    BY <1>0, <1>19 DEF TypeOK, Undisturbed, Removed, SweepMark, SweepNext,
       StuckStatus, Save, containers, wvars, bounds
  <2> QED
    BY <2>1, <2>2, <2>3
<1>20. ASSUME NEW s \in Sweepers, SweepMarkFails(s)
      PROVE  NotYetKnown' /\ Undisturbed' /\ Removed'
  <2>1. NotYetKnown'
    BY <1>0, <1>20 DEF TypeOK, NotYetKnown, SweepMarkFails, SweepNext, rows, containers,
       wvars
  <2>2. Undisturbed'
    BY <1>0, <1>20 DEF TypeOK, NotYetKnown, Undisturbed, SweepMarkFails, SweepNext, rows,
       containers, wvars
  <2>3. Removed'
    BY <1>0, <1>20 DEF TypeOK, Undisturbed, Removed, SweepMarkFails, SweepNext, rows,
       containers, wvars
  <2> QED
    BY <2>1, <2>2, <2>3
<1>21. ASSUME NEW s \in Sweepers, SweepDies(s)
      PROVE  NotYetKnown' /\ Undisturbed' /\ Removed'
  <2>1. NotYetKnown'
    BY <1>0, <1>21 DEF TypeOK, NotYetKnown, SweepDies, rows, containers, wvars
  <2>2. Undisturbed'
    BY <1>0, <1>21 DEF TypeOK, NotYetKnown, Undisturbed, SweepDies, rows, containers,
       wvars
  <2>3. Removed'
    BY <1>0, <1>21 DEF TypeOK, Undisturbed, Removed, SweepDies, rows, containers,
       wvars
  <2> QED
    BY <2>1, <2>2, <2>3
<1>22. ASSUME NEW b \in Boxes, Age(b)
      PROVE  NotYetKnown' /\ Undisturbed' /\ Removed'
  <2>1. NotYetKnown'
    BY <1>0, <1>22 DEF TypeOK, NotYetKnown, Age, StuckStatus, containers, wvars, svars,
       bounds
  <2>2. Undisturbed'
    BY <1>0, <1>22 DEF TypeOK, NotYetKnown, Undisturbed, Age, StuckStatus, containers,
       wvars, svars, bounds
  <2>3. Removed'
    BY <1>0, <1>22 DEF TypeOK, Undisturbed, Removed, Age, StuckStatus, containers,
       wvars, svars, bounds
  <2> QED
    BY <2>1, <2>2, <2>3
<1>23. ASSUME NEW x \in Executions, CommandEnds(x)
      PROVE  NotYetKnown' /\ Undisturbed' /\ Removed'
  <2>1. NotYetKnown'
    BY <1>0, <1>23 DEF TypeOK, NotYetKnown, CommandEnds, rows, wvars, svars, bounds
  <2>2. Undisturbed'
    BY <1>0, <1>23 DEF TypeOK, NotYetKnown, Undisturbed, CommandEnds, rows, wvars, svars,
       bounds
  <2>3. Removed'
    BY <1>0, <1>23 DEF TypeOK, Undisturbed, Removed, CommandEnds, rows, wvars, svars,
       bounds
  <2> QED
    BY <2>1, <2>2, <2>3
<1>24. CASE UNCHANGED vars
  BY <1>0, <1>24 DEF NotYetKnown, Undisturbed, Removed, vars, rows, containers, wvars,
       svars, bounds
<1> QED
  BY <1>1, <1>2, <1>3, <1>4, <1>5, <1>6, <1>7, <1>8, <1>9, <1>10, <1>11, <1>12,
     <1>13, <1>14, <1>15, <1>16, <1>17, <1>18, <1>19, <1>20, <1>21, <1>22, <1>23,
     <1>24 DEF Next, Serve, Sweep

\* Unless a call of the backend failed or the recovery overtook its provisioning,
\* no container outlives its sandbox, however requests, slow or dying, terminations
\* and sweeps overlap.
THEOREM EndedSandboxIsGone == Spec => []EndedIsGone
<1>1. Init => GoneInv
  <2>1. Init => TypeOK
    BY RequestBounds, FaultBounds DEF Init, TypeOK, WorkerPc
  <2> QED
    BY <2>1, NoneAssumption DEF Init, GoneInv, NotYetKnown, Undisturbed, Removed
<1>2. GoneInv /\ [Next]_vars => GoneInv'
  BY TypeStep, GoneStep DEF GoneInv
<1>3. GoneInv => EndedIsGone
  BY DEF GoneInv, Removed, EndedIsGone
<1> QED
  BY <1>1, <1>2, <1>3, PTL DEF Spec
=============================================================================
