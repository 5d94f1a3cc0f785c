---------------------------- MODULE HumanGate_proofs ----------------------------
(***************************************************************************)
(* What is proved about the human gate, for any number of invocations,     *)
(* approvals, reviewers and threads, and whether or not the services are   *)
(* wired.                                                                  *)
(*                                                                         *)
(* The runtime takes no lock, so the argument follows a permission from    *)
(* service to service: an invocation asks for one approval at most, the    *)
(* locked decision makes one background call of it, and the call becomes   *)
(* one thread.  Of all the threads that know an invocation, one at most is *)
(* live, that is, will write its row.                                      *)
(***************************************************************************)
EXTENDS HumanGate, TLAPS

\* The types of the variables are always expanded.
USE DEF InvocationRows, ApprovalRows

\* A thread that may still save its invocation.
Live(th) == \/ th.pc \in {"model", "tools", "ask", "resumed"}
            \/ th.pc = "route" /\ th.status = "waiting_human"

Serves(t, i)   == thread[t] # IdleThread /\ thread[t].id = i
Executes(t, i) == Serves(t, i) /\ thread[t].mode = "execute"
Resumes(t, i)  == Serves(t, i) /\ thread[t].mode # "execute"

\* A background call that will resume i.
Tells(r, i) == request[r].pc = "background" /\ request[r].target = i

\* An approval of i has been decided, the way the runtime is told.
Agrees(i, mode) ==
    \E a \in Approvals :
        /\ approval[a].target = i
        /\ approval[a].decision \in Decided
        /\ approval[a].decision = "approved" <=> mode \in {"approved", "override"}

Unasked(i) == \A a \in Approvals : approval[a].target # i

\* What a thread knows and has done.
ExecutionOK(th) ==
    th.mode = "execute" =>
        /\ th.pc \in {"model", "ask", "tools", "artifact", "answer"}
        /\ ~th.gated
        /\ Live(th) => Unasked(th.id)
        /\ ~Live(th) /\ th.status = "completed" => row[th.id].status = "completed"

ResumptionOK(th) ==
    th.mode # "execute" =>
        /\ th.pc \in {"route", "resumed", "model", "tools", "answer"}
        /\ Agrees(th.id, th.mode)

ThreadOK(th) ==
    /\ th \in Thread
    /\ row[th.id] # NoRow
    /\ ExecutionOK(th)
    /\ ResumptionOK(th)
    /\ th.pc \in {"route", "resumed"} => ran[th.id] = 0
    /\ th.pc = "resumed" => th.mode = "approved"
    /\ th.gated => th.mode = "approved"
    /\ th.gated /\ th.pc = "tools" => ran[th.id] = 1 /\ executed[th.id] <= faults
    /\ Live(th) => /\ th.status \notin Ended
                   /\ row[th.id].status # "completed"
                   /\ th.id \notin swept => ~row[th.id].done

\* A request that decides holds the lock, and has seen the row as it is.
LocksOK ==
    \A r \in Requests : request[r].pc = "deciding" =>
        /\ approval[request[r].id] # NoApproval
        /\ request[r].seen = approval[request[r].id]
        /\ \A q \in Requests : request[q].pc = "deciding" /\ request[q].id = request[r].id => q = r

\* One permission per invocation, wherever it is.
PermissionOK(i) ==
    /\ \A a, b \in Approvals : approval[a].target = i /\ approval[b].target = i => a = b
    /\ \A t, u \in Threads : Executes(t, i) /\ Executes(u, i) => t = u
    /\ \A t, u \in Threads : Resumes(t, i) /\ Resumes(u, i) => t = u
    /\ \A r, q \in Requests : Tells(r, i) /\ Tells(q, i) => r = q
    /\ \A r \in Requests : Tells(r, i) =>
          /\ \A t \in Threads : ~Resumes(t, i)
          /\ ran[i] = 0
          /\ Agrees(i, request[r].decision)

RowOK(i) ==
    /\ row[i] # NoRow => row[i].done = (row[i].status \in Ended)
    /\ row[i] = NoRow => Unasked(i)
    /\ answer[i] = "completed" => row[i].status = "completed"
    /\ task[i] = "completed" => row[i].status = "completed"

CountsOK(i) ==
    /\ ran[i] <= 1
    /\ ran[i] = 1 => Approved(i)
    /\ executed[i] <= ran[i] + faults

\* The inductive invariant.
IInv ==
    /\ TypeOK
    /\ DecidedOnce
    /\ LocksOK
    /\ \A t \in Threads : thread[t] # IdleThread => ThreadOK(thread[t])
    /\ \A i \in Invocations : PermissionOK(i) /\ RowOK(i) /\ CountsOK(i)

-----------------------------------------------------------------------------
(* Steps of a live thread *)

LEMMA IdleIsNot ==
    /\ ~Live(IdleThread)
    /\ \A th \in Thread : th # IdleThread /\ th.pc # "idle"
BY DEF Live, IdleThread, Thread, ThreadPc

\* Whoever else serves the invocation of a live thread has only its answer
\* left to give, and nobody is about to resume it.
LEMMA Alone ==
    ASSUME IInv, NEW t \in Threads, thread[t] # IdleThread, Live(thread[t]),
           NEW i, i = thread[t].id
    PROVE  /\ \A u \in Threads : u # t /\ Serves(u, i) =>
                 Executes(u, i) /\ ~Live(thread[u]) /\ thread[u].status # "completed"
           /\ \A r \in Requests : ~Tells(r, i)
<1>1. ThreadOK(thread[t]) /\ i \in Invocations /\ Serves(t, i)
  BY DEF IInv, ThreadOK, Thread, Serves
<1>2. PermissionOK(i)
  BY <1>1 DEF IInv
<1>3. CASE thread[t].mode = "execute"
  <2>1. Unasked(i) /\ Executes(t, i)
    BY <1>1, <1>3 DEF ThreadOK, ExecutionOK, Executes
  <2>2. \A mode : ~Agrees(i, mode)
    BY <2>1 DEF Agrees, Unasked
  <2>3. ASSUME NEW u \in Threads, u # t, Serves(u, i) PROVE FALSE
    <3>1. ~Executes(u, i)
      BY <1>2, <2>1, <2>3 DEF PermissionOK
    <3>2. thread[u].mode # "execute" /\ ThreadOK(thread[u])
      BY <2>3, <3>1 DEF Executes, Serves, IInv
    <3> QED
      BY <2>2, <2>3, <3>2 DEF ThreadOK, ResumptionOK, Serves
  <2> QED
    BY <1>2, <2>2, <2>3 DEF PermissionOK
<1>4. CASE thread[t].mode # "execute"
  <2>1. Resumes(t, i) /\ ~Unasked(i)
    BY <1>1, <1>4 DEF ThreadOK, ResumptionOK, Resumes, Agrees, Unasked
  <2>2. ASSUME NEW u \in Threads, u # t, Serves(u, i)
        PROVE  Executes(u, i) /\ ~Live(thread[u]) /\ thread[u].status # "completed"
    <3>1. Executes(u, i)
      BY <1>2, <2>1, <2>2 DEF PermissionOK, Resumes, Executes
    <3>2. ThreadOK(thread[u]) /\ thread[u].mode = "execute" /\ thread[u].id = i
      BY <3>1 DEF Executes, Serves, IInv
    <3>3. ~Live(thread[u])
      BY <2>1, <3>2 DEF ThreadOK, ExecutionOK
    <3>4. row[i].status # "completed"
      BY <1>1 DEF ThreadOK
    <3> QED
      BY <3>1, <3>2, <3>3, <3>4 DEF ThreadOK, ExecutionOK
  <2> QED
    BY <1>2, <2>1, <2>2 DEF PermissionOK
<1> QED
  BY <1>3, <1>4

\* What the steps of a live thread have in common, n being the thread after
\* the step.
LiveMove(t, n) ==
    LET th == thread[t]
        i  == th.id
    IN  /\ n \in Thread /\ n.id = i /\ n.mode = th.mode
        /\ thread' = [thread EXCEPT ![t] = n]
        /\ \/ row' = row
           \/ row' = [row EXCEPT ![i] = [status |-> n.status, done |-> n.status \in Ended]]
        /\ Live(n) => n.status \notin Ended
        /\ ~Live(n) /\ n.status = "completed" => row'[i].status = "completed"
        /\ n.mode = "execute" => n.pc \in {"model", "ask", "tools", "artifact", "answer"} /\ ~n.gated
        /\ n.mode # "execute" => n.pc \in {"resumed", "model", "tools", "answer"}
        /\ n.pc = "resumed" => n.mode = "approved" /\ ran'[i] = 0
        /\ n.gated => n.mode = "approved"
        /\ n.gated /\ n.pc = "tools" => ran'[i] = 1 /\ executed'[i] <= faults'
        /\ ran' \in [Invocations -> 0..2] /\ ran'[i] <= 1
        /\ ran'[i] = 1 => ran[i] = 1 \/ th.mode = "approved"
        /\ executed' \in [Invocations -> 0..MaxToolTries] /\ executed'[i] <= ran'[i] + faults'
        /\ \A j \in Invocations : j # i => ran'[j] = ran[j] /\ executed'[j] = executed[j]
        /\ faults' \in 0..MaxFaults /\ faults' >= faults
        /\ ungated' \subseteq Invocations
        /\ UNCHANGED <<approvalVars, old, sweep, swept, answer, task, sandbox>>

LEMMA LiveMoveKeeps ==
    ASSUME IInv, NEW t \in Threads, thread[t] # IdleThread, Live(thread[t]),
           NEW n, LiveMove(t, n)
    PROVE  IInv'
<1> DEFINE th == thread[t]
           i  == th.id
           saved == [status |-> n.status, done |-> n.status \in Ended]
<1>1. ThreadOK(th) /\ th \in Thread /\ i \in Invocations
  BY DEF IInv, ThreadOK, Thread
<1>2. PermissionOK(i) /\ RowOK(i) /\ CountsOK(i)
  BY <1>1 DEF IInv
<1>3. /\ n \in Thread /\ n.id = i /\ n.mode = th.mode /\ n.status \in InvocationStatus
      /\ thread' = [thread EXCEPT ![t] = n]
      /\ UNCHANGED <<approvalVars, old, sweep, swept, answer, task, sandbox>>
      /\ faults' \in Nat /\ faults \in Nat /\ faults' >= faults
  BY FaultBound DEF LiveMove, IInv, TypeOK, Thread
<1>4. UNCHANGED <<approval, request, creating, published>>
  BY <1>3 DEF approvalVars
<1>5. thread'[t] = n /\ \A u \in Threads : u # t => thread'[u] = thread[u]
  BY <1>3 DEF IInv, TypeOK, InvocationTypeOK
<1>6. /\ row'[i] = row[i] \/ row'[i] = saved
      /\ \A j \in Invocations : j # i => row'[j] = row[j]
  BY <1>1 DEF LiveMove, IInv, TypeOK, InvocationTypeOK
<1>7. saved \in Rows /\ saved # NoRow
  BY <1>3 DEF Rows, NoRow, InvocationStatus
<1>8. TypeOK'
  <2>1. row' \in [Invocations -> Rows \cup {NoRow}]
    BY <1>7 DEF LiveMove, IInv, TypeOK, InvocationTypeOK
  <2>2. thread' \in [Threads -> Thread \cup {IdleThread}]
    BY <1>3 DEF IInv, TypeOK, InvocationTypeOK
  <2>3. ApprovalTypeOK'
    BY <1>4 DEF IInv, TypeOK, ApprovalTypeOK
  <2> QED
    BY <2>1, <2>2, <2>3, <1>3 DEF LiveMove, IInv, TypeOK, InvocationTypeOK
<1>9. DecidedOnce' /\ LocksOK'
  BY <1>4 DEF IInv, DecidedOnce, LocksOK
<1>10. /\ \A j, mode : Agrees(j, mode)' = Agrees(j, mode)
       /\ \A j : Unasked(j)' = Unasked(j) /\ Approved(j)' = Approved(j)
       /\ \A r, j : Tells(r, j)' = Tells(r, j)
  BY <1>4 DEF Agrees, Unasked, Approved, Tells
<1>11. n # IdleThread
  BY <1>3, IdleIsNot
<1>12. ThreadOK(n)'
  <2>1. row'[i] # NoRow /\ (n.status = "completed" /\ ~Live(n) => row'[i].status = "completed")
    BY <1>1, <1>6, <1>7 DEF ThreadOK, LiveMove
  <2>2. Live(n) => row'[i].status # "completed" /\ (i \notin swept => ~row'[i].done)
    <3> SUFFICES ASSUME Live(n)
                 PROVE  row'[i].status # "completed" /\ (i \notin swept => ~row'[i].done)
      OBVIOUS
    <3>1. n.status \notin Ended
      BY DEF LiveMove
    <3>2. row[i].status # "completed" /\ (i \notin swept => ~row[i].done)
      BY <1>1 DEF ThreadOK
    <3>3. saved.status # "completed" /\ ~saved.done
      BY <3>1 DEF Ended
    <3> HIDE DEF saved
    <3> QED
      BY <1>6, <3>2, <3>3
  <2>3. ExecutionOK(n)'
    BY <1>1, <1>3, <1>10, <2>1 DEF ThreadOK, ExecutionOK, LiveMove, Live
  <2>4. ResumptionOK(n)'
    BY <1>1, <1>3, <1>10 DEF ThreadOK, ResumptionOK, LiveMove
  <2>5. n.pc # "route"
    BY <1>3 DEF LiveMove
  <2> QED
    BY <1>3, <2>1, <2>2, <2>3, <2>4, <2>5 DEF ThreadOK, LiveMove, Live
<1>13. ASSUME NEW u \in Threads, u # t, NEW x, x = thread[u], x # IdleThread
       PROVE  ThreadOK(x)'
  <2>1. ThreadOK(x) /\ x.id \in Invocations
    BY <1>13 DEF IInv, ThreadOK, Thread
  <2>2. swept' = swept
    BY <1>3
  <2>3. CASE x.id # i
    <3>1. row'[x.id] = row[x.id] /\ ran'[x.id] = ran[x.id] /\ executed'[x.id] = executed[x.id]
      BY <1>6, <2>1, <2>3 DEF LiveMove
    <3>2. executed[x.id] \in Nat
      BY <2>1, TurnAssumption DEF IInv, TypeOK, InvocationTypeOK
    <3>3. ExecutionOK(x)' /\ ResumptionOK(x)'
      BY <1>10, <2>1, <3>1 DEF ThreadOK, ExecutionOK, ResumptionOK
    <3>4. executed[x.id] <= faults => executed'[x.id] <= faults'
      BY <1>3, <3>1, <3>2
    <3> QED
      BY <2>1, <2>2, <3>1, <3>3, <3>4 DEF ThreadOK
  <2>4. CASE x.id = i
    <3>1. x.mode = "execute" /\ ~Live(x) /\ x.status # "completed"
      BY <1>13, <2>4, Alone DEF Serves, Executes
    <3>2. x.pc \in {"artifact", "answer"} /\ ~x.gated /\ x \in Thread
      BY <2>1, <3>1 DEF ThreadOK, ExecutionOK, Live
    <3>3. row'[i] # NoRow
      BY <1>1, <1>6, <1>7 DEF ThreadOK
    <3>4. ExecutionOK(x)' /\ ResumptionOK(x)'
      BY <3>1, <3>2 DEF ExecutionOK, ResumptionOK
    <3> QED
      BY <2>4, <3>1, <3>2, <3>3, <3>4 DEF ThreadOK
  <2> QED
    BY <2>3, <2>4
<1>14. (\A u \in Threads : thread[u] # IdleThread => ThreadOK(thread[u]))'
  <2> SUFFICES ASSUME NEW u \in Threads, thread'[u] # IdleThread PROVE ThreadOK(thread[u])'
    OBVIOUS
  <2> DEFINE x == thread'[u]
  <2>1. CASE u = t
    <3>1. thread'[u] = n
      BY <1>5, <2>1
    <3> QED
      BY <1>12, <3>1 DEF ThreadOK, ExecutionOK, ResumptionOK
  <2>2. CASE u # t
    <3>1. thread'[u] = thread[u]
      BY <1>5, <2>2
    <3> QED
      BY <1>13, <2>2, <3>1 DEF ThreadOK, ExecutionOK, ResumptionOK
  <2> QED
    BY <2>1, <2>2
<1>15. ASSUME NEW j \in Invocations PROVE (PermissionOK(j) /\ RowOK(j) /\ CountsOK(j))'
  <2>1. PermissionOK(j) /\ RowOK(j) /\ CountsOK(j)
    BY DEF IInv
  <2>2. \A u \in Threads : (Serves(u, j)' <=> Serves(u, j)) /\ thread'[u].mode = thread[u].mode
    BY <1>3, <1>5, <1>11 DEF Serves
  <2>3. \A u \in Threads : (Executes(u, j)' <=> Executes(u, j)) /\ (Resumes(u, j)' <=> Resumes(u, j))
    BY <2>2 DEF Executes, Resumes
  <2>4. \A r \in Requests : Tells(r, j) => j # i
    BY Alone
  <2>5. j # i => ran'[j] = ran[j] /\ executed'[j] = executed[j] /\ row'[j] = row[j]
    BY <1>6 DEF LiveMove
  <2>6. PermissionOK(j)'
    BY <1>4, <1>10, <2>1, <2>3, <2>4, <2>5 DEF PermissionOK
  <2>7. RowOK(j)'
    <3>1. CASE j # i
      BY <1>3, <1>10, <2>1, <2>5, <3>1 DEF RowOK
    <3>2. CASE j = i
      <4>1. row[i] # NoRow /\ row[i].status # "completed"
        BY <1>1 DEF ThreadOK
      <4>2. row'[i] # NoRow /\ row'[i].done = (row'[i].status \in Ended)
        BY <1>2, <1>6, <1>7, <4>1 DEF RowOK
      <4> QED
        BY <1>2, <1>3, <3>2, <4>1, <4>2 DEF RowOK
    <3> QED
      BY <3>1, <3>2
  <2>8. CountsOK(j)'
    <3>1. CASE j # i
      <4>1. ran[j] \in Nat /\ executed[j] \in Nat
        BY TurnAssumption DEF IInv, TypeOK, InvocationTypeOK
      <4> QED
        BY <1>3, <1>10, <2>1, <2>5, <3>1, <4>1 DEF CountsOK
    <3>2. CASE j = i
      <4>1. th.mode = "approved" => Approved(i)
        <5> SUFFICES ASSUME th.mode = "approved" PROVE Approved(i)
          OBVIOUS
        <5>1. Agrees(i, "approved")
          BY <1>1 DEF ThreadOK, ResumptionOK
        <5>2. PICK a \in Approvals : approval[a].target = i /\ approval[a].decision = "approved"
          BY <5>1 DEF Agrees
        <5>3. approval[a] = [target |-> i, decision |-> "approved"]
          BY <5>2 DEF IInv, TypeOK, ApprovalTypeOK, Approval, NoApproval
        <5> QED
          BY <5>3 DEF Approved
      <4>2. ran'[i] = 1 => Approved(i)
        BY <1>2, <4>1 DEF LiveMove, CountsOK
      <4> QED
        BY <1>10, <3>2, <4>2 DEF LiveMove, CountsOK
    <3> QED
      BY <3>1, <3>2
  <2> QED
    BY <2>6, <2>7, <2>8
<1> QED
  BY <1>8, <1>9, <1>14, <1>15 DEF IInv

\* Moves that dispatch no gated call and are no fault.
LEMMA PlainMoveKeeps ==
    ASSUME IInv, NEW t \in Threads, thread[t] # IdleThread, Live(thread[t]),
           NEW n \in Thread, n.id = thread[t].id, n.mode = thread[t].mode,
           thread' = [thread EXCEPT ![t] = n],
           \/ row' = row /\ Live(n)
           \/ row' = [row EXCEPT ![n.id] = [status |-> n.status, done |-> n.status \in Ended]],
           Live(n) => n.status \notin Ended,
           n.pc \in {"model", "ask", "tools", "artifact", "answer", "resumed"},
           n.mode = "execute" => n.pc # "resumed",
           n.mode # "execute" => n.pc \notin {"ask", "artifact"},
           n.pc = "resumed" => n.mode = "approved" /\ ran[n.id] = 0,
           n.gated => thread[t].gated /\ n.pc # "tools",
           ungated' \subseteq Invocations,
           UNCHANGED <<sweeping, ran, executed, answer, approvalVars, hostVars>>
    PROVE  IInv'
<1>1. ThreadOK(thread[t]) /\ thread[t] \in Thread /\ n.id \in Invocations
  BY DEF IInv, ThreadOK, Thread
<1>2. CountsOK(n.id) /\ n.id = thread[t].id
  BY <1>1 DEF IInv
<1>3. UNCHANGED <<old, sweep, swept, ran, executed, answer, approvalVars, task, sandbox, faults>>
  BY DEF sweeping, hostVars
<1>4. faults \in Nat /\ faults \in 0..MaxFaults
  BY FaultBound DEF IInv, TypeOK
<1>5. /\ ran \in [Invocations -> 0..2] /\ executed \in [Invocations -> 0..MaxToolTries]
      /\ row \in [Invocations -> Rows \cup {NoRow}]
  BY DEF IInv, TypeOK, InvocationTypeOK
<1>6. ~Live(n) /\ n.status = "completed" => row'[n.id].status = "completed"
  BY <1>1, <1>5
<1>7. n.mode = "execute" => ~n.gated
  BY <1>1 DEF ThreadOK, ExecutionOK
<1>8. n.gated => n.mode = "approved"
  BY <1>1 DEF ThreadOK
<1>9. LiveMove(t, n)
  BY <1>1, <1>2, <1>3, <1>4, <1>5, <1>6, <1>7, <1>8 DEF LiveMove, CountsOK
<1> QED
  BY <1>9, LiveMoveKeeps

\* A save, and what it leaves of a live thread.
LEMMA SaveKeeps ==
    ASSUME IInv, NEW t \in Threads, thread[t] # IdleThread, Live(thread[t]),
           NEW status, NEW pc \in {"model", "ask", "artifact", "answer", "resumed"},
           Save(t, status, pc) \/ (Mark(t, status, pc) /\ pc = "model"),
           pc \in {"model", "ask", "resumed"} => status \notin Ended,
           thread[t].mode = "execute" => pc # "resumed",
           thread[t].mode # "execute" => pc \notin {"ask", "artifact"},
           pc = "resumed" => thread[t].mode = "approved" /\ ran[thread[t].id] = 0,
           UNCHANGED <<sweeping, ran, executed, ungated, answer, approvalVars, hostVars>>
    PROVE  IInv'
<1> DEFINE th == thread[t]
           n  == [th EXCEPT !.status = status, !.pc = pc]
<1>1. th \in Thread /\ th.status \in InvocationStatus
  BY DEF IInv, ThreadOK, Thread
<1>2. status \in InvocationStatus
  <2>1. status \in InvocationTransitions[th.status]
    BY DEF Save, Mark, CanInvocation
  <2> QED
    BY <1>1, <2>1 DEF InvocationTransitions, InvocationStatus
<1>3. /\ n \in Thread /\ n.id = th.id /\ n.mode = th.mode /\ n.status = status /\ n.pc = pc
      /\ n.gated = th.gated
  BY <1>1, <1>2 DEF Thread, ThreadPc
<1>4. thread' = [thread EXCEPT ![t] = n]
  BY <1>1 DEF Save, Mark, IInv, TypeOK, InvocationTypeOK, Thread
<1>5. \/ row' = row /\ pc = "model"
      \/ row' = [row EXCEPT ![n.id] = [status |-> n.status, done |-> n.status \in Ended]]
  BY <1>3 DEF Save, Mark
<1>6. Live(n) <=> pc \in {"model", "ask", "resumed"}
  BY <1>3 DEF Live
<1>7. ungated' \subseteq Invocations
  BY DEF IInv, TypeOK, InvocationTypeOK
<1> HIDE DEF n
<1> QED
  BY <1>3, <1>4, <1>5, <1>6, <1>7, PlainMoveKeeps

\* A turn that calls tools at once: none of them is gated.
LEMMA TurnKeeps ==
    ASSUME IInv, NEW t \in Threads, NEW risky \in BOOLEAN, TurnCallsTools(t, risky),
           UNCHANGED <<approvalVars, hostVars>>
    PROVE  IInv'
<1> DEFINE th == thread[t]
           n  == [th EXCEPT !.status = "waiting_tool", !.pc = "tools",
                            !.turns = @ - 1, !.gated = FALSE]
<1>1. thread[t] # IdleThread /\ Live(th)
  BY DEF TurnCallsTools, IdleThread, Live
<1>2. th \in Thread /\ th.id \in Invocations
  BY <1>1 DEF IInv, ThreadOK, Thread
<1>3. th.turns - 1 \in 0..MaxTurns
  BY <1>2, TurnAssumption DEF TurnCallsTools, Thread
<1>4. /\ n \in Thread /\ n.id = th.id /\ n.mode = th.mode /\ n.status = "waiting_tool"
      /\ n.pc = "tools" /\ n.gated = FALSE
  BY <1>2, <1>3 DEF Thread, ThreadPc, InvocationStatus
<1>5. thread' = [thread EXCEPT ![t] = n]
  BY <1>2 DEF TurnCallsTools, IInv, TypeOK, InvocationTypeOK, Thread
<1>6. "waiting_tool" \notin Ended
  BY DEF Ended
<1>7. row' = [row EXCEPT ![n.id] = [status |-> n.status, done |-> n.status \in Ended]]
  <2>1. (n.status \in Ended) = FALSE
    BY <1>4, <1>6
  <2> HIDE DEF n
  <2>2. [status |-> n.status, done |-> n.status \in Ended] = [status |-> "waiting_tool", done |-> FALSE]
    BY <1>4, <2>1
  <2> QED
    BY <1>4, <2>2 DEF TurnCallsTools
<1>8. ungated' \subseteq Invocations
  BY <1>2 DEF TurnCallsTools, IInv, TypeOK, InvocationTypeOK
<1>9. UNCHANGED <<sweeping, ran, executed, answer>>
  BY DEF TurnCallsTools
<1> HIDE DEF n
<1> QED
  BY <1>1, <1>4, <1>5, <1>6, <1>7, <1>8, <1>9, PlainMoveKeeps

\* The saves of the loops.
LEMMA LoopSavesKeep ==
    ASSUME IInv, NEW t \in Threads, UNCHANGED <<approvalVars, hostVars>>,
           \/ BudgetExhausted(t) \/ GatewayFails(t) \/ MalformedCalls(t) \/ Complete(t)
           \/ TurnIsGated(t) \/ ToolsFail(t)
    PROVE  IInv'
<1> USE DEF Live, Ended
<1>0. thread[t].pc \in {"model", "tools"}
  BY DEF BudgetExhausted, GatewayFails, MalformedCalls, Complete, TurnIsGated, ToolsFail
<1>1. thread[t] # IdleThread /\ Live(thread[t])
  BY <1>0 DEF IdleThread
<1>2. CASE BudgetExhausted(t)
  BY <1>1, <1>2, SaveKeeps DEF BudgetExhausted
<1>3. CASE GatewayFails(t)
  BY <1>1, <1>3, SaveKeeps DEF GatewayFails
<1>4. CASE MalformedCalls(t)
  BY <1>1, <1>4, SaveKeeps DEF MalformedCalls
<1>5. CASE Complete(t)
  <2>1. CASE thread[t].mode = "execute"
    BY <1>1, <1>5, <2>1, SaveKeeps DEF Complete
  <2>2. CASE thread[t].mode # "execute"
    BY <1>1, <1>5, <2>2, SaveKeeps DEF Complete
  <2> QED
    BY <2>1, <2>2
<1>6. CASE TurnIsGated(t)
  BY <1>1, <1>6, SaveKeeps DEF TurnIsGated
<1>7. CASE ToolsFail(t)
  <2>1. CASE Save(t, "failed", "answer")
    BY <1>1, <1>7, <2>1, SaveKeeps DEF ToolsFail
  <2>2. CASE Mark(t, "running", "model")
    BY <1>1, <1>7, <2>2, SaveKeeps DEF ToolsFail
  <2> QED
    BY <1>7, <2>1, <2>2 DEF ToolsFail
<1> QED
  BY <1>2, <1>3, <1>4, <1>5, <1>6, <1>7

\* A resume is denied, or granted.
LEMMA RouteKeeps ==
    ASSUME IInv, NEW t \in Threads, UNCHANGED <<approvalVars, hostVars>>, Deny(t) \/ Grant(t)
    PROVE  IInv'
<1> USE DEF Live, Ended
<1>1. thread[t] # IdleThread /\ Live(thread[t])
  BY DEF Deny, Grant, IdleThread
<1>2. ThreadOK(thread[t])
  BY <1>1 DEF IInv
<1>3. CASE Deny(t)
  <2>1. CASE thread[t].mode = "rejected"
    BY <1>1, <1>3, <2>1, SaveKeeps DEF Deny
  <2>2. CASE thread[t].mode = "cancel"
    BY <1>1, <1>3, <2>2, SaveKeeps DEF Deny
  <2> QED
    BY <1>3, <2>1, <2>2 DEF Deny
<1>4. CASE Grant(t)
  <2>1. CASE thread[t].mode = "approved"
    BY <1>1, <1>2, <1>4, <2>1, SaveKeeps DEF Grant, ThreadOK
  <2>2. CASE thread[t].mode = "override"
    BY <1>1, <1>4, <2>2, SaveKeeps DEF Grant
  <2> QED
    BY <1>4, <2>1, <2>2 DEF Grant
<1> QED
  BY <1>3, <1>4

\* The gated calls are dispatched: for the first time, and under an approval.
LEMMA DispatchKeeps ==
    ASSUME IInv, NEW t \in Threads, UNCHANGED <<approvalVars, hostVars>>, DispatchGated(t)
    PROVE  IInv'
<1> DEFINE th == thread[t]
           i  == th.id
           n  == [th EXCEPT !.status = "waiting_tool", !.pc = "tools", !.gated = TRUE]
<1>1. thread[t] # IdleThread /\ Live(th) /\ th.pc = "resumed"
  BY DEF DispatchGated, IdleThread, Live
<1>2. ThreadOK(th) /\ th \in Thread /\ i \in Invocations /\ th.mode = "approved" /\ ran[i] = 0
  BY <1>1 DEF IInv, ThreadOK, Thread
<1>3. /\ n \in Thread /\ n.id = i /\ n.mode = "approved" /\ n.status = "waiting_tool"
      /\ n.pc = "tools" /\ n.gated = TRUE
  BY <1>2 DEF Thread, ThreadPc, InvocationStatus
<1>4. thread' = [thread EXCEPT ![t] = n]
  BY <1>2 DEF DispatchGated, IInv, TypeOK, InvocationTypeOK, Thread
<1>5. "waiting_tool" \notin Ended
  BY DEF Ended
<1>6. row' = [row EXCEPT ![i] = [status |-> n.status, done |-> n.status \in Ended]]
  <2>1. (n.status \in Ended) = FALSE
    BY <1>3, <1>5
  <2> HIDE DEF n
  <2>2. [status |-> n.status, done |-> n.status \in Ended] = [status |-> "waiting_tool", done |-> FALSE]
    BY <1>3, <2>1
  <2> QED
    BY <2>2 DEF DispatchGated
<1>7. ran \in [Invocations -> 0..2] /\ executed \in [Invocations -> 0..MaxToolTries]
  BY DEF IInv, TypeOK, InvocationTypeOK
<1>8. ran' = [ran EXCEPT ![i] = 1]
  BY <1>2, <1>7 DEF DispatchGated
<1>9. executed[i] <= faults /\ executed[i] \in Nat /\ faults \in Nat
  BY <1>2, <1>7, FaultBound, TurnAssumption DEF IInv, CountsOK, TypeOK
<1>10. /\ UNCHANGED <<approvalVars, old, sweep, swept, answer, task, sandbox, faults, executed>>
       /\ ungated' \subseteq Invocations /\ faults \in 0..MaxFaults
  BY DEF DispatchGated, sweeping, hostVars, IInv, TypeOK, InvocationTypeOK
<1>11. Live(n)
  BY <1>3 DEF Live
<1> HIDE DEF n
<1>12. LiveMove(t, n)
  BY <1>2, <1>3, <1>4, <1>5, <1>6, <1>7, <1>8, <1>9, <1>10, <1>11 DEF LiveMove
<1> QED
  BY <1>1, <1>12, LiveMoveKeeps

\* A fault, or none.
LEMMA Faults ==
    ASSUME IInv, faults' = faults \/ Fault
    PROVE  faults' \in 0..MaxFaults /\ faults' \in Nat /\ faults \in Nat /\ faults' >= faults
BY FaultBound DEF IInv, TypeOK, Fault

\* Gated calls are executed: with the dispatch or a lost answer to account
\* for it.
LEMMA ExecutionKeeps ==
    ASSUME IInv, NEW t \in Threads,
           \/ ToolsSucceed(t) /\ faults' = faults
           \/ ToolAnswerLost(t) /\ Fault,
           UNCHANGED <<approvalVars, task, sandbox>>
    PROVE  IInv'
<1> DEFINE th == thread[t]
           i  == th.id
           n  == IF ToolsSucceed(t) THEN [th EXCEPT !.status = "running", !.pc = "model"] ELSE th
           more == IF th.gated THEN executed[i] + 1 ELSE executed[i]
<1>1. thread[t] # IdleThread /\ Live(th) /\ th.pc = "tools"
  BY DEF ToolsSucceed, ToolAnswerLost, IdleThread, Live
<1>2. ThreadOK(th) /\ th \in Thread /\ i \in Invocations
  BY <1>1 DEF IInv, ThreadOK, Thread
<1>3. /\ n \in Thread /\ n.id = i /\ n.mode = th.mode /\ n.gated = th.gated
      /\ n.status \notin Ended /\ n.pc \in {"model", "tools"}
  <2>1. th.status \notin Ended
    BY <1>1, <1>2 DEF ThreadOK
  <2>2. CASE ToolsSucceed(t)
    BY <1>2, <2>2 DEF Thread, ThreadPc, InvocationStatus, Ended
  <2>3. CASE ~ToolsSucceed(t)
    BY <1>1, <1>2, <2>1, <2>3
  <2> QED
    BY <2>2, <2>3
<1>4. Live(n)
  BY <1>3 DEF Live
<1>5. thread' = [thread EXCEPT ![t] = n]
  <2>1. CASE ToolsSucceed(t)
    BY <1>2, <2>1 DEF ToolsSucceed, Save, Mark, IInv, TypeOK, InvocationTypeOK, Thread
  <2>2. CASE ~ToolsSucceed(t)
    BY <2>2 DEF ToolAnswerLost, IInv, TypeOK, InvocationTypeOK
  <2> QED
    BY <2>1, <2>2
<1>6. \/ row' = row
      \/ row' = [row EXCEPT ![i] = [status |-> n.status, done |-> n.status \in Ended]]
  <2>1. CASE ToolsSucceed(t)
    <3>1. n.status = "running"
      BY <1>2, <2>1 DEF Thread
    <3> HIDE DEF n
    <3> QED
      BY <2>1, <3>1 DEF ToolsSucceed, Save, Mark
  <2>2. CASE ~ToolsSucceed(t)
    BY <2>2 DEF ToolAnswerLost
  <2> QED
    BY <2>1, <2>2
<1>7. /\ ran \in [Invocations -> 0..2] /\ executed \in [Invocations -> 0..MaxToolTries]
      /\ ungated \subseteq Invocations
  BY DEF IInv, TypeOK, InvocationTypeOK
<1>8. executed' = [executed EXCEPT ![i] = more]
  BY <1>2, <1>7 DEF ToolsSucceed, ToolAnswerLost
<1>9. more \in 0..MaxToolTries
  BY <1>2, <1>7, TurnAssumption DEF ToolsSucceed, ToolAnswerLost
<1>10. UNCHANGED <<old, sweep, swept, ran, ungated, answer>>
  BY DEF ToolsSucceed, ToolAnswerLost, sweeping
<1>11. /\ faults' \in 0..MaxFaults /\ faults' \in Nat /\ faults \in Nat /\ faults' >= faults
  BY Faults
<1>12. CountsOK(i)
  BY <1>2 DEF IInv
<1>13. more <= ran[i] + faults'
  <2>1. CASE th.gated
    <3>1. ran[i] = 1 /\ executed[i] <= faults /\ executed[i] \in Nat
      BY <1>1, <1>2, <1>7, <2>1, TurnAssumption DEF ThreadOK
    <3> QED
      BY <1>11, <2>1, <3>1
  <2>2. CASE ~th.gated
    BY <1>2, <1>7, <1>11, <1>12, <2>2, TurnAssumption DEF CountsOK
  <2> QED
    BY <2>1, <2>2
<1>14. n.gated /\ n.pc = "tools" => ran[i] = 1 /\ more <= faults'
  <2> SUFFICES ASSUME n.gated, n.pc = "tools" PROVE ran[i] = 1 /\ more <= faults'
    OBVIOUS
  <2>1. ~ToolsSucceed(t)
    BY <1>2 DEF Thread
  <2>2. faults' = faults + 1 /\ th.gated
    BY <1>3, <2>1 DEF Fault
  <2>3. ran[i] = 1 /\ executed[i] <= faults /\ executed[i] \in Nat
    BY <1>1, <1>2, <1>7, <2>2, TurnAssumption DEF ThreadOK
  <2> QED
    BY <1>11, <2>2, <2>3
<1>15. th.mode = "execute" => ~th.gated
  BY <1>2 DEF ThreadOK, ExecutionOK
<1>16. th.gated => th.mode = "approved"
  BY <1>2 DEF ThreadOK
<1> HIDE DEF n, more
<1>17. executed' \in [Invocations -> 0..MaxToolTries] /\ executed'[i] = more
       /\ \A j \in Invocations : j # i => executed'[j] = executed[j]
  BY <1>2, <1>7, <1>8, <1>9
<1>18. LiveMove(t, n)
  BY <1>2, <1>3, <1>4, <1>5, <1>6, <1>7, <1>10, <1>11, <1>12, <1>13, <1>14, <1>15, <1>16, <1>17
     DEF LiveMove, CountsOK
<1> QED
  BY <1>1, <1>18, LiveMoveKeeps

-----------------------------------------------------------------------------
(* Steps that write no row *)

\* A thread that ends, or that has nothing left but its answer.
Gives(th, n) ==
    \/ n = th
    \/ n = IdleThread
    \/ th.pc \in {"artifact", "ask"} /\ n = [th EXCEPT !.pc = "answer"]

\* The approvals and requests of i after a step that grants a permission for
\* it, uses none, and asks only when no thread is left that might ask.
Frame(i) ==
    /\ \A mode : Agrees(i, mode) => Agrees(i, mode)'
    /\ Approved(i) => Approved(i)'
    /\ Unasked(i) => \/ Unasked(i)'
                     \/ row[i] # NoRow /\ \A t \in Threads : Executes(t, i)' => ~Live(thread[t])'
    /\ \A a, b \in Approvals : approval'[a].target = i /\ approval'[b].target = i => a = b
    /\ \A r, q \in Requests : Tells(r, i)' /\ Tells(q, i)' => r = q
    /\ \A r \in Requests : Tells(r, i)' =>
          /\ \A t \in Threads : ~Resumes(t, i)
          /\ ran[i] = 0
          /\ Agrees(i, request[r].decision)'

\* A step that writes no row.
LEMMA FrameKeeps ==
    ASSUME IInv,
           UNCHANGED <<row, swept, ran, executed, ungated>>,
           sandbox' \in [Invocations -> BOOLEAN],
           old' \subseteq Invocations, sweep' \subseteq Invocations,
           ApprovalTypeOK', DecidedOnce', LocksOK',
           thread' \in [Threads -> Thread \cup {IdleThread}],
           \A t \in Threads : Gives(thread[t], thread'[t]),
           \A i \in Invocations : Frame(i),
           answer' \in [Invocations -> Answers],
           task' \in [Invocations -> TaskStatus],
           \A i \in Invocations : answer'[i] = "completed" \/ task'[i] = "completed"
                                     => row[i].status = "completed",
           faults' = faults \/ Fault
    PROVE  IInv'
<1>1. faults' \in 0..MaxFaults /\ faults' \in Nat /\ faults \in Nat /\ faults' >= faults
  BY Faults
<1>2. TypeOK'
  BY <1>1 DEF IInv, TypeOK, InvocationTypeOK
<1>3. ASSUME NEW t \in Threads, NEW th, th = thread[t], NEW n, n = thread'[t], n # IdleThread
      PROVE  /\ th # IdleThread /\ ThreadOK(th) /\ th \in Thread /\ th.id \in Invocations
             /\ n \in Thread
             /\ n.id = th.id /\ n.mode = th.mode /\ n.status = th.status /\ n.gated = th.gated
             /\ n.pc = th.pc \/ (th.pc \in {"artifact", "ask"} /\ n.pc = "answer")
  <2>1. Gives(th, n)
    BY <1>3
  <2>2. th # IdleThread
    BY <1>3, <2>1 DEF Gives, IdleThread
  <2>3. ThreadOK(th) /\ th \in Thread /\ th.id \in Invocations
    BY <1>3, <2>2 DEF IInv, ThreadOK, Thread
  <2>4. n \in Thread
    BY <1>3
  <2> QED
    BY <1>3, <2>1, <2>2, <2>3, <2>4 DEF Gives, Thread
<1>4. ASSUME NEW t \in Threads, NEW th, th = thread[t], NEW n, n = thread'[t], n # IdleThread
      PROVE  ThreadOK(n)'
  <2>1. /\ th # IdleThread /\ ThreadOK(th) /\ th \in Thread /\ th.id \in Invocations
        /\ n \in Thread
        /\ n.id = th.id /\ n.mode = th.mode /\ n.status = th.status /\ n.gated = th.gated
        /\ n.pc = th.pc \/ (th.pc \in {"artifact", "ask"} /\ n.pc = "answer")
    BY <1>3, <1>4
  <2>2. executed[th.id] \in Nat
    BY <2>1, TurnAssumption DEF IInv, TypeOK, InvocationTypeOK
  <2>3. (Live(n) => Live(th)) /\ (~Live(n) => ~Live(th) \/ th.pc = "ask")
    BY <2>1 DEF Live
  <2>4. th.pc = "ask" => th.status \notin Ended
    BY <2>1 DEF ThreadOK, Live
  <2>5. Frame(th.id)
    BY <2>1
  <2>6. n.mode = "execute" /\ Live(n) => Unasked(n.id)'
    <3> SUFFICES ASSUME n.mode = "execute", Live(n) PROVE Unasked(th.id)'
      BY <2>1 DEF Unasked
    <3>1. Unasked(th.id)
      BY <2>1, <2>3 DEF ThreadOK, ExecutionOK
    <3>2. Executes(t, th.id)' /\ Live(thread[t])'
      BY <1>4, <2>1 DEF Executes, Serves, Live
    <3> QED
      BY <2>5, <3>1, <3>2 DEF Frame
  <2>7. ExecutionOK(n)'
    BY <2>1, <2>3, <2>4, <2>6 DEF ThreadOK, ExecutionOK, Live, Ended
  <2>8. ResumptionOK(n)'
    <3>1. Agrees(th.id, th.mode) => Agrees(th.id, th.mode)'
      BY <2>5 DEF Frame
    <3>2. Agrees(th.id, th.mode)' => Agrees(n.id, n.mode)'
      BY <2>1 DEF Agrees
    <3> QED
      BY <2>1, <3>1, <3>2 DEF ThreadOK, ResumptionOK
  <2>9. executed[th.id] <= faults => executed[th.id] <= faults'
    BY <1>1, <2>2
  <2> QED
    BY <2>1, <2>3, <2>7, <2>8, <2>9 DEF ThreadOK
<1>5. (\A t \in Threads : thread[t] # IdleThread => ThreadOK(thread[t]))'
  <2> SUFFICES ASSUME NEW t \in Threads, thread'[t] # IdleThread PROVE ThreadOK(thread[t])'
    OBVIOUS
  <2>1. PICK n : n = thread'[t]
    OBVIOUS
  <2>2. ThreadOK(n)'
    BY <1>4, <2>1
  <2> QED
    BY <2>1, <2>2 DEF ThreadOK, ExecutionOK, ResumptionOK
<1>6. ASSUME NEW i \in Invocations PROVE (PermissionOK(i) /\ RowOK(i) /\ CountsOK(i))'
  <2>1. PermissionOK(i) /\ RowOK(i) /\ CountsOK(i) /\ Frame(i)
    BY DEF IInv
  <2>2. \A t \in Threads : (Executes(t, i)' => Executes(t, i)) /\ (Resumes(t, i)' => Resumes(t, i))
    BY <1>3 DEF Executes, Resumes, Serves
  <2>3. PermissionOK(i)'
    BY <2>1, <2>2 DEF PermissionOK, Frame
  <2>4. RowOK(i)'
    BY <2>1 DEF RowOK, Frame
  <2>5. executed[i] \in Nat /\ ran[i] \in Nat
    BY TurnAssumption DEF IInv, TypeOK, InvocationTypeOK
  <2>6. CountsOK(i)'
    BY <1>1, <2>1, <2>5 DEF CountsOK, Frame
  <2> QED
    BY <2>3, <2>4, <2>6
<1> QED
  BY <1>2, <1>5, <1>6 DEF IInv

\* Threads and requests that end, answers and results that agree with the row
\* take no permission and no claim away from anybody else.
LEMMA LessKeeps ==
    ASSUME IInv,
           UNCHANGED <<approval, row, swept, ran, executed, ungated>>,
           sandbox' \in [Invocations -> BOOLEAN], old' \subseteq Invocations,
           sweep' \subseteq Invocations, creating' \subseteq Approvals,
           thread' \in [Threads -> Thread \cup {IdleThread}],
           \A t \in Threads : Gives(thread[t], thread'[t]),
           request' \in [Requests -> Request \cup {NoRequest}],
           \A r \in Requests : request'[r] = request[r] \/ request'[r] = NoRequest,
           published' \in [Approvals -> [EventTypes -> 0..MaxEvents]],
           \A a \in Approvals : published'[a]["decided"] = published[a]["decided"],
           answer' \in [Invocations -> Answers],
           task' \in [Invocations -> TaskStatus],
           \A i \in Invocations : answer'[i] = "completed" \/ task'[i] = "completed"
                                     => row[i].status = "completed",
           faults' = faults \/ Fault
    PROVE  IInv'
<1>1. ApprovalTypeOK' /\ DecidedOnce'
  BY DEF IInv, TypeOK, ApprovalTypeOK, DecidedOnce
<1>2. NoRequest.pc = "idle"
  BY DEF NoRequest
<1>3. LocksOK'
  BY <1>2 DEF IInv, LocksOK
<1>4. ASSUME NEW i \in Invocations PROVE Frame(i)
  <2>1. PermissionOK(i)
    BY DEF IInv
  <2>2. \A r \in Requests : Tells(r, i)' => Tells(r, i) /\ request'[r] = request[r]
    BY <1>2 DEF Tells
  <2> QED
    BY <2>1, <2>2 DEF PermissionOK, Frame, Agrees, Unasked, Approved
<1> QED
  BY <1>1, <1>3, <1>4, FrameKeeps

\* Variables that LessKeeps leaves to the step.
LEMMA Types ==
    ASSUME IInv
    PROVE  /\ old \subseteq Invocations /\ sweep \subseteq Invocations /\ creating \subseteq Approvals
           /\ thread \in [Threads -> Thread \cup {IdleThread}]
           /\ request \in [Requests -> Request \cup {NoRequest}]
           /\ published \in [Approvals -> [EventTypes -> 0..MaxEvents]]
           /\ answer \in [Invocations -> Answers]
           /\ task \in [Invocations -> TaskStatus]
           /\ sandbox \in [Invocations -> BOOLEAN]
           /\ \A i \in Invocations : answer[i] = "completed" \/ task[i] = "completed"
                                        => row[i].status = "completed"
BY DEF IInv, TypeOK, ApprovalTypeOK, InvocationTypeOK, RowOK

\* A thread that stores its artifact, asks in vain, or ends without having
\* saved anything.
LEMMA QuietThreadKeeps ==
    ASSUME IInv, NEW t \in Threads,
           \/ /\ StoreArtifact(t) \/ RefuseResume(t)
              /\ UNCHANGED <<approvalVars, hostVars>>
           \/ AskFails(t)
    PROVE  IInv'
<1>1. thread[t] # IdleThread
  BY DEF StoreArtifact, RefuseResume, AskFails, Asked, IdleThread
<1>2. thread[t] \in Thread
  BY <1>1 DEF IInv, ThreadOK
<1>3. PICK n \in Thread \cup {IdleThread} : Gives(thread[t], n) /\ thread' = [thread EXCEPT ![t] = n]
  <2>1. CASE StoreArtifact(t) \/ Asked(t)
    <3>1. [thread[t] EXCEPT !.pc = "answer"] \in Thread
      BY <1>2 DEF Thread, ThreadPc
    <3> QED
      BY <2>1, <3>1, Types DEF StoreArtifact, Asked, Gives
  <2>2. CASE RefuseResume(t)
    BY <2>2 DEF RefuseResume, Gives
  <2> QED
    BY <2>1, <2>2 DEF AskFails
<1>4. /\ thread' \in [Threads -> Thread \cup {IdleThread}]
      /\ \A u \in Threads : Gives(thread[u], thread'[u])
  BY <1>3, Types DEF Gives
<1>5. UNCHANGED <<approval, request, creating, published, row, old, sweep, swept, ran, executed,
                  ungated, answer, task, sandbox>>
  BY DEF StoreArtifact, RefuseResume, AskFails, Asked, approvalVars, hostVars, sweeping
<1>6. faults' = faults \/ Fault
  BY DEF AskFails, CallFails, hostVars
<1> QED
  BY <1>4, <1>5, <1>6, Types, LessKeeps

\* The response of an execution says completed only if its row does.
LEMMA RespondKeeps ==
    ASSUME IInv, NEW t \in Threads, UNCHANGED <<approvalVars, hostVars>>,
           NEW response \in Answers, Respond(t, response)
    PROVE  IInv'
<1> DEFINE th == thread[t]
<1>1. thread[t] # IdleThread /\ ~Live(th) /\ th.pc = "answer"
  BY DEF Respond, IdleThread, Live
<1>2. ThreadOK(th) /\ th \in Thread /\ th.id \in Invocations
  BY <1>1 DEF IInv, ThreadOK, Thread
<1>3. thread' = [thread EXCEPT ![t] = IdleThread]
  BY DEF Respond
<1>4. /\ thread' \in [Threads -> Thread \cup {IdleThread}]
      /\ \A u \in Threads : Gives(thread[u], thread'[u])
  BY <1>3, Types DEF Gives
<1>5. /\ answer' \in [Invocations -> Answers]
      /\ \A i \in Invocations : answer'[i] = "completed" => row[i].status = "completed"
  <2>1. CASE th.mode = "execute"
    <3>1. answer' = [answer EXCEPT ![th.id] = response]
      BY <2>1 DEF Respond
    <3>2. response = "completed" => th.status = "completed"
      BY DEF Respond, Responses
    <3>3. response = "completed" => row[th.id].status = "completed"
      BY <1>1, <1>2, <2>1, <3>2 DEF ThreadOK, ExecutionOK
    <3> QED
      BY <3>1, <3>3, <1>2, Types
  <2>2. CASE th.mode # "execute"
    BY <2>2, Types DEF Respond
  <2> QED
    BY <2>1, <2>2
<1>6. UNCHANGED <<approval, request, creating, published, row, old, sweep, swept, ran, executed,
                  ungated, task, sandbox, faults>>
  BY DEF Respond, approvalVars, hostVars, sweeping
<1> QED
  BY <1>4, <1>5, <1>6, Types, LessKeeps

\* What a thread does without the orchestrator.
LEMMA ThreadStepKeeps ==
    ASSUME IInv, NEW t \in Threads, UNCHANGED <<approvalVars, hostVars>>, ThreadStep(t)
    PROVE  IInv'
BY LoopSavesKeep, TurnKeeps, RouteKeeps, DispatchKeeps, QuietThreadKeeps
   DEF ThreadStep, RunToolLoop, ContinueModelLoop, OverrideLoop, Resume

\* Time passes, the recovery selects.
LEMMA ClockKeeps ==
    ASSUME IInv, UNCHANGED <<approvalVars, hostVars>>,
           SweepSelect \/ \E i \in Invocations : Age(i)
    PROVE  IInv'
<1>1. UNCHANGED <<approval, request, creating, published, thread, row, swept, ran, executed,
                  ungated, answer, task, sandbox, faults>>
  BY DEF SweepSelect, Age, approvalVars, hostVars
<1>2. old' \subseteq Invocations /\ sweep' \subseteq Invocations
  BY Types DEF SweepSelect, Age
<1>3. \A u \in Threads : Gives(thread[u], thread'[u])
  BY <1>1 DEF Gives
<1> QED
  BY <1>1, <1>2, <1>3, Types, LessKeeps

\* A process dies.
LEMMA CrashKeeps ==
    ASSUME IInv, Crash
    PROVE  IInv'
<1>1. CASE OrchestratorCrash /\ UNCHANGED invocationVars
  <2>1. UNCHANGED <<approval, published, thread, row, old, sweep, swept, ran, executed,
                    ungated, answer, task, sandbox>>
    BY <1>1 DEF Crash, OrchestratorCrash, invocationVars
  <2>2. /\ creating' = {} /\ request' \in [Requests -> Request \cup {NoRequest}]
        /\ \A r \in Requests : request'[r] = NoRequest
    BY <1>1 DEF OrchestratorCrash
  <2>3. \A u \in Threads : Gives(thread[u], thread'[u])
    BY <2>1 DEF Gives
  <2> QED
    BY <2>1, <2>2, <2>3, Types, LessKeeps DEF Crash
<1>2. CASE RuntimeCrash /\ UNCHANGED approvalVars
  <2>1. UNCHANGED <<approval, request, creating, published, row, old, swept, ran, executed,
                    ungated, answer, task, sandbox>>
    BY <1>2 DEF Crash, RuntimeCrash, approvalVars
  <2>2. sweep' = {} /\ thread' = [u \in Threads |-> IdleThread]
    BY <1>2 DEF RuntimeCrash
  <2>3. \A u \in Threads : Gives(thread[u], thread'[u])
    BY <2>2 DEF Gives
  <2> QED
    BY <2>1, <2>2, <2>3, Types, LessKeeps DEF Crash
<1> QED
  BY <1>1, <1>2 DEF Crash

\* The task ends: completed only on the answer of a completed invocation.
LEMMA FinalizeKeeps ==
    ASSUME IInv, NEW i \in Invocations, NEW terminated \in BOOLEAN,
           \/ AnswerArrives(i, terminated)
           \/ \E s \in {"timed_out", "failed"} : AnswerIsLost(i, s, terminated)
    PROVE  IInv'
<1>1. PICK response : /\ response \in Answers /\ Finalize(i, response, terminated)
                      /\ response = "completed" => answer[i] = "completed"
                      /\ faults' = faults \/ Fault
  BY Types DEF AnswerArrives, AnswerIsLost, Answers
<1>2. TaskResult(response) \in TaskStatus /\ (TaskResult(response) = "completed" => answer[i] = "completed")
  BY <1>1 DEF TaskResult, TaskStatus
<1>3. task' = [task EXCEPT ![i] = TaskResult(response)]
  BY <1>1 DEF Finalize
<1>4. /\ task' \in [Invocations -> TaskStatus]
      /\ \A j \in Invocations : task'[j] = "completed" => row[j].status = "completed"
  BY <1>2, <1>3, Types
<1>5. sandbox' \in [Invocations -> BOOLEAN]
  <2>1. (~terminated) \in BOOLEAN
    OBVIOUS
  <2> QED
    BY <1>1, <2>1, Types, Zenon DEF Finalize
<1>6. UNCHANGED <<approval, request, creating, published, thread, row, old, sweep, swept, ran,
                  executed, ungated, answer>>
  BY <1>1 DEF Finalize, approvalVars, invocationVars
<1>7. \A u \in Threads : Gives(thread[u], thread'[u])
  BY <1>6 DEF Gives
<1> QED
  BY <1>1, <1>4, <1>5, <1>6, <1>7, Types, LessKeeps

\* A background call that fails, a decision that comes too late, the second
\* transaction of a request for approval.
LEMMA RequestEndsKeeps ==
    ASSUME IInv,
           \/ \E r \in Requests : ResumeFails(r)
           \/ /\ \/ \E r \in Requests : RefuseDecide(r)
                 \/ \E a \in Approvals : AnnounceToolApproval(a)
              /\ UNCHANGED <<invocationVars, hostVars>>
    PROVE  IInv'
<1>1. UNCHANGED <<approval, thread, row, old, sweep, swept, ran, executed, ungated, answer, task,
                  sandbox>>
  BY DEF ResumeFails, RefuseDecide, CallResume, AnnounceToolApproval, invocationVars, hostVars
<1>2. faults' = faults \/ Fault
  BY DEF ResumeFails, CallFails, hostVars
<1>3. /\ request' \in [Requests -> Request \cup {NoRequest}]
      /\ \A r \in Requests : request'[r] = request[r] \/ request'[r] = NoRequest
      /\ creating' \subseteq Approvals
  BY Types DEF ResumeFails, RefuseDecide, CallResume, AnnounceToolApproval
<1>4. /\ published' \in [Approvals -> [EventTypes -> 0..MaxEvents]]
      /\ \A a \in Approvals : published'[a]["decided"] = published[a]["decided"]
  <2>1. CASE published' = published
    BY <2>1, Types
  <2>2. ASSUME NEW a \in Approvals, published' = Published(a, "tool_requested")
        PROVE  /\ published' \in [Approvals -> [EventTypes -> 0..MaxEvents]]
               /\ \A b \in Approvals : published'[b]["decided"] = published[b]["decided"]
    <3> DEFINE e == "tool_requested"
               m == IF published[a][e] < MaxEvents THEN published[a][e] + 1 ELSE published[a][e]
    <3>1. published[a] \in [EventTypes -> 0..MaxEvents] /\ e \in EventTypes
      BY Types DEF EventTypes
    <3>2. m \in 0..MaxEvents
      BY <3>1 DEF MaxEvents
    <3>3. published' = [published EXCEPT ![a] = [published[a] EXCEPT ![e] = m]]
      BY <2>2 DEF Published
    <3>4. [published[a] EXCEPT ![e] = m] \in [EventTypes -> 0..MaxEvents]
      BY <3>1, <3>2
    <3>5. [published[a] EXCEPT ![e] = m]["decided"] = published[a]["decided"]
      BY <3>1 DEF EventTypes
    <3> HIDE DEF m, e
    <3> QED
      BY <3>3, <3>4, <3>5, Types
  <2> QED
    BY <2>1, <2>2 DEF ResumeFails, RefuseDecide, CallResume, AnnounceToolApproval
<1>5. \A u \in Threads : Gives(thread[u], thread'[u])
  BY <1>1 DEF Gives
<1> QED
  BY <1>1, <1>2, <1>3, <1>4, <1>5, Types, LessKeeps

-----------------------------------------------------------------------------
(* The approvals *)

LEMMA ApprovalFacts ==
    ASSUME IInv
    PROVE  /\ approval \in [Approvals -> Approval \cup {NoApproval}]
           /\ request \in [Requests -> Request \cup {NoRequest}]
           /\ creating \subseteq Approvals
           /\ published \in [Approvals -> [EventTypes -> 0..MaxEvents]]
           /\ \A a \in Approvals : approval[a] # NoApproval =>
                 /\ approval[a] \in Approval
                 /\ approval[a].target \in Targets /\ approval[a].target # "none"
           /\ NoApproval.target = "none" /\ NoApproval.decision = "none"
           /\ NoApproval.decision \notin Decided
           /\ NoRequest.pc = "idle"
BY NamesAssumption DEF IInv, TypeOK, ApprovalTypeOK, Approval, NoApproval, NoRequest, Decided

\* A write to the outbox counts.
LEMMA PublishedCounts ==
    ASSUME IInv, NEW a \in Approvals, NEW e \in EventTypes
    PROVE  /\ Published(a, e) \in [Approvals -> [EventTypes -> 0..MaxEvents]]
           /\ \A b \in Approvals, f \in EventTypes :
                 b # a \/ f # e => Published(a, e)[b][f] = published[b][f]
           /\ published[a][e] = 0 => Published(a, e)[a][e] = 1
<1> DEFINE m == IF published[a][e] < MaxEvents THEN published[a][e] + 1 ELSE published[a][e]
           row1 == [published[a] EXCEPT ![e] = m]
<1>1. published[a] \in [EventTypes -> 0..MaxEvents]
  BY ApprovalFacts
<1>2. m \in 0..MaxEvents /\ (published[a][e] = 0 => m = 1)
  BY <1>1 DEF MaxEvents
<1>3. Published(a, e) = [published EXCEPT ![a] = row1]
  BY DEF Published
<1> HIDE DEF m
<1>4. row1 \in [EventTypes -> 0..MaxEvents] /\ row1[e] = m
      /\ \A f \in EventTypes : f # e => row1[f] = published[a][f]
  BY <1>1, <1>2
<1> HIDE DEF row1
<1> QED
  BY <1>2, <1>3, <1>4, ApprovalFacts

\* The lock of an approval is taken: nothing else changes.
LEMMA BeginKeeps ==
    ASSUME IInv, NEW r \in Requests, NEW a \in Approvals, NEW d \in Decisions,
           BeginDecide(r, a, d), UNCHANGED <<invocationVars, hostVars>>
    PROVE  IInv'
<1> DEFINE q == [pc |-> "deciding", id |-> a, decision |-> d, seen |-> approval[a]]
<1>1. q \in Request
  BY ApprovalFacts DEF BeginDecide, Request
<1>2. /\ request' = [request EXCEPT ![r] = q] /\ request[r] = NoRequest
      /\ q.pc = "deciding" /\ q.id = a /\ q.seen = approval[a]
  BY DEF BeginDecide
<1>3. UNCHANGED <<approval, creating, published, thread, row, old, sweep, swept, ran, executed,
                  ungated, answer, task, sandbox, faults>>
  BY DEF BeginDecide, invocationVars, hostVars
<1> HIDE DEF q
<1>4. /\ request' \in [Requests -> Request \cup {NoRequest}]
      /\ request'[r] = q /\ \A p \in Requests : p # r => request'[p] = request[p]
  BY <1>1, <1>2, ApprovalFacts
<1>5. LocksOK'
  <2>1. \A p \in Requests : request[p].pc = "deciding" => request[p].id # a
    BY DEF BeginDecide, LockHolders
  <2>2. approval[a] # NoApproval
    BY DEF BeginDecide
  <2> QED
    BY <1>2, <1>3, <1>4, <2>1, <2>2 DEF IInv, LocksOK
<1>6. ASSUME NEW i \in Invocations PROVE Frame(i)
  <2>1. PermissionOK(i)
    BY DEF IInv
  <2>2. \A p \in Requests : Tells(p, i)' => Tells(p, i) /\ request'[p] = request[p]
    BY <1>2, <1>4 DEF Tells
  <2> QED
    BY <1>3, <2>1, <2>2 DEF PermissionOK, Frame, Agrees, Unasked, Approved
<1>7. ApprovalTypeOK' /\ DecidedOnce'
  BY <1>3, <1>4, ApprovalFacts DEF IInv, DecidedOnce, ApprovalTypeOK
<1>8. \A u \in Threads : Gives(thread[u], thread'[u])
  BY <1>3 DEF Gives
<1> QED
  BY <1>3, <1>5, <1>6, <1>7, <1>8, Types, FrameKeeps

\* An approval is asked for: of an artifact, or of an invocation that nobody
\* has asked about and that nobody else will ask about.
LEMMA InsertKeeps ==
    ASSUME IInv, NEW a \in Approvals, NEW x \in Targets, Insert(a, x),
           x \in Invocations =>
               /\ Unasked(x) /\ row[x] # NoRow
               /\ \A t \in Threads : Executes(t, x)' => ~Live(thread[t])',
           creating' \subseteq Approvals, request' = request,
           thread' \in [Threads -> Thread \cup {IdleThread}],
           \A t \in Threads : Gives(thread[t], thread'[t]),
           UNCHANGED <<row, old, sweep, swept, ran, executed, ungated, answer, hostVars>>
    PROVE  IInv'
<1> DEFINE new == [target |-> x, decision |-> Pending]
<1>1. /\ approval[a] = NoApproval /\ approval' = [approval EXCEPT ![a] = new]
      /\ published' = Published(a, "requested")
  BY DEF Insert
<1>2. new \in Approval /\ new.target = x /\ new.decision = Pending /\ Pending \notin Decided
      /\ new # NoApproval /\ x # "none"
  BY NamesAssumption DEF Approval, Pending, Decided, NoApproval
<1> HIDE DEF new
<1>3. /\ approval' \in [Approvals -> Approval \cup {NoApproval}]
      /\ approval'[a] = new /\ \A b \in Approvals : b # a => approval'[b] = approval[b]
  BY <1>1, <1>2, ApprovalFacts
<1>4. ApprovalTypeOK'
  BY <1>1, <1>3, PublishedCounts, ApprovalFacts DEF ApprovalTypeOK, EventTypes
<1>5. DecidedOnce'
  <2>1. \A b \in Approvals : published'[b]["decided"] = published[b]["decided"]
    BY <1>1, PublishedCounts DEF EventTypes
  <2> QED
    BY <1>1, <1>2, <1>3, <2>1, ApprovalFacts DEF IInv, DecidedOnce
<1>6. LocksOK'
  <2>1. \A r \in Requests : request[r].pc = "deciding" => request[r].id \in Approvals
    BY ApprovalFacts DEF Request, NoRequest
  <2> QED
    BY <1>1, <1>3, <2>1 DEF IInv, LocksOK
<1>7. ASSUME NEW i \in Invocations PROVE Frame(i)
  <2>1. PermissionOK(i)
    BY DEF IInv
  <2>2. \A mode : Agrees(i, mode) => Agrees(i, mode)'
    BY <1>1, <1>3, ApprovalFacts DEF Agrees
  <2>3. Approved(i) => Approved(i)'
    BY <1>1, <1>3 DEF Approved, NoApproval
  <2>4. \A r \in Requests : Tells(r, i)' => Tells(r, i) /\ request'[r] = request[r]
    BY DEF Tells
  <2>5. CASE i # x
    <3>1. \A b \in Approvals : approval'[b].target = i => approval[b].target = i
      BY <1>2, <1>3, <2>5
    <3>2. Unasked(i) => Unasked(i)'
      BY <3>1 DEF Unasked
    <3> QED
      BY <2>1, <2>2, <2>3, <2>4, <3>1, <3>2 DEF PermissionOK, Frame
  <2>6. CASE i = x
    <3>1. \A b \in Approvals : approval'[b].target = i => b = a
      BY <1>3, <2>6 DEF Unasked
    <3> QED
      BY <2>1, <2>2, <2>3, <2>4, <2>6, <3>1 DEF PermissionOK, Frame
  <2> QED
    BY <2>5, <2>6
<1>8. UNCHANGED <<task, sandbox, faults>>
  BY DEF hostVars
<1> QED
  BY <1>4, <1>5, <1>6, <1>7, <1>8, Types, FrameKeeps

\* A user asks for the review of an artifact: no invocation is concerned.
LEMMA CreateKeeps ==
    ASSUME IInv, NEW a \in Approvals, NEW x \in Artifacts, CreateApproval(a, x),
           UNCHANGED <<invocationVars, hostVars>>
    PROVE  IInv'
<1>1. x \in Targets /\ x \notin Invocations
  BY TargetAssumption, CallsAreInvocations DEF Targets
<1>2. Insert(a, x) /\ request' = request /\ creating' = creating
  BY DEF CreateApproval
<1>3. UNCHANGED <<row, thread, old, sweep, swept, ran, executed, ungated, answer>>
  BY DEF invocationVars
<1>4. \A u \in Threads : Gives(thread[u], thread'[u])
  BY <1>3 DEF Gives
<1> QED
  BY <1>1, <1>2, <1>3, <1>4, Types, InsertKeeps

\* The runtime asks: its thread is the only one that might.
LEMMA AskStoredKeeps ==
    ASSUME IInv, NEW t \in Threads, NEW a \in Approvals, AskStored(t, a)
    PROVE  IInv'
<1>0. PICK th, i : th = thread[t] /\ i = th.id
  OBVIOUS
<1> DEFINE n == [th EXCEPT !.pc = "answer"]
<1>1. thread[t] # IdleThread /\ Live(th) /\ th.pc = "ask"
  BY <1>0 DEF AskStored, IdleThread, Live
<1>2. ThreadOK(th) /\ th \in Thread /\ i \in Invocations
  BY <1>0, <1>1 DEF IInv, ThreadOK, Thread
<1>3. n \in Thread /\ n.pc = "answer" /\ ~Live(n) /\ Gives(th, n)
  BY <1>1, <1>2 DEF Thread, ThreadPc, Live, Gives
<1>4. thread' = [thread EXCEPT ![t] = n]
  BY <1>0 DEF AskStored, Asked
<1>5. Insert(a, i) /\ request' = request /\ creating' \subseteq Approvals
  BY <1>0, Types DEF AskStored, CreateToolApproval
<1>6. UNCHANGED <<row, old, sweep, swept, ran, executed, ungated, answer, hostVars>>
  BY DEF AskStored, Asked, sweeping
<1>7. th.mode = "execute" /\ Unasked(i) /\ row[i] # NoRow
  BY <1>0, <1>1, <1>2 DEF ThreadOK, ExecutionOK, ResumptionOK
<1>8. i \in Targets
  BY <1>2, CallsAreInvocations DEF Targets
<1> HIDE DEF n
<1>9. /\ thread' \in [Threads -> Thread \cup {IdleThread}]
      /\ thread'[t] = n /\ \A u \in Threads : u # t => thread'[u] = thread[u]
  BY <1>3, <1>4, Types
<1>10. \A u \in Threads : Gives(thread[u], thread'[u])
  BY <1>0, <1>3, <1>9 DEF Gives
<1>11. \A u \in Threads : Executes(u, i)' => ~Live(thread[u])'
  <2> SUFFICES ASSUME NEW u \in Threads, Executes(u, i)' PROVE ~Live(thread[u])'
    OBVIOUS
  <2>1. CASE u = t
    BY <1>3, <1>9, <2>1 DEF Live
  <2>2. CASE u # t
    <3>1. Executes(u, i) /\ Executes(t, i)
      BY <1>0, <1>1, <1>7, <1>9, <2>2 DEF Executes, Serves
    <3>2. PermissionOK(i)
      BY <1>2 DEF IInv
    <3> QED
      BY <2>2, <3>1, <3>2 DEF PermissionOK
  <2> QED
    BY <2>1, <2>2
<1>12. UNCHANGED hostVars
  BY <1>6
<1> QED
  BY <1>5, <1>6, <1>7, <1>8, <1>9, <1>10, <1>11, <1>12, InsertKeeps

\* The decision is committed: the first on its approval, so that nobody has
\* been told about it before.
LEMMA CommitKeeps ==
    ASSUME IInv, NEW r \in Requests, CommitDecide(r), UNCHANGED <<invocationVars, hostVars>>
    PROVE  IInv'
<1>0. PICK a, d, x, new, q :
        /\ a = request[r].id /\ d = request[r].decision /\ x = approval[a].target
        /\ new = [target |-> x, decision |-> Outcome(d)] /\ q = AfterDecision(x, d)
  OBVIOUS
<1>1. request[r] \in Request /\ request[r].pc = "deciding" /\ request[r] # NoRequest
  BY ApprovalFacts DEF CommitDecide
<1>2. a \in Approvals /\ d \in Decisions
  BY <1>0, <1>1 DEF Request
<1>3. approval[a] # NoApproval /\ request[r].seen = approval[a] /\ approval[a].decision = Pending
  BY <1>0, <1>1 DEF IInv, LocksOK, CommitDecide
<1>4. approval[a] \in Approval /\ x \in Targets
  BY <1>0, <1>2, <1>3, ApprovalFacts
<1>5. /\ approval' = [approval EXCEPT ![a] = new] /\ published' = Published(a, "decided")
      /\ request' = [request EXCEPT ![r] = q] /\ creating' = creating
  BY <1>0, <1>3 DEF CommitDecide
<1>6. /\ new \in Approval /\ new.target = x /\ new.decision = Outcome(d)
      /\ Outcome(d) \in Decided /\ new # NoApproval
  BY <1>0, <1>4, ApprovalFacts DEF Approval, Outcome, Decided, NoApproval
<1>7. /\ q \in Request \cup {NoRequest} /\ q.pc # "deciding"
      /\ x \notin Invocations => q.pc = "idle"
      /\ x \in Invocations => q.pc = "background" /\ q.target = x /\ q.decision = RuntimeDecision(d)
  BY <1>0, <1>2, <1>4, CallsAreInvocations
     DEF AfterDecision, RuntimeDecision, Outcome, Decisions, RuntimeDecisions, Request, NoRequest
<1>8. Outcome(d) = "approved" <=> RuntimeDecision(d) \in {"approved", "override"}
  BY <1>2 DEF Outcome, RuntimeDecision, Decisions
<1>9. /\ approval' \in [Approvals -> Approval \cup {NoApproval}]
      /\ approval'[a] = new /\ \A b \in Approvals : b # a => approval'[b] = approval[b]
      /\ request' \in [Requests -> Request \cup {NoRequest}]
      /\ request'[r] = q /\ \A p \in Requests : p # r => request'[p] = request[p]
  BY <1>2, <1>5, <1>6, <1>7, ApprovalFacts
<1>10. UNCHANGED <<creating, thread, row, old, sweep, swept, ran, executed, ungated, answer, task,
                   sandbox, faults>>
  BY <1>5 DEF invocationVars, hostVars
<1>11. ApprovalTypeOK'
  BY <1>2, <1>5, <1>9, PublishedCounts, ApprovalFacts DEF ApprovalTypeOK, EventTypes
<1>12. Pending \notin Decided
  BY DEF Pending, Decided
<1>13. DecidedOnce'
  <2>1. published[a]["decided"] = 0
    BY <1>2, <1>3, <1>12 DEF IInv, DecidedOnce
  <2>2. published'[a]["decided"] = 1
    BY <1>2, <1>5, <2>1, PublishedCounts DEF EventTypes
  <2>3. \A b \in Approvals : b # a => published'[b]["decided"] = published[b]["decided"]
    BY <1>2, <1>5, PublishedCounts DEF EventTypes
  <2> QED
    BY <1>6, <1>9, <2>2, <2>3 DEF IInv, DecidedOnce
<1>14. LocksOK'
  <2> SUFFICES ASSUME NEW p \in Requests, request'[p].pc = "deciding"
               PROVE  /\ approval'[request'[p].id] # NoApproval
                      /\ request'[p].seen = approval'[request'[p].id]
                      /\ \A s \in Requests : request'[s].pc = "deciding" /\ request'[s].id = request'[p].id
                                                => s = p
    BY DEF LocksOK
  <2>1. p # r /\ request'[p] = request[p]
    BY <1>7, <1>9
  <2>2. request[p] \in Request
    BY <2>1, ApprovalFacts
  <2>3. request[p].id \in Approvals
    BY <2>1, <2>2 DEF Request
  <2>4. request[p].id # a
    BY <1>0, <1>1, <2>1 DEF IInv, LocksOK
  <2> QED
    BY <1>7, <1>9, <2>1, <2>3, <2>4 DEF IInv, LocksOK
<1>15. ASSUME NEW i \in Invocations PROVE Frame(i)
  <2>1. PermissionOK(i) /\ CountsOK(i)
    BY DEF IInv
  <2>2. \A b \in Approvals : approval'[b].target = approval[b].target
    BY <1>0, <1>6, <1>9
  <2>3. \A b \in Approvals : approval[b].decision \in Decided => approval'[b] = approval[b]
    BY <1>3, <1>9, <1>12
  <2>4. \A mode : Agrees(i, mode) => Agrees(i, mode)'
    BY <2>3 DEF Agrees
  <2>5. Approved(i) => Approved(i)'
    BY <2>3 DEF Approved, Decided
  <2>6. Unasked(i) => Unasked(i)'
    BY <2>2 DEF Unasked
  <2>7. CASE i # x
    <3>1. \A p \in Requests : Tells(p, i)' => Tells(p, i) /\ request'[p] = request[p]
      BY <1>7, <1>9, <2>7, CallsAreInvocations DEF Tells
    <3> QED
      BY <2>1, <2>2, <2>4, <2>5, <2>6, <3>1 DEF PermissionOK, Frame
  <2>8. CASE i = x
    <3>1. \A mode : ~Agrees(i, mode)
      BY <1>0, <1>2, <1>3, <1>12, <2>1, <2>8 DEF Agrees, PermissionOK
    <3>2. ~Approved(i)
      BY <1>0, <1>2, <1>3, <2>1, <2>8 DEF Approved, PermissionOK, Pending
    <3>3. \A p \in Requests : ~Tells(p, i)
      BY <2>1, <3>1 DEF PermissionOK
    <3>4. \A t \in Threads : ~Resumes(t, i)
      BY <3>1 DEF IInv, ThreadOK, ResumptionOK, Resumes, Serves
    <3>5. ran[i] = 0
      BY <2>1, <3>2, TurnAssumption DEF CountsOK, IInv, TypeOK, InvocationTypeOK
    <3>6. \A p \in Requests : Tells(p, i)' => p = r
      BY <1>9, <3>3 DEF Tells
    <3>7. Agrees(i, q.decision)'
      BY <1>2, <1>6, <1>7, <1>8, <1>9, <2>8 DEF Agrees
    <3>8. Agrees(i, request[r].decision)'
      BY <1>9, <3>7 DEF Agrees
    <3> QED
      BY <2>1, <2>2, <2>4, <2>5, <2>6, <3>4, <3>5, <3>6, <3>8 DEF PermissionOK, Frame
  <2> QED
    BY <2>7, <2>8
<1>16. \A u \in Threads : Gives(thread[u], thread'[u])
  BY <1>10 DEF Gives
<1> QED
  BY <1>10, <1>11, <1>13, <1>14, <1>15, <1>16, Types, FrameKeeps

-----------------------------------------------------------------------------
(* Threads that begin, and the recovery *)

\* A thread that begins to serve i, n being the thread.
Begins(t, i, n) ==
    /\ thread[t] = IdleThread
    /\ n \in Thread /\ n.id = i
    /\ thread' = [thread EXCEPT ![t] = n]
    /\ ThreadOK(n)'
    /\ n.mode = "execute" => \A u \in Threads : ~Executes(u, i)
    /\ n.mode # "execute" => /\ \A u \in Threads : ~Resumes(u, i)
                             /\ \A r \in Requests : ~Tells(r, i)'

\* It takes over the permission to execute or to resume.
LEMMA BeginsKeeps ==
    ASSUME IInv, NEW t \in Threads, NEW i \in Invocations, NEW n, Begins(t, i, n),
           UNCHANGED <<approval, creating, published, old, sweep, swept, ran, executed, ungated,
                       answer, sandbox, faults>>,
           row' \in [Invocations -> Rows \cup {NoRow}],
           \A j \in Invocations : j # i => row'[j] = row[j] /\ task'[j] = task[j],
           row' # row => \A u \in Threads : ~Serves(u, i),
           task' \in [Invocations -> TaskStatus],
           RowOK(i)',
           request' \in [Requests -> Request \cup {NoRequest}],
           \A r \in Requests : request'[r] = request[r] \/ request'[r] = NoRequest
    PROVE  IInv'
<1>1. /\ thread' \in [Threads -> Thread \cup {IdleThread}]
      /\ thread'[t] = n /\ \A u \in Threads : u # t => thread'[u] = thread[u]
  BY Types DEF Begins
<1>2. TypeOK' /\ DecidedOnce'
  BY <1>1 DEF IInv, TypeOK, ApprovalTypeOK, InvocationTypeOK, DecidedOnce
<1>3. NoRequest.pc = "idle"
  BY DEF NoRequest
<1>4. LocksOK'
  BY <1>3 DEF IInv, LocksOK
<1>5. /\ \A j, mode : Agrees(j, mode)' = Agrees(j, mode)
      /\ \A j : Unasked(j)' = Unasked(j) /\ Approved(j)' = Approved(j)
      /\ \A r \in Requests : \A j : Tells(r, j)' => Tells(r, j) /\ request'[r] = request[r]
  BY <1>3 DEF Agrees, Unasked, Approved, Tells
<1>6. ASSUME NEW u \in Threads, NEW x, x = thread'[u], x # IdleThread PROVE ThreadOK(x)'
  <2>1. CASE u = t
    BY <1>1, <1>6, <2>1 DEF Begins
  <2>2. CASE u # t
    <3>1. x = thread[u] /\ ThreadOK(x) /\ x \in Thread /\ x.id \in Invocations /\ Serves(u, x.id)
      BY <1>1, <1>6, <2>2 DEF IInv, ThreadOK, Thread, Serves
    <3>2. row'[x.id] = row[x.id]
      BY <3>1
    <3>3. ExecutionOK(x)' /\ ResumptionOK(x)'
      BY <1>5, <3>1, <3>2 DEF ThreadOK, ExecutionOK, ResumptionOK
    <3> QED
      BY <3>1, <3>2, <3>3 DEF ThreadOK
  <2> QED
    BY <2>1, <2>2
<1>7. (\A u \in Threads : thread[u] # IdleThread => ThreadOK(thread[u]))'
  <2> SUFFICES ASSUME NEW u \in Threads, thread'[u] # IdleThread PROVE ThreadOK(thread[u])'
    OBVIOUS
  <2>1. PICK x : x = thread'[u]
    OBVIOUS
  <2>2. ThreadOK(x)'
    BY <1>6, <2>1
  <2> QED
    BY <2>1, <2>2 DEF ThreadOK, ExecutionOK, ResumptionOK
<1>8. ASSUME NEW j \in Invocations PROVE (PermissionOK(j) /\ RowOK(j) /\ CountsOK(j))'
  <2>1. PermissionOK(j) /\ RowOK(j) /\ CountsOK(j)
    BY DEF IInv
  <2>2. \A u \in Threads : u # t =>
           (Executes(u, j)' <=> Executes(u, j)) /\ (Resumes(u, j)' <=> Resumes(u, j))
    BY <1>1 DEF Executes, Resumes, Serves
  <2>3. ~Executes(t, j) /\ ~Resumes(t, j)
    BY DEF Begins, Executes, Resumes, Serves
  <2>4. Executes(t, j)' => j = i /\ n.mode = "execute"
    BY <1>1 DEF Begins, Executes, Serves
  <2>5. Resumes(t, j)' => j = i /\ n.mode # "execute"
    BY <1>1 DEF Begins, Resumes, Serves
  <2>6. \A u, v \in Threads : Executes(u, j)' /\ Executes(v, j)' => u = v
    BY <2>1, <2>2, <2>4 DEF PermissionOK, Begins
  <2>7. \A u, v \in Threads : Resumes(u, j)' /\ Resumes(v, j)' => u = v
    BY <2>1, <2>2, <2>5 DEF PermissionOK, Begins
  <2>8. \A r \in Requests : Tells(r, j)' => \A u \in Threads : ~Resumes(u, j)'
    BY <1>5, <2>1, <2>2, <2>5 DEF PermissionOK, Begins
  <2>9. PermissionOK(j)'
    BY <1>5, <2>1, <2>6, <2>7, <2>8 DEF PermissionOK
  <2>10. RowOK(j)'
    BY <1>5, <2>1 DEF RowOK
  <2>11. CountsOK(j)'
    BY <1>5, <2>1 DEF CountsOK
  <2> QED
    BY <2>9, <2>10, <2>11
<1> QED
  BY <1>2, <1>4, <1>7, <1>8 DEF IInv

\* The dispatch creates the row: nobody knew the invocation.
LEMMA StartKeeps ==
    ASSUME IInv, NEW t \in Threads, NEW i \in Invocations, Dispatch(t, i)
    PROVE  IInv'
<1> DEFINE new == [status |-> "running", done |-> FALSE]
<1>1. PICK n : n = [pc |-> "model", id |-> i, mode |-> "execute", status |-> "running",
                    turns |-> MaxTurns, gated |-> FALSE]
  OBVIOUS
<1>2. n \in Thread /\ n.id = i /\ n.mode = "execute" /\ n.pc = "model" /\ n.status = "running" /\ ~n.gated
  BY <1>1, TurnAssumption DEF Thread, ThreadPc, Modes, InvocationStatus
<1>3. /\ thread[t] = IdleThread /\ row[i] = NoRow
      /\ thread' = [thread EXCEPT ![t] = n] /\ row' = [row EXCEPT ![i] = new]
      /\ task' = [task EXCEPT ![i] = "running"]
  BY <1>1 DEF Dispatch, ExecuteStart
<1>4. UNCHANGED <<approval, request, creating, published, old, sweep, swept, ran, executed,
                  ungated, answer, sandbox, faults>>
  BY DEF Dispatch, ExecuteStart, approvalVars, sweeping
<1>5. row \in [Invocations -> Rows \cup {NoRow}]
  BY DEF IInv, TypeOK, InvocationTypeOK
<1>6. new \in Rows /\ new # NoRow /\ new.status = "running" /\ new.done = FALSE
      /\ "running" \notin Ended /\ "running" # "completed" /\ NoRow.status = "none"
  BY DEF Rows, NoRow, InvocationStatus, Ended
<1> HIDE DEF new
<1>7. /\ row' \in [Invocations -> Rows \cup {NoRow}] /\ row'[i] = new
      /\ \A j \in Invocations : j # i => row'[j] = row[j]
      /\ task' \in [Invocations -> TaskStatus] /\ task'[i] = "running"
      /\ \A j \in Invocations : j # i => task'[j] = task[j]
  BY <1>3, <1>5, <1>6, Types DEF TaskStatus
<1>8. \A u \in Threads : ~Serves(u, i)
  BY <1>3 DEF Serves, IInv, ThreadOK
<1>9. RowOK(i) /\ Unasked(i)
  BY <1>3 DEF IInv, RowOK
<1>10. Unasked(i)'
  BY <1>4, <1>9 DEF Unasked
<1>11. ThreadOK(n)'
  <2>1. Live(n) /\ ExecutionOK(n)' /\ ResumptionOK(n)'
    BY <1>2, <1>6, <1>10 DEF Live, ExecutionOK, ResumptionOK
  <2> QED
    BY <1>2, <1>6, <1>7, <2>1 DEF ThreadOK
<1>12. RowOK(i)'
  <2>1. (new.status \in Ended) = FALSE
    BY <1>6
  <2>2. answer[i] # "completed"
    BY <1>3, <1>6, <1>9 DEF RowOK
  <2> QED
    BY <1>4, <1>6, <1>7, <2>1, <2>2 DEF RowOK
<1>13. Begins(t, i, n)
  BY <1>2, <1>3, <1>8, <1>11 DEF Begins, Executes
<1> QED
  BY <1>4, <1>7, <1>8, <1>12, <1>13, Types, BeginsKeeps

\* The resume reaches a thread: the call's permission becomes the thread's.
LEMMA ResumeKeeps ==
    ASSUME IInv, NEW r \in Requests, NEW t \in Threads, ResumeArrives(r, t)
    PROVE  IInv'
<1>1. request[r] \in Request /\ request[r].pc = "background"
  BY ApprovalFacts DEF ResumeArrives
<1>2. PICK i, mode : i = request[r].target /\ mode = request[r].decision
  OBVIOUS
<1>3. i \in Invocations /\ mode \in RuntimeDecisions /\ mode # "execute"
  BY <1>1, <1>2, CallsAreInvocations DEF Request, RuntimeDecisions
<1>4. PICK n : n = [pc |-> "route", id |-> i, mode |-> mode, status |-> row[i].status,
                    turns |-> MaxTurns - 1, gated |-> FALSE]
  OBVIOUS
<1>5. row[i] # NoRow /\ thread[t] = IdleThread /\ thread' = [thread EXCEPT ![t] = n]
  BY <1>2, <1>4 DEF ResumeArrives, ResumeRead
<1>6. row[i] \in Rows /\ RowOK(i) /\ PermissionOK(i)
  BY <1>3, <1>5 DEF IInv, TypeOK, InvocationTypeOK
<1>7. /\ n \in Thread /\ n.id = i /\ n.mode = mode /\ n.pc = "route" /\ ~n.gated
      /\ n.status = row[i].status
  BY <1>3, <1>4, <1>6, TurnAssumption
     DEF Thread, ThreadPc, Modes, ResumeDecisions, RuntimeDecisions, Rows
<1>8. UNCHANGED <<approval, creating, published, row, old, sweep, swept, ran, executed, ungated,
                  answer, task, sandbox, faults>>
  BY DEF ResumeArrives, ResumeRead, CallResume, hostVars, sweeping
<1>9. request' = [request EXCEPT ![r] = NoRequest]
  BY DEF ResumeArrives, CallResume
<1>10. /\ request' \in [Requests -> Request \cup {NoRequest}]
       /\ request'[r] = NoRequest /\ \A p \in Requests : p # r => request'[p] = request[p]
  BY <1>9, ApprovalFacts
<1>11. Tells(r, i)
  BY <1>1, <1>2 DEF Tells
<1>12. ran[i] = 0 /\ Agrees(i, mode) /\ \A u \in Threads : ~Resumes(u, i)
  BY <1>2, <1>6, <1>11 DEF PermissionOK
<1>13. \A p \in Requests : ~Tells(p, i)'
  <2>1. \A p \in Requests : Tells(p, i)' => p # r /\ Tells(p, i)
    BY <1>10, ApprovalFacts DEF Tells
  <2> QED
    BY <1>6, <1>11, <2>1 DEF PermissionOK
<1>14. ThreadOK(n)'
  <2>1. Live(n) => n.status \notin Ended /\ row[i].status # "completed" /\ ~row[i].done
    <3> SUFFICES ASSUME Live(n)
                 PROVE  n.status \notin Ended /\ row[i].status # "completed" /\ ~row[i].done
      OBVIOUS
    <3>1. n.status = "waiting_human"
      BY <1>7 DEF Live
    <3> QED
      BY <1>5, <1>6, <1>7, <3>1 DEF RowOK, Ended
  <2>2. Agrees(i, mode)'
    BY <1>8, <1>12 DEF Agrees
  <2>3. ExecutionOK(n)' /\ ResumptionOK(n)'
    BY <1>3, <1>7, <2>2 DEF ExecutionOK, ResumptionOK
  <2> QED
    BY <1>5, <1>7, <1>8, <1>12, <2>1, <2>3 DEF ThreadOK
<1>15. Begins(t, i, n)
  BY <1>3, <1>5, <1>7, <1>12, <1>13, <1>14 DEF Begins
<1>16. RowOK(i)'
  BY <1>6, <1>8 DEF RowOK, Unasked
<1>17. row' \in [Invocations -> Rows \cup {NoRow}]
  BY <1>8 DEF IInv, TypeOK, InvocationTypeOK
<1> QED
  BY <1>3, <1>8, <1>10, <1>15, <1>16, <1>17, Types, BeginsKeeps

\* The recovery fails rows that have not ended, which no answer and no task
\* calls completed.
LEMMA SweepKeeps ==
    ASSUME IInv, SweepUpdate, UNCHANGED <<approvalVars, hostVars>>
    PROVE  IInv'
<1>1. PICK hit, failed : hit = {i \in sweep : ~row[i].done} /\ failed = [status |-> "failed", done |-> TRUE]
  OBVIOUS
<1>2. UNCHANGED <<approval, request, creating, published, thread, old, ran, executed, ungated,
                  answer, task, sandbox, faults>>
  BY DEF SweepUpdate, approvalVars, hostVars
<1>3. /\ hit \subseteq Invocations
      /\ row' = [i \in Invocations |-> IF i \in hit THEN failed ELSE row[i]]
      /\ swept' = swept \cup hit /\ sweep' = {}
  BY <1>1, Types DEF SweepUpdate
<1>4. /\ failed \in Rows /\ failed # NoRow /\ failed.status = "failed" /\ failed.done = TRUE
      /\ (failed.status \in Ended) = TRUE /\ NoRow.status = "none"
  BY <1>1 DEF Rows, InvocationStatus, NoRow, Ended
<1>5. row \in [Invocations -> Rows \cup {NoRow}] /\ swept \subseteq Invocations
  BY DEF IInv, TypeOK, InvocationTypeOK
<1>6. TypeOK'
  BY <1>2, <1>3, <1>4, <1>5 DEF IInv, TypeOK, ApprovalTypeOK, InvocationTypeOK
<1>7. DecidedOnce' /\ LocksOK'
  BY <1>2 DEF IInv, DecidedOnce, LocksOK
<1>8. ASSUME NEW i \in Invocations
      PROVE  /\ i \in hit => row'[i] = failed /\ i \in swept'
             /\ i \notin hit => row'[i] = row[i] /\ (i \in swept' <=> i \in swept)
             /\ row[i].status = "completed" => i \notin hit
             /\ row[i] # NoRow => row'[i] # NoRow
  <2>1. RowOK(i)
    BY DEF IInv
  <2>2. row[i].status = "completed" => row[i].done
    <3> SUFFICES ASSUME row[i].status = "completed" PROVE row[i].done
      OBVIOUS
    <3>1. row[i] # NoRow
      BY <1>4
    <3> QED
      BY <2>1, <3>1 DEF RowOK, Ended
  <2>3. i \in hit => ~row[i].done
    BY <1>1
  <2> QED
    BY <1>3, <1>4, <2>2, <2>3
<1>9. /\ \A j, mode : Agrees(j, mode)' = Agrees(j, mode)
      /\ \A j : Unasked(j)' = Unasked(j) /\ Approved(j)' = Approved(j)
      /\ \A r, j : Tells(r, j)' = Tells(r, j)
      /\ \A t, j : Executes(t, j)' = Executes(t, j) /\ Resumes(t, j)' = Resumes(t, j)
  BY <1>2 DEF Agrees, Unasked, Approved, Tells, Executes, Resumes, Serves
<1>10. ASSUME NEW t \in Threads, NEW x, x = thread[t], x # IdleThread PROVE ThreadOK(x)'
  <2>1. ThreadOK(x) /\ x.id \in Invocations
    BY <1>10 DEF IInv, ThreadOK, Thread
  <2>2. PICK i \in Invocations : i = x.id
    BY <2>1
  <2>3. /\ row'[i] # NoRow
        /\ row[i].status = "completed" => row'[i].status = "completed"
        /\ row[i].status # "completed" => row'[i].status # "completed"
        /\ (i \notin swept => ~row[i].done) => (i \notin swept' => ~row'[i].done)
    BY <1>4, <1>8, <2>1, <2>2 DEF ThreadOK
  <2>4. ExecutionOK(x)' /\ ResumptionOK(x)'
    BY <1>9, <2>1, <2>2, <2>3 DEF ThreadOK, ExecutionOK, ResumptionOK
  <2> QED
    BY <1>2, <2>1, <2>2, <2>3, <2>4 DEF ThreadOK
<1>11. (\A t \in Threads : thread[t] # IdleThread => ThreadOK(thread[t]))'
  <2> SUFFICES ASSUME NEW t \in Threads, thread'[t] # IdleThread PROVE ThreadOK(thread[t])'
    OBVIOUS
  <2>1. PICK x : x = thread'[t]
    OBVIOUS
  <2>2. ThreadOK(x)'
    BY <1>2, <1>10, <2>1
  <2> QED
    BY <2>1, <2>2 DEF ThreadOK, ExecutionOK, ResumptionOK
<1>12. ASSUME NEW i \in Invocations PROVE (PermissionOK(i) /\ RowOK(i) /\ CountsOK(i))'
  <2>1. PermissionOK(i) /\ RowOK(i) /\ CountsOK(i)
    BY DEF IInv
  <2>2. PermissionOK(i)'
    BY <1>2, <1>9, <2>1 DEF PermissionOK
  <2>3. RowOK(i)'
    BY <1>2, <1>4, <1>8, <1>9, <2>1 DEF RowOK
  <2>4. CountsOK(i)'
    BY <1>2, <1>9, <2>1 DEF CountsOK
  <2> QED
    BY <2>2, <2>3, <2>4
<1> QED
  BY <1>6, <1>7, <1>11, <1>12 DEF IInv

-----------------------------------------------------------------------------
(* The invariant, and what follows *)

LEMMA InitHolds == Init => IInv
<1> SUFFICES ASSUME Init PROVE IInv
  OBVIOUS
<1> USE DEF Init, ApprovalInit, InvocationInit
<1>1. NoApproval.target = "none" /\ NoApproval.decision = "none" /\ NoRequest.pc = "idle"
      /\ NoRow.status = "none" /\ "none" \notin Decided /\ "none" \notin Invocations
  BY NamesAssumption, CallsAreInvocations DEF NoApproval, NoRequest, NoRow, Decided, Targets
<1>2. TypeOK
  <2>1. ApprovalTypeOK
    BY DEF ApprovalTypeOK, MaxEvents
  <2>2. InvocationTypeOK
    BY TurnAssumption DEF InvocationTypeOK, Answers
  <2> QED
    BY <2>1, <2>2, FaultBound DEF TypeOK, TaskStatus
<1>3. DecidedOnce /\ LocksOK
  BY <1>1 DEF DecidedOnce, LocksOK, EventTypes
<1>4. ASSUME NEW i \in Invocations PROVE PermissionOK(i) /\ RowOK(i) /\ CountsOK(i)
  <2>1. PermissionOK(i)
    BY <1>1, <1>4 DEF PermissionOK, Executes, Resumes, Serves, Tells
  <2>2. RowOK(i)
    BY <1>1, <1>4 DEF RowOK, Unasked
  <2>3. CountsOK(i)
    BY FaultBound DEF CountsOK
  <2> QED
    BY <2>1, <2>2, <2>3
<1> QED
  BY <1>2, <1>3, <1>4 DEF IInv

\* A step that changes nothing is one that gives nothing up.
LEMMA StutterKeeps ==
    ASSUME IInv, UNCHANGED vars
    PROVE  IInv'
<1>1. UNCHANGED <<approval, request, creating, published, thread, row, old, sweep, swept, ran,
                  executed, ungated, answer, task, sandbox, faults>>
  BY DEF vars, approvalVars, invocationVars, hostVars
<1>2. \A u \in Threads : Gives(thread[u], thread'[u])
  BY <1>1 DEF Gives
<1> QED
  BY <1>1, <1>2, Types, LessKeeps

LEMMA NextKeeps ==
    ASSUME IInv, [Next]_vars
    PROVE  IInv'
<1>1. CASE \E t \in Threads, i \in Invocations : Dispatch(t, i)
  BY <1>1, StartKeeps
<1>2. CASE \E i \in Invocations, b \in BOOLEAN : AnswerArrives(i, b)
  BY <1>2, FinalizeKeeps
<1>3. CASE \E i \in Invocations, b \in BOOLEAN, s \in {"timed_out", "failed"} : AnswerIsLost(i, s, b)
  BY <1>3, FinalizeKeeps
<1>4. ASSUME NEW t \in Threads,
             AskFails(t) \/ ToolsRun(t) \/ ToolRetried(t) \/ \E a \in Approvals : AskStored(t, a)
      PROVE  IInv'
  <2>1. CASE AskFails(t)
    BY <2>1, QuietThreadKeeps
  <2>2. CASE ToolsRun(t)
    BY <2>2, ExecutionKeeps DEF ToolsRun, hostVars
  <2>3. CASE ToolRetried(t)
    BY <2>3, ExecutionKeeps DEF ToolRetried
  <2>4. CASE \E a \in Approvals : AskStored(t, a)
    BY <2>4, AskStoredKeeps
  <2> QED
    BY <1>4, <2>1, <2>2, <2>3, <2>4
<1>5. CASE \E r \in Requests : ResumeFails(r) \/ \E t \in Threads : ResumeArrives(r, t)
  BY <1>5, RequestEndsKeeps, ResumeKeeps
<1>6. CASE Reviewer
  BY <1>6, CreateKeeps, RequestEndsKeeps, BeginKeeps, CommitKeeps DEF Reviewer
<1>7. CASE Runtime
  BY <1>7, ThreadStepKeeps, RespondKeeps, ClockKeeps, SweepKeeps DEF Runtime
<1>8. CASE Crash
  BY <1>8, CrashKeeps
<1>9. CASE UNCHANGED vars
  BY <1>9, StutterKeeps
<1> QED
  BY <1>1, <1>2, <1>3, <1>4, <1>5, <1>6, <1>7, <1>8, <1>9 DEF Next

LEMMA Inductive == Spec => []IInv
<1>1. IInv /\ [Next]_vars => IInv'
  BY NextKeeps
<1> QED
  BY InitHolds, <1>1, PTL DEF Spec

\* Every variable of both services keeps its type.
THEOREM TypeCorrect == Spec => []TypeOK
<1>1. IInv => TypeOK
  BY DEF IInv
<1> QED
  BY <1>1, Inductive, PTL

\* However many reviewers decide at a time, one decision of an approval is
\* recorded and announced (get_by_id_for_update).
THEOREM DecisionsAreSingle == Spec => []DecidedOnce
<1>1. IInv => DecidedOnce
  BY DEF IInv
<1> QED
  BY <1>1, Inductive, PTL

\* A background call tells the runtime what was recorded.
THEOREM CallsAgree == Spec => []ResumeAgrees
<1>1. ASSUME IInv PROVE ResumeAgrees
  <2> SUFFICES ASSUME NEW r \in Requests, request[r].pc = "background"
               PROVE  \E a \in Approvals :
                          /\ approval[a].target = request[r].target
                          /\ approval[a].decision = "approved" <=>
                                 request[r].decision \in {"approved", "override"}
    BY DEF ResumeAgrees
  <2>1. PICK i, mode : i = request[r].target /\ mode = request[r].decision
    OBVIOUS
  <2>2. i \in Invocations
    BY <1>1, <2>1, ApprovalFacts, CallsAreInvocations DEF Request, NoRequest
  <2>3. Agrees(i, mode)
    BY <1>1, <2>1, <2>2 DEF IInv, PermissionOK, Tells
  <2> QED
    BY <2>1, <2>3 DEF Agrees
<1> QED
  BY <1>1, Inductive, PTL

\* Gated tool calls are dispatched once, under an approval, although the
\* runtime takes no lock.
THEOREM GatedOnce == Spec => []GatedCallsRunOnce
<1>1. ASSUME IInv PROVE GatedCallsRunOnce
  <2> SUFFICES ASSUME NEW i \in Invocations
               PROVE  /\ ran[i] <= 1
                      /\ ran[i] = 1 => Approved(i) /\ ~Rejected(i)
                      /\ executed[i] <= ran[i] + faults
    BY DEF GatedCallsRunOnce
  <2>1. CountsOK(i) /\ PermissionOK(i)
    BY <1>1 DEF IInv
  <2>2. Approved(i) => ~Rejected(i)
    BY <2>1 DEF Approved, Rejected, PermissionOK
  <2> QED
    BY <2>1, <2>2 DEF CountsOK
<1> QED
  BY <1>1, Inductive, PTL

\* A completed task has a completed invocation, whatever the recovery and the
\* resumes do to the row.
THEOREM CompletionHolds == Spec => []CompletedTaskHasCompletedInvocation
<1>1. IInv => CompletedTaskHasCompletedInvocation
  BY DEF IInv, RowOK, CompletedTaskHasCompletedInvocation
<1> QED
  BY <1>1, Inductive, PTL

-----------------------------------------------------------------------------
(* Rows that have ended *)

\* Who writes a row: a live thread its own.
LEMMA LiveWrites ==
    ASSUME IInv, NEW t \in Threads, Live(thread[t]), thread[t] # IdleThread,
           \A j \in Invocations : j # thread[t].id => row'[j] = row[j],
           NEW i \in Invocations, row[i].done, i \notin swept
    PROVE  row'[i] = row[i]
BY DEF IInv, ThreadOK

LEMMA SavesOwnRow ==
    ASSUME IInv, NEW t \in Threads, NEW status, NEW pc,
           Save(t, status, pc) \/ Mark(t, status, pc)
    PROVE  \A j \in Invocations : j # thread[t].id => row'[j] = row[j]
BY DEF Save, Mark, IInv, TypeOK, InvocationTypeOK

LEMMA ThreadWrites ==
    ASSUME IInv, NEW t \in Threads, ThreadStep(t) \/ ToolsSucceed(t),
           NEW i \in Invocations, row[i].done, i \notin swept
    PROVE  row'[i] = row[i]
<1>1. CASE row' = row
  BY <1>1
<1>2. CASE row' # row
  <2>1. \/ thread[t].pc \in {"model", "tools", "resumed"}
        \/ thread[t].pc = "route" /\ thread[t].status = "waiting_human"
    <3>1. CASE Complete(t) \/ ToolsSucceed(t)
      BY <3>1 DEF Complete, ToolsSucceed
    <3>2. CASE Resume(t) \/ StoreArtifact(t)
      BY <1>2, <3>2 DEF Resume, StoreArtifact, RefuseResume, Deny, Grant, DispatchGated
    <3>3. CASE thread[t].pc \in {"model", "tools"}
      BY <3>3
    <3> QED
      BY <3>1, <3>2, <3>3 DEF ThreadStep
  <2>2. Live(thread[t]) /\ thread[t] # IdleThread
    BY <2>1 DEF Live, IdleThread
  <2>3. \A j \in Invocations : j # thread[t].id => row'[j] = row[j]
    BY <1>2, SavesOwnRow
       DEF ThreadStep, RunToolLoop, ContinueModelLoop, OverrideLoop, BudgetExhausted, GatewayFails,
           MalformedCalls, TurnIsGated, TurnCallsTools, ToolsFail, Complete, StoreArtifact, Resume,
           RefuseResume, Deny, Grant, DispatchGated, ToolsSucceed, IInv, TypeOK, InvocationTypeOK
  <2> QED
    BY <2>2, <2>3, LiveWrites
<1> QED
  BY <1>1, <1>2

LEMMA EndStep ==
    ASSUME IInv, [Next]_vars, NEW i \in Invocations, row[i].done, i \notin swept
    PROVE  row'[i] = row[i]
<1>1. CASE \E t \in Threads, j \in Invocations : Dispatch(t, j)
  BY <1>1 DEF Dispatch, ExecuteStart, NoRow, IInv, TypeOK, InvocationTypeOK
<1>2. CASE \E j \in Invocations, b \in BOOLEAN :
              AnswerArrives(j, b) \/ \E s \in {"timed_out", "failed"} : AnswerIsLost(j, s, b)
  BY <1>2 DEF AnswerArrives, AnswerIsLost, Finalize, invocationVars
<1>3. ASSUME NEW t \in Threads,
             AskFails(t) \/ ToolsRun(t) \/ ToolRetried(t) \/ \E a \in Approvals : AskStored(t, a)
      PROVE  row'[i] = row[i]
  BY <1>3, ThreadWrites DEF AskFails, AskStored, Asked, ToolsRun, ToolRetried, ToolAnswerLost
<1>4. CASE \E r \in Requests : ResumeFails(r) \/ \E t \in Threads : ResumeArrives(r, t)
  BY <1>4 DEF ResumeFails, ResumeArrives, ResumeRead, invocationVars
<1>5. CASE Reviewer
  BY <1>5 DEF Reviewer, invocationVars
<1>6. CASE Runtime
  <2>1. ASSUME NEW t \in Threads, ThreadStep(t) PROVE row'[i] = row[i]
    BY <2>1, ThreadWrites
  <2>2. CASE SweepUpdate
    BY <2>2 DEF SweepUpdate
  <2>3. CASE \/ SweepSelect
             \/ \E t \in Threads, a \in Answers : Respond(t, a)
             \/ \E j \in Invocations : Age(j)
    BY <2>3 DEF SweepSelect, Respond, Age
  <2> QED
    BY <1>6, <2>1, <2>2, <2>3 DEF Runtime
<1>7. CASE Crash
  BY <1>7 DEF Crash, RuntimeCrash, invocationVars
<1>8. CASE UNCHANGED vars
  BY <1>8 DEF vars, invocationVars
<1> QED
  BY <1>1, <1>2, <1>3, <1>4, <1>5, <1>6, <1>7, <1>8 DEF Next

\* An invocation that has ended keeps its row, unless it was the recovery that
\* ended it: every other thread that knows it has nothing left to save.
THEOREM EndsStay == Spec => EndIsFinal
<1>1. IInv /\ [Next]_vars => [\A i \in Invocations : row[i].done /\ i \notin swept => row'[i] = row[i]]_vars
  BY EndStep
<1> QED
  BY <1>1, Inductive, PTL DEF Spec, EndIsFinal

-----------------------------------------------------------------------------
(* A review is a decision *)

Verdict(a) == IF approval[a].decision \in Decided THEN approval[a].decision ELSE "open"
Told(a)    == published[a]["decided"]
Acted(a)   == IF approval[a].target \in Invocations THEN ran[approval[a].target] ELSE 0

Unseen(a) == Verdict(a)' = Verdict(a) /\ Told(a)' = Told(a) /\ Acted(a)' = Acted(a)

\* Who asks for an approval, records a verdict or dispatches gated calls.
LEMMA ReviewFrame ==
    ASSUME IInv, [Next]_vars
    PROVE  \/ \E r \in Requests : CommitDecide(r) /\ UNCHANGED ran
           \/ \E t \in Threads : DispatchGated(t) /\ UNCHANGED approvalVars
           \/ \E a \in Approvals, x \in Targets :
                 Insert(a, x) /\ UNCHANGED ran /\ (x \in Invocations => ran[x] = 0)
           \/ \E a \in Approvals : /\ UNCHANGED <<approval, ran>>
                                   /\ published' = Published(a, "tool_requested")
           \/ UNCHANGED <<approval, published, ran>>
<1>1. CASE \E t \in Threads, i \in Invocations : Dispatch(t, i)
  BY <1>1 DEF Dispatch, ExecuteStart, approvalVars
<1>2. CASE \E i \in Invocations, b \in BOOLEAN :
              AnswerArrives(i, b) \/ \E s \in {"timed_out", "failed"} : AnswerIsLost(i, s, b)
  BY <1>2 DEF AnswerArrives, AnswerIsLost, Finalize, invocationVars, approvalVars
<1>3. CASE \E t \in Threads : AskFails(t) \/ ToolsRun(t) \/ ToolRetried(t)
  BY <1>3 DEF AskFails, Asked, ToolsRun, ToolsSucceed, ToolRetried, ToolAnswerLost, approvalVars
<1>4. ASSUME NEW t \in Threads, NEW a \in Approvals, AskStored(t, a)
      PROVE  \E x \in Targets : Insert(a, x) /\ UNCHANGED ran /\ (x \in Invocations => ran[x] = 0)
  <2>1. PICK th, i : th = thread[t] /\ i = thread[t].id
    OBVIOUS
  <2>2. th.pc = "ask" /\ Insert(a, i) /\ UNCHANGED ran
    BY <1>4, <2>1 DEF AskStored, CreateToolApproval, Asked
  <2>3. th # IdleThread /\ ThreadOK(th) /\ Live(th)
    BY <2>1, <2>2 DEF IInv, IdleThread, Live
  <2>4. th.mode = "execute"
    BY <2>2, <2>3 DEF ThreadOK, ResumptionOK
  <2>5. Unasked(i) /\ i \in Invocations
    BY <2>1, <2>3, <2>4 DEF ThreadOK, ExecutionOK, Thread
  <2>6. ~Approved(i)
    BY <2>5 DEF Unasked, Approved
  <2>7. ran[i] \in 0..2 /\ ran[i] <= 1 /\ (ran[i] = 1 => Approved(i))
    BY <2>5 DEF IInv, CountsOK, TypeOK, InvocationTypeOK
  <2>8. ran[i] = 0
    BY <2>6, <2>7
  <2> QED
    BY <2>2, <2>5, <2>8, CallsAreInvocations DEF Targets
<1>5. CASE \E r \in Requests : ResumeFails(r) \/ \E t \in Threads : ResumeArrives(r, t)
  BY <1>5 DEF ResumeFails, ResumeArrives, ResumeRead, CallResume, invocationVars
<1>6. CASE Reviewer
  <2>1. ASSUME NEW a \in Approvals, NEW x \in Artifacts, CreateApproval(a, x)
        PROVE  x \in Targets /\ x \notin Invocations /\ Insert(a, x)
    BY <2>1, TargetAssumption, CallsAreInvocations DEF CreateApproval, Targets
  <2> QED
    BY <1>6, <2>1
    DEF Reviewer, AnnounceToolApproval, BeginDecide, RefuseDecide, invocationVars
<1>7. CASE Runtime
  <2>1. ASSUME NEW t \in Threads, ThreadStep(t) PROVE DispatchGated(t) \/ UNCHANGED ran
    BY <2>1
       DEF ThreadStep, RunToolLoop, ContinueModelLoop, OverrideLoop, BudgetExhausted, GatewayFails,
           MalformedCalls, TurnIsGated, TurnCallsTools, ToolsFail, Complete, StoreArtifact, Resume,
           RefuseResume, Deny, Grant
  <2>2. CASE \/ SweepSelect \/ SweepUpdate
             \/ \E t \in Threads, a \in Answers : Respond(t, a)
             \/ \E j \in Invocations : Age(j)
    BY <1>7, <2>2 DEF Runtime, SweepSelect, SweepUpdate, Respond, Age, approvalVars
  <2>3. UNCHANGED approvalVars
    BY <1>7 DEF Runtime
  <2> QED
    BY <1>7, <2>1, <2>2, <2>3 DEF Runtime, approvalVars
<1>8. CASE Crash
  BY <1>8 DEF Crash, RuntimeCrash, OrchestratorCrash, invocationVars, approvalVars
<1>9. CASE UNCHANGED vars
  BY <1>9 DEF vars, invocationVars, approvalVars
<1> QED
  BY <1>1, <1>2, <1>3, <1>4, <1>5, <1>6, <1>7, <1>8, <1>9 DEF Next

\* A new request for an approval is open, untold and not acted upon.
LEMMA InsertUnseen ==
    ASSUME IInv, NEW a \in Approvals, NEW x \in Targets, Insert(a, x), UNCHANGED ran,
           x \in Invocations => ran[x] = 0
    PROVE  \A b \in Approvals : Unseen(b)
<1>1. PICK new : new = [target |-> x, decision |-> Pending]
  OBVIOUS
<1>2. /\ approval[a] = NoApproval /\ approval' = [approval EXCEPT ![a] = new]
      /\ published' = Published(a, "requested")
  BY <1>1 DEF Insert
<1>3. approval'[a] = new /\ \A b \in Approvals \ {a} : approval'[b] = approval[b]
  BY <1>2, ApprovalFacts
<1>4. \A b \in Approvals : Told(b)' = Told(b)
  BY <1>2, PublishedCounts DEF Told, EventTypes
<1>5. /\ approval[a].target \notin Invocations /\ approval[a].decision \notin Decided
      /\ new.decision \notin Decided /\ new.target = x
  BY <1>1, <1>2, ApprovalFacts, NamesAssumption, CallsAreInvocations DEF Targets, Pending, Decided
<1>6. Verdict(a)' = Verdict(a)
  BY <1>3, <1>5 DEF Verdict
<1>7. Acted(a) = 0
  BY <1>5 DEF Acted
<1>8. Acted(a)' = 0
  BY <1>3, <1>5 DEF Acted
<1> QED
  BY <1>3, <1>4, <1>6, <1>7, <1>8 DEF Unseen, Verdict, Acted

\* A commit decides what was open, announces it once and acts on nothing.
LEMMA CommitDecides ==
    ASSUME IInv, NEW r \in Requests, CommitDecide(r), UNCHANGED ran
    PROVE  \E a \in Approvals, v \in Decided :
               /\ Verdict(a) = "open" /\ Verdict(a)' = v
               /\ Told(a)' = 1 /\ Acted(a)' = Acted(a)
               /\ \A b \in Approvals \ {a} : Unseen(b)
<1>0. PICK a, d, x, new :
        /\ a = request[r].id /\ d = request[r].decision /\ x = approval[a].target
        /\ new = [target |-> x, decision |-> Outcome(d)]
  OBVIOUS
<1>1. request[r] \in Request /\ request[r].pc = "deciding"
  BY ApprovalFacts DEF CommitDecide, NoRequest
<1>2. a \in Approvals /\ d \in Decisions
  BY <1>0, <1>1 DEF Request
<1>3. request[r].seen = approval[a] /\ approval[a].decision = Pending
  BY <1>0, <1>1 DEF IInv, LocksOK, CommitDecide
<1>4. approval' = [approval EXCEPT ![a] = new] /\ published' = Published(a, "decided")
  BY <1>0, <1>3 DEF CommitDecide
<1>5. new.target = x /\ new.decision = Outcome(d) /\ Outcome(d) \in Decided
  BY <1>0 DEF Outcome, Decided
<1>6. approval'[a] = new /\ \A b \in Approvals \ {a} : approval'[b] = approval[b]
  BY <1>2, <1>4, ApprovalFacts
<1>7. approval[a].decision \notin Decided
  BY <1>3 DEF Pending, Decided
<1>8. Told(a) = 0
  BY <1>2, <1>7 DEF IInv, DecidedOnce, Told
<1>9. Told(a)' = 1 /\ \A b \in Approvals \ {a} : Told(b)' = Told(b)
  BY <1>2, <1>4, <1>8, PublishedCounts DEF Told, EventTypes
<1>10. Verdict(a) = "open" /\ Verdict(a)' = Outcome(d)
  BY <1>5, <1>6, <1>7 DEF Verdict
<1>11. Acted(a)' = Acted(a)
  BY <1>0, <1>5, <1>6 DEF Acted
<1>12. \A b \in Approvals \ {a} : Unseen(b)
  BY <1>6, <1>9 DEF Unseen, Verdict, Acted
<1> QED
  BY <1>2, <1>5, <1>9, <1>10, <1>11, <1>12

\* A dispatch of gated calls acts, for the first time, on the one approval the
\* invocation has.
LEMMA DispatchActs ==
    ASSUME IInv, NEW t \in Threads, DispatchGated(t), UNCHANGED approvalVars
    PROVE  \E a \in Approvals :
               /\ Verdict(a) = "approved" /\ Verdict(a)' = Verdict(a) /\ Told(a)' = Told(a)
               /\ Acted(a) = 0 /\ Acted(a)' = 1
               /\ \A b \in Approvals \ {a} : Unseen(b)
<1>0. PICK th, i : th = thread[t] /\ i = thread[t].id
  OBVIOUS
<1>1. th.pc = "resumed" /\ ran' = [ran EXCEPT ![i] = IF ran[i] < 2 THEN ran[i] + 1 ELSE ran[i]]
  BY <1>0 DEF DispatchGated
<1>2. th # IdleThread /\ ThreadOK(th)
  BY <1>0, <1>1 DEF IInv, IdleThread
<1>3. i \in Invocations /\ ran[i] = 0 /\ th.mode = "approved"
  BY <1>0, <1>1, <1>2 DEF ThreadOK, Thread
<1>4. Agrees(i, "approved")
  BY <1>0, <1>2, <1>3 DEF ThreadOK, ResumptionOK
<1>5. PICK a \in Approvals : approval[a].target = i /\ approval[a].decision = "approved"
  BY <1>4 DEF Agrees
<1>6. \A b \in Approvals \ {a} : approval[b].target # i
  BY <1>3, <1>5 DEF IInv, PermissionOK
<1>7. ran'[i] = 1 /\ \A j \in Invocations \ {i} : ran'[j] = ran[j]
  BY <1>1, <1>3 DEF IInv, TypeOK, InvocationTypeOK
<1>8. UNCHANGED <<approval, published>>
  BY DEF approvalVars
<1>9. \A b \in Approvals \ {a} : Unseen(b)
  BY <1>6, <1>7, <1>8 DEF Unseen, Verdict, Told, Acted
<1>10. Acted(a) = 0 /\ Acted(a)' = 1
  BY <1>3, <1>5, <1>7, <1>8 DEF Acted
<1>11. Verdict(a) = "approved" /\ Verdict(a)' = Verdict(a) /\ Told(a)' = Told(a)
  BY <1>5, <1>8 DEF Verdict, Told, Decided
<1> QED
  BY <1>9, <1>10, <1>11

\* The approvals of the orchestrator and the invocations of the runtime, with
\* a lock in one service and none in the other, implement Decision: of the
\* reviewers one decides, the outbox tells it once, and gated calls are
\* dispatched once at most, after an approval.
THEOREM ReviewIsDecisionCorrect == Spec => ReviewIsDecision
<1>1. Init => Review!Init
  <2> SUFFICES ASSUME Init PROVE Review!Init
    OBVIOUS
  <2>1. \A a \in Approvals : approval[a] = NoApproval /\ published[a]["decided"] = 0
    BY DEF Init, ApprovalInit, EventTypes
  <2>2. NoApproval.decision \notin Decided /\ NoApproval.target \notin Invocations
    BY NamesAssumption, CallsAreInvocations DEF NoApproval, Decided, Targets
  <2> QED
    BY <2>1, <2>2 DEF Review!Init
<1>2. IInv /\ [Next]_vars => [Review!Next]_Review!decisionVars
  <2> SUFFICES ASSUME IInv, [Next]_vars
               PROVE  Review!Next \/ UNCHANGED Review!decisionVars
    OBVIOUS
  <2>1. CASE \A a \in Approvals : Unseen(a)
    BY <2>1 DEF Unseen, Verdict, Told, Acted, Review!decisionVars
  <2>2. ASSUME NEW a \in Approvals, NEW v \in Decided,
               Verdict(a) = "open", Verdict(a)' = v, Told(a)' = 1, Acted(a)' = Acted(a),
               \A b \in Approvals \ {a} : Unseen(b)
        PROVE  Review!Decide(a, v)
    BY <2>2 DEF Unseen, Verdict, Told, Acted, Review!Decide
  <2>3. ASSUME NEW a \in Approvals,
               Verdict(a) = "approved", Verdict(a)' = Verdict(a), Told(a)' = Told(a),
               Acted(a) = 0, Acted(a)' = 1, \A b \in Approvals \ {a} : Unseen(b)
        PROVE  Review!Act(a)
    BY <2>3 DEF Unseen, Verdict, Told, Acted, Review!Act
  <2>4. ASSUME NEW a \in Approvals, UNCHANGED <<approval, ran>>,
               published' = Published(a, "tool_requested")
        PROVE  \A b \in Approvals : Unseen(b)
    BY <2>4, PublishedCounts DEF Unseen, Verdict, Told, Acted, EventTypes
  <2>5. CASE UNCHANGED <<approval, published, ran>>
    BY <2>1, <2>5 DEF Unseen, Verdict, Told, Acted
  <2> QED
    BY <2>1, <2>2, <2>3, <2>4, <2>5, ReviewFrame, InsertUnseen, CommitDecides, DispatchActs
    DEF Review!Next
<1> QED
  BY <1>1, <1>2, Inductive, PTL DEF Spec, ReviewIsDecision, Review!Spec
=============================================================================
