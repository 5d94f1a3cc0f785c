----------------------------- MODULE Terminal_proofs -----------------------------
(***************************************************************************)
(* What is proved about terminal sessions: the history of commands and the *)
(* events agree for any number of sessions, commands, processes and        *)
(* crashes, and one process never has two active sessions for a run.       *)
(*                                                                         *)
(* Both follow from what a request's stage says of its command's row; a    *)
(* crash leaves a stage, "dead", that says the least.                      *)
(***************************************************************************)
EXTENDS Terminal, FiniteSetTheorems, TLAPS

\* The types of the variables are always expanded.
USE DEF SessionRows, CommandRows, Pages

\* What the stage of a request says of the command's row.
StageOK(c) ==
    /\ request[c].stage \in {"untyped", "sent", "waiting", "refused"} => command[c] = None
    /\ request[c].stage \in {"stored", "running", "run"} => Running(c)
    /\ request[c].stage = "answered" => command[c] # None /\ ~Running(c)
    /\ request[c].stage = "dead" => command[c] = None \/ Running(c)
    /\ request[c].stage # "untyped" => request[c].session \in Sessions
    /\ request[c].stage = "run" => request[c].outcome \in Outcomes

\* The inductive invariant.
IInv ==
    /\ TypeOK
    /\ \A c \in Commands : StageOK(c)
    /\ EventsMatchHistory

\* The commands that have ended, as the events tell of them.
Ended == {<<c, command[c].status = "completed">> :
             c \in {d \in Commands : command[d] # None /\ ~Running(d)}}

LEMMA InitHolds == Init => IInv
<1> SUFFICES ASSUME Init PROVE IInv
  OBVIOUS
<1>1. TypeOK
  BY CrashBound DEF Init, TypeOK, SandboxStates, Untyped, Request, Stages
<1>2. \A c \in Commands : StageOK(c)
  BY DEF Init, StageOK, Untyped
<1>3. EventsMatchHistory
  BY DEF Init, EventsMatchHistory, Running
<1> QED
  BY <1>1, <1>2, <1>3 DEF IInv

\* Steps that leave commands, requests and events alone.
LEMMA AsideKeeps ==
    ASSUME IInv, TypeOK', UNCHANGED <<command, announced, request>>
    PROVE  IInv'
BY DEF IInv, StageOK, EventsMatchHistory, Running

LEMMA SandboxKeeps ==
    ASSUME IInv, NEW b \in Sandboxes, SandboxTurns(b) \/ SandboxEnds(b)
    PROVE  IInv'
<1>1. TypeOK'
  BY DEF IInv, TypeOK, SandboxTurns, SandboxEnds, SandboxStates
<1> QED
  BY <1>1, AsideKeeps DEF SandboxTurns, SandboxEnds

LEMMA SessionKeeps ==
    ASSUME IInv, NEW p \in Servers, Open(p) \/ CommitSession(p)
    PROVE  IInv'
<1>1. CASE Open(p)
  <2>1. ASSUME NEW u \in Users, NEW b \in Sandboxes, NEW r \in Runs, FindSession(p, u, b, r)
        PROVE  TypeOK' /\ UNCHANGED <<command, announced, request>>
    BY <2>1 DEF IInv, TypeOK, FindSession, ActiveSession, ActiveIn
  <2>2. ASSUME NEW u \in Users, NEW b \in Sandboxes, NEW r \in Runs, NEW s \in Sessions,
               OpenSession(p, u, b, r, s)
        PROVE  TypeOK' /\ UNCHANGED <<command, announced, request>>
    BY <2>2 DEF IInv, TypeOK, OpenSession, Opening
  <2> QED
    BY <1>1, <2>1, <2>2, AsideKeeps DEF Open
<1>2. CASE CommitSession(p)
  <2>1. opening[p] \in Opening
    BY <1>2 DEF IInv, TypeOK, CommitSession
  <2>2. TypeOK'
    BY <1>2, <2>1 DEF IInv, TypeOK, CommitSession, Opening, SessionRow
  <2> QED
    BY <1>2, <2>2, AsideKeeps DEF CommitSession
<1> QED
  BY <1>1, <1>2

LEMMA CloseKeeps ==
    ASSUME IInv, NEW u \in Users, CloseSession(u)
    PROVE  IInv'
<1>1. session[page[u]] \in SessionRow /\ page[u] \in Sessions
  BY DEF IInv, TypeOK, CloseSession, Owns
<1>2. TypeOK'
  BY <1>1 DEF IInv, TypeOK, CloseSession, SessionRow
<1> QED
  BY <1>2, AsideKeeps DEF CloseSession

-----------------------------------------------------------------------------
(* Commands *)

\* A step of one request that leaves the rows and the events alone.
LEMMA RequestKeeps ==
    ASSUME IInv, NEW c \in Commands, NEW r \in Request,
           request' = [request EXCEPT ![c] = r],
           UNCHANGED <<sandbox, session, command, announced, page, opening>>,
           crashes' \in 0..MaxCrashes, StageOK(c)'
    PROVE  IInv'
<1>1. TypeOK'
  BY DEF IInv, TypeOK
<1>2. \A d \in Commands : d # c => request'[d] = request[d]
  BY DEF IInv, TypeOK
<1>3. (\A d \in Commands : StageOK(d))'
  BY <1>2 DEF IInv, StageOK, Running
<1> QED
  BY <1>1, <1>3 DEF IInv, EventsMatchHistory, Running

LEMMA TypeKeeps ==
    ASSUME IInv, NEW c \in Commands, NEW u \in Users, NEW p \in Servers, Type(c, u, p)
    PROVE  IInv'
<1> DEFINE r == [Untyped EXCEPT !.stage = "sent", !.user = u, !.session = page[u], !.server = p]
<1>1. page[u] \in Sessions
  BY DEF IInv, TypeOK, Type
<1>2. r \in Request /\ r.stage = "sent" /\ r.session = page[u]
  BY <1>1 DEF Untyped, Request, Stages
<1>3. request' = [request EXCEPT ![c] = r] /\ request'[c] = r
  BY DEF IInv, TypeOK, Type
<1>4. StageOK(c)'
  BY <1>1, <1>2, <1>3 DEF IInv, StageOK, Type, At
<1> QED
  BY <1>2, <1>3, <1>4, RequestKeeps DEF Type, IInv, TypeOK

LEMMA LookKeeps ==
    ASSUME IInv, NEW c \in Commands, Look(c)
    PROVE  IInv'
<1> DEFINE stage == IF Permitted(c) THEN "waiting" ELSE "refused"
           r == [request[c] EXCEPT !.stage = stage]
<1>1. request[c] \in Request
  BY DEF IInv, TypeOK
<1>2. r \in Request /\ r.stage = stage /\ r.session = request[c].session
  BY <1>1 DEF Request, Stages
<1>3. request' = [request EXCEPT ![c] = r] /\ request'[c] = r
  BY DEF IInv, TypeOK, Look, Advance
<1>4. StageOK(c)'
  BY <1>2, <1>3 DEF IInv, StageOK, Look, At
<1> QED
  BY <1>2, <1>3, <1>4, RequestKeeps DEF Look, IInv, TypeOK

LEMMA ExecuteKeeps ==
    ASSUME IInv, NEW c \in Commands, Execute(c) \/ Exit(c)
    PROVE  IInv'
<1>1. request[c] \in Request /\ Running(c) /\ request[c].session \in Sessions
  BY DEF IInv, TypeOK, StageOK, Execute, Exit, At
<1>2. ASSUME NEW stage \in {"running", "run"}, NEW o \in Outcomes \cup {None},
             stage = "run" => o \in Outcomes,
             request' = [request EXCEPT ![c].stage = stage, ![c].outcome = o]
      PROVE  IInv'
  <2> DEFINE r == [request[c] EXCEPT !.stage = stage, !.outcome = o]
  <2>1. r \in Request /\ r.stage = stage /\ r.outcome = o /\ r.session = request[c].session
    BY <1>1 DEF Request, Stages
  <2>2. request' = [request EXCEPT ![c] = r] /\ request'[c] = r
    BY <1>2, <1>1 DEF IInv, TypeOK, Request
  <2>3. UNCHANGED <<sandbox, session, command, announced, page, opening, crashes>>
    BY DEF Execute, Exit
  <2>4. StageOK(c)'
    BY <1>1, <1>2, <2>1, <2>2, <2>3 DEF StageOK, Running
  <2> QED
    BY <2>1, <2>2, <2>3, <2>4, RequestKeeps DEF IInv, TypeOK
<1>3. CASE Execute(c)
  BY <1>2, <1>3 DEF Execute, Outcomes
<1>4. CASE Exit(c)
  <2>1. PICK o \in {"completed", "timed_out", "failed"} :
            request' = [request EXCEPT ![c].stage = "run", ![c].outcome = o]
    BY <1>4 DEF Exit
  <2>2. o \in Outcomes
    BY DEF Outcomes
  <2> QED
    BY <1>2, <2>1, <2>2
<1> QED
  BY <1>3, <1>4

LEMMA FailKeeps ==
    ASSUME IInv, NEW c \in Commands, FinishFails(c)
    PROVE  IInv'
<1> DEFINE r == [request[c] EXCEPT !.stage = "dead"]
<1>1. request[c] \in Request
  BY DEF IInv, TypeOK
<1>2. r \in Request /\ r.stage = "dead" /\ r.session = request[c].session
  BY <1>1 DEF Request, Stages
<1>3. request' = [request EXCEPT ![c] = r] /\ request'[c] = r
  BY DEF IInv, TypeOK, FinishFails, Advance
<1>4. StageOK(c)'
  BY <1>2, <1>3 DEF IInv, StageOK, FinishFails, At, Running
<1>5. crashes' \in 0..MaxCrashes
  BY CrashBound DEF IInv, TypeOK, FinishFails
<1> QED
  BY <1>2, <1>3, <1>4, <1>5, RequestKeeps DEF FinishFails

LEMMA DieKeeps ==
    ASSUME IInv, NEW p \in Servers, ServerDies(p)
    PROVE  IInv'
<1>1. ASSUME NEW c \in Commands
      PROVE  /\ request'[c] \in Request
             /\ \/ request'[c] = request[c]
                \/ /\ Under(c) /\ request'[c].stage = "dead"
                   /\ request'[c].session = request[c].session
  <2>1. request[c] \in Request
    BY DEF IInv, TypeOK
  <2> QED
    BY <2>1 DEF ServerDies, Request, Stages
<1>2. crashes' \in 0..MaxCrashes
  BY CrashBound DEF IInv, TypeOK, ServerDies
<1>3. request' \in [Commands -> Request]
  BY <1>1 DEF ServerDies
<1>4. TypeOK'
  BY <1>2, <1>3 DEF IInv, TypeOK, ServerDies
<1>5. (\A c \in Commands : StageOK(c))'
  BY <1>1 DEF IInv, StageOK, Running, Under, ServerDies
<1> QED
  BY <1>4, <1>5 DEF IInv, EventsMatchHistory, Running, ServerDies

\* The row is stored as running: nothing has ended.
LEMMA StoreKeeps ==
    ASSUME IInv, NEW c \in Commands, Store(c)
    PROVE  IInv'
<1> DEFINE r == [request[c] EXCEPT !.stage = "stored"]
           row == [session |-> request[c].session, status |-> "running"]
<1>1. request[c] \in Request /\ request[c].session \in Sessions /\ command[c] = None
  BY DEF IInv, TypeOK, StageOK, Store, At
<1>2. r \in Request /\ r.stage = "stored" /\ r.session = request[c].session
  BY <1>1 DEF Request, Stages
<1>3. request' = [request EXCEPT ![c] = r] /\ request'[c] = r
  BY DEF IInv, TypeOK, Store, Advance
<1>4. row \in CommandRow /\ row # None /\ row.status = "running"
  BY <1>1, NoneAssumption DEF CommandRow
<1>5. command' = [command EXCEPT ![c] = row] /\ command'[c] = row
  BY DEF IInv, TypeOK, Store
<1>6. \A d \in Commands : d # c => command'[d] = command[d] /\ request'[d] = request[d]
  BY <1>3, <1>5 DEF IInv, TypeOK
<1>7. TypeOK'
  BY <1>2, <1>3, <1>4, <1>5 DEF IInv, TypeOK, Store
<1>8. StageOK(c)'
  BY <1>1, <1>2, <1>3, <1>4, <1>5 DEF StageOK, Running
<1>9. ASSUME NEW d \in Commands, d # c PROVE StageOK(d)'
  BY <1>6, <1>9 DEF IInv, StageOK, Running
<1>10. Ended' = Ended
  <2>1. ~(command'[c] # None /\ ~Running(c)') /\ ~(command[c] # None /\ ~Running(c))
    BY <1>1, <1>4, <1>5 DEF Running
  <2>2. \A d \in Commands : (command[d] # None /\ ~Running(d))
                                <=> (command'[d] # None /\ ~Running(d)')
    BY <1>6, <2>1 DEF Running
  <2>3. \A d \in Commands : command[d] # None /\ ~Running(d) => command'[d] = command[d]
    BY <1>6, <2>1
  <2> QED
    BY <2>2, <2>3 DEF Ended
<1> QED
  BY <1>7, <1>8, <1>9, <1>10 DEF IInv, EventsMatchHistory, Ended, Store

\* The end is stored and announced in one transaction.
LEMMA FinishKeeps ==
    ASSUME IInv, NEW c \in Commands, Finish(c)
    PROVE  IInv'
<1> DEFINE o == request[c].outcome
           r == [request[c] EXCEPT !.stage = "answered"]
           row == [command[c] EXCEPT !.status = o]
<1>1. request[c] \in Request /\ request[c].session \in Sessions /\ Running(c) /\ o \in Outcomes
  BY DEF IInv, TypeOK, StageOK, Finish, At
<1>2. r \in Request /\ r.stage = "answered" /\ r.session = request[c].session
  BY <1>1 DEF Request, Stages
<1>3. request' = [request EXCEPT ![c] = r] /\ request'[c] = r
  BY DEF IInv, TypeOK, Finish, Advance
<1>4. command[c] \in CommandRow
  BY <1>1 DEF IInv, TypeOK, Running
<1>5. row \in CommandRow /\ row # None /\ row.status = o /\ o # "running"
  BY <1>1, <1>4, NoneAssumption DEF CommandRow, Outcomes
<1>6. command' = [command EXCEPT ![c] = row] /\ command'[c] = row
  BY <1>4 DEF IInv, TypeOK, Finish, StoreEnd, CommandRow
<1>7. \A d \in Commands : d # c => command'[d] = command[d] /\ request'[d] = request[d]
  BY <1>3, <1>6 DEF IInv, TypeOK
<1>8. announced' = announced \cup {<<c, o = "completed">>}
  BY DEF Finish, Announce
<1>9. TypeOK'
  <2>1. announced' \subseteq (Commands \X BOOLEAN)
    <3>1. (o = "completed") \in BOOLEAN
      OBVIOUS
    <3>2. <<c, o = "completed">> \in Commands \X BOOLEAN
      BY <3>1, Zenon
    <3>3. announced \subseteq (Commands \X BOOLEAN)
      BY DEF IInv, TypeOK
    <3> QED
      BY <1>8, <3>2, <3>3, Zenon
  <2>2. request' \in [Commands -> Request] /\ command' \in [Commands -> CommandRow \cup {None}]
    BY <1>2, <1>3, <1>5, <1>6 DEF IInv, TypeOK
  <2> QED
    BY <2>1, <2>2 DEF IInv, TypeOK, Finish
<1>10. StageOK(c)'
  <2>1. request'[c].stage = "answered" /\ request'[c].session \in Sessions
    BY <1>1, <1>2, <1>3
  <2>2. command'[c] # None /\ command'[c].status # "running"
    BY <1>5, <1>6
  <2> HIDE DEF r, row
  <2> QED
    BY <2>1, <2>2 DEF StageOK, Running
<1>11. ASSUME NEW d \in Commands, d # c PROVE StageOK(d)'
  BY <1>7, <1>11 DEF IInv, StageOK, Running
<1>12. Ended' = Ended \cup {<<c, o = "completed">>}
  <2> DEFINE Over(d) == command[d] # None /\ ~Running(d)
             Tells(d) == <<d, command[d].status = "completed">>
  <2>1. ~Over(c)
    BY <1>1
  <2>2. Over(c)' /\ Tells(c)' = <<c, o = "completed">>
    BY <1>5, <1>6 DEF Running
  <2>3. \A d \in Commands : d # c => (Over(d)' <=> Over(d)) /\ Tells(d)' = Tells(d)
    BY <1>7 DEF Running
  <2>4. Ended = {Tells(d) : d \in {x \in Commands : Over(x)}}
    BY DEF Ended
  <2>5. Ended' = {Tells(d)' : d \in {x \in Commands : Over(x)'}}
    BY DEF Ended
  <2> HIDE DEF Over, Tells
  <2> QED
    BY <2>1, <2>2, <2>3, <2>4, <2>5
<1> QED
  BY <1>8, <1>9, <1>10, <1>11, <1>12 DEF IInv, EventsMatchHistory, Ended

-----------------------------------------------------------------------------
(* The theorems *)

LEMMA NextKeeps == IInv /\ [Next]_vars => IInv'
<1> SUFFICES ASSUME IInv, [Next]_vars PROVE IInv'
  OBVIOUS
<1>1. ASSUME NEW b \in Sandboxes, SandboxTurns(b) \/ SandboxEnds(b) PROVE IInv'
  BY <1>1, SandboxKeeps
<1>2. ASSUME NEW p \in Servers, Open(p) \/ CommitSession(p) PROVE IInv'
  BY <1>2, SessionKeeps
<1>3. ASSUME NEW p \in Servers, ServerDies(p) PROVE IInv'
  BY <1>3, DieKeeps
<1>4. ASSUME NEW u \in Users, CloseSession(u) PROVE IInv'
  BY <1>4, CloseKeeps
<1>5. ASSUME NEW c \in Commands, NEW u \in Users, NEW p \in Servers, Type(c, u, p) PROVE IInv'
  BY <1>5, TypeKeeps
<1>6. ASSUME NEW c \in Commands, Serve(c) PROVE IInv'
  BY <1>6, LookKeeps, StoreKeeps, ExecuteKeeps, FinishKeeps DEF Serve
<1>7. ASSUME NEW c \in Commands, FinishFails(c) PROVE IInv'
  BY <1>7, FailKeeps
<1>8. CASE UNCHANGED vars
  BY <1>8 DEF vars, IInv, TypeOK, StageOK, EventsMatchHistory, Running
<1> QED
  BY <1>1, <1>2, <1>3, <1>4, <1>5, <1>6, <1>7, <1>8 DEF Next

LEMMA Invariance == Spec => []IInv
BY InitHolds, NextKeeps, PTL DEF Spec

\* Type correctness of sessions, commands and requests.
THEOREM TypeCorrect == Spec => []TypeOK
<1>1. IInv => TypeOK
  BY DEF IInv
<1> QED
  BY <1>1, Invariance, PTL

\* History and timeline tell the same ends, whatever dies.
THEOREM EventsTellTheHistory == Spec => []EventsMatchHistory
<1>1. IInv => EventsMatchHistory
  BY DEF IInv
<1> QED
  BY <1>1, Invariance, PTL

\* A running command's request is on its way or dead, and an answered command
\* has ended.
THEOREM RunningHasRequest == Spec => []RunningIsWaitedFor
<1>1. IInv => RunningIsWaitedFor
  BY DEF IInv, TypeOK, Request, Stages, StageOK, RunningIsWaitedFor, Running, At
<1> QED
  BY <1>1, Invariance, PTL

-----------------------------------------------------------------------------
(* One process, one active session *)

OneProcess == \A p, q \in Servers : p = q

\* Two active sessions of a run are one, and while a session is being opened
\* its run has none and its id is free.
SessionsInv ==
    /\ \A r \in Runs : \A s, t \in ActiveIn(r) : s = t
    /\ \A p \in Servers : opening[p] # None => /\ session[opening[p].id] = None
                                              /\ ActiveIn(opening[p].run) = {}

LEMMA SessionsKept ==
    ASSUME OneProcess, TypeOK, SessionsInv, [Next]_vars
    PROVE  SessionsInv'
<1>1. CASE UNCHANGED <<session, opening>>
  BY <1>1 DEF SessionsInv, ActiveIn
<1>2. ASSUME NEW p \in Servers, NEW u \in Users, NEW b \in Sandboxes, NEW r \in Runs,
             NEW s \in Sessions, OpenSession(p, u, b, r, s)
      PROVE  SessionsInv'
  <2>1. opening'[p] = [id |-> s, sandbox |-> b, run |-> r, user |-> u]
    BY <1>2 DEF OpenSession, TypeOK
  <2>2. \A q \in Servers : q = p
    BY DEF OneProcess
  <2>3. session' = session /\ session[s] = None /\ ActiveIn(r) = {}
    BY <1>2 DEF OpenSession, ActiveSession
  <2> QED
    BY <2>1, <2>2, <2>3 DEF SessionsInv, ActiveIn
<1>3. ASSUME NEW p \in Servers, CommitSession(p)
      PROVE  SessionsInv'
  <2> DEFINE o == opening[p]
  <2>1. o \in Opening /\ o # None /\ o.id \in Sessions /\ o.run \in Runs
    BY <1>3 DEF CommitSession, TypeOK, Opening
  <2>2. session[o.id] = None /\ ActiveIn(o.run) = {}
    BY <2>1 DEF SessionsInv
  <2>3. \A t \in Sessions : t # o.id => session'[t] = session[t]
    BY <1>3 DEF CommitSession, TypeOK
  <2>4. session'[o.id] = [sandbox |-> o.sandbox, run |-> o.run, user |-> o.user,
                          status |-> "active"]
    BY <1>3, <2>1 DEF CommitSession, TypeOK
  <2>5. session'[o.id].run = o.run
    BY <2>4
  <2>6. \A r \in Runs : \A s, t \in ActiveIn(r)' : s = t
    <3> SUFFICES ASSUME NEW r \in Runs, NEW s \in ActiveIn(r)', NEW t \in ActiveIn(r)'
                 PROVE  s = t
      OBVIOUS
    <3>1. CASE s # o.id /\ t # o.id
      BY <2>3, <3>1 DEF SessionsInv, ActiveIn
    <3>2. CASE r = o.run
      BY <2>2, <2>3, <3>2 DEF ActiveIn
    <3>3. CASE r # o.run
      BY <2>5, <3>1, <3>3 DEF ActiveIn
    <3> QED
      BY <3>2, <3>3
  <2>7. \A q \in Servers : opening'[q] = None
    BY <1>3 DEF CommitSession, TypeOK, OneProcess
  <2> QED
    BY <2>6, <2>7 DEF SessionsInv
<1>4. ASSUME NEW u \in Users, CloseSession(u)
      PROVE  SessionsInv'
  <2> DEFINE x == page[u]
  <2>1. x \in Sessions /\ session[x] \in SessionRow /\ session[x] # None
    BY <1>4 DEF CloseSession, TypeOK, Owns
  <2>2. \A t \in Sessions : t # x => session'[t] = session[t]
    BY <1>4 DEF CloseSession, TypeOK
  <2>3. session'[x].status = "closed"
    BY <1>4, <2>1 DEF CloseSession, TypeOK, SessionRow
  <2>4. \A r \in Runs : ActiveIn(r)' \subseteq ActiveIn(r)
    BY <2>2, <2>3 DEF ActiveIn
  <2>5. \A q \in Servers : opening[q] # None => opening[q].id # x /\ opening[q].run \in Runs
    BY <2>1 DEF SessionsInv, TypeOK, Opening
  <2>6. opening' = opening
    BY <1>4 DEF CloseSession
  <2>7. \A q \in Servers : opening[q] # None => opening[q].id \in Sessions
    BY DEF TypeOK, Opening
  <2> QED
    BY <2>2, <2>4, <2>5, <2>6, <2>7 DEF SessionsInv
<1>5. ASSUME NEW p \in Servers, ServerDies(p)
      PROVE  SessionsInv'
  <2>1. session' = session /\ \A q \in Servers : opening'[q] \in {None, opening[q]}
    BY <1>5 DEF ServerDies, TypeOK
  <2> QED
    BY <2>1 DEF SessionsInv, ActiveIn
<1> QED
  BY <1>1, <1>2, <1>3, <1>4, <1>5
     DEF Next, vars, SandboxTurns, SandboxEnds, Open, FindSession, Type, Serve, Look, Store,
         Execute, Exit, Finish, FinishFails

\* One process of the execution-service keeps one active session per run.
THEOREM OneSessionPerRun == OneProcess => (Spec => []OneActiveSessionPerRun)
<1> SUFFICES ASSUME OneProcess PROVE Spec => []OneActiveSessionPerRun
  OBVIOUS
<1>1. Init => SessionsInv
  BY DEF Init, SessionsInv, ActiveIn
<1>2. TypeOK /\ SessionsInv /\ [Next]_vars => SessionsInv'
  BY SessionsKept
<1>3. SessionsInv => OneActiveSessionPerRun
  <2> SUFFICES ASSUME SessionsInv, NEW r \in Runs PROVE Cardinality(ActiveIn(r)) <= 1
    BY DEF OneActiveSessionPerRun
  <2>1. CASE ActiveIn(r) = {}
    BY <2>1, FS_EmptySet
  <2>2. ASSUME NEW s \in ActiveIn(r) PROVE Cardinality(ActiveIn(r)) <= 1
    <3>1. ActiveIn(r) = {s}
      BY DEF SessionsInv
    <3>2. Cardinality({s}) = 1
      BY FS_Singleton
    <3> QED
      BY <3>1, <3>2
  <2> QED
    BY <2>1, <2>2
<1> QED
  BY <1>1, <1>2, <1>3, TypeCorrect, PTL DEF Spec

=============================================================================
