---------------------------- MODULE Artifact_proofs ----------------------------
(***************************************************************************)
(* What is proved about artifacts.  For any number of server processes:    *)
(* the types, and that an invocation has one artifact.  For one process,   *)
(* which handles a request from its read to its commit without another in  *)
(* between: how an artifact ends is announced once, a reported artifact is *)
(* ready and stays so, and a file is whole before its artifact is ready.   *)
(*                                                                         *)
(* The lineage of finitely many artifacts has no cycle.  The search for    *)
(* one is exact on any graph without: it refuses an edge if and only if    *)
(* the edge would close a cycle.                                           *)
(***************************************************************************)
EXTENDS Artifact, FiniteSetTheorems, TLAPS

\* The types of the variables are always expanded.
USE DEF ArtifactRows, ProvenanceRows, Edges, Announcements, Answer, Uploads

\* A request that needs an artifact names one.
Named(m) ==
    /\ m \in Call \cup Link
    /\ m.op \in {"begin", "finalize", "fail"} => m.artifact \in Artifacts

NamesTravel ==
    /\ \A m \in calls : Named(m)
    /\ \A s \in Servers : serving[s].step # "idle" => Named(serving[s].request)
    /\ \A s \in Servers : serving[s].step = "write" => serving[s].request.op = "finalize"
    /\ \A m \in answers : m.ok => m.artifact \in Artifacts
    /\ \A i \in Invocations :
          client[i].phase \in {"begin", "finalize", "fail", "created"} =>
              client[i].artifact \in Artifacts

\* What holds of any number of server processes.
Shape == TypeOK /\ NamesTravel

LEMMA NextPhases ==
    ASSUME NEW p \in Ops
    PROVE  /\ AfterSuccess[p] \in ClientPhases \ {"idle"}
           /\ AfterFailure[p] \in {"fail", "gave_up"}
           /\ AfterSuccess[p] = "created" => p = "finalize"
           /\ p = "register" => AfterFailure[p] = "gave_up"
<1>1. CASE p = "register"
  BY <1>1 DEF AfterSuccess, AfterFailure, ClientPhases, Ops
<1>2. CASE p = "begin"
  BY <1>2 DEF AfterSuccess, AfterFailure, ClientPhases, Ops
<1>3. CASE p = "finalize"
  BY <1>3 DEF AfterSuccess, AfterFailure, ClientPhases, Ops
<1>4. CASE p = "fail"
  BY <1>4 DEF AfterSuccess, AfterFailure, ClientPhases, Ops
<1> QED
  BY <1>1, <1>2, <1>3, <1>4 DEF Ops

LEMMA InitShape == Init => Shape
<1> SUFFICES ASSUME Init PROVE Shape
  OBVIOUS
<1>1. TypeOK
  BY TriesAssumption, ArtifactBounds
  DEF Init, TypeOK, Status, ClientPhases, Serving, Idle
<1> QED
  BY <1>1 DEF Shape, NamesTravel, Init, Idle

\* A client that goes on names the artifact it knows.
LEMMA GoOnKeeps ==
    ASSUME Shape, NEW i \in Invocations, NEW p \in ClientPhases,
           NEW a \in Artifacts \cup {NoOne}, NEW others \in SUBSET calls,
           p \in {"begin", "finalize", "fail", "created"} => a \in Artifacts,
           GoOn(i, p, a, others)
    PROVE  /\ client' \in [Invocations -> [phase : ClientPhases, try : 0..MaxTries,
                                           artifact : Artifacts \cup {NoOne}]]
           /\ calls' \subseteq Call \cup Link
           /\ \A m \in calls' : Named(m)
           /\ \A j \in Invocations :
                 client'[j].phase \in {"begin", "finalize", "fail", "created"} =>
                     client'[j].artifact \in Artifacts
<1> DEFINE c == [phase |-> p, try |-> IF p \in Ops THEN 1 ELSE 0, artifact |-> a]
<1>1. c \in [phase : ClientPhases, try : 0..MaxTries, artifact : Artifacts \cup {NoOne}]
  BY TriesAssumption
<1>2. client' = [client EXCEPT ![i] = c]
  BY DEF GoOn
<1>3. calls' = IF p \in Ops THEN others \cup {Waiting(i, c)} ELSE others
  BY DEF GoOn
<1>4. p \in Ops => Named(Waiting(i, c))
  BY TriesAssumption DEF Waiting, Named, Call
<1>5. c.phase = p /\ c.artifact = a
  OBVIOUS
<1> HIDE DEF c
<1>6. \A m \in calls' : Named(m)
  BY <1>3, <1>4 DEF Shape, NamesTravel
<1>7. calls' \subseteq Call \cup Link
  BY <1>6 DEF Named
<1> QED
  BY <1>1, <1>2, <1>5, <1>6, <1>7 DEF Shape, NamesTravel, TypeOK

\* The variables of the tables and the servers stay, and answers only go.
LEMMA ClientsShape ==
    ASSUME Shape, NEW i \in Invocations, ClientNext(i)
    PROVE  Shape'
<1> USE DEF Shape
<1>1. CASE StartCreation(i)
  <2>1. GoOn(i, "register", NoOne, calls)
    BY <1>1 DEF StartCreation
  <2> QED
    BY <1>1, <2>1, GoOnKeeps
    DEF StartCreation, TypeOK, NamesTravel, ClientPhases, Ops, stored
<1>2. CASE Receive(i)
  <2>1. PICK m \in answers :
          /\ client[i].phase \in Ops
          /\ answers' = answers \ {m}
          /\ IF m.ok THEN GoOn(i, AfterSuccess[client[i].phase], m.artifact, calls)
                     ELSE GoOn(i, AfterFailure[client[i].phase], client[i].artifact, calls)
          /\ m.call = Waiting(i, client[i])
    BY <1>2 DEF Receive
  <2> DEFINE p == client[i].phase
  <2>2. m \in Answer
    BY DEF TypeOK
  <2>3. p = "register" => AfterFailure[p] = "gave_up"
    BY <2>1, NextPhases
  <2>4. CASE m.ok
    <3>1. GoOn(i, AfterSuccess[p], m.artifact, calls) /\ AfterSuccess[p] \in ClientPhases
      BY <2>1, <2>4, NextPhases
    <3>2. m.artifact \in Artifacts
      BY <2>4 DEF NamesTravel
    <3> QED
      BY <1>2, <2>1, <3>1, <3>2, GoOnKeeps DEF Receive, TypeOK, NamesTravel, stored
  <2>5. CASE ~m.ok
    <3>1. /\ GoOn(i, AfterFailure[p], client[i].artifact, calls)
          /\ AfterFailure[p] \in {"fail", "gave_up"}
      BY <2>1, <2>5, NextPhases
    <3>2. client[i].artifact \in Artifacts \cup {NoOne}
      BY DEF TypeOK
    <3>3. AfterFailure[p] = "fail" => client[i].artifact \in Artifacts
      BY <2>1, <2>3 DEF NamesTravel, Ops
    <3>4. AfterFailure[p] \in ClientPhases
      BY <3>1 DEF ClientPhases, Ops
    <3> QED
      BY <1>2, <2>1, <3>1, <3>2, <3>3, <3>4, GoOnKeeps
      DEF Receive, TypeOK, NamesTravel, stored
  <2> QED
    BY <2>4, <2>5
<1>3. CASE GiveUpWaiting(i)
  <2> DEFINE c == client[i]
             again == [c EXCEPT !.try = @ + 1]
  <2>1. PICK others \in {calls, calls \ {Waiting(i, c)}} :
          /\ c.phase \in Ops
          /\ \/ others = calls /\ UNCHANGED <<faults, lost>>
             \/ Fault /\ IF others = calls THEN UNCHANGED lost ELSE LoseCall
          /\ answers' = {m \in answers : m.call # Waiting(i, c)}
          /\ \/ /\ c.try < MaxTries
                /\ client' = [client EXCEPT ![i] = again]
                /\ calls' = others \cup {Waiting(i, again)}
             \/ GoOn(i, AfterFailure[c.phase], c.artifact, others)
          /\ UNCHANGED <<stored, provenance, serving, uploading, links>>
    BY <1>3 DEF GiveUpWaiting
  <2>2. faults' \in 0..MaxFaults /\ lost' \in 0..MaxLost
    BY <2>1, ArtifactBounds DEF TypeOK, Fault, LoseCall
  <2>3. c \in [phase : ClientPhases, try : 0..MaxTries, artifact : Artifacts \cup {NoOne}]
    BY DEF TypeOK
  <2>4. c.phase \in {"begin", "finalize", "fail"} => c.artifact \in Artifacts
    BY DEF NamesTravel
  <2>5. others \in SUBSET calls
    OBVIOUS
  <2>6. CASE /\ c.try < MaxTries
             /\ client' = [client EXCEPT ![i] = again]
             /\ calls' = others \cup {Waiting(i, again)}
    <3>1. /\ again \in [phase : ClientPhases, try : 0..MaxTries,
                        artifact : Artifacts \cup {NoOne}]
          /\ again.try \in 1..MaxTries /\ again.phase = c.phase
          /\ again.artifact = c.artifact
      BY <2>3, <2>6, TriesAssumption
    <3>2. Named(Waiting(i, again))
      BY <2>1, <2>3, <2>4, <3>1 DEF Waiting, Named, Call
    <3>3. client' = [client EXCEPT ![i] = again] /\ calls' = others \cup {Waiting(i, again)}
      BY <2>1, <2>6
    <3> HIDE DEF again
    <3>4. \A m \in calls' : Named(m)
      BY <2>5, <3>2, <3>3 DEF NamesTravel
    <3>5. calls' \subseteq Call \cup Link
      BY <3>4 DEF Named
    <3>6. client' \in [Invocations -> [phase : ClientPhases, try : 0..MaxTries,
                                       artifact : Artifacts \cup {NoOne}]]
      BY <3>1, <3>3 DEF TypeOK
    <3>7. \A j \in Invocations :
             client'[j].phase \in {"begin", "finalize", "fail", "created"} =>
                 client'[j].artifact \in Artifacts
      BY <2>1, <2>4, <3>1, <3>3 DEF NamesTravel, TypeOK, Ops
    <3> QED
      BY <2>1, <2>2, <3>4, <3>5, <3>6, <3>7 DEF TypeOK, NamesTravel, stored
  <2>7. CASE GoOn(i, AfterFailure[c.phase], c.artifact, others)
    <3>1. /\ GoOn(i, AfterFailure[c.phase], c.artifact, others)
          /\ AfterFailure[c.phase] \in {"fail", "gave_up"}
          /\ c.phase = "register" => AfterFailure[c.phase] = "gave_up"
      BY <2>1, <2>7, NextPhases
    <3>2. AfterFailure[c.phase] = "fail" => c.artifact \in Artifacts
      BY <2>1, <2>4, <3>1 DEF Ops
    <3>3. AfterFailure[c.phase] \in ClientPhases
      BY <3>1 DEF ClientPhases, Ops
    <3> QED
      BY <2>1, <2>2, <2>3, <2>5, <3>1, <3>2, <3>3, GoOnKeeps
      DEF TypeOK, NamesTravel, stored
  <2> QED
    BY <2>1, <2>6, <2>7
<1> QED
  BY <1>1, <1>2, <1>3 DEF ClientNext

\* A server that replies is idle, and its answer names what it is about.
LEMMA ReplyKeeps ==
    ASSUME Shape, NEW s \in Servers, NEW m \in Call \cup Link, NEW ok \in BOOLEAN,
           NEW a \in Artifacts \cup {NoOne}, Reply(s, m, ok, a),
           ok /\ m.op # "link" => a \in Artifacts
    PROVE  /\ serving' \in [Servers -> Serving]
           /\ \A t \in Servers : serving'[t].step # "idle" => Named(serving'[t].request)
           /\ \A t \in Servers :
                 serving'[t].step = "write" => serving'[t].request.op = "finalize"
           /\ answers' \subseteq Answer
           /\ \A r \in answers' : r.ok => r.artifact \in Artifacts
<1>1. Idle \in Serving /\ Idle.step = "idle"
  BY DEF Idle, Serving, Status
<1>2. serving' = [serving EXCEPT ![s] = Idle]
  BY DEF Reply
<1>3. m.op # "link" => m \in Call
  BY DEF Link
<1> QED
  BY <1>1, <1>2, <1>3 DEF Shape, TypeOK, NamesTravel, Reply

LEMMA ServersShape ==
    ASSUME Shape, NEW s \in Servers, Serve(s) \/ ServerDies(s)
    PROVE  Shape'
<1> USE DEF Shape
<1> DEFINE m == serving[s].request
<1>1. serving[s] \in Serving
  BY DEF TypeOK
<1>2. serving[s].step # "idle" => Named(m) /\ m \in Call \cup Link
  BY DEF NamesTravel, Named
<1>3. m.op \in Ops => m \notin Link
  BY DEF Link, Ops
<1>4. ASSUME NEW n \in calls, Accept(s, n) PROVE Shape'
  <2> DEFINE t == [Idle EXCEPT !.request = n, !.step = IF HasContent(n) THEN "write" ELSE "read"]
  <2>1. n \in Call \cup Link /\ Named(n)
    BY DEF TypeOK, NamesTravel
  <2>2. t \in Serving /\ t.request = n /\ (t.step = "write" => n.op = "finalize")
    BY <2>1 DEF Idle, Serving, Status, HasContent
  <2>3. serving' = [serving EXCEPT ![s] = t]
    BY <1>4 DEF Accept
  <2> HIDE DEF t
  <2> QED
    BY <1>4, <2>1, <2>2, <2>3 DEF Accept, TypeOK, NamesTravel
<1>5. CASE WriteContent(s)
  <2>1. serving[s].step = "write" /\ Named(m) /\ m \in Call \cup Link
    BY <1>2, <1>5 DEF WriteContent
  <2>2. CASE Reply(s, m, FALSE, NoOne) /\ Fault /\ UNCHANGED content
    <3>1. faults' \in 0..MaxFaults
      BY <2>2, ArtifactBounds DEF Fault, TypeOK
    <3> QED
      BY <1>5, <2>1, <2>2, <3>1, ReplyKeeps DEF WriteContent, TypeOK, NamesTravel
  <2>3. CASE /\ content' = [content EXCEPT ![m.artifact] = "whole"]
             /\ serving' = [serving EXCEPT ![s].step = "read"]
             /\ UNCHANGED <<answers, faults>>
    BY <1>1, <1>5, <2>1, <2>3 DEF WriteContent, TypeOK, NamesTravel, Serving
  <2> QED
    BY <1>5, <2>2, <2>3 DEF WriteContent
<1>6. CASE Read(s)
  <2> DEFINE about == m.op \in {"begin", "finalize", "fail"}
             t == [serving[s] EXCEPT
                     !.step = "commit",
                     !.seen = IF about THEN row[m.artifact] ELSE serving[s].seen,
                     !.graph = IF m.op = "link" THEN edges ELSE serving[s].graph]
  <2>1. serving[s].step = "read" /\ Named(m)
    BY <1>2, <1>6 DEF Read
  <2>2. about => row[m.artifact] \in Status
    BY <2>1 DEF Named, TypeOK
  <2>3. t \in Serving /\ t.request = m /\ t.step = "commit"
    BY <1>1, <2>2 DEF Serving, TypeOK
  <2>4. serving' = [serving EXCEPT ![s] = t]
    BY <1>6 DEF Read
  <2> HIDE DEF t
  <2> QED
    BY <1>6, <2>1, <2>3, <2>4 DEF Read, TypeOK, NamesTravel, stored
<1>7. CASE CommitRegister(s)
  <2>1. serving[s].step = "commit" /\ m.op = "register" /\ m \in Call
    BY <1>2, <1>3, <1>7 DEF CommitRegister, Ops
  <2>2. m.by \in Invocations
    BY <2>1 DEF Call
  <2>3. CASE Reply(s, m, FALSE, NoOne) /\ UNCHANGED <<row, owner, events>>
    BY <1>7, <2>1, <2>3, ReplyKeeps DEF CommitRegister, TypeOK, NamesTravel
  <2>4. ASSUME NEW a \in Artifacts,
               row' = [row EXCEPT ![a] = "pending"],
               owner' = [owner EXCEPT ![a] = m.by],
               events' = [events EXCEPT ![a] = {"pending"}],
               Reply(s, m, TRUE, a)
        PROVE  Shape'
    BY <1>7, <2>1, <2>2, <2>4, ReplyKeeps DEF CommitRegister, TypeOK, NamesTravel, Status
  <2> QED
    BY <1>7, <2>3, <2>4 DEF CommitRegister
<1>8. CASE CommitTransition(s)
  <2>1. /\ serving[s].step = "commit" /\ m.op \in {"begin", "finalize", "fail"}
        /\ m \in Call /\ m.artifact \in Artifacts
    BY <1>2, <1>3, <1>8 DEF CommitTransition, Ops, Named
  <2>2. Target(m.op) \in Status
    BY DEF Target, Status
  <2>3. CASE Reply(s, m, FALSE, NoOne) /\ UNCHANGED <<row, hasRef, events>>
    BY <1>8, <2>1, <2>3, ReplyKeeps DEF CommitTransition, TypeOK, NamesTravel
  <2>4. CASE /\ row' = [row EXCEPT ![m.artifact] = Target(m.op)]
             /\ hasRef' \subseteq hasRef \cup {m.artifact}
             /\ events' = [events EXCEPT ![m.artifact] = @ \cup {Target(m.op)}]
             /\ Reply(s, m, TRUE, m.artifact)
    <3>1. events' \in [Artifacts -> SUBSET Status]
      BY <2>1, <2>2, <2>4 DEF TypeOK
    <3> QED
      BY <1>8, <2>1, <2>2, <2>4, <3>1, ReplyKeeps DEF CommitTransition, TypeOK, NamesTravel
  <2> QED
    BY <1>8, <2>3, <2>4 DEF CommitTransition
<1>9. CASE CommitLink(s)
  <2>1. serving[s].step = "commit" /\ m.op = "link" /\ m \in Call \cup Link
    BY <1>2, <1>9 DEF CommitLink
  <2>2. m \in Link
    BY <2>1 DEF Call, Ops
  <2>3. edges' \in SUBSET (Artifacts \X Artifacts)
    BY <1>9, <2>2 DEF CommitLink, Link, TypeOK
  <2> QED
    BY <1>9, <2>1, <2>3, ReplyKeeps DEF CommitLink, TypeOK, NamesTravel
<1>10. CASE ServerDies(s)
  <2>1. faults' \in 0..MaxFaults /\ lost' \in 0..MaxLost
    BY <1>10, ArtifactBounds DEF ServerDies, Fault, LoseCall, TypeOK
  <2>2. Idle \in Serving /\ Idle.step = "idle"
    BY DEF Idle, Serving, Status
  <2> QED
    BY <1>10, <2>1, <2>2 DEF ServerDies, TypeOK, NamesTravel, stored
<1> QED
  BY <1>4, <1>5, <1>6, <1>7, <1>8, <1>9, <1>10 DEF Serve, Accept

LEMMA OthersShape ==
    ASSUME Shape,
           \/ \E child, parent \in Artifacts : AskLink(child, parent)
           \/ \E a \in Artifacts : UploadContent(a) \/ UploadCommit(a) \/ UploadDies(a)
    PROVE  Shape'
<1> USE DEF Shape
<1>1. ASSUME NEW child \in Artifacts, NEW parent \in Artifacts, AskLink(child, parent)
      PROVE  Shape'
  <2> DEFINE m == [op |-> "link", child |-> child, parent |-> parent]
  <2>1. Named(m)
    BY DEF Named, Link
  <2>2. calls' = calls \cup {m} /\ m \in Call \cup Link
    BY <1>1, <2>1 DEF AskLink, Named
  <2>3. links' \in 0..MaxLinks
    BY <1>1, ArtifactBounds DEF AskLink, TypeOK
  <2> HIDE DEF m
  <2> QED
    BY <1>1, <2>1, <2>2, <2>3 DEF AskLink, TypeOK, NamesTravel, stored
<1>2. ASSUME NEW a \in Artifacts, UploadContent(a)
      PROVE  Shape'
  BY <1>2 DEF UploadContent, TypeOK, NamesTravel
<1>3. ASSUME NEW a \in Artifacts, UploadCommit(a)
      PROVE  Shape'
  BY <1>3 DEF UploadCommit, TypeOK, NamesTravel, Status
<1>4. ASSUME NEW a \in Artifacts, UploadDies(a)
      PROVE  Shape'
  <2>1. faults' \in 0..MaxFaults
    BY <1>4, ArtifactBounds DEF UploadDies, Fault, TypeOK
  <2> QED
    BY <1>4, <2>1 DEF UploadDies, TypeOK, NamesTravel, stored
<1> QED
  BY <1>1, <1>2, <1>3, <1>4

LEMMA NextShape == Shape /\ [Next]_vars => Shape'
<1>1. ASSUME Shape, Next PROVE Shape'
  BY <1>1, ClientsShape, ServersShape, OthersShape DEF Next
<1>2. ASSUME Shape, UNCHANGED vars PROVE Shape'
  BY <1>2 DEF vars, Shape, TypeOK, NamesTravel
<1> QED
  BY <1>1, <1>2

\* Every variable keeps its type, and a request that needs an artifact names
\* one, for any number of servers, invocations, artifacts and faults.
THEOREM TypeCorrect == Spec => []TypeOK
<1>1. Shape => TypeOK
  BY DEF Shape
<1> QED
  BY <1>1, InitShape, NextShape, PTL DEF Spec

\* The index is enough: however often a registration is repeated, and in
\* however many processes, an invocation has one artifact.
THEOREM OneArtifactCorrect == Spec => []OneArtifactPerInvocation
<1>1. Init => OneArtifactPerInvocation
  BY DEF Init, OneArtifactPerInvocation
<1>2. Shape /\ OneArtifactPerInvocation /\ [Next]_vars => OneArtifactPerInvocation'
  <2> SUFFICES ASSUME Shape, OneArtifactPerInvocation, [Next]_vars
               PROVE  OneArtifactPerInvocation'
    OBVIOUS
  <2>1. CASE UNCHANGED owner
    BY <2>1 DEF OneArtifactPerInvocation
  <2>2. ASSUME NEW s \in Servers, CommitRegister(s)
        PROVE  OneArtifactPerInvocation'
    <3>1. CASE UNCHANGED owner
      BY <3>1 DEF OneArtifactPerInvocation
    <3>2. CASE FreeOwner(serving[s].request.by)
               /\ \E a \in Artifacts : owner' = [owner EXCEPT ![a] = serving[s].request.by]
      BY <3>2 DEF FreeOwner, OneArtifactPerInvocation, Shape, TypeOK
    <3> QED
      BY <2>2, <3>1, <3>2 DEF CommitRegister
  <2>3. UNCHANGED owner \/ \E s \in Servers : CommitRegister(s)
    BY DEF Next, vars, ClientNext, StartCreation, Receive, GiveUpWaiting, AskLink, Serve,
           Accept, WriteContent, Read, CommitTransition, CommitLink, ServerDies,
           UploadContent, UploadCommit, UploadDies, stored
  <2> QED
    BY <2>1, <2>2, <2>3
<1> QED
  BY <1>1, <1>2, InitShape, NextShape, PTL DEF Spec

-----------------------------------------------------------------------------
(* Whose artifact an invocation knows *)

\* A request about an artifact comes from the invocation it belongs to.
Mine(m) == m \in Call /\ m.artifact # NoOne => owner[m.artifact] = m.by

\* An invocation learns only of its own artifact.
KnowsItsOwn == \A i \in Invocations :
    client[i].artifact # NoOne => owner[client[i].artifact] = i

OwnInv ==
    /\ Shape
    /\ \A a \in Artifacts : row[a] = "none" => owner[a] = NoOne
    /\ KnowsItsOwn
    /\ \A m \in calls : Mine(m)
    /\ \A s \in Servers : serving[s].step # "idle" => Mine(serving[s].request)
    /\ \A m \in answers : m.ok => owner[m.artifact] = m.call.by

LEMMA InitOwn == Init => OwnInv
BY InitShape DEF Init, OwnInv, KnowsItsOwn, Idle

\* Whatever a client does, what it knows is what it knew or was answered.
LEMMA ClientsOwn ==
    ASSUME OwnInv, NEW i \in Invocations, ClientNext(i)
    PROVE  OwnInv'
<1> USE DEF OwnInv
<1>0. Shape' /\ TypeOK
  BY ClientsShape DEF Shape
<1>1. UNCHANGED <<row, owner, serving>> /\ answers' \subseteq answers
  BY DEF ClientNext, StartCreation, Receive, GiveUpWaiting, stored
<1>2. ASSUME NEW c, client' = [client EXCEPT ![i] = c],
             c.artifact # NoOne => owner[c.artifact] = i,
             calls' \subseteq calls \cup {Waiting(i, c)}
      PROVE  OwnInv'
  <2>1. client'[i] = c /\ \A j \in Invocations \ {i} : client'[j] = client[j]
    BY <1>0, <1>2 DEF TypeOK
  <2>2. Mine(Waiting(i, c))
    BY <1>2 DEF Mine, Waiting
  <2> QED
    BY <1>0, <1>1, <1>2, <2>1, <2>2 DEF KnowsItsOwn, Mine
<1>3. ASSUME NEW p, NEW a, NEW others \in SUBSET calls, GoOn(i, p, a, others),
             a # NoOne => owner[a] = i
      PROVE  OwnInv'
  <2> DEFINE c == [phase |-> p, try |-> IF p \in Ops THEN 1 ELSE 0, artifact |-> a]
  <2>1. c.artifact = a /\ client' = [client EXCEPT ![i] = c]
        /\ calls' \subseteq calls \cup {Waiting(i, c)}
    BY <1>3 DEF GoOn
  <2> HIDE DEF c
  <2> QED
    BY <1>2, <1>3, <2>1
<1>4. client[i].artifact # NoOne => owner[client[i].artifact] = i
  BY DEF KnowsItsOwn
<1>5. CASE StartCreation(i)
  BY <1>3, <1>5 DEF StartCreation
<1>6. CASE Receive(i)
  <2>1. PICK m \in answers :
          /\ m.call = Waiting(i, client[i])
          /\ IF m.ok THEN GoOn(i, AfterSuccess[client[i].phase], m.artifact, calls)
                     ELSE GoOn(i, AfterFailure[client[i].phase], client[i].artifact, calls)
    BY <1>6 DEF Receive
  <2>2. m.ok => owner[m.artifact] = i
    BY <2>1 DEF Waiting
  <2> QED
    BY <1>3, <1>4, <2>1, <2>2
<1>7. CASE GiveUpWaiting(i)
  <2> DEFINE c == client[i]
             again == [c EXCEPT !.try = @ + 1]
  <2>1. PICK others \in SUBSET calls :
          \/ /\ client' = [client EXCEPT ![i] = again]
             /\ calls' = others \cup {Waiting(i, again)}
          \/ GoOn(i, AfterFailure[c.phase], c.artifact, others)
    BY <1>7 DEF GiveUpWaiting
  <2>2. again.artifact = c.artifact
    BY <1>0 DEF TypeOK
  <2> HIDE DEF again
  <2>3. CASE /\ client' = [client EXCEPT ![i] = again]
             /\ calls' = others \cup {Waiting(i, again)}
    <3>1. again.artifact # NoOne => owner[again.artifact] = i
      BY <1>4, <2>2
    <3> QED
      BY <1>2, <2>3, <3>1
  <2> QED
    BY <1>3, <1>4, <2>1, <2>3
<1> QED
  BY <1>5, <1>6, <1>7 DEF ClientNext

\* An owner is given once, and an answer names what the caller owns.
LEMMA ServersOwn ==
    ASSUME OwnInv, NEW s \in Servers, Serve(s) \/ ServerDies(s)
    PROVE  OwnInv'
<1> USE DEF OwnInv
<1> DEFINE m == serving[s].request
<1>0. Shape' /\ TypeOK
  BY ServersShape DEF Shape
<1>1. UNCHANGED client /\ calls' \subseteq calls
  BY DEF Serve, Accept, WriteContent, Read, CommitRegister, CommitTransition, CommitLink,
         ServerDies
<1>2. serving[s].step # "idle" => Mine(m) /\ Named(m) /\ m \in Call \cup Link
  BY DEF Shape, NamesTravel, Named
<1>3. m.op \in Ops => m \notin Link
  BY DEF Link, Ops
\* Steps that give no owner.
<1>4. ASSUME UNCHANGED owner, \A a \in Artifacts : row'[a] = "none" => row[a] = "none",
             \A t \in Servers \ {s} : serving'[t] = serving[t],
             serving'[s].step # "idle" => Mine(serving'[s].request),
             \A r \in answers' : r \in answers \/ (r.ok => owner[r.artifact] = r.call.by)
      PROVE  OwnInv'
  BY <1>0, <1>1, <1>4 DEF KnowsItsOwn, Mine
<1>5. ASSUME NEW ok \in BOOLEAN, NEW a, Reply(s, m, ok, a)
      PROVE  /\ serving'[s].step = "idle"
             /\ \A t \in Servers \ {s} : serving'[t] = serving[t]
             /\ \A r \in answers' : r \in answers \/ (r.call = m /\ r.ok = ok /\ r.artifact = a)
  BY <1>0, <1>5 DEF Reply, TypeOK, Idle
<1>6. ASSUME NEW n \in calls, Accept(s, n) PROVE OwnInv'
  <2>1. serving'[s].request = n /\ \A t \in Servers \ {s} : serving'[t] = serving[t]
    BY <1>0, <1>6 DEF Accept, TypeOK, Idle
  <2> QED
    BY <1>4, <1>6, <2>1 DEF Accept
<1>7. CASE WriteContent(s)
  <2>1. CASE Reply(s, m, FALSE, NoOne)
    <3>1. /\ serving'[s].step = "idle"
          /\ \A t \in Servers \ {s} : serving'[t] = serving[t]
          /\ \A r \in answers' : r \in answers \/ r.ok = FALSE
      BY <1>5, <2>1
    <3> QED
      BY <1>4, <1>7, <3>1 DEF WriteContent
  <2>2. CASE serving' = [serving EXCEPT ![s].step = "read"] /\ UNCHANGED answers
    <3>1. /\ serving'[s].request = m /\ serving[s].step = "write"
          /\ \A t \in Servers \ {s} : serving'[t] = serving[t]
      BY <1>0, <1>7, <2>2 DEF WriteContent, TypeOK, Serving
    <3> QED
      BY <1>2, <1>4, <1>7, <2>2, <3>1 DEF WriteContent
  <2> QED
    BY <1>7, <2>1, <2>2 DEF WriteContent
<1>8. CASE Read(s)
  <2> DEFINE t == [serving[s] EXCEPT
                     !.step = "commit",
                     !.seen = IF m.op \in {"begin", "finalize", "fail"} THEN row[m.artifact]
                                                                        ELSE serving[s].seen,
                     !.graph = IF m.op = "link" THEN edges ELSE serving[s].graph]
  <2>1. serving[s] \in Serving /\ serving[s].step = "read"
    BY <1>0, <1>8 DEF TypeOK, Read
  <2>2. t.request = m
    BY <2>1 DEF Serving
  <2>3. serving' = [serving EXCEPT ![s] = t]
    BY <1>8 DEF Read
  <2> HIDE DEF t
  <2>4. serving'[s].request = m /\ \A u \in Servers \ {s} : serving'[u] = serving[u]
    BY <1>0, <2>2, <2>3 DEF TypeOK
  <2> QED
    BY <1>2, <1>4, <1>8, <2>1, <2>4 DEF Read, stored
<1>9. CASE CommitRegister(s)
  <2>1. serving[s].step = "commit" /\ m.op = "register" /\ m \in Call
    BY <1>2, <1>3, <1>9 DEF CommitRegister, Ops
  <2>2. CASE Reply(s, m, FALSE, NoOne) /\ UNCHANGED <<row, owner>>
    <3>1. /\ serving'[s].step = "idle"
          /\ \A t \in Servers \ {s} : serving'[t] = serving[t]
          /\ \A r \in answers' : r \in answers \/ r.ok = FALSE
      BY <1>5, <2>2
    <3> QED
      BY <1>4, <2>2, <3>1
  <2>3. ASSUME NEW a \in Artifacts, row[a] = "none", row' = [row EXCEPT ![a] = "pending"],
               owner' = [owner EXCEPT ![a] = m.by], Reply(s, m, TRUE, a)
        PROVE  OwnInv'
    <3>1. /\ owner'[a] = m.by /\ row'[a] = "pending" /\ m.by \in Invocations
          /\ \A b \in Artifacts \ {a} : owner'[b] = owner[b] /\ row'[b] = row[b]
      BY <1>0, <2>1, <2>3 DEF TypeOK, Call
    <3>2. owner[a] = NoOne
      BY <2>3
    <3>3. KnowsItsOwn'
      BY <1>0, <1>1, <3>1, <3>2, NoOneAssumption DEF KnowsItsOwn, TypeOK
    <3>4. \A r \in Call : r.artifact # NoOne /\ owner[r.artifact] = r.by =>
                              owner'[r.artifact] = r.by
      BY <3>1, <3>2, NoOneAssumption DEF Call
    <3>6. \A r \in answers' : r.ok => owner'[r.artifact] = r.call.by
      <4> SUFFICES ASSUME NEW r \in answers', r.ok PROVE owner'[r.artifact] = r.call.by
        OBVIOUS
      <4>1. CASE r \in answers
        <5>1. r.artifact \in Artifacts /\ r.call.by \in Invocations
          BY <1>0, <4>1 DEF Shape, NamesTravel, TypeOK, Call
        <5> QED
          BY <3>1, <3>2, <4>1, <5>1, NoOneAssumption
      <4>2. CASE r.call = m /\ r.artifact = a
        BY <3>1, <4>2
      <4> QED
        BY <1>5, <2>3, <4>1, <4>2
    <3>7. (\A t \in Servers : serving[t].step # "idle" => Mine(serving[t].request))'
      <4>1. /\ serving'[s].step = "idle"
            /\ \A t \in Servers \ {s} : serving'[t] = serving[t]
        BY <1>5, <2>3
      <4> QED
        BY <3>4, <4>1 DEF Mine
    <3>8. (\A r \in calls : Mine(r))'
      BY <1>1, <3>4 DEF Mine
    <3>9. \A b \in Artifacts : row'[b] = "none" => owner'[b] = NoOne
      BY <3>1
    <3> QED
      BY <1>0, <3>3, <3>6, <3>7, <3>8, <3>9
  <2> QED
    BY <1>9, <2>2, <2>3 DEF CommitRegister
<1>10. CASE CommitTransition(s)
  <2>1. /\ serving[s].step = "commit" /\ m.op \in {"begin", "finalize", "fail"}
        /\ m \in Call /\ m.artifact \in Artifacts
    BY <1>2, <1>3, <1>10 DEF CommitTransition, Ops, Named
  <2>2. owner[m.artifact] = m.by
    BY <1>2, <2>1, NoOneAssumption DEF Mine
  <2>3. UNCHANGED owner /\ \E ok \in BOOLEAN, a \in {m.artifact, NoOne} :
                              Reply(s, m, ok, a) /\ (ok => a = m.artifact)
    BY <1>10 DEF CommitTransition
  <2>4. \A a \in Artifacts : row'[a] = "none" => row[a] = "none"
    BY <1>0, <1>10 DEF CommitTransition, Target, TypeOK
  <2> QED
    BY <1>4, <1>5, <2>2, <2>3, <2>4
<1>11. CASE CommitLink(s)
  <2>1. m.op = "link" /\ Reply(s, m, TRUE, NoOne) /\ UNCHANGED <<row, owner>>
    BY <1>11 DEF CommitLink
  <2>2. answers' = answers
    BY <2>1 DEF Reply
  <2>3. serving'[s].step = "idle" /\ \A t \in Servers \ {s} : serving'[t] = serving[t]
    BY <1>5, <2>1
  <2> QED
    BY <1>4, <2>1, <2>2, <2>3
<1>12. CASE ServerDies(s)
  <2>1. serving'[s] = Idle /\ \A t \in Servers \ {s} : serving'[t] = serving[t]
    BY <1>0, <1>12 DEF ServerDies, TypeOK
  <2> QED
    BY <1>4, <1>12, <2>1 DEF ServerDies, stored, Idle
<1> QED
  BY <1>6, <1>7, <1>8, <1>9, <1>10, <1>11, <1>12 DEF Serve

LEMMA NextOwn == OwnInv /\ [Next]_vars => OwnInv'
<1> SUFFICES ASSUME OwnInv, [Next]_vars PROVE OwnInv'
  OBVIOUS
<1> USE DEF OwnInv
<1>0. Shape' /\ TypeOK
  BY NextShape DEF Shape
<1>1. ASSUME NEW child \in Artifacts, NEW parent \in Artifacts, AskLink(child, parent)
      PROVE  OwnInv'
  <2>1. Mine([op |-> "link", child |-> child, parent |-> parent])
    BY DEF Mine, Call, Ops
  <2> QED
    BY <1>0, <1>1, <2>1 DEF AskLink, KnowsItsOwn, Mine, stored
<1>2. ASSUME NEW a \in Artifacts, UploadContent(a) \/ UploadCommit(a) \/ UploadDies(a)
      PROVE  OwnInv'
  <2>1. /\ UNCHANGED <<owner, client, calls, serving, answers>>
        /\ \A b \in Artifacts : row'[b] = "none" => row[b] = "none"
    BY <1>0, <1>2 DEF UploadContent, UploadCommit, UploadDies, stored, TypeOK
  <2> QED
    BY <1>0, <2>1 DEF KnowsItsOwn, Mine
<1>3. CASE UNCHANGED vars
  BY <1>0, <1>3 DEF vars, KnowsItsOwn, Mine
<1> QED
  BY <1>1, <1>2, <1>3, ClientsOwn, ServersOwn DEF Next

\* For any number of processes: however calls are repeated, handled late and
\* out of order, an invocation is told of no artifact but its own, and so
\* writes, finalizes, fails and reports no other.
THEOREM KnowsItsOwnCorrect == Spec => []KnowsItsOwn
<1>1. OwnInv => KnowsItsOwn
  BY DEF OwnInv
<1> QED
  BY <1>1, InitOwn, NextOwn, PTL DEF Spec

-----------------------------------------------------------------------------
(* One server process *)

\* What the rest needs: reads take no lock, and only the handler keeps two
\* transactions of one process apart.
OneServer == \A s, t \in Servers : s = t

\* Rows, files and uploads of an artifact agree.
RowOK(a) ==
    /\ a \in uploading => row[a] = "none" /\ content[a] = "whole"
    /\ a \in hasRef => row[a] # "none"
    /\ row[a] = "writing" => a \in hasRef

\* What was read is still so, and a file is whole before its artifact is ready.
ServingOK(s) ==
    LET r == serving[s]
        m == r.request
    IN  /\ r.step = "commit" /\ m.op \in {"begin", "finalize", "fail"} /\ r.seen # "none" =>
               r.seen = row[m.artifact]
        /\ r.step \in {"read", "commit"} /\ m.op = "finalize" /\ row[m.artifact] = "writing" =>
               content[m.artifact] = "whole"

\* A finalize that succeeds is answered of a ready artifact.
AnswersTrue ==
    \A m \in answers : m.ok /\ m.call.op = "finalize" => row[m.artifact] = "ready"

\* The inductive invariant.
Story ==
    /\ Shape
    /\ \A a \in Artifacts : RowOK(a)
    /\ \A s \in Servers : ServingOK(s)
    /\ AnswersTrue
    /\ EndIsAnnounced
    /\ ReportedArtifactIsReady

ReadyStays == \A a \in Artifacts : row[a] = "ready" => row'[a] = "ready"

LEMMA InitStory == Init => Story
<1> SUFFICES ASSUME Init PROVE Story
  OBVIOUS
<1>1. EndIsAnnounced
  BY DEF Init, EndIsAnnounced, Terminal
<1> QED
  BY <1>1, InitShape
  DEF Init, Story, RowOK, ServingOK, AnswersTrue, ReportedArtifactIsReady, Idle

\* Answers and clients, when answers only go and ready artifacts stay ready.
LEMMA ToldStaysTrue ==
    ASSUME Story, ReadyStays, answers' \subseteq answers, UNCHANGED client
    PROVE  AnswersTrue' /\ ReportedArtifactIsReady'
<1>1. \A m \in answers : m.ok => m.artifact \in Artifacts
  BY DEF Story, Shape, NamesTravel
<1>2. \A i \in Invocations : client[i].phase = "created" => client[i].artifact \in Artifacts
  BY DEF Story, Shape, NamesTravel
<1> QED
  BY <1>1, <1>2 DEF Story, ReadyStays, AnswersTrue, ReportedArtifactIsReady

LEMMA ClientsStory ==
    ASSUME Story, NEW i \in Invocations, ClientNext(i)
    PROVE  Story'
<1>1. Shape'
  BY ClientsShape DEF Story
<1>2. UNCHANGED <<stored, serving, uploading>>
  BY DEF ClientNext, StartCreation, Receive, GiveUpWaiting, stored
<1>3. answers' \subseteq answers
  BY DEF ClientNext, StartCreation, Receive, GiveUpWaiting
<1>4. \A j \in Invocations : j # i => client'[j] = client[j]
  BY DEF ClientNext, StartCreation, Receive, GiveUpWaiting, GoOn, Story, Shape, TypeOK
<1>5. client'[i].phase = "created" => row[client'[i].artifact] = "ready"
  <2>1. CASE StartCreation(i)
    BY <2>1 DEF StartCreation, GoOn, Story, Shape, TypeOK
  <2>2. CASE Receive(i)
    <3>1. PICK m \in answers :
            /\ client[i].phase \in Ops
            /\ m.call = Waiting(i, client[i])
            /\ IF m.ok THEN GoOn(i, AfterSuccess[client[i].phase], m.artifact, calls)
                       ELSE GoOn(i, AfterFailure[client[i].phase], client[i].artifact, calls)
      BY <2>2 DEF Receive
    <3>2. m.call.op = client[i].phase
      BY <3>1 DEF Waiting
    <3>3. CASE m.ok
      <4>1. client'[i].phase = AfterSuccess[client[i].phase] /\ client'[i].artifact = m.artifact
        BY <3>1, <3>3 DEF GoOn, Story, Shape, TypeOK
      <4> QED
        BY <3>1, <3>2, <3>3, <4>1, NextPhases DEF Story, AnswersTrue
    <3>4. CASE ~m.ok
      <4>1. client'[i].phase = AfterFailure[client[i].phase]
        BY <3>1, <3>4 DEF GoOn, Story, Shape, TypeOK
      <4> QED
        BY <3>1, <4>1, NextPhases
    <3> QED
      BY <3>3, <3>4
  <2>3. CASE GiveUpWaiting(i)
    <3> DEFINE c == client[i]
               again == [c EXCEPT !.try = @ + 1]
    <3>1. /\ c.phase \in Ops
          /\ \/ client' = [client EXCEPT ![i] = again]
             \/ \E others : GoOn(i, AfterFailure[c.phase], c.artifact, others)
      BY <2>3 DEF GiveUpWaiting
    <3>2. CASE client' = [client EXCEPT ![i] = again]
      <4>1. again.phase = c.phase
        BY DEF Story, Shape, TypeOK
      <4> HIDE DEF again
      <4>2. client'[i].phase = c.phase
        BY <3>2, <4>1 DEF Story, Shape, TypeOK
      <4> QED
        BY <3>1, <4>2 DEF Ops
    <3>3. CASE \E others : GoOn(i, AfterFailure[c.phase], c.artifact, others)
      <4>1. client'[i].phase = AfterFailure[c.phase]
        BY <3>3 DEF GoOn, Story, Shape, TypeOK
      <4> QED
        BY <3>1, <4>1, NextPhases
    <3> QED
      BY <3>1, <3>2, <3>3
  <2> QED
    BY <2>1, <2>2, <2>3 DEF ClientNext
<1>6. AnswersTrue'
  BY <1>2, <1>3 DEF Story, AnswersTrue, stored
<1>7. ReportedArtifactIsReady'
  BY <1>2, <1>4, <1>5 DEF Story, ReportedArtifactIsReady, stored
<1> QED
  BY <1>1, <1>2, <1>6, <1>7 DEF Story, RowOK, ServingOK, EndIsAnnounced, stored

LEMMA ServersStory ==
    ASSUME OneServer, Story, NEW s \in Servers, Serve(s) \/ ServerDies(s)
    PROVE  Story' /\ ReadyStays
           /\ \A a \in Artifacts :
                 row'[a] = "ready" /\ row[a] # "ready" => content[a] = "whole"
<1> DEFINE m == serving[s].request
           Conclusion ==
               /\ Story' /\ ReadyStays
               /\ \A a \in Artifacts :
                     row'[a] = "ready" /\ row[a] # "ready" => content[a] = "whole"
<1> USE DEF Story
<1>0. Shape /\ Shape' /\ TypeOK
  BY ServersShape DEF Shape
<1>1. \A t \in Servers : t = s
  BY DEF OneServer
<1>2. serving[s].step # "idle" => Named(m) /\ m \in Call \cup Link
  BY DEF Shape, NamesTravel, Named
<1>3. m.op \in Ops => m \notin Link
  BY DEF Link, Ops
\* Steps that leave the rows alone.
<1>4. ASSUME UNCHANGED <<row, hasRef, events, uploading, client>>, answers' \subseteq answers,
             \A a \in Artifacts : RowOK(a)', ServingOK(s)'
      PROVE  Conclusion
  <2>1. ReadyStays
    BY <1>4 DEF ReadyStays
  <2> QED
    BY <1>0, <1>1, <1>4, <2>1, ToldStaysTrue DEF EndIsAnnounced
<1>5. ASSUME NEW n \in calls, Accept(s, n) PROVE Conclusion
  <2>1. Named(n)
    BY DEF Shape, NamesTravel
  <2>2. \A a \in Artifacts : content'[a] = content[a] \/ a \in hasRef
    BY <1>0, <1>5, <2>1 DEF Accept, HasContent, TypeOK, Named
  <2>3. \A a \in Artifacts : RowOK(a)'
    BY <1>5, <2>2 DEF RowOK, Accept
  <2>4. /\ serving'[s].request = n
        /\ serving'[s].step = IF HasContent(n) THEN "write" ELSE "read"
    BY <1>0, <1>5 DEF Accept, TypeOK, Idle
  <2>5. ServingOK(s)'
    <3>1. n.op = "finalize" /\ ~HasContent(n) => row[n.artifact] # "writing"
      BY <2>1 DEF HasContent, Named, RowOK
    <3> QED
      BY <1>5, <2>4, <3>1 DEF ServingOK, Accept
  <2> QED
    BY <1>4, <1>5, <2>3, <2>5 DEF Accept
<1>6. CASE WriteContent(s)
  <2>1. serving[s].step = "write" /\ Named(m) /\ m \in Call \cup Link /\ m.op = "finalize"
    BY <1>2, <1>6 DEF WriteContent, Shape, NamesTravel
  <2>2. m.artifact \in Artifacts
    BY <2>1 DEF Named
  <2>3. CASE Reply(s, m, FALSE, NoOne) /\ UNCHANGED content
    <3>1. AnswersTrue'
      BY <1>6, <2>3 DEF WriteContent, Reply, AnswersTrue
    <3>2. serving'[s] = Idle
      BY <1>0, <2>3 DEF Reply, TypeOK
    <3>3. ServingOK(s)'
      BY <3>2 DEF ServingOK, Idle
    <3> QED
      BY <1>0, <1>1, <1>6, <2>3, <3>1, <3>3
      DEF WriteContent, RowOK, EndIsAnnounced, ReportedArtifactIsReady, ReadyStays
  <2>4. CASE /\ content' = [content EXCEPT ![m.artifact] = "whole"]
             /\ serving' = [serving EXCEPT ![s].step = "read"]
             /\ UNCHANGED answers
    <3>1. content'[m.artifact] = "whole" /\ \A a \in Artifacts : content'[a] \in {content[a], "whole"}
      BY <1>0, <2>2, <2>4 DEF TypeOK
    <3>2. serving'[s].request = m /\ serving'[s].step = "read"
      BY <1>0, <2>4 DEF TypeOK, Serving
    <3>3. ServingOK(s)'
      BY <3>1, <3>2 DEF ServingOK
    <3>4. \A a \in Artifacts : RowOK(a)'
      BY <1>6, <3>1 DEF RowOK, WriteContent
    <3> QED
      BY <1>4, <1>6, <2>4, <3>3, <3>4 DEF WriteContent
  <2> QED
    BY <1>6, <2>3, <2>4 DEF WriteContent
<1>7. CASE Read(s)
  <2> DEFINE about == m.op \in {"begin", "finalize", "fail"}
             t == [serving[s] EXCEPT
                     !.step = "commit",
                     !.seen = IF about THEN row[m.artifact] ELSE serving[s].seen,
                     !.graph = IF m.op = "link" THEN edges ELSE serving[s].graph]
  <2>1. serving[s] \in Serving /\ serving[s].step = "read"
    BY <1>0, <1>7 DEF TypeOK, Read
  <2>2. t.request = m /\ t.step = "commit" /\ (about => t.seen = row[m.artifact])
    BY <2>1 DEF Serving
  <2>3. serving' = [serving EXCEPT ![s] = t]
    BY <1>7 DEF Read
  <2> HIDE DEF t
  <2>4. serving'[s] = t
    BY <1>0, <2>3 DEF TypeOK
  <2>5. ServingOK(s)'
    BY <1>7, <2>1, <2>2, <2>4 DEF ServingOK, Read, stored
  <2> QED
    BY <1>4, <1>7, <2>5 DEF Read, RowOK, stored
<1>8. CASE CommitRegister(s)
  <2>1. serving[s].step = "commit" /\ m.op = "register" /\ m \in Call
    BY <1>2, <1>3, <1>8 DEF CommitRegister, Ops
  <2>2. serving'[s] = Idle
    BY <1>0, <1>8 DEF CommitRegister, Reply, TypeOK
  <2>3. ServingOK(s)'
    BY <2>2 DEF ServingOK, Idle
  <2>4. \A r \in answers' : r \in answers \/ r.call.op = "register"
    BY <1>8, <2>1 DEF CommitRegister, Reply
  <2>5. CASE UNCHANGED <<row, events>>
    <3>1. ReadyStays
      BY <2>5 DEF ReadyStays
    <3> QED
      BY <1>0, <1>1, <1>8, <2>3, <2>4, <2>5, <3>1
      DEF CommitRegister, RowOK, AnswersTrue, EndIsAnnounced, ReportedArtifactIsReady
  <2>6. ASSUME NEW a \in Artifacts,
               row[a] = "none" /\ a \notin uploading,
               row' = [row EXCEPT ![a] = "pending"],
               events' = [events EXCEPT ![a] = {"pending"}]
        PROVE  Conclusion
    <3>1. /\ row'[a] = "pending" /\ events'[a] = {"pending"}
          /\ \A b \in Artifacts \ {a} : row'[b] = row[b] /\ events'[b] = events[b]
      BY <1>0, <2>6 DEF TypeOK
    <3>2. ReadyStays
      BY <2>6, <3>1 DEF ReadyStays
    <3>3. \A b \in Artifacts : RowOK(b)'
      BY <1>8, <2>6, <3>1 DEF RowOK, CommitRegister
    <3>4. EndIsAnnounced'
      BY <3>1 DEF EndIsAnnounced, Terminal
    <3>5. AnswersTrue'
      BY <1>0, <2>4, <3>2 DEF AnswersTrue, ReadyStays, Shape, NamesTravel
    <3>6. ReportedArtifactIsReady'
      BY <1>0, <1>8, <3>2
      DEF ReportedArtifactIsReady, ReadyStays, CommitRegister, Shape, NamesTravel
    <3> QED
      BY <1>0, <1>1, <2>3, <2>6, <3>1, <3>2, <3>3, <3>4, <3>5, <3>6
  <2> QED
    BY <1>8, <2>5, <2>6 DEF CommitRegister
<1>9. CASE CommitTransition(s)
  <2> DEFINE a == m.artifact
             seen == serving[s].seen
  <2>1. /\ serving[s].step = "commit" /\ m.op \in {"begin", "finalize", "fail"}
        /\ m \in Call /\ a \in Artifacts
    BY <1>2, <1>3, <1>9 DEF CommitTransition, Ops, Named
  <2>2. serving'[s] = Idle
    BY <1>0, <1>9 DEF CommitTransition, Reply, TypeOK
  <2>3. ServingOK(s)'
    BY <2>2 DEF ServingOK, Idle
  <2>4. CASE Reply(s, m, FALSE, NoOne) /\ UNCHANGED <<row, hasRef, events>>
    <3>1. AnswersTrue'
      BY <2>4 DEF AnswersTrue, Reply
    <3>2. ReadyStays
      BY <2>4 DEF ReadyStays
    <3> QED
      BY <1>0, <1>1, <1>9, <2>3, <2>4, <3>1, <3>2
      DEF CommitTransition, RowOK, EndIsAnnounced, ReportedArtifactIsReady
  <2>5. CASE /\ Allowed(m, seen)
             /\ row' = [row EXCEPT ![a] = Target(m.op)]
             /\ hasRef' = IF seen = "pending" /\ m.op = "fail" THEN hasRef \ {a}
                                                               ELSE hasRef \cup {a}
             /\ events' = [events EXCEPT ![a] = @ \cup {Target(m.op)}]
             /\ Reply(s, m, TRUE, a)
    <3>1. /\ seen \in {"pending", "writing"}
          /\ m.op = "finalize" => seen = "writing" /\ Target(m.op) = "ready"
          /\ m.op = "begin" => Target(m.op) = "writing"
          /\ m.op = "fail" => Target(m.op) = "failed"
      BY <2>1, <2>5 DEF Allowed, Transitions, Target
    <3>2. seen = row[a]
      BY <2>1, <3>1 DEF ServingOK
    <3>3. m.op = "finalize" => content[a] = "whole"
      BY <2>1, <3>1, <3>2 DEF ServingOK
    <3>4. /\ row'[a] = Target(m.op) /\ events'[a] = events[a] \cup {Target(m.op)}
          /\ \A b \in Artifacts \ {a} : row'[b] = row[b] /\ events'[b] = events[b]
      BY <1>0, <2>1, <2>5 DEF TypeOK
    <3>5. ReadyStays
      BY <3>1, <3>2, <3>4 DEF ReadyStays
    <3>6. \A b \in Artifacts : RowOK(b)'
      BY <1>9, <2>1, <2>5, <3>1, <3>2, <3>4 DEF RowOK, CommitTransition
    <3>7. EndIsAnnounced'
      <4>1. events[a] \cap Terminal = {}
        BY <2>1, <3>1, <3>2 DEF EndIsAnnounced, Terminal
      <4>2. events'[a] \cap Terminal = {row'[a]} \cap Terminal
        BY <3>4, <4>1
      <4> QED
        BY <3>4, <4>2 DEF EndIsAnnounced
    <3>8. \A r \in answers' : r \in answers \/ (r.call = m /\ r.artifact = a)
      BY <2>5 DEF Reply
    <3>9. AnswersTrue'
      BY <1>0, <3>1, <3>4, <3>5, <3>8 DEF AnswersTrue, ReadyStays, Shape, NamesTravel
    <3>10. ReportedArtifactIsReady'
      BY <1>0, <1>9, <3>5
      DEF ReportedArtifactIsReady, ReadyStays, CommitTransition, Shape, NamesTravel
    <3>11. \A b \in Artifacts : row'[b] = "ready" /\ row[b] # "ready" => content[b] = "whole"
      BY <2>1, <3>1, <3>3, <3>4
    <3> QED
      BY <1>0, <1>1, <2>3, <3>5, <3>6, <3>7, <3>9, <3>10, <3>11
  <2> QED
    BY <1>9, <2>4, <2>5 DEF CommitTransition
<1>10. CASE CommitLink(s)
  <2>1. m.op = "link"
    BY <1>10 DEF CommitLink
  <2>2. serving'[s] = Idle /\ answers' = answers
    BY <1>0, <1>10, <2>1 DEF CommitLink, Reply, TypeOK
  <2>3. ServingOK(s)'
    BY <2>2 DEF ServingOK, Idle
  <2> QED
    BY <1>4, <1>10, <2>2, <2>3 DEF CommitLink, RowOK
<1>11. CASE ServerDies(s)
  <2>1. serving'[s] = Idle
    BY <1>0, <1>11 DEF ServerDies, TypeOK
  <2>2. ServingOK(s)'
    BY <2>1 DEF ServingOK, Idle
  <2> QED
    BY <1>4, <1>11, <2>2 DEF ServerDies, RowOK, stored
<1> QED
  BY <1>5, <1>6, <1>7, <1>8, <1>9, <1>10, <1>11 DEF Serve, Accept

LEMMA OthersStory ==
    ASSUME Story,
           \/ \E child, parent \in Artifacts : AskLink(child, parent)
           \/ \E a \in Artifacts : UploadContent(a) \/ UploadCommit(a) \/ UploadDies(a)
    PROVE  /\ Story' /\ ReadyStays
           /\ \A a \in Artifacts :
                 row'[a] = "ready" /\ row[a] # "ready" => content[a] = "whole"
<1> DEFINE Conclusion ==
               /\ Story' /\ ReadyStays
               /\ \A a \in Artifacts :
                     row'[a] = "ready" /\ row[a] # "ready" => content[a] = "whole"
<1> USE DEF Story
<1>0. Shape /\ Shape' /\ TypeOK
  BY OthersShape DEF Shape
<1>1. ASSUME NEW child \in Artifacts, NEW parent \in Artifacts, AskLink(child, parent)
      PROVE  Conclusion
  BY <1>0, <1>1
  DEF AskLink, RowOK, ServingOK, AnswersTrue, EndIsAnnounced, ReportedArtifactIsReady,
      ReadyStays, stored
<1>2. ASSUME NEW a \in Artifacts, UploadContent(a)
      PROVE  Conclusion
  <2>1. /\ content'[a] = "whole" /\ \A b \in Artifacts \ {a} : content'[b] = content[b]
        /\ content[a] = "none" /\ row[a] = "none" /\ uploading' = uploading \cup {a}
    BY <1>0, <1>2 DEF UploadContent, TypeOK
  <2>2. \A b \in Artifacts : RowOK(b)'
    BY <1>2, <2>1 DEF RowOK, UploadContent
  <2>3. \A s \in Servers : ServingOK(s)'
    <3> SUFFICES ASSUME NEW s \in Servers PROVE ServingOK(s)'
      OBVIOUS
    <3>1. serving[s].step # "idle" /\ serving[s].request.op = "finalize" =>
                 serving[s].request.artifact \in Artifacts
      BY <1>0 DEF Shape, NamesTravel, Named
    <3> QED
      BY <1>2, <2>1, <3>1 DEF ServingOK, UploadContent
  <2> QED
    BY <1>0, <1>2, <2>2, <2>3
    DEF UploadContent, AnswersTrue, EndIsAnnounced, ReportedArtifactIsReady, ReadyStays
<1>3. ASSUME NEW a \in Artifacts, UploadCommit(a)
      PROVE  Conclusion
  <2>1. /\ row[a] = "none" /\ content[a] = "whole"
        /\ row'[a] = "ready" /\ events'[a] = {"pending", "writing", "ready"}
        /\ \A b \in Artifacts \ {a} : row'[b] = row[b] /\ events'[b] = events[b]
    BY <1>0, <1>3 DEF UploadCommit, TypeOK, RowOK
  <2>2. ReadyStays
    BY <2>1 DEF ReadyStays
  <2>3. \A b \in Artifacts : RowOK(b)'
    BY <1>3, <2>1 DEF RowOK, UploadCommit
  <2>4. EndIsAnnounced'
    BY <2>1 DEF EndIsAnnounced, Terminal
  <2>5. \A s \in Servers : ServingOK(s)'
    <3> SUFFICES ASSUME NEW s \in Servers PROVE ServingOK(s)'
      OBVIOUS
    <3>1. serving[s].step # "idle"
          /\ serving[s].request.op \in {"begin", "finalize", "fail"} =>
                 serving[s].request.artifact \in Artifacts
      BY <1>0 DEF Shape, NamesTravel, Named
    <3> QED
      BY <1>3, <2>1, <3>1 DEF ServingOK, UploadCommit
  <2>6. AnswersTrue' /\ ReportedArtifactIsReady'
    BY <1>3, <2>2, ToldStaysTrue DEF UploadCommit
  <2> QED
    BY <1>0, <2>1, <2>2, <2>3, <2>4, <2>5, <2>6
<1>4. ASSUME NEW a \in Artifacts, UploadDies(a)
      PROVE  Conclusion
  BY <1>0, <1>4
  DEF UploadDies, RowOK, ServingOK, AnswersTrue, EndIsAnnounced, ReportedArtifactIsReady,
      ReadyStays, stored
<1> QED
  BY <1>1, <1>2, <1>3, <1>4

LEMMA NextStory ==
    ASSUME OneServer, Story, [Next]_vars
    PROVE  /\ Story'
           /\ \A a \in Artifacts :
                 row'[a] = "ready" /\ row[a] # "ready" => content[a] = "whole"
<1> DEFINE Written == \A a \in Artifacts :
                         row'[a] = "ready" /\ row[a] # "ready" => content[a] = "whole"
<1>1. ASSUME NEW i \in Invocations, ClientNext(i) PROVE Story' /\ Written
  <2>1. UNCHANGED row
    BY <1>1 DEF ClientNext, StartCreation, Receive, GiveUpWaiting, stored
  <2> QED
    BY <1>1, <2>1, ClientsStory
<1>2. CASE UNCHANGED vars
  BY <1>2 DEF vars, Story, Shape, TypeOK, NamesTravel, RowOK, ServingOK, AnswersTrue,
              EndIsAnnounced, ReportedArtifactIsReady
<1> QED
  BY <1>1, <1>2, ServersStory, OthersStory DEF Next

\* The outbox of one process tells how an artifact ended, once, whatever is
\* refused, repeated, lost or rolled back.
THEOREM EndIsAnnouncedCorrect == OneServer => (Spec => []EndIsAnnounced)
<1> SUFFICES ASSUME OneServer PROVE Spec => []EndIsAnnounced
  OBVIOUS
<1>1. Story /\ [Next]_vars => Story'
  BY NextStory
<1>2. Story => EndIsAnnounced
  BY DEF Story
<1> QED
  BY <1>1, <1>2, InitStory, PTL DEF Spec

\* With one process, an artifact the runtime reports is ready and stays ready.
THEOREM ReportedIsReadyCorrect == OneServer => (Spec => []ReportedArtifactIsReady)
<1> SUFFICES ASSUME OneServer PROVE Spec => []ReportedArtifactIsReady
  OBVIOUS
<1>1. Story /\ [Next]_vars => Story'
  BY NextStory
<1>2. Story => ReportedArtifactIsReady
  BY DEF Story
<1> QED
  BY <1>1, <1>2, InitStory, PTL DEF Spec

\* With one process, a file is whole when its artifact becomes ready, however
\* many calls are repeated, writes fail and processes die.
THEOREM ReadyAfterContentCorrect == OneServer => (Spec => ReadyAfterContent)
<1> SUFFICES ASSUME OneServer PROVE Spec => ReadyAfterContent
  OBVIOUS
<1> DEFINE Written == \A a \in Artifacts :
                         row'[a] = "ready" /\ row[a] # "ready" => content[a] = "whole"
<1>1. Story /\ [Next]_vars => Story' /\ [Written]_row
  BY NextStory
<1> QED
  BY <1>1, InitStory, PTL DEF Spec, ReadyAfterContent

-----------------------------------------------------------------------------
(* The end of an artifact is a decision *)

Outcome(a) == IF row[a] \in Terminal THEN row[a] ELSE "open"

\* An end is announced exactly when there is one: of row r and events E.
LEMMA ToldWhenDecided ==
    ASSUME NEW r, NEW E, E \cap Terminal = {r} \cap Terminal
    PROVE  Cardinality(E \cap Terminal) = IF r \in Terminal THEN 1 ELSE 0
<1>1. CASE r \in Terminal
  <2>1. E \cap Terminal = {r}
    BY <1>1
  <2> QED
    BY <1>1, <2>1, FS_Singleton
<1>2. CASE r \notin Terminal
  <2>1. E \cap Terminal = {}
    BY <1>2
  <2> QED
    BY <1>2, <2>1, FS_EmptySet
<1> QED
  BY <1>1, <1>2

\* A step ends one artifact at most, which had not ended, and no client moves
\* with it.
LEMMA OutcomeStep ==
    ASSUME OneServer, Story, [Next]_vars
    PROVE  \/ \A a \in Artifacts : Outcome(a)' = Outcome(a)
           \/ \E a \in Artifacts, v \in Terminal :
                 /\ Outcome(a) = "open" /\ Outcome(a)' = v
                 /\ \A b \in Artifacts \ {a} : Outcome(b)' = Outcome(b)
                 /\ UNCHANGED client
<1> DEFINE Conclusion ==
           \/ \A a \in Artifacts : Outcome(a)' = Outcome(a)
           \/ \E a \in Artifacts, v \in Terminal :
                 /\ Outcome(a) = "open" /\ Outcome(a)' = v
                 /\ \A b \in Artifacts \ {a} : Outcome(b)' = Outcome(b)
                 /\ UNCHANGED client
<1>0. Shape /\ TypeOK
  BY DEF Story, Shape
<1>1. CASE UNCHANGED row
  BY <1>1 DEF Outcome
<1>2. ASSUME NEW a \in Artifacts, row[a] \notin Terminal, UNCHANGED client,
             NEW v \in Status, row' = [row EXCEPT ![a] = v]
      PROVE  Conclusion
  <2>1. row'[a] = v /\ \A b \in Artifacts \ {a} : row'[b] = row[b]
    BY <1>0, <1>2 DEF TypeOK
  <2>2. \A b \in Artifacts \ {a} : Outcome(b)' = Outcome(b)
    BY <2>1 DEF Outcome
  <2>3. Outcome(a) = "open" /\ Outcome(a)' = IF v \in Terminal THEN v ELSE "open"
    BY <1>2, <2>1 DEF Outcome
  <2>4. CASE v \in Terminal
    BY <1>2, <2>2, <2>3, <2>4
  <2>5. CASE v \notin Terminal
    BY <2>2, <2>3, <2>5
  <2> QED
    BY <2>4, <2>5
<1>3. ASSUME NEW s \in Servers, CommitRegister(s) PROVE Conclusion
  BY <1>1, <1>2, <1>3 DEF CommitRegister, Terminal, Status
<1>4. ASSUME NEW s \in Servers, CommitTransition(s) PROVE Conclusion
  <2> DEFINE m == serving[s].request
  <2>1. /\ serving[s].step = "commit" /\ m.op \in {"begin", "finalize", "fail"}
        /\ UNCHANGED client
    BY <1>4 DEF CommitTransition
  <2>2. m.artifact \in Artifacts
    BY <1>0, <2>1 DEF Shape, NamesTravel, Named
  <2>3. CASE Allowed(m, serving[s].seen) /\ row' = [row EXCEPT ![m.artifact] = Target(m.op)]
    <3>1. serving[s].seen \in {"pending", "writing"}
      BY <2>1, <2>3 DEF Allowed, Transitions, Target
    <3>2. row[m.artifact] \notin Terminal
      BY <2>1, <3>1 DEF Story, ServingOK, Terminal
    <3>3. Target(m.op) \in Status
      BY DEF Target, Status
    <3> QED
      BY <1>2, <2>1, <2>2, <2>3, <3>2, <3>3
  <2> QED
    BY <1>1, <1>4, <2>3 DEF CommitTransition
<1>5. ASSUME NEW a \in Artifacts, UploadCommit(a) PROVE Conclusion
  <2>1. row[a] = "none"
    BY <1>5 DEF UploadCommit, Story, RowOK
  <2> QED
    BY <1>2, <1>5, <2>1 DEF UploadCommit, Terminal, Status
<1>6. \/ UNCHANGED row
      \/ \E s \in Servers : CommitRegister(s) \/ CommitTransition(s)
      \/ \E a \in Artifacts : UploadCommit(a)
  BY DEF Next, vars, ClientNext, StartCreation, Receive, GiveUpWaiting, AskLink, Serve,
         Accept, WriteContent, Read, CommitLink, ServerDies, UploadContent, UploadDies, stored
<1> QED
  BY <1>1, <1>3, <1>4, <1>5, <1>6

\* A step makes one artifact at most reported, by its one reporter, and the
\* artifact is ready.
LEMMA ReportStep ==
    ASSUME Story, OwnInv, [Next]_vars
    PROVE  \/ \A a \in Artifacts : Reporters(a)' = Reporters(a)
           \/ \E a \in Artifacts, i \in Invocations :
                 /\ Reporters(a) = {} /\ Reporters(a)' = {i}
                 /\ \A b \in Artifacts \ {a} : Reporters(b)' = Reporters(b)
                 /\ row[a] = "ready" /\ UNCHANGED row
<1> DEFINE Conclusion ==
           \/ \A a \in Artifacts : Reporters(a)' = Reporters(a)
           \/ \E a \in Artifacts, i \in Invocations :
                 /\ Reporters(a) = {} /\ Reporters(a)' = {i}
                 /\ \A b \in Artifacts \ {a} : Reporters(b)' = Reporters(b)
                 /\ row[a] = "ready" /\ UNCHANGED row
<1>0. Shape /\ TypeOK
  BY DEF Story, Shape
<1>1. CASE UNCHANGED client
  BY <1>1 DEF Reporters
<1>2. ASSUME NEW i \in Invocations, ClientNext(i) PROVE Conclusion
  <2>1. \A j \in Invocations \ {i} : client'[j] = client[j]
    BY <1>0, <1>2 DEF ClientNext, StartCreation, Receive, GiveUpWaiting, GoOn, TypeOK
  <2>2. client[i].phase # "created" /\ UNCHANGED row
    BY <1>2 DEF ClientNext, StartCreation, Receive, GiveUpWaiting, Ops, stored
  <2>3. CASE client'[i].phase # "created"
    BY <2>1, <2>2, <2>3 DEF Reporters
  <2>4. CASE client'[i].phase = "created"
    <3> DEFINE a == client'[i].artifact
    <3>1. Story' /\ OwnInv'
      BY <1>2, ClientsStory, ClientsOwn
    <3>2. a \in Artifacts /\ row[a] = "ready"
      BY <2>2, <2>4, <3>1 DEF Story, Shape, NamesTravel, ReportedArtifactIsReady
    <3>3. owner'[a] = i
      BY <3>1, <3>2, NoOneAssumption DEF OwnInv, KnowsItsOwn
    <3>4. ASSUME NEW j \in Invocations \ {i} PROVE client[j].artifact # a
      BY <2>1, <3>1, <3>2, <3>3, NoOneAssumption DEF OwnInv, KnowsItsOwn
    <3> HIDE DEF a
    <3>5. Reporters(a) = {}
      BY <2>2, <3>4 DEF Reporters
    <3>6. client'[i].artifact = a
      BY DEF a
    <3>7. \A b \in Artifacts : Reporters(b)' = IF b = a THEN Reporters(b) \cup {i} ELSE Reporters(b)
      BY <2>1, <2>2, <2>4, <3>6 DEF Reporters
    <3> QED
      BY <2>2, <3>2, <3>5, <3>7
  <2> QED
    BY <2>3, <2>4
<1>3. UNCHANGED client \/ \E i \in Invocations : ClientNext(i)
  BY DEF Next, vars, AskLink, Serve, Accept, WriteContent, Read, CommitRegister,
         CommitTransition, CommitLink, ServerDies, UploadContent, UploadCommit, UploadDies, stored
<1> QED
  BY <1>1, <1>2, <1>3

\* With one process, the artifact-service and its clients implement Decision:
\* of all the calls about an artifact one decides how it ends, the outbox tells
\* that end once, and its invocation alone reports it, after it is ready.
THEOREM EndIsDecisionCorrect == OneServer => (Spec => EndIsDecision)
<1> SUFFICES ASSUME OneServer PROVE Spec => EndIsDecision
  OBVIOUS
<1>1. Init => Ending!Init
  <2> SUFFICES ASSUME Init PROVE Ending!Init
    OBVIOUS
  <2>1. \A a \in Artifacts : Reporters(a) = {} /\ events[a] \cap Terminal = {}
    BY DEF Init, Reporters
  <2>2. \A a \in Artifacts : row[a] \notin Terminal
    BY DEF Init, Terminal
  <2> QED
    BY <2>1, <2>2, FS_EmptySet DEF Ending!Init
<1>2. Story /\ OwnInv /\ [Next]_vars => Story' /\ OwnInv' /\ [Ending!Next]_Ending!decisionVars
  <2> SUFFICES ASSUME Story, OwnInv, [Next]_vars
               PROVE  Story' /\ OwnInv' /\ (Ending!Next \/ UNCHANGED Ending!decisionVars)
    OBVIOUS
  <2>1. Story' /\ OwnInv'
    BY NextStory, NextOwn
  <2> DEFINE T(a) == Cardinality(events[a] \cap Terminal)
             R(a) == Cardinality(Reporters(a))
  <2>2. \A a \in Artifacts : T(a) = IF Outcome(a) = "open" THEN 0 ELSE 1
    <3>1. \A a \in Artifacts : T(a) = IF row[a] \in Terminal THEN 1 ELSE 0
      BY ToldWhenDecided DEF Story, EndIsAnnounced
    <3> QED
      BY <3>1 DEF Outcome, Terminal
  <2>3. \A a \in Artifacts : T(a)' = IF Outcome(a)' = "open" THEN 0 ELSE 1
    <3>1. \A a \in Artifacts : T(a)' = IF row'[a] \in Terminal THEN 1 ELSE 0
      BY <2>1, ToldWhenDecided DEF Story, EndIsAnnounced
    <3> QED
      BY <3>1 DEF Outcome, Terminal
  <2>4. CASE \E a \in Artifacts, v \in Terminal :
                /\ Outcome(a) = "open" /\ Outcome(a)' = v
                /\ \A b \in Artifacts \ {a} : Outcome(b)' = Outcome(b)
                /\ UNCHANGED client
    <3>1. PICK a \in Artifacts, v \in Terminal :
                /\ Outcome(a) = "open" /\ Outcome(a)' = v
                /\ \A b \in Artifacts \ {a} : Outcome(b)' = Outcome(b)
                /\ UNCHANGED client
      BY <2>4
    <3>2. T(a)' = 1 /\ \A b \in Artifacts \ {a} : T(b)' = T(b)
      BY <2>2, <2>3, <3>1 DEF Terminal
    <3>3. \A b \in Artifacts : R(b)' = R(b)
      BY <3>1 DEF Reporters
    <3>4. Ending!Decide(a, v)
      BY <3>1, <3>2, <3>3 DEF Ending!Decide, Outcome
    <3> QED
      BY <2>1, <3>4 DEF Ending!Next
  <2>5. CASE \A a \in Artifacts : Outcome(a)' = Outcome(a)
    <3>1. \A a \in Artifacts : T(a)' = T(a)
      BY <2>2, <2>3, <2>5
    <3>2. CASE \A a \in Artifacts : Reporters(a)' = Reporters(a)
      <4>1. \A a \in Artifacts : R(a)' = R(a)
        BY <3>2
      <4> QED
        BY <2>1, <2>5, <3>1, <4>1 DEF Ending!decisionVars, Outcome
    <3>3. CASE \E a \in Artifacts, i \in Invocations :
                 /\ Reporters(a) = {} /\ Reporters(a)' = {i}
                 /\ \A b \in Artifacts \ {a} : Reporters(b)' = Reporters(b)
                 /\ row[a] = "ready"
      <4>1. PICK a \in Artifacts, i \in Invocations :
                 /\ Reporters(a) = {} /\ Reporters(a)' = {i}
                 /\ \A b \in Artifacts \ {a} : Reporters(b)' = Reporters(b)
                 /\ row[a] = "ready"
        BY <3>3
      <4>2. R(a) = 0 /\ R(a)' = 1 /\ \A b \in Artifacts \ {a} : R(b)' = R(b)
        BY <4>1, FS_EmptySet, FS_Singleton
      <4>3. Ending!Act(a)
        BY <2>5, <3>1, <4>1, <4>2 DEF Ending!Act, Outcome, Terminal
      <4> QED
        BY <2>1, <4>3 DEF Ending!Next
    <3> QED
      BY <3>2, <3>3, ReportStep
  <2> QED
    BY <2>4, <2>5, OutcomeStep
<1> QED
  BY <1>1, <1>2, InitStory, InitOwn, PTL DEF Spec, EndIsDecision, Ending!Spec

-----------------------------------------------------------------------------
(* Lineage *)

\* A set of artifacts that holds the parents of its members.
Closed(C, graph) == \A e \in graph : e[1] \in C => e[2] \in C

\* A search that does not find the child has visited a closed set without it.
LEMMA SearchFails ==
    ASSUME NEW child \in Artifacts, NEW parent \in Artifacts, NEW graph,
           ~DetectCycle(child, parent, graph)
    PROVE  \E C \in SUBSET Artifacts : parent \in C /\ child \notin C /\ Closed(C, graph)
BY DEF DetectCycle, Ancestors, Closed

\* Numbering the members of a closed set before all others leaves every edge
\* in order, and admits an edge from outside the set into it.
LEMMA ClosedSetsFirst ==
    ASSUME IsFiniteSet(Artifacts), NEW graph \in Edges, IsAcyclic(graph),
           NEW child \in Artifacts, NEW parent \in Artifacts,
           NEW C \in SUBSET Artifacts, parent \in C, child \notin C, Closed(C, graph)
    PROVE  IsAcyclic(graph \cup {<<child, parent>>})
<1> DEFINE N == Cardinality(Artifacts)
<1>1. N \in Nat
  BY FS_CardinalityType
<1>2. PICK rank \in [Artifacts -> 1..N] : \A e \in graph : rank[e[1]] > rank[e[2]]
  BY DEF IsAcyclic
<1> DEFINE Before(x, y) == \/ x \in C /\ y \notin C
                           \/ (x \in C <=> y \in C) /\ rank[x] =< rank[y]
           Upto(y) == {x \in Artifacts : Before(x, y)}
           number == [y \in Artifacts |-> Cardinality(Upto(y))]
<1>3. \A y \in Artifacts : Upto(y) \in SUBSET Artifacts /\ y \in Upto(y)
  BY <1>1
<1>4. ASSUME NEW y \in Artifacts
      PROVE  IsFiniteSet(Upto(y)) /\ number[y] \in 1..N
  <2>1. IsFiniteSet(Upto(y)) /\ Cardinality(Upto(y)) =< N
    BY <1>3, FS_Subset
  <2>2. Cardinality(Upto(y)) \in Nat
    BY <2>1, FS_CardinalityType
  <2>3. Cardinality(Upto(y)) # 0
    BY <1>3, <2>1, FS_EmptySet
  <2> QED
    BY <1>1, <2>1, <2>2, <2>3
<1>5. ASSUME NEW x \in Artifacts, NEW y \in Artifacts, Before(y, x), ~Before(x, y)
      PROVE  number[x] > number[y]
  <2>1. Upto(y) \in SUBSET Upto(x)
    BY <1>1, <1>5
  <2>2. Upto(y) # Upto(x)
    BY <1>3, <1>5
  <2>3. /\ Cardinality(Upto(y)) =< Cardinality(Upto(x))
        /\ Cardinality(Upto(x)) # Cardinality(Upto(y))
    BY <1>4, <2>1, <2>2, FS_Subset
  <2>4. Cardinality(Upto(x)) \in Nat /\ Cardinality(Upto(y)) \in Nat
    BY <1>4, FS_CardinalityType
  <2> QED
    BY <2>3, <2>4
<1>6. ASSUME NEW e \in graph \cup {<<child, parent>>}
      PROVE  e[1] \in Artifacts /\ e[2] \in Artifacts /\ Before(e[2], e[1]) /\ ~Before(e[1], e[2])
  <2>1. CASE e \in graph
    <3>1. e[1] \in Artifacts /\ e[2] \in Artifacts /\ rank[e[1]] > rank[e[2]]
      BY <1>2, <2>1
    <3>2. e[1] \in C => e[2] \in C
      BY <2>1 DEF Closed
    <3>3. rank[e[1]] \in Nat /\ rank[e[2]] \in Nat
      BY <1>1, <3>1
    <3> QED
      BY <3>1, <3>2, <3>3
  <2>2. CASE e = <<child, parent>>
    <3>1. e[1] = child /\ e[2] = parent
      BY <2>2
    <3> QED
      BY <3>1
  <2> QED
    BY <2>1, <2>2
<1>7. number \in [Artifacts -> 1..N]
  BY <1>4
<1>8. \A e \in graph \cup {<<child, parent>>} : number[e[1]] > number[e[2]]
  BY <1>5, <1>6
<1> HIDE DEF number
<1> QED
  BY <1>7, <1>8 DEF IsAcyclic

\* detect_cycle is exact: of a graph without a cycle it refuses the edges that
\* would close one, and no others.
THEOREM SearchIsExact ==
    ASSUME IsFiniteSet(Artifacts), NEW graph \in Edges, IsAcyclic(graph),
           NEW child \in Artifacts, NEW parent \in Artifacts
    PROVE  DetectCycle(child, parent, graph) <=> ~IsAcyclic(graph \cup {<<child, parent>>})
<1>1. ~DetectCycle(child, parent, graph) => IsAcyclic(graph \cup {<<child, parent>>})
  BY SearchFails, ClosedSetsFirst
<1>2. ASSUME IsAcyclic(graph \cup {<<child, parent>>})
      PROVE  ~DetectCycle(child, parent, graph)
  <2> DEFINE N == Cardinality(Artifacts)
  <2>1. N \in Nat
    BY FS_CardinalityType
  <2>2. PICK rank \in [Artifacts -> 1..N] :
            \A e \in graph \cup {<<child, parent>>} : rank[e[1]] > rank[e[2]]
    BY <1>2 DEF IsAcyclic
  <2> DEFINE C == {x \in Artifacts : rank[x] =< rank[parent]}
  <2>3. \A x \in Artifacts : rank[x] \in Nat
    BY <2>1, <2>2
  <2>4. rank[child] > rank[parent]
    <3> DEFINE new == <<child, parent>>
    <3>1. new[1] = child /\ new[2] = parent /\ new \in graph \cup {<<child, parent>>}
      OBVIOUS
    <3> HIDE DEF new
    <3> QED
      BY <2>2, <3>1
  <2>5. parent \in C /\ child \notin C
    BY <2>3, <2>4
  <2>6. \A e \in graph : e[1] \in C => e[2] \in C
    BY <2>2, <2>3
  <2> QED
    BY <2>5, <2>6 DEF DetectCycle, Ancestors
<1> QED
  BY <1>1, <1>2

\* What one process read for a lineage request is what it commits on.
GraphIsFresh == \A s \in Servers :
    serving[s].step = "commit" /\ serving[s].request.op = "link" => serving[s].graph = edges

LineageInv == Shape /\ GraphIsFresh /\ LineageIsAcyclic

LEMMA NextLineage ==
    ASSUME OneServer, IsFiniteSet(Artifacts), LineageInv, [Next]_vars
    PROVE  LineageInv'
<1> USE DEF LineageInv
<1>0. Shape' /\ TypeOK
  BY NextShape DEF Shape
<1>1. ASSUME UNCHANGED <<edges, serving>> PROVE LineageInv'
  BY <1>0, <1>1 DEF GraphIsFresh, LineageIsAcyclic
<1>2. ASSUME NEW s \in Servers, UNCHANGED edges,
             serving'[s].step # "commit" \/ serving'[s].request.op # "link"
      PROVE  LineageInv'
  BY <1>0, <1>2 DEF GraphIsFresh, LineageIsAcyclic, OneServer
<1>3. ASSUME NEW i \in Invocations, ClientNext(i) PROVE LineageInv'
  BY <1>1, <1>3 DEF ClientNext, StartCreation, Receive, GiveUpWaiting, stored
<1>4. ASSUME NEW s \in Servers, Serve(s) \/ ServerDies(s) PROVE LineageInv'
  <2> DEFINE m == serving[s].request
  <2>1. ASSUME UNCHANGED edges, serving'[s] = Idle PROVE LineageInv'
    BY <1>2, <2>1 DEF Idle
  <2>2. ASSUME NEW n \in calls, Accept(s, n) PROVE LineageInv'
    BY <1>0, <1>2, <2>2 DEF Accept, TypeOK
  <2>3. CASE WriteContent(s)
    <3>1. CASE serving' = [serving EXCEPT ![s].step = "read"]
      BY <1>0, <1>2, <2>3, <3>1 DEF WriteContent, TypeOK, Serving
    <3>2. CASE Reply(s, m, FALSE, NoOne)
      BY <1>0, <2>1, <2>3, <3>2 DEF WriteContent, Reply, TypeOK
    <3> QED
      BY <2>3, <3>1, <3>2 DEF WriteContent
  <2>4. CASE Read(s)
    <3> DEFINE about == m.op \in {"begin", "finalize", "fail"}
               t == [serving[s] EXCEPT
                       !.step = "commit",
                       !.seen = IF about THEN row[m.artifact] ELSE serving[s].seen,
                       !.graph = IF m.op = "link" THEN edges ELSE serving[s].graph]
    <3>1. serving[s] \in Serving
      BY <1>0 DEF TypeOK
    <3>2. t.request = m /\ (m.op = "link" => t.graph = edges)
      BY <3>1 DEF Serving
    <3>3. serving' = [serving EXCEPT ![s] = t] /\ UNCHANGED edges
      BY <2>4 DEF Read, stored
    <3> HIDE DEF t
    <3>4. serving'[s] = t
      BY <1>0, <3>3 DEF TypeOK
    <3> QED
      BY <1>0, <3>2, <3>3, <3>4 DEF GraphIsFresh, LineageIsAcyclic, OneServer
  <2>5. CASE CommitRegister(s) \/ CommitTransition(s)
    <3>1. UNCHANGED edges /\ \E ok, a : Reply(s, m, ok, a)
      BY <2>5 DEF CommitRegister, CommitTransition
    <3> QED
      BY <1>0, <2>1, <3>1 DEF Reply, TypeOK
  <2>6. CASE CommitLink(s)
    <3>1. serving[s].step = "commit" /\ m.op = "link" /\ Reply(s, m, TRUE, NoOne)
      BY <2>6 DEF CommitLink
    <3>2. m \in Call \cup Link
      BY <3>1 DEF Shape, NamesTravel, Named
    <3>3. m.child \in Artifacts /\ m.parent \in Artifacts
      BY <3>1, <3>2 DEF Call, Link, Ops
    <3>4. serving[s].graph = edges
      BY <3>1 DEF GraphIsFresh
    <3>5. CASE DetectCycle(m.child, m.parent, edges)
      <4>1. UNCHANGED edges
        BY <2>6, <3>4, <3>5 DEF CommitLink
      <4> QED
        BY <1>0, <2>1, <3>1, <4>1 DEF Reply, TypeOK
    <3>6. CASE ~DetectCycle(m.child, m.parent, edges)
      <4>1. edges' = edges \cup {<<m.child, m.parent>>}
        BY <2>6, <3>4, <3>6 DEF CommitLink
      <4>2. IsAcyclic(edges) /\ edges \in Edges
        BY <1>0 DEF LineageIsAcyclic, TypeOK
      <4>3. IsAcyclic(edges \cup {<<m.child, m.parent>>})
        BY <3>3, <3>6, <4>2, SearchIsExact
      <4>4. serving'[s] = Idle
        BY <1>0, <3>1 DEF Reply, TypeOK
      <4> QED
        BY <1>0, <4>1, <4>3, <4>4 DEF LineageIsAcyclic, GraphIsFresh, OneServer, Idle
    <3> QED
      BY <3>5, <3>6
  <2>7. CASE ServerDies(s)
    BY <1>0, <2>1, <2>7 DEF ServerDies, TypeOK, stored
  <2> QED
    BY <1>4, <2>2, <2>3, <2>4, <2>5, <2>6, <2>7 DEF Serve
<1>5. ASSUME \/ \E child, parent \in Artifacts : AskLink(child, parent)
             \/ \E a \in Artifacts : UploadContent(a) \/ UploadCommit(a) \/ UploadDies(a)
      PROVE  LineageInv'
  BY <1>1, <1>5 DEF AskLink, UploadContent, UploadCommit, UploadDies, stored
<1>6. CASE UNCHANGED vars
  BY <1>1, <1>6 DEF vars
<1> QED
  BY <1>3, <1>4, <1>5, <1>6 DEF Next

\* With one process, and finitely many artifacts, no artifact ever becomes its
\* own ancestor.
THEOREM LineageCorrect ==
    OneServer /\ IsFiniteSet(Artifacts) => (Spec => []LineageIsAcyclic)
<1> SUFFICES ASSUME OneServer, IsFiniteSet(Artifacts) PROVE Spec => []LineageIsAcyclic
  OBVIOUS
<1>1. Init => LineageInv
  <2> SUFFICES ASSUME Init PROVE LineageInv
    OBVIOUS
  <2>1. \E rank \in [Artifacts -> 1..Cardinality(Artifacts)] : TRUE
    <3>1. Cardinality(Artifacts) \in Nat
      BY FS_CardinalityType
    <3>2. \A a \in Artifacts : Cardinality(Artifacts) # 0
      BY FS_EmptySet
    <3> DEFINE rank == [a \in Artifacts |-> 1]
    <3>3. rank \in [Artifacts -> 1..Cardinality(Artifacts)]
      BY <3>1, <3>2
    <3> QED
      BY <3>3
  <2> QED
    BY <2>1, InitShape DEF LineageInv, GraphIsFresh, LineageIsAcyclic, IsAcyclic, Init, Idle
<1>2. LineageInv /\ [Next]_vars => LineageInv'
  BY NextLineage
<1>3. LineageInv => LineageIsAcyclic
  BY DEF LineageInv
<1> QED
  BY <1>1, <1>2, <1>3, PTL DEF Spec
=============================================================================
