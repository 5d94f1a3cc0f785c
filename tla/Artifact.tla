------------------------------- MODULE Artifact -------------------------------
(***************************************************************************)
(* The artifact-service: artifacts the agent-runtime produces, files that  *)
(* users upload, their stored content and their lineage.                   *)
(*                                                                         *)
(* The runtime creates an artifact by three calls, register, begin-writing *)
(* and finalize, each tried MaxTries times when no answer comes; when one  *)
(* is refused or out of tries it calls fail, and gives up.  A call that is *)
(* not answered in time is not withdrawn: it may be handled later, or never*)
(* (and a server that dies answers nothing).                               *)
(*                                                                         *)
(* The command endpoints are "async def" handlers without an await after   *)
(* the body is parsed: a server process handles one at a time, and two     *)
(* processes interleave at every transaction.  No read takes a lock, and a *)
(* save upserts the whole row.  Uploads run in the thread pool.            *)
(***************************************************************************)
EXTENDS Naturals, FiniteSets

CONSTANTS Artifacts,      \* artifact ids
          Invocations,    \* invocations that produce an artifact
          Servers,        \* processes of the artifact-service
          NoOne,          \* not an artifact, an invocation or a request
          MaxTries,       \* _ARTIFACT_RETRY.max_attempts
          MaxLinks,       \* bound: lineage requests ever made
          MaxFaults,      \* bound: calls not answered in time, failed
                          \*   storage writes and processes that die
          MaxLost,        \* bound: how many of these calls are never handled
          HardFaults      \* may writes to storage fail and processes die?

ASSUME TriesAssumption == MaxTries \in Nat \ {0}
ASSUME NoOneAssumption == NoOne \notin Artifacts \cup Invocations
ASSUME ArtifactBounds == MaxLinks \in Nat /\ MaxFaults \in Nat /\ MaxLost \in Nat
ASSUME HardFaultsAssumption == HardFaults \in BOOLEAN

VARIABLES
    row,        \* [Artifacts -> the status column, "none" before the insert]
    hasRef,     \* artifacts whose storage_ref column is set
    owner,      \* [Artifacts -> its agent_invocation_id, or NoOne]
    content,    \* [Artifacts -> the file at its storage path]
    events,     \* [Artifacts -> statuses announced in the outbox]
    edges,      \* lineage: pairs <<child, parent>>
    client,     \* [Invocations -> the runtime's creation of its artifact]
    provenance, \* [Invocations -> quality of the provenance it sends]
    calls,      \* requests on their way to a server
    serving,    \* [Servers -> the request it handles, with what it has read]
    answers,    \* answers on their way back
    uploading,  \* artifacts whose upload has written its file, not its rows
    links,      \* lineage requests made so far
    faults,
    lost        \* calls that never arrived, or that a dying server dropped

vars == <<row, hasRef, owner, content, events, edges, client, provenance, calls, serving,
          answers, uploading, links, faults, lost>>

stored == <<row, hasRef, owner, content, events, edges>>

\* ArtifactStatus, and _ARTIFACT_TRANSITIONS with the insert.
Status == {"none", "pending", "writing", "ready", "failed"}
Terminal == {"ready", "failed"}

\* Mutant: a repeated begin-writing is allowed on a ready artifact.
ReadyMayReopen ==
    {<<"none", "pending">>, <<"pending", "writing">>, <<"pending", "failed">>,
     <<"writing", "ready">>, <<"writing", "failed">>, <<"ready", "writing">>}

Transitions ==
    {<<"none", "pending">>, <<"pending", "writing">>, <<"pending", "failed">>,
     <<"writing", "ready">>, <<"writing", "failed">>}

Ops == {"register", "begin", "finalize", "fail"}

\* Mutant: the artifact is reported once its writing has begun.
ReportsEarly == [register |-> "begin", begin |-> "created",
                 finalize |-> "created", fail |-> "gave_up"]

\* What create_artifact_best_effort asks next when a call succeeds.
AfterSuccess == [register |-> "begin", begin |-> "finalize",
                 finalize |-> "created", fail |-> "gave_up"]

\* Mutant: the runtime gives up without telling the artifact-service.
GiveUpSilently == [register |-> "gave_up", begin |-> "gave_up",
                   finalize |-> "gave_up", fail |-> "gave_up"]

\* ... and when it does not: an artifact whose id is known is failed.
AfterFailure == [register |-> "gave_up", begin |-> "fail",
                 finalize |-> "fail", fail |-> "gave_up"]

ClientPhases == {"idle", "created", "gave_up"} \cup Ops

\* The tuple is complete, lacks a part, or names a model by an alias.
ProvenanceQuality == {"complete", "incomplete", "alias"}

Call == [op : Ops, by : Invocations, try : 1..MaxTries, artifact : Artifacts \cup {NoOne}]
Link == [op : {"link"}, child : Artifacts, parent : Artifacts]

Idle == [request |-> NoOne, seen |-> "none", graph |-> {}, step |-> "idle"]

Serving == [request : Call \cup Link \cup {NoOne}, seen : Status,
            graph : SUBSET (Artifacts \X Artifacts),
            step : {"idle", "write", "read", "commit"}]

\* The tables artifacts, provenance and lineage edges, and the outbox.
ArtifactRows   == [Artifacts -> Status]
ProvenanceRows == [Invocations -> ProvenanceQuality]
Edges          == SUBSET (Artifacts \X Artifacts)
Announcements  == [Artifacts -> SUBSET Status]

\* What an endpoint answers: 2xx with the artifact's id, or an error that the
\* client does not tell from any other.
Answer == [call : Call, ok : BOOLEAN, artifact : Artifacts \cup {NoOne}]

\* Uploads whose endpoint has not answered.
Uploads == SUBSET Artifacts

TypeOK ==
    /\ row \in ArtifactRows
    /\ hasRef \subseteq Artifacts
    /\ owner \in [Artifacts -> Invocations \cup {NoOne}]
    /\ content \in [Artifacts -> {"none", "partial", "whole"}]
    /\ events \in Announcements
    /\ edges \in Edges
    /\ client \in [Invocations -> [phase : ClientPhases, try : 0..MaxTries,
                                   artifact : Artifacts \cup {NoOne}]]
    /\ provenance \in ProvenanceRows
    /\ calls \subseteq Call \cup Link
    /\ serving \in [Servers -> Serving]
    /\ answers \subseteq Answer
    /\ uploading \in Uploads
    /\ links \in 0..MaxLinks
    /\ faults \in 0..MaxFaults
    /\ lost \in 0..MaxLost

Init ==
    /\ row = [a \in Artifacts |-> "none"]
    /\ hasRef = {}
    /\ owner = [a \in Artifacts |-> NoOne]
    /\ content = [a \in Artifacts |-> "none"]
    /\ events = [a \in Artifacts |-> {}]
    /\ edges = {}
    /\ client = [i \in Invocations |-> [phase |-> "idle", try |-> 0, artifact |-> NoOne]]
    /\ provenance \in [Invocations -> ProvenanceQuality]
    /\ calls = {}
    /\ serving = [s \in Servers |-> Idle]
    /\ answers = {}
    /\ uploading = {}
    /\ links = 0
    /\ faults = 0
    /\ lost = 0

Fault == faults < MaxFaults /\ faults' = faults + 1
LoseCall == lost < MaxLost /\ lost' = lost + 1

-----------------------------------------------------------------------------
(* The runtime: create_artifact_best_effort over ArtifactServiceClient *)

\* The request that client state c is waiting for.
Waiting(i, c) == [op |-> c.phase, by |-> i, try |-> c.try, artifact |-> c.artifact]

\* Client i goes on with phase p; when that is a call, it sends a first try.
\* The calls in others are still on their way.
GoOn(i, p, a, others) ==
    LET c == [phase |-> p, try |-> IF p \in Ops THEN 1 ELSE 0, artifact |-> a]
    IN  /\ client' = [client EXCEPT ![i] = c]
        /\ calls' = IF p \in Ops THEN others \cup {Waiting(i, c)} ELSE others

StartCreation(i) ==
    /\ client[i].phase = "idle"
    /\ GoOn(i, "register", NoOne, calls)
    /\ UNCHANGED <<stored, provenance, serving, answers, uploading, links, faults, lost>>

\* An answer in time.  A refusal (4xx, 500) is not retried.
Receive(i) == \E m \in answers :
    /\ client[i].phase \in Ops
    /\ m.call = Waiting(i, client[i])
    /\ answers' = answers \ {m}
    /\ IF m.ok THEN GoOn(i, AfterSuccess[client[i].phase], m.artifact, calls)
               ELSE GoOn(i, AfterFailure[client[i].phase], client[i].artifact, calls)
    /\ UNCHANGED <<stored, provenance, serving, uploading, links, faults, lost>>

\* The call was dropped by a server that died.
Unanswerable(i) ==
    LET m == Waiting(i, client[i])
    IN  /\ m \notin calls
        /\ \A s \in Servers : serving[s].request # m
        /\ \A r \in answers : r.call # m

\* No answer.  After a timeout, without a connection or on a 429, 502, 503 or
\* 504 the call is tried again, MaxTries times in all; when the connection breaks
\* under it, as when its server dies, it is not.  The call may have been lost on
\* its way, or may be handled later; a late answer is dropped with its connection.
GiveUpWaiting(i) == \E others \in {calls, calls \ {Waiting(i, client[i])}} :
    LET c == client[i]
        again == [c EXCEPT !.try = @ + 1]
    IN  /\ c.phase \in Ops
        /\ \/ Unanswerable(i) /\ others = calls /\ UNCHANGED <<faults, lost>>
           \/ ~Unanswerable(i) /\ Fault /\ IF others = calls THEN UNCHANGED lost ELSE LoseCall
        /\ answers' = {m \in answers : m.call # Waiting(i, c)}
        /\ \/ /\ c.try < MaxTries
              /\ client' = [client EXCEPT ![i] = again]
              /\ calls' = others \cup {Waiting(i, again)}
           \/ GoOn(i, AfterFailure[c.phase], c.artifact, others)
        /\ UNCHANGED <<stored, provenance, serving, uploading, links>>

\* A service asks for a lineage edge between two artifacts of a workspace.
AskLink(child, parent) ==
    /\ links < MaxLinks
    /\ row[child] # "none" /\ row[parent] # "none"
    /\ calls' = calls \cup {[op |-> "link", child |-> child, parent |-> parent]}
    /\ links' = links + 1
    /\ UNCHANGED <<stored, client, provenance, serving, answers, uploading, faults, lost>>

-----------------------------------------------------------------------------
(* The server: one request at a time *)

\* Mutant: the content is not stored.
KeepsNoContent(m) == FALSE

\* Only finalize carries content.  It is written before the transaction,
\* whatever the status, once begin_writing has set a storage_ref.
HasContent(m) == m.op = "finalize" /\ m.artifact \in hasRef

\* A request reaches an idle server.  Opening the file truncates it.
Accept(s, m) ==
    /\ m \in calls
    /\ serving[s] = Idle
    /\ calls' = calls \ {m}
    /\ serving' = [serving EXCEPT ![s] = [Idle EXCEPT
                    !.request = m, !.step = IF HasContent(m) THEN "write" ELSE "read"]]
    /\ content' = IF HasContent(m) THEN [content EXCEPT ![m.artifact] = "partial"]
                                   ELSE content
    /\ UNCHANGED <<row, hasRef, owner, events, edges, client, provenance, answers,
                   uploading, links, faults, lost>>

\* Answer m and be idle again.
Reply(s, m, ok, a) ==
    /\ serving' = [serving EXCEPT ![s] = Idle]
    /\ answers' = IF m.op # "link" /\ m = Waiting(m.by, client[m.by])
                    THEN answers \cup {[call |-> m, ok |-> ok, artifact |-> a]}
                    ELSE answers

\* The file is written in full, or cannot be (a full disk: 500).
WriteContent(s) ==
    LET m == serving[s].request
    IN  /\ serving[s].step = "write"
        /\ \/ /\ content' = [content EXCEPT ![m.artifact] = "whole"]
              /\ serving' = [serving EXCEPT ![s].step = "read"]
              /\ UNCHANGED <<answers, faults>>
           \/ /\ HardFaults
              /\ Fault
              /\ Reply(s, m, FALSE, NoOne)
              /\ UNCHANGED content
        /\ UNCHANGED <<row, hasRef, owner, events, edges, client, provenance, calls,
                       uploading, links, lost>>

\* The transaction reads the rows it decides by, without a lock.
Read(s) ==
    LET r == serving[s]
        m == r.request
        about == m.op \in {"begin", "finalize", "fail"}
    IN  /\ r.step = "read"
        /\ serving' = [serving EXCEPT ![s] = [r EXCEPT
                 !.step = "commit",
                 !.seen = IF about THEN row[m.artifact] ELSE r.seen,
                 !.graph = IF m.op = "link" THEN edges ELSE r.graph]]
        /\ UNCHANGED <<stored, client, provenance, calls, answers, uploading, links, faults, lost>>

\* Mutant: the index on agent_invocation_id is not unique.
AnyOwner(i) == TRUE

\* The unique index on agent_invocation_id.
FreeOwner(i) == \A a \in Artifacts : owner[a] # i

\* register_artifact: the artifact, its provenance and its event in one
\* transaction.  An alias is refused (400), a second artifact of the
\* invocation by the index (409).
CommitRegister(s) ==
    LET m == serving[s].request
        valid == provenance[m.by] # "alias" /\ FreeOwner(m.by)
    IN  /\ serving[s].step = "commit" /\ m.op = "register"
        /\ \/ /\ valid
              /\ \E a \in Artifacts :
                    /\ row[a] = "none" /\ a \notin uploading
                    /\ row' = [row EXCEPT ![a] = "pending"]
                    /\ owner' = [owner EXCEPT ![a] = m.by]
                    /\ events' = [events EXCEPT ![a] = {"pending"}]
                    /\ Reply(s, m, TRUE, a)
           \/ /\ ~valid
              /\ Reply(s, m, FALSE, NoOne)
              /\ UNCHANGED <<row, owner, events>>
        /\ UNCHANGED <<hasRef, content, edges, client, provenance, calls, uploading, links,
                       faults, lost>>

\* The status an endpoint moves to.
Target(op) == CASE op = "begin" -> "writing" [] op = "finalize" -> "ready" [] OTHER -> "failed"

\* Mutant: finalize does not look at the status.
FinalizeAnyway(m, seen) == m.op = "finalize" \/ <<seen, Target(m.op)>> \in Transitions

\* begin_writing, finalize and fail of Artifact: the transition must be
\* allowed, and finalize wants a complete provenance.
Allowed(m, seen) ==
    /\ <<seen, Target(m.op)>> \in Transitions
    /\ m.op = "finalize" => provenance[m.by] = "complete"

\* begin_writing, finalize_artifact and fail_artifact: the row is upserted
\* with what was read and changed, and the event is in the same transaction.
CommitTransition(s) ==
    LET m == serving[s].request
        a == m.artifact
        seen == serving[s].seen
    IN  /\ serving[s].step = "commit" /\ m.op \in {"begin", "finalize", "fail"}
        /\ \/ /\ Allowed(m, seen)
              /\ row' = [row EXCEPT ![a] = Target(m.op)]
              /\ hasRef' = IF seen = "pending" /\ m.op = "fail" THEN hasRef \ {a}
                                                               ELSE hasRef \cup {a}
              /\ events' = [events EXCEPT ![a] = @ \cup {Target(m.op)}]
              /\ Reply(s, m, TRUE, a)
           \/ /\ ~Allowed(m, seen)
              /\ Reply(s, m, FALSE, NoOne)
              /\ UNCHANGED <<row, hasRef, events>>
        /\ UNCHANGED <<owner, content, edges, client, provenance, calls, uploading, links,
                       faults, lost>>

\* What the search from artifact a visits before its queue is empty: the
\* least set that holds a and, with an artifact, its parents.  An edge leads
\* from a child to its parent.
Ancestors(a, graph) == {x \in Artifacts :
    \A C \in SUBSET Artifacts :
        a \in C /\ (\A e \in graph : e[1] \in C => e[2] \in C) => x \in C}

\* Mutant: the search starts at the child.
SearchesDown(child, parent, graph) == parent \in Ancestors(child, graph)

\* detect_cycle: is child parent itself, or an ancestor of it?
DetectCycle(child, parent, graph) == child \in Ancestors(parent, graph)

\* record_lineage_edge: self-loops, cycles and repeated edges are refused.
CommitLink(s) ==
    LET m == serving[s].request
    IN  /\ serving[s].step = "commit" /\ m.op = "link"
        /\ edges' = IF DetectCycle(m.child, m.parent, serving[s].graph) THEN edges
                                              ELSE edges \cup {<<m.child, m.parent>>}
        /\ Reply(s, m, TRUE, NoOne)
        /\ UNCHANGED <<row, hasRef, owner, content, events, client, provenance, calls,
                       uploading, links, faults, lost>>

\* A server dies: what it handled is rolled back and not answered.  A file
\* stays as it is.
ServerDies(s) ==
    /\ HardFaults
    /\ serving[s] # Idle
    /\ Fault
    /\ LoseCall
    /\ serving' = [serving EXCEPT ![s] = Idle]
    /\ UNCHANGED <<stored, client, provenance, calls, answers, uploading, links>>

-----------------------------------------------------------------------------
(* Uploads *)

\* upload_artifact writes the file first ...
UploadContent(a) ==
    /\ row[a] = "none" /\ a \notin uploading /\ content[a] = "none"
    /\ content' = [content EXCEPT ![a] = "whole"]
    /\ uploading' = uploading \cup {a}
    /\ UNCHANGED <<row, hasRef, owner, events, edges, client, provenance, calls, serving,
                   answers, links, faults, lost>>

\* ... and then, in one transaction, the row as it is in the end and the
\* three events.
UploadCommit(a) ==
    /\ a \in uploading
    /\ uploading' = uploading \ {a}
    /\ row' = [row EXCEPT ![a] = "ready"]
    /\ hasRef' = hasRef \cup {a}
    /\ events' = [events EXCEPT ![a] = {"pending", "writing", "ready"}]
    /\ UNCHANGED <<owner, content, edges, client, provenance, calls, serving, answers,
                   links, faults, lost>>

\* The process dies in between: the file stays.
UploadDies(a) ==
    /\ HardFaults
    /\ a \in uploading
    /\ Fault
    /\ uploading' = uploading \ {a}
    /\ UNCHANGED <<stored, client, provenance, calls, serving, answers, links, lost>>

-----------------------------------------------------------------------------
ClientNext(i) == StartCreation(i) \/ Receive(i) \/ GiveUpWaiting(i)

Serve(s) ==
    \/ \E m \in calls : Accept(s, m)
    \/ WriteContent(s)
    \/ Read(s)
    \/ CommitRegister(s)
    \/ CommitTransition(s)
    \/ CommitLink(s)

Next ==
    \/ \E i \in Invocations : ClientNext(i)
    \/ \E child, parent \in Artifacts : AskLink(child, parent)
    \/ \E s \in Servers : Serve(s) \/ ServerDies(s)
    \/ \E a \in Artifacts : UploadContent(a) \/ UploadCommit(a) \/ UploadDies(a)

Spec == Init /\ [][Next]_vars

\* Servers take requests and finish them; a client reads its answer, or its
\* timeout expires.
Fairness ==
    /\ \A i \in Invocations : WF_vars(Receive(i)) /\ WF_vars(GiveUpWaiting(i))
    /\ \A s \in Servers : WF_vars(Serve(s))

FairSpec == Spec /\ Fairness

-----------------------------------------------------------------------------
(* Properties *)

\* An invocation has at most one artifact, although the runtime registers
\* again whenever a registration is not answered.
OneArtifactPerInvocation ==
    \A a, b \in Artifacts : owner[a] # NoOne /\ owner[a] = owner[b] => a = b

\* The outbox tells how each artifact ended, and never both endings: the
\* event of a refused or repeated call is not written.
EndIsAnnounced == \A a \in Artifacts :
    events[a] \cap Terminal = {row[a]} \cap Terminal

\* The runtime reports an artifact id only of an artifact that is ready, and
\* stays ready.
ReportedArtifactIsReady == \A i \in Invocations :
    client[i].phase = "created" => row[client[i].artifact] = "ready"

\* The invocations that report artifact a.
Reporters(a) == {i \in Invocations : client[i].phase = "created" /\ client[i].artifact = a}

\* How an artifact ends is a decision: of repeated, late and contradicting
\* calls one decides, its event is the only one that tells an end, and the
\* artifact is reported by one invocation at most, once it is ready.
Ending == INSTANCE Decision
            WITH Subjects <- Artifacts,
                 Outcomes <- Terminal,
                 Open     <- "open",
                 Acting   <- {"ready"},
                 outcome  <- [a \in Artifacts |-> IF row[a] \in Terminal THEN row[a] ELSE "open"],
                 told     <- [a \in Artifacts |-> Cardinality(events[a] \cap Terminal)],
                 acted    <- [a \in Artifacts |-> Cardinality(Reporters(a))]

EndIsDecision == Ending!Spec

\* An artifact becomes ready only once its file is whole on disk, although
\* files are not part of any transaction, writes fail and servers die.
ReadyAfterContent ==
    [][\A a \in Artifacts : row'[a] = "ready" /\ row[a] # "ready" => content[a] = "whole"]_row

\* The artifacts can be numbered so that a child always comes after its
\* parents.
IsAcyclic(graph) ==
    \E rank \in [Artifacts -> 1..Cardinality(Artifacts)] :
        \A e \in graph : rank[e[1]] > rank[e[2]]

\* No artifact is its own ancestor, whatever edges are asked for at a time:
\* each is checked against what was read before, and inserted later.
LineageIsAcyclic == IsAcyclic(edges)

\* An artifact whose id reached the runtime ends: the runtime completes it or
\* asks to fail it, whatever is refused, late or lost before, and that ends it
\* unless a call is lost from then on.
KnownArtifactEnds == \A i \in Invocations :
    LET ended == client[i].artifact # NoOne /\ row[client[i].artifact] \in Terminal
        failing == \E m \in calls : m.op = "fail" /\ m.by = i
    IN  /\ client[i].phase \in {"begin", "finalize"} ~> ended \/ failing
        /\ \A n \in 0..MaxLost : failing /\ lost = n ~> ended \/ lost > n

\* Violated: an artifact whose registration was not answered stays pending.
\* The retry is refused as a duplicate and the runtime never learns its id.
RegisteredArtifactEnds == \A a \in Artifacts : row[a] = "pending" ~> row[a] \in Terminal

\* Violated with HardFaults: a repeated finalize writes the file of a ready
\* artifact again before it is refused, and may leave it truncated.
BeingWritten(a) == \E s \in Servers :
    serving[s].step = "write" /\ serving[s].request.artifact = a

ReadyContentIsWhole == \A a \in Artifacts :
    row[a] = "ready" => content[a] = "whole" \/ BeingWritten(a)

\* Violated when a server dies during an upload: a file no row refers to.
StoredContentHasItsRow == \A a \in Artifacts :
    content[a] # "none" => row[a] # "none" \/ a \in uploading
=============================================================================
