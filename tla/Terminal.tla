------------------------------- MODULE Terminal --------------------------------
(***************************************************************************)
(* Terminal sessions of the execution-service.                             *)
(*                                                                         *)
(* A user's page opens the session of a run, types commands into it and    *)
(* closes it.  A session is bound to a sandbox and a command runs in the   *)
(* sandbox's container while its request waits.  Sessions are opened on    *)
(* the event loop of a server process, one at a time; commands run on      *)
(* threads, which look at the tables in one transaction, run the command   *)
(* with no transaction open, and store its end in a second one.            *)
(***************************************************************************)
EXTENDS Naturals, FiniteSets, FiniteSetsExt

CONSTANTS Sandboxes,    \* sandboxes of the runs
          Runs,         \* runs that have a terminal
          Users,        \* users of the workspace, each with a page
          Sessions,     \* ids create_session may draw
          Commands,     \* commands the users type, each a request of its own
          Servers,      \* processes of the execution-service
          None,         \* no value
          MaxCrashes    \* bound: processes that die and stores that fail

ASSUME CrashBound == MaxCrashes \in Nat

VARIABLES
    sandbox,    \* [Sandboxes -> state, as far as a terminal can tell]
    session,    \* [Sessions -> row of terminal_sessions, or None]
    command,    \* [Commands -> row of terminal_commands, or None]
    announced,  \* command_executed events: the command, and if it has an exit code
    page,       \* [Users -> the session the user's page works with, or None]
    opening,    \* [Servers -> a create_session between its read and its commit]
    request,    \* [Commands -> the request of the command]
    crashes

vars == <<sandbox, session, command, announced, page, opening, request, crashes>>

\* READY or IDLE is open; EXECUTING still has its container; gone has none.
SandboxStates == {"open", "executing", "gone"}

Outcomes == {"completed", "failed", "timed_out"}

\* waiting: looked and allowed; stored: its row is committed; run: the backend
\* has answered, with the outcome; the last three are ends of a request.
Stages == {"untyped", "sent", "waiting", "stored", "running", "run",
           "answered", "refused", "dead"}

SessionRow == [sandbox : Sandboxes, run : Runs, user : Users, status : {"active", "closed"}]
Opening == [id : Sessions, sandbox : Sandboxes, run : Runs, user : Users]
CommandRow == [session : Sessions, status : Outcomes \cup {"running"}]
Request == [stage : Stages, user : Users \cup {None}, session : Sessions \cup {None},
            server : Servers \cup {None}, outcome : Outcomes \cup {None}]

ASSUME NoneAssumption == None \notin Users \cup Sessions \cup SessionRow \cup CommandRow \cup Opening

\* The tables terminal_sessions and terminal_commands, and what the pages show.
SessionRows == [Sessions -> SessionRow \cup {None}]
CommandRows == [Commands -> CommandRow \cup {None}]
Pages       == [Users -> Sessions \cup {None}]

TypeOK ==
    /\ sandbox \in [Sandboxes -> SandboxStates]
    /\ session \in SessionRows
    /\ command \in CommandRows
    /\ announced \subseteq (Commands \X BOOLEAN)
    /\ page \in Pages
    /\ opening \in [Servers -> Opening \cup {None}]
    /\ request \in [Commands -> Request]
    /\ crashes \in 0..MaxCrashes

Untyped == [stage |-> "untyped", user |-> None, session |-> None,
            server |-> None, outcome |-> None]

Init ==
    /\ sandbox = [b \in Sandboxes |-> "open"]
    /\ session = [s \in Sessions |-> None]
    /\ command = [c \in Commands |-> None]
    /\ announced = {}
    /\ page = [u \in Users |-> None]
    /\ opening = [p \in Servers |-> None]
    /\ request = [c \in Commands |-> Untyped]
    /\ crashes = 0

At(c, stage) == request[c].stage = stage

Advance(c, stage) == request' = [request EXCEPT ![c].stage = stage]

-----------------------------------------------------------------------------
(* The sandbox, as the terminal sees it *)

\* An agent's tool call begins or ends in the sandbox.
SandboxTurns(b) ==
    /\ sandbox[b] # "gone"
    /\ sandbox' = [sandbox EXCEPT ![b] = IF @ = "open" THEN "executing" ELSE "open"]
    /\ UNCHANGED <<session, command, announced, page, opening, request, crashes>>

\* terminate_sandbox: neither the session nor its commands are told.
SandboxEnds(b) ==
    /\ sandbox[b] # "gone"
    /\ sandbox' = [sandbox EXCEPT ![b] = "gone"]
    /\ UNCHANGED <<session, command, announced, page, opening, request, crashes>>

-----------------------------------------------------------------------------
(* Sessions *)

ActiveIn(r) == {s \in Sessions : session[s] # None /\ session[s].run = r
                                 /\ session[s].status = "active"}

\* get_active_by_run: whoever opened it, and whatever its sandbox.
ActiveSession(r) == ActiveIn(r)

\* create_session: the sandbox is looked at, then the run's active session;
\* if there is one it is the answer.
FindSession(p, u, b, r) ==
    /\ opening[p] = None
    /\ sandbox[b] = "open"
    /\ \E s \in ActiveSession(r) : page' = [page EXCEPT ![u] = s]
    /\ UNCHANGED <<sandbox, session, command, announced, opening, request, crashes>>

\* create_session, when the run has no active session: the new one is about
\* to be saved.  The event loop does nothing else until it is.
OpenSession(p, u, b, r, s) ==
    /\ opening[p] = None
    /\ sandbox[b] = "open"
    /\ ActiveSession(r) = {}
    /\ session[s] = None
    /\ \A q \in Servers : opening[q] # None => opening[q].id # s
    /\ opening' = [opening EXCEPT ![p] = [id |-> s, sandbox |-> b, run |-> r, user |-> u]]
    /\ UNCHANGED <<sandbox, session, command, announced, page, request, crashes>>

CommitSession(p) ==
    /\ opening[p] # None
    /\ LET o == opening[p] IN
        /\ session' = [session EXCEPT ![o.id] =
                [sandbox |-> o.sandbox, run |-> o.run, user |-> o.user, status |-> "active"]]
        /\ page' = [page EXCEPT ![o.user] = o.id]
    /\ opening' = [opening EXCEPT ![p] = None]
    /\ UNCHANGED <<sandbox, command, announced, request, crashes>>

\* The session belongs to the user who asks, or is "not found".
Owns(u, s) == session[s] # None /\ session[s].user = u

\* close_session; a session that is closed already is a 409.
CloseSession(u) ==
    /\ page[u] # None
    /\ Owns(u, page[u])
    /\ session[page[u]].status = "active"
    /\ session' = [session EXCEPT ![page[u]].status = "closed"]
    /\ UNCHANGED <<sandbox, command, announced, page, opening, request, crashes>>

-----------------------------------------------------------------------------
(* Commands *)

\* The page posts a command to its session; a process gives it a thread.
Type(c, u, p) ==
    /\ At(c, "untyped")
    /\ page[u] # None
    /\ request' = [request EXCEPT ![c] =
            [Untyped EXCEPT !.stage = "sent", !.user = u, !.session = page[u], !.server = p]]
    /\ UNCHANGED <<sandbox, session, command, announced, page, opening, crashes>>

\* has_running.
HasRunning(s) == \E c \in Commands : command[c] # None /\ command[c].session = s
                                     /\ command[c].status = "running"

Permitted(c) ==
    LET s == request[c].session
    IN  Owns(request[c].user, s) /\ session[s].status = "active" /\ ~HasRunning(s)

\* execute_command's first transaction reads the session and the commands ...
Look(c) ==
    /\ At(c, "sent")
    /\ Advance(c, IF Permitted(c) THEN "waiting" ELSE "refused")
    /\ UNCHANGED <<sandbox, session, command, announced, page, opening, crashes>>

\* ... and commits the command's row, whatever was committed in between.
Store(c) ==
    /\ At(c, "waiting")
    /\ command' = [command EXCEPT ![c] = [session |-> request[c].session, status |-> "running"]]
    /\ Advance(c, "stored")
    /\ UNCHANGED <<sandbox, session, announced, page, opening, crashes>>

Container(c) == sandbox[session[request[c].session].sandbox] # "gone"

\* exec_in_sandbox looks the container up and hands it the command; without a
\* container the command has failed.
Execute(c) ==
    /\ At(c, "stored")
    /\ request' = [request EXCEPT ![c].stage = IF Container(c) THEN "running" ELSE "run",
                                  ![c].outcome = IF Container(c) THEN None ELSE "failed"]
    /\ UNCHANGED <<sandbox, session, command, announced, page, opening, crashes>>

\* The command exits or its time is up.  In a container that is gone it was
\* killed: an exit code of its own, or an error of the backend.
Exit(c) ==
    /\ At(c, "running")
    /\ \E o \in IF Container(c) THEN {"completed", "timed_out"} ELSE {"completed", "failed"} :
          request' = [request EXCEPT ![c].stage = "run", ![c].outcome = o]
    /\ UNCHANGED <<sandbox, session, command, announced, page, opening, crashes>>

\* Mutant: the event tells of the attempt, not of how it ended.
AnnounceCompleted(c) == announced' = announced \cup {<<c, TRUE>>}

\* terminal_command_executed_event: the exit code, when there is one.
Announce(c) == announced' = announced \cup {<<c, request[c].outcome = "completed">>}

\* mark_completed, mark_failed, mark_timed_out, and the save.
StoreEnd(c) == command' = [command EXCEPT ![c].status = request[c].outcome]

\* The second transaction, and the answer.
Finish(c) ==
    /\ At(c, "run")
    /\ StoreEnd(c)
    /\ Announce(c)
    /\ Advance(c, "answered")
    /\ UNCHANGED <<sandbox, session, page, opening, crashes>>

\* The second transaction does not go through: the request ends in an error.
FinishFails(c) ==
    /\ At(c, "run")
    /\ crashes < MaxCrashes
    /\ crashes' = crashes + 1
    /\ Advance(c, "dead")
    /\ UNCHANGED <<sandbox, session, command, announced, page, opening>>

Under(c) == request[c].stage \in {"sent", "waiting", "stored", "running", "run"}

\* A process dies with its requests.  Nothing looks for what they left.
ServerDies(p) ==
    /\ crashes < MaxCrashes
    /\ crashes' = crashes + 1
    /\ opening' = [opening EXCEPT ![p] = None]
    /\ request' = [c \in Commands |-> IF Under(c) /\ request[c].server = p
                                      THEN [request[c] EXCEPT !.stage = "dead"]
                                      ELSE request[c]]
    /\ UNCHANGED <<sandbox, session, command, announced, page>>

-----------------------------------------------------------------------------
Open(p) ==
    \/ \E u \in Users, b \in Sandboxes, r \in Runs : FindSession(p, u, b, r)
    \/ \E u \in Users, b \in Sandboxes, r \in Runs, s \in Sessions : OpenSession(p, u, b, r, s)

Serve(c) == Look(c) \/ Store(c) \/ Execute(c) \/ Exit(c) \/ Finish(c)

Next ==
    \/ \E b \in Sandboxes : SandboxTurns(b) \/ SandboxEnds(b)
    \/ \E p \in Servers : Open(p) \/ CommitSession(p) \/ ServerDies(p)
    \/ \E u \in Users : CloseSession(u)
    \/ \E c \in Commands, u \in Users, p \in Servers : Type(c, u, p)
    \/ \E c \in Commands : Serve(c) \/ FinishFails(c)

Spec == Init /\ [][Next]_vars

\* A thread goes on, and a command ends: `timeout` is put in front of it.
Fairness ==
    /\ \A c \in Commands : WF_vars(Serve(c))
    /\ \A p \in Servers : WF_vars(CommitSession(p))

FairSpec == Spec /\ Fairness

-----------------------------------------------------------------------------
(* Properties *)

Running(c) == command[c] # None /\ command[c].status = "running"

\* What the timeline is told of a command and what the history shows of it
\* are the same thing: one event for every ended command, with an exit code
\* when it exited, and none for one that has not ended, however its request
\* died.
EventsMatchHistory ==
    announced = {<<c, command[c].status = "completed">> :
                    c \in {d \in Commands : command[d] # None /\ ~Running(d)}}

\* However the pages and the closing interleave, two terminals of one run are
\* the same session.  Violated with two Servers: no index keeps it.
OneActiveSessionPerRun == \A r \in Runs : Cardinality(ActiveIn(r)) <= 1

\* A command that waits for its end is waited for: by a request, or the
\* request has died.  An answer means the end is stored.
RunningIsWaitedFor ==
    \A c \in Commands :
        /\ Running(c) => request[c].stage \in {"stored", "running", "run", "dead"}
        /\ At(c, "answered") => command[c] # None /\ ~Running(c)

\* A command that has been stored as running ends, unless its request dies.
CommandEnds == \A c \in Commands : Running(c) ~> (~Running(c) \/ At(c, "dead"))

-----------------------------------------------------------------------------
(* What the code's comments say and the code does not do *)

\* "Commands are executed one at a time": violated by two threads that both
\* look before either stores.
OneCommandAtATime ==
    \A s \in Sessions : Cardinality({c \in Commands : Running(c) /\ command[c].session = s}) <= 1

\* A session takes commands again once nobody waits for one: violated after a
\* crash, has_running refuses every later command.
SessionHeals ==
    \A s \in Sessions : HasRunning(s) ~> ~HasRunning(s)

\* The session a page was given is one its user may use: violated when another
\* user has opened the run's session.
PageIsUsable == \A u \in Users : page[u] # None => Owns(u, page[u])

\* No command is stored in a closed session: violated by a close between the
\* look and the store.
ClosedTakesNoCommand ==
    [][\A c \in Commands : command[c] = None /\ command'[c] # None
           => session[command'[c].session].status = "active"]_command
=============================================================================
