---------------------------- MODULE EventPipeline ----------------------------
(***************************************************************************)
(* The way of an event from the transaction that causes it to the browser: *)
(* the transactional outboxes of the publishers (orchestrator, artifact-   *)
(* service), the relays that forward their rows in batches over HTTP, the  *)
(* event store that ingests them, and the SSE streams that poll the store. *)
(*                                                                         *)
(* Events are numbered in the order of (occurred_at, id), the order of     *)
(* every query of the store and of the streams' cursors.  They commit in   *)
(* any order: occurred_at is set before the commit, and publishers do not  *)
(* know of each other.                                                     *)
(*                                                                         *)
(* Several relays may work on one outbox: the background loop of every     *)
(* instance, and the endpoint that triggers a relay.  They take no lock.   *)
(***************************************************************************)
EXTENDS Integers, FiniteSets

CONSTANTS MaxEvents,      \* bound: events published
          Poison,         \* events whose envelope does not parse
          OccurredAt,     \* [Events -> Nat]: occurred_at, and the row's created_at
          Relays,         \* relays of all the publishers
          OutboxOf,       \* [Relays -> SUBSET Events]: the publisher's events
          Streams,        \* SSE connections of clients
          BatchSize,      \* RELAY_BATCH_SIZE
          PollLimit,      \* events per poll of a stream
          MaxAttempts,    \* MAX_RELAY_ATTEMPTS
          MaxFaults,      \* bound: requests, replies and relays that fail
          MaxDrops,       \* bound: SSE connections that drop
          MaxExpired      \* bound: events removed by the store's retention

Events == 1..MaxEvents

ASSUME EventBounds == MaxEvents \in Nat /\ MaxExpired \in Nat
ASSUME FaultBounds == MaxFaults \in Nat /\ MaxDrops \in Nat
ASSUME PoisonAssumption == Poison \subseteq Events
ASSUME SizeAssumption ==
    BatchSize \in Nat /\ PollLimit \in Nat /\ MaxAttempts \in Nat
ASSUME OrderAssumption ==
    /\ OccurredAt \in [Events -> Nat]
    /\ \A e, f \in Events : e < f => OccurredAt[e] =< OccurredAt[f]
ASSUME OutboxAssumption == OutboxOf \in [Relays -> SUBSET Events]

VARIABLES
    outbox,     \* [Events -> "none", "pending", "published" or "deleted"]
    attempts,   \* [Events -> Nat]: the outbox row's attempts
    \* relays
    rpc, batch, tries,
    net,        \* batches on their way to the store, late ones included
    \* event store
    store,      \* the rows of the events table
    expired,    \* the events retention has removed
    late,       \* history: the events stored after a younger one, or again after
                \*   they were removed
    \* streams
    cursor,     \* [Streams -> 0..MaxEvents]: the generator's last_id
    buf,        \* [Streams -> SUBSET Events]: yielded, not yet received
    got,        \* [Streams -> 0..MaxEvents]: the client's Last-Event-ID
    delivered,  \* [Streams -> [Events -> Nat]]: how often the client got it
    faults, drops

rvars  == <<rpc, batch, tries>>
stream == <<cursor, buf, got, delivered>>
vars   == <<outbox, attempts, rvars, net, store, expired, late, stream, faults,
            drops>>

OutboxStatus == {"none", "pending", "published", "deleted"}

\* Where relay_pending_events is; every service with an outbox has its copy.
RelayPc == {"idle", "send", "wait", "apply", "fail"}

\* A request to the ingest endpoint.
Batch == [relay : Relays, events : SUBSET Events]

\* The table events: one row for each event id.
StoredRows == SUBSET Events

\* A cursor is an event, or 0 before the first one: the client's Last-Event-ID,
\* and the last_id of the generator that serves it.
LastEventIds == [Streams -> 0..MaxEvents]
Cursors      == [Streams -> 0..MaxEvents]

TypeOK ==
    /\ outbox \in [Events -> OutboxStatus]
    /\ attempts \in [Events -> Nat]
    /\ rpc \in [Relays -> RelayPc]
    /\ batch \in [Relays -> SUBSET Events]
    /\ tries \in [Relays -> 0..2]
    /\ net \in SUBSET Batch
    /\ store \in StoredRows
    /\ expired \in SUBSET Events
    /\ late \in SUBSET Events
    /\ cursor \in Cursors
    /\ buf \in [Streams -> SUBSET Events]
    /\ got \in LastEventIds
    /\ delivered \in [Streams -> [Events -> Nat]]
    /\ faults \in 0..MaxFaults
    /\ drops \in 0..MaxDrops

Init ==
    /\ outbox = [e \in Events |-> "none"]
    /\ attempts = [e \in Events |-> 0]
    /\ rpc = [q \in Relays |-> "idle"]
    /\ batch = [q \in Relays |-> {}]
    /\ tries = [q \in Relays |-> 0]
    /\ net = {}
    /\ store = {}
    /\ expired = {}
    /\ late = {}
    /\ cursor = [w \in Streams |-> 0]
    /\ buf = [w \in Streams |-> {}]
    /\ got = [w \in Streams |-> 0]
    /\ delivered = [w \in Streams |-> [e \in Events |-> 0]]
    /\ faults = 0
    /\ drops = 0

\* ORDER BY occurred_at, id LIMIT n
First(S, n) == {e \in S : Cardinality({f \in S : f < e}) < n}

(***************************************************************************)
(* Publishers                                                              *)
(***************************************************************************)

\* SqlOutboxWriter.write: the row is committed with the change it reports.  The
\* event got its occurred_at before the commit, so transactions that overlap
\* commit in any order.
Commit(e) ==
    /\ outbox[e] = "none"
    /\ outbox' = [outbox EXCEPT ![e] = "pending"]
    /\ UNCHANGED <<attempts, rvars, net, store, expired, late, stream, faults, drops>>

\* Mutant: rows are deleted by their age alone.
OutboxCleanupAny(e) ==
    /\ outbox[e] \in {"pending", "published"}
    /\ outbox' = [outbox EXCEPT ![e] = "deleted"]
    /\ UNCHANGED <<attempts, rvars, net, store, expired, late, stream, faults, drops>>

\* cleanup_published_outbox: published rows past their retention are deleted.
OutboxCleanup(e) ==
    /\ outbox[e] = "published"
    /\ outbox' = [outbox EXCEPT ![e] = "deleted"]
    /\ UNCHANGED <<attempts, rvars, net, store, expired, late, stream, faults, drops>>

(***************************************************************************)
(* Relays: relay_pending_events                                            *)
(***************************************************************************)


\* The rows of the relay's outbox still to be relayed: unpublished, and not
\* given up.
Unpublished(q) ==
    {e \in OutboxOf[q] : outbox[e] = "pending" /\ attempts[e] < MaxAttempts}

\* ORDER BY created_at LIMIT n: rows of one created_at come in any order.
Oldest(S, n) ==
    {B \in SUBSET S :
        /\ Cardinality(B) = IF Cardinality(S) < n THEN Cardinality(S) ELSE n
        /\ \A e \in B, f \in S \ B : OccurredAt[e] =< OccurredAt[f]}

\* The oldest rows are read, without a lock; no rows, nothing to do.
RelayFetch(q) ==
    /\ rpc[q] = "idle"
    /\ IF Unpublished(q) = {}
         THEN UNCHANGED rvars
         ELSE /\ rpc' = [rpc EXCEPT ![q] = "send"]
              /\ \E rows \in Oldest(Unpublished(q), BatchSize) :
                     batch' = [batch EXCEPT ![q] = rows]
              /\ tries' = [tries EXCEPT ![q] = 0]
    /\ UNCHANGED <<outbox, attempts, net, store, expired, late, stream, faults, drops>>

\* Mutant: an attempt is counted when the batch is sent.
RelaySendCounts(q) ==
    /\ rpc[q] = "send"
    /\ rpc' = [rpc EXCEPT ![q] = "wait"]
    /\ tries' = [tries EXCEPT ![q] = @ + 1]
    /\ net' = net \cup {[relay |-> q, events |-> batch[q]]}
    /\ attempts' = [e \in Events |->
                      IF e \in batch[q] THEN attempts[e] + 1 ELSE attempts[e]]
    /\ UNCHANGED <<outbox, batch, store, expired, late, stream, faults, drops>>

\* _send_batch
RelaySend(q) ==
    /\ rpc[q] = "send"
    /\ rpc' = [rpc EXCEPT ![q] = "wait"]
    /\ tries' = [tries EXCEPT ![q] = @ + 1]
    /\ net' = net \cup {[relay |-> q, events |-> batch[q]]}
    /\ UNCHANGED <<outbox, attempts, batch, store, expired, late, stream, faults, drops>>

\* No answer within RELAY_TIMEOUT: the request may be lost, may have been served
\* or may be served later.  retry_with_backoff tries twice.
RelayTimeout(q) ==
    /\ rpc[q] = "wait" /\ faults < MaxFaults
    /\ faults' = faults + 1
    /\ rpc' = [rpc EXCEPT ![q] = IF tries[q] < 2 THEN "send" ELSE "fail"]
    /\ \/ net' = net
       \/ net' = net \ {[relay |-> q, events |-> batch[q]]}
    /\ UNCHANGED <<outbox, attempts, batch, tries, store, expired, late, stream, drops>>

\* The store answers with an error status and has stored nothing.
Reject(q) ==
    /\ rpc[q] = "wait" /\ faults < MaxFaults
    /\ [relay |-> q, events |-> batch[q]] \in net
    /\ faults' = faults + 1
    /\ rpc' = [rpc EXCEPT ![q] = "fail"]
    /\ net' = net \ {[relay |-> q, events |-> batch[q]]}
    /\ UNCHANGED <<outbox, attempts, batch, tries, store, expired, late, stream, drops>>

\* ingest_batch_endpoint, ingest_event_batch, ingest_batch: one transaction
\* inserts the events that parse, ON CONFLICT DO NOTHING.  The answer reaches
\* the relay if it still waits for this batch.
Ingest(m) ==
    /\ m \in net
    /\ net' = net \ {m}
    /\ store' = store \cup (m.events \ Poison)
    /\ late' = late \cup {e \in m.events \ (Poison \cup store) :
                             \E f \in store \cup expired : f >= e}
    /\ rpc' = [rpc EXCEPT ![m.relay] =
                 IF @ = "wait" /\ batch[m.relay] = m.events THEN "apply" ELSE @]
    /\ UNCHANGED <<outbox, attempts, batch, tries, expired, stream, faults, drops>>

\* The results, one per event: created and duplicate set published_at, error
\* counts an attempt; one commit.  The updates are by id: a row another relay
\* has published, or cleanup has deleted, stays so.
RelayApply(q) ==
    /\ rpc[q] = "apply"
    /\ outbox' = [e \in Events |->
                    IF e \in batch[q] \ Poison /\ outbox[e] = "pending"
                      THEN "published" ELSE outbox[e]]
    /\ attempts' = [e \in Events |->
                      IF e \in batch[q] \cap Poison THEN attempts[e] + 1
                                                    ELSE attempts[e]]
    /\ rpc' = [rpc EXCEPT ![q] = "idle"]
    /\ batch' = [batch EXCEPT ![q] = {}]
    /\ tries' = [tries EXCEPT ![q] = 0]
    /\ UNCHANGED <<net, store, expired, late, stream, faults, drops>>

\* _increment_attempts
RelayFail(q) ==
    /\ rpc[q] = "fail"
    /\ attempts' = [e \in Events |->
                      IF e \in batch[q] THEN attempts[e] + 1 ELSE attempts[e]]
    /\ rpc' = [rpc EXCEPT ![q] = "idle"]
    /\ batch' = [batch EXCEPT ![q] = {}]
    /\ tries' = [tries EXCEPT ![q] = 0]
    /\ UNCHANGED <<outbox, net, store, expired, late, stream, faults, drops>>

\* The relay dies, its database refuses the commit, or the answer is no JSON:
\* the outbox is as it was.
RelayDies(q) ==
    /\ rpc[q] # "idle" /\ faults < MaxFaults
    /\ faults' = faults + 1
    /\ rpc' = [rpc EXCEPT ![q] = "idle"]
    /\ batch' = [batch EXCEPT ![q] = {}]
    /\ tries' = [tries EXCEPT ![q] = 0]
    /\ UNCHANGED <<outbox, attempts, net, store, expired, late, stream, drops>>

(***************************************************************************)
(* The event store's retention and its streams                             *)
(***************************************************************************)

\* cleanup_old_events: the oldest events go.
StoreCleanup(e) ==
    /\ Cardinality(expired) < MaxExpired
    /\ e \in First(store, 1)
    /\ store' = store \ {e}
    /\ expired' = expired \cup {e}
    /\ UNCHANGED <<outbox, attempts, rvars, net, late, stream, faults, drops>>

\* Mutant: the event of the cursor is sent again.
AfterOrAt(c) == {e \in store : e >= c}

\* list_by_workspace: the events after the cursor; none if there is no row any
\* more for the event the cursor names.
After(c) == {e \in store : e > c /\ (c = 0 \/ c \in store)}

\* One round of _workspace_sse_generator (or _run_sse_generator).
StreamPoll(w) ==
    LET new == First(After(cursor[w]), PollLimit) IN
    /\ \E c \in new : /\ \A e \in new : e =< c
                      /\ cursor' = [cursor EXCEPT ![w] = c]
    /\ buf' = [buf EXCEPT ![w] = @ \cup new]
    /\ UNCHANGED <<outbox, attempts, rvars, net, store, expired, late, got,
                   delivered,
                   faults, drops>>

\* The client receives what the generator has yielded, in order.
StreamDeliver(w) ==
    /\ \E e \in First(buf[w], 1) :
         /\ buf' = [buf EXCEPT ![w] = @ \ {e}]
         /\ got' = [got EXCEPT ![w] = e]
         /\ delivered' = [delivered EXCEPT ![w][e] = @ + 1]
    /\ UNCHANGED <<outbox, attempts, rvars, net, store, expired, late, cursor,
                   faults, drops>>

\* Mutant: the server goes on where it was, not where the client is.
StreamContinue(w) ==
    /\ drops < MaxDrops
    /\ drops' = drops + 1
    /\ buf' = [buf EXCEPT ![w] = {}]
    /\ UNCHANGED <<outbox, attempts, rvars, net, store, expired, late, cursor,
                   got, delivered, faults>>

\* The connection drops, with what was on it, and the client reconnects with
\* the Last-Event-ID it has.
StreamReconnect(w) ==
    /\ drops < MaxDrops
    /\ drops' = drops + 1
    /\ buf' = [buf EXCEPT ![w] = {}]
    /\ cursor' = [cursor EXCEPT ![w] = got[w]]
    /\ UNCHANGED <<outbox, attempts, rvars, net, store, expired, late, got,
                   delivered,
                   faults>>

-----------------------------------------------------------------------------
RelayStep(q) == RelayFetch(q) \/ RelaySend(q) \/ RelayApply(q) \/ RelayFail(q)

StreamStep(w) == StreamPoll(w) \/ StreamDeliver(w)

Next ==
    \/ \E e \in Events : Commit(e) \/ OutboxCleanup(e) \/ StoreCleanup(e)
    \/ \E q \in Relays : \/ RelayStep(q) \/ RelayTimeout(q)
                         \/ Reject(q) \/ RelayDies(q)
    \/ \E m \in net : Ingest(m)
    \/ \E w \in Streams : StreamStep(w) \/ StreamReconnect(w)

Spec == Init /\ [][Next]_vars

(***************************************************************************)
(* Fairness: the relay loop runs for ever, a request that is not lost is   *)
(* served, and a stream polls and is read.  Commits and cleanups are not   *)
(* forced.                                                                 *)
(***************************************************************************)
Fairness ==
    /\ \A q \in Relays : WF_vars(RelayStep(q))
    /\ WF_vars(\E m \in net : Ingest(m))
    /\ \A w \in Streams : WF_vars(StreamPoll(w)) /\ WF_vars(StreamDeliver(w))

FairSpec == Spec /\ Fairness

(***************************************************************************)
(* Properties                                                              *)
(***************************************************************************)

\* The pipeline implements the log: its committed, stored and published events
\* are the accepted, logged and acknowledged ones.
Log == INSTANCE EventLog
         WITH accepted <- {e \in Events : outbox[e] # "none"},
              log      <- store \cup expired,
              acked    <- {e \in Events : outbox[e] \in {"published", "deleted"}}

ImplementsLog == Log!Spec

\* An outbox row is published, and so may be deleted, only when the event is in
\* the store: neither a lost answer, a late one, a poisoned neighbour nor a
\* second relay makes the publisher forget an event that has not arrived.
PublishedIsStored ==
    \A e \in Events :
       outbox[e] \in {"published", "deleted"} => e \in store \cup expired

\* A client gets no event twice, whatever connections drop.
DeliveredOnce == \A w \in Streams : \A e \in Events : delivered[w][e] =< 1

\* "Client must send Last-Event-ID to receive missed events" (docs/12, 4.8): a
\* client whose Last-Event-ID has passed a stored event has received it.
NoSkippedEvent ==
    \A w \in Streams : \A e \in store : e =< got[w] => delivered[w][e] > 0

\* A client misses nothing but what came late: whatever batches are lost and
\* repeated, rows given up, events removed and connections dropped, an event
\* that a client's Last-Event-ID has passed without its being received was
\* stored after a younger one.
OnlyLateAreSkipped ==
    \A w \in Streams : \A e \in store \ late : e =< got[w] => delivered[w][e] > 0

\* An attempt counted against an event that parses is a failure of a request or
\* of the store, once for each: relays that work on the same rows without a lock
\* charge them no more often.
OnlyFaultsAreCharged == \A e \in Events \ Poison : attempts[e] =< faults


\* A stored event that is not late reaches every client while it is kept, unless
\* the retention has removed the event the client's stream stands at: then every
\* poll is empty.
StreamCatchesUp ==
    \A w \in Streams : \A e \in Events :
       e \in store \ late ~> \/ delivered[w][e] > 0 \/ e \in expired
                            \/ cursor[w] \in expired
=============================================================================
