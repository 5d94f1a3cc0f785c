------------------------- MODULE EventPipeline_proofs -------------------------
(***************************************************************************)
(* Proofs about EventPipeline, for any number of events, relays, streams,  *)
(* batch sizes and bounds: it is well typed, it implements EventLog, and   *)
(* its streams deliver no event twice and skip none but those that came    *)
(* late, and no event is charged an attempt without a fault.               *)
(***************************************************************************)
EXTENDS EventPipeline, FiniteSetTheorems, TLAPS

\* The types of the variables are always expanded.
USE DEF OutboxStatus, RelayPc, Batch, StoredRows, LastEventIds, Cursors

Committed == {e \in Events : outbox[e] # "none"}
Logged    == store \cup expired
Settled   == {e \in Events : outbox[e] \in {"published", "deleted"}}

\* A relay sends a batch at most twice.
TriesInv == \A q \in Relays : rpc[q] = "send" => tries[q] < 2

\* What is on its way to the store has committed, and what a relay is about to
\* publish has arrived.
RelayInv ==
    /\ \A q \in Relays : batch[q] \subseteq Committed
    /\ \A m \in net : m.events \subseteq Committed
    /\ \A q \in Relays : rpc[q] = "apply" => batch[q] \ Poison \subseteq Logged

\* What is yielded and not yet received lies between the client's position and
\* the server's, and what was received before it.
CursorInv ==
    \A w \in Streams :
       /\ got[w] =< cursor[w]
       /\ \A e \in buf[w] : got[w] < e /\ e =< cursor[w]
       /\ \A e \in Events : delivered[w][e] > 0 => e =< got[w]
       /\ \A e \in Events : delivered[w][e] =< 1

-----------------------------------------------------------------------------
\* The initial state is well typed.
LEMMA InitTypeOK == Init => TypeOK
  BY EventBounds, FaultBounds DEF Init, TypeOK, Events

\* A LIMIT query returns rows of its table.
LEMMA FirstSubset ==
  ASSUME NEW S, NEW n
  PROVE  First(S, n) \subseteq S
  BY DEF First

\* A relay reads rows of its own outbox that are to be relayed, or none.
LEMMA FetchReads ==
  ASSUME NEW q \in Relays, RelayFetch(q)
  PROVE  \/ UNCHANGED rvars
         \/ \E B \in SUBSET {e \in Events : outbox[e] = "pending"} :
              /\ rpc' = [rpc EXCEPT ![q] = "send"]
              /\ batch' = [batch EXCEPT ![q] = B]
              /\ tries' = [tries EXCEPT ![q] = 0]
<1>1. Unpublished(q) \subseteq {e \in Events : outbox[e] = "pending"}
  BY OutboxAssumption DEF Unpublished
<1>2. \A B \in Oldest(Unpublished(q), BatchSize) : B \subseteq Unpublished(q)
  BY DEF Oldest
<1>. QED
  BY <1>1, <1>2 DEF RelayFetch

\* Every step of a relay, and of the store for it, preserves the types.
LEMMA RelayTypeOK ==
  ASSUME TypeOK, TriesInv, NEW q \in Relays,
         RelayStep(q) \/ RelayTimeout(q) \/ Reject(q) \/ RelayDies(q)
  PROVE  TypeOK'
<1>1. CASE RelayFetch(q)
  <2>1. UNCHANGED <<outbox, attempts, net, store, expired, late, stream, faults, drops>>
    BY <1>1 DEF RelayFetch
  <2>2. CASE UNCHANGED rvars
    BY <2>1, <2>2 DEF TypeOK, rvars, stream
  <2>3. ASSUME NEW B \in SUBSET {e \in Events : outbox[e] = "pending"},
               rpc' = [rpc EXCEPT ![q] = "send"],
               batch' = [batch EXCEPT ![q] = B],
               tries' = [tries EXCEPT ![q] = 0]
        PROVE  TypeOK'
    <3>. /\ rpc' \in [Relays -> {"idle", "send", "wait", "apply", "fail"}]
         /\ batch' \in [Relays -> SUBSET Events]
         /\ tries' \in [Relays -> 0..2]
      BY <2>3 DEF TypeOK
    <3>. QED
      BY <2>1 DEF TypeOK, stream
  <2>. QED
    BY <1>1, <2>2, <2>3, FetchReads
<1>2. CASE RelaySend(q)
  <2>1. tries[q] \in 0..2 /\ batch[q] \in SUBSET Events
    BY DEF TypeOK
  <2>2. net' \in SUBSET [relay : Relays, events : SUBSET Events]
    BY <1>2, <2>1 DEF RelaySend, TypeOK
  <2>3. tries[q] # 2
    BY <1>2 DEF RelaySend, TriesInv
  <2>. QED
    BY <1>2, <2>1, <2>2, <2>3 DEF RelaySend, TypeOK, stream
<1>3. CASE RelayTimeout(q)
  BY <1>3, FaultBounds DEF RelayTimeout, TypeOK, stream
<1>4. CASE Reject(q)
  BY <1>4, FaultBounds DEF Reject, TypeOK, stream
<1>5. CASE RelayApply(q)
  BY <1>5 DEF RelayApply, TypeOK, stream
<1>6. CASE RelayFail(q)
  BY <1>6 DEF RelayFail, TypeOK, stream
<1>7. CASE RelayDies(q)
  BY <1>7, FaultBounds DEF RelayDies, TypeOK, stream
<1>. QED
  BY <1>1, <1>2, <1>3, <1>4, <1>5, <1>6, <1>7 DEF RelayStep

\* So do commits, cleanups, ingestion and the streams.
LEMMA OtherTypeOK ==
  ASSUME TypeOK,
         \/ \E e \in Events : Commit(e) \/ OutboxCleanup(e) \/ StoreCleanup(e)
         \/ \E m \in net : Ingest(m)
         \/ \E w \in Streams : StreamStep(w) \/ StreamReconnect(w)
         \/ UNCHANGED vars
  PROVE  TypeOK'
<1>1. CASE \E e \in Events : Commit(e) \/ OutboxCleanup(e) \/ StoreCleanup(e)
  BY <1>1 DEF Commit, OutboxCleanup, StoreCleanup, TypeOK, rvars, stream
<1>2. CASE \E m \in net : Ingest(m)
  BY <1>2 DEF Ingest, TypeOK, stream
<1>3. ASSUME NEW w \in Streams, StreamPoll(w) PROVE TypeOK'
  <2>1. First(After(cursor[w]), PollLimit) \in SUBSET Events
    BY FirstSubset DEF After, TypeOK
  <2>2. cursor' \in [Streams -> 0..MaxEvents]
    BY <1>3, <2>1, EventBounds DEF StreamPoll, TypeOK, Events
  <2>3. buf' \in [Streams -> SUBSET Events]
    BY <1>3, <2>1 DEF StreamPoll, TypeOK
  <2>. QED
    BY <1>3, <2>2, <2>3 DEF StreamPoll, TypeOK, rvars
<1>4. ASSUME NEW w \in Streams, StreamDeliver(w) PROVE TypeOK'
  <2>1. PICK e \in First(buf[w], 1) :
          /\ buf' = [buf EXCEPT ![w] = @ \ {e}]
          /\ got' = [got EXCEPT ![w] = e]
          /\ delivered' = [delivered EXCEPT ![w][e] = @ + 1]
    BY <1>4 DEF StreamDeliver
  <2>2. e \in Events /\ e \in 0..MaxEvents
    BY FirstSubset, EventBounds DEF TypeOK, Events
  <2>3. /\ buf' \in [Streams -> SUBSET Events]
        /\ got' \in [Streams -> 0..MaxEvents]
    BY <2>1, <2>2 DEF TypeOK
  <2>4. delivered' \in [Streams -> [Events -> Nat]]
    BY <2>1, <2>2 DEF TypeOK
  <2>. QED
    BY <1>4, <2>3, <2>4 DEF StreamDeliver, TypeOK, rvars
<1>5. ASSUME NEW w \in Streams, StreamReconnect(w) PROVE TypeOK'
  BY <1>5, FaultBounds DEF StreamReconnect, TypeOK, rvars
<1>6. CASE UNCHANGED vars
  BY <1>6 DEF TypeOK, vars, rvars, stream
<1>. QED
  BY <1>1, <1>2, <1>3, <1>4, <1>5, <1>6 DEF StreamStep

\* A relay that sends has tries left.
LEMMA NextTries == TypeOK /\ TriesInv /\ [Next]_vars => TriesInv'
<1>. SUFFICES ASSUME TypeOK, TriesInv, [Next]_vars PROVE TriesInv'
  OBVIOUS
<1>. USE DEF TypeOK, TriesInv
<1>1. ASSUME NEW q \in Relays, RelayFetch(q) PROVE TriesInv'
  BY <1>1 DEF RelayFetch, rvars
<1>2. ASSUME NEW q \in Relays,
             \/ RelaySend(q) \/ RelayTimeout(q) \/ Reject(q)
             \/ RelayApply(q) \/ RelayFail(q) \/ RelayDies(q)
      PROVE  TriesInv'
  BY <1>2 DEF RelaySend, RelayTimeout, Reject, RelayApply, RelayFail, RelayDies
<1>3. CASE \E m \in net : Ingest(m)
  BY <1>3 DEF Ingest
<1>4. CASE \/ \E e \in Events : Commit(e) \/ OutboxCleanup(e) \/ StoreCleanup(e)
           \/ \E w \in Streams : StreamStep(w) \/ StreamReconnect(w)
           \/ UNCHANGED vars
  BY <1>4 DEF Commit, OutboxCleanup, StoreCleanup, StreamStep, StreamPoll,
              StreamDeliver, StreamReconnect, rvars, vars
<1>. QED
  BY <1>1, <1>2, <1>3, <1>4 DEF Next, RelayStep

\* Every step preserves the types.
LEMMA NextTypeOK == TypeOK /\ TriesInv /\ [Next]_vars => TypeOK'
  BY RelayTypeOK, OtherTypeOK DEF Next

\* Every reachable state of the pipeline is well typed; in particular a batch is
\* sent at most twice.
THEOREM PipelineTypes == Spec => [](TypeOK /\ TriesInv)
<1>1. Init => TriesInv
  BY DEF Init, TriesInv
<1>. QED
  BY <1>1, InitTypeOK, NextTypeOK, NextTries, PTL DEF Spec

(***************************************************************************)
(* The pipeline implements the log                                         *)
(***************************************************************************)

\* No step but Commit, Ingest and RelayApply changes what the log sees.
LEMMA LogFrame ==
  ASSUME TypeOK, [Next]_vars
  PROVE  \/ \E e \in Events : Commit(e)
         \/ \E m \in net : Ingest(m)
         \/ \E q \in Relays : RelayApply(q)
         \/ Committed' = Committed /\ Logged' = Logged /\ Settled' = Settled
<1>. USE DEF Committed, Logged, Settled, TypeOK
<1>1. ASSUME NEW e \in Events, OutboxCleanup(e)
      PROVE  Committed' = Committed /\ Logged' = Logged /\ Settled' = Settled
  <2>1. outbox[e] = "published"
    BY <1>1 DEF OutboxCleanup
  <2>. QED
    BY <1>1, <2>1 DEF OutboxCleanup
<1>2. ASSUME NEW e \in Events, StoreCleanup(e)
      PROVE  Committed' = Committed /\ Logged' = Logged /\ Settled' = Settled
  <2>1. e \in store
    BY <1>2 DEF StoreCleanup, First
  <2>. QED
    BY <1>2, <2>1 DEF StoreCleanup
<1>3. CASE \/ \E q \in Relays : RelayFetch(q) \/ RelaySend(q) \/ RelayTimeout(q)
           \/ \E q \in Relays : Reject(q) \/ RelayFail(q) \/ RelayDies(q)
           \/ UNCHANGED vars
  BY <1>3 DEF RelayFetch, RelaySend, RelayTimeout, Reject, RelayFail, RelayDies, vars
<1>4. CASE \E w \in Streams : StreamStep(w) \/ StreamReconnect(w)
  BY <1>4 DEF StreamStep, StreamPoll, StreamDeliver, StreamReconnect
<1>. QED
  BY <1>1, <1>2, <1>3, <1>4 DEF Next, RelayStep

\* What each of the three does to it.
LEMMA LogStep ==
  ASSUME TypeOK, RelayInv
  PROVE  /\ \A e \in Events : Commit(e) =>
              /\ e \notin Committed /\ Committed' = Committed \cup {e}
              /\ Logged' = Logged /\ Settled' = Settled
         /\ \A m \in net : Ingest(m) =>
              /\ m.events \ Poison \subseteq Committed
              /\ Logged' = Logged \cup (m.events \ Poison)
              /\ Committed' = Committed /\ Settled' = Settled
         /\ \A q \in Relays : RelayApply(q) =>
              \E S \in SUBSET Logged :
                 /\ Settled' = Settled \cup S
                 /\ Committed' = Committed /\ Logged' = Logged
<1>. USE DEF Committed, Logged, Settled, TypeOK
<1>1. ASSUME NEW e \in Events, Commit(e)
      PROVE  /\ e \notin Committed /\ Committed' = Committed \cup {e}
             /\ Logged' = Logged /\ Settled' = Settled
  BY <1>1 DEF Commit
<1>2. ASSUME NEW m \in net, Ingest(m)
      PROVE  /\ m.events \ Poison \subseteq Committed
             /\ Logged' = Logged \cup (m.events \ Poison)
             /\ Committed' = Committed /\ Settled' = Settled
  BY <1>2 DEF Ingest, RelayInv
<1>3. ASSUME NEW q \in Relays, RelayApply(q)
      PROVE  \E S \in SUBSET Logged :
                /\ Settled' = Settled \cup S
                /\ Committed' = Committed /\ Logged' = Logged
  <2>. DEFINE S == {e \in batch[q] \ Poison : outbox[e] = "pending"}
  <2>1. S \subseteq Logged
    BY <1>3 DEF RelayApply, RelayInv
  <2>2. Settled' = Settled \cup S
    BY <1>3 DEF RelayApply
  <2>3. Committed' = Committed /\ Logged' = Logged
    BY <1>3 DEF RelayApply
  <2>. QED
    BY <2>1, <2>2, <2>3
<1>. QED
  BY <1>1, <1>2, <1>3

\* Nothing that has committed or arrived is forgotten.
LEMMA LogGrows ==
  ASSUME TypeOK, RelayInv, [Next]_vars
  PROVE  Committed \subseteq Committed' /\ Logged \subseteq Logged'
  BY LogFrame, LogStep

\* Every step preserves RelayInv.
LEMMA NextRelayInv == TypeOK /\ RelayInv /\ [Next]_vars => RelayInv'
<1>. SUFFICES ASSUME TypeOK, RelayInv, [Next]_vars PROVE RelayInv'
  OBVIOUS
<1>. Committed \subseteq Committed' /\ Logged \subseteq Logged'
  BY LogGrows
<1>1. ASSUME NEW q \in Relays, RelayFetch(q) PROVE RelayInv'
  <2>2. net' = net
    BY <1>1 DEF RelayFetch
  <2>3. \A p \in Relays : /\ batch'[p] \subseteq Committed
                          /\ rpc'[p] = "apply" => /\ rpc[p] = "apply"
                                                  /\ batch'[p] = batch[p]
    BY <1>1, FetchReads DEF Committed, RelayInv, TypeOK, rvars
  <2>. QED
    BY <2>2, <2>3 DEF RelayInv
<1>2. ASSUME NEW q \in Relays, RelaySend(q) PROVE RelayInv'
  BY <1>2 DEF RelaySend, RelayInv, TypeOK
<1>3. ASSUME NEW q \in Relays, RelayTimeout(q) \/ Reject(q) PROVE RelayInv'
  BY <1>3 DEF RelayTimeout, Reject, RelayInv, TypeOK
<1>4. ASSUME NEW q \in Relays, RelayApply(q) \/ RelayFail(q) \/ RelayDies(q)
      PROVE  RelayInv'
  <2>1. /\ net' = net
        /\ batch' = [batch EXCEPT ![q] = {}]
        /\ rpc' = [rpc EXCEPT ![q] = "idle"]
    BY <1>4 DEF RelayApply, RelayFail, RelayDies
  <2>. QED
    BY <2>1 DEF RelayInv, TypeOK
<1>5. ASSUME NEW m \in net, Ingest(m) PROVE RelayInv'
  <2>1. /\ net' = net \ {m} /\ batch' = batch
        /\ m.events \ Poison \subseteq Logged'
    BY <1>5 DEF Ingest, Logged
  <2>2. \A p \in Relays : rpc'[p] = "apply" => \/ rpc[p] = "apply"
                                                \/ batch[p] = m.events
    BY <1>5 DEF Ingest, TypeOK
  <2>. QED
    BY <2>1, <2>2 DEF RelayInv
<1>6. CASE \/ \E e \in Events : Commit(e) \/ OutboxCleanup(e) \/ StoreCleanup(e)
           \/ \E w \in Streams : StreamStep(w) \/ StreamReconnect(w)
           \/ UNCHANGED vars
  <2>1. UNCHANGED <<rvars, net>>
    BY <1>6 DEF Commit, OutboxCleanup, StoreCleanup, StreamStep, StreamPoll,
                StreamDeliver, StreamReconnect, vars
  <2>. QED
    BY <2>1 DEF RelayInv, rvars
<1>. QED
  BY <1>1, <1>2, <1>3, <1>4, <1>5, <1>6 DEF Next, RelayStep

\* RelayInv holds in every reachable state.
LEMMA RelayInvariant == Spec => [](TypeOK /\ RelayInv)
<1>1. Init => RelayInv
  BY DEF Init, RelayInv
<1>. QED
  BY <1>1, PipelineTypes, NextRelayInv, PTL DEF Spec

\* An outbox row is published only when its event has arrived.
THEOREM PublishedEvents == Spec => []PublishedIsStored
<1>1. PublishedIsStored <=> Settled \subseteq Logged
  BY DEF PublishedIsStored, Settled, Logged
<1>2. Init => Settled \subseteq Logged
  BY DEF Init, Settled
<1>3. TypeOK /\ RelayInv /\ Settled \subseteq Logged /\ [Next]_vars
        => (Settled \subseteq Logged)'
  BY LogFrame, LogStep, LogGrows
<1>4. Spec => [](Settled \subseteq Logged)
  BY <1>2, <1>3, RelayInvariant, PTL DEF Spec
<1>. QED
  BY <1>1, <1>4, PTL

\* The outbox, the relays and the store implement EventLog.
THEOREM Refinement == Spec => ImplementsLog
<1>. USE DEF Committed, Logged, Settled
<1>1. Init => Log!Init
  BY DEF Init, Log!Init
<1>2. TypeOK /\ RelayInv /\ [Next]_vars => [Log!Next]_Log!logVars
  <2>. SUFFICES ASSUME TypeOK, RelayInv, [Next]_vars
                PROVE  Log!Next \/ UNCHANGED Log!logVars
    OBVIOUS
  <2>1. ASSUME NEW e \in Events, Commit(e) PROVE Log!Accept(e)
    BY <2>1, LogStep DEF Log!Accept
  <2>2. ASSUME NEW m \in net, Ingest(m)
        PROVE  /\ m.events \ Poison \in SUBSET Events
               /\ Log!Append(m.events \ Poison)
    BY <2>2, LogStep DEF Log!Append, TypeOK
  <2>3. ASSUME NEW q \in Relays, RelayApply(q)
        PROVE  \E S \in SUBSET Events : Log!Acknowledge(S)
    BY <2>3, LogStep DEF Log!Acknowledge, TypeOK
  <2>4. CASE Committed' = Committed /\ Logged' = Logged /\ Settled' = Settled
    BY <2>4 DEF Log!logVars
  <2>. QED
    BY <2>1, <2>2, <2>3, <2>4, LogFrame DEF Log!Next
<1>. QED
  BY <1>1, <1>2, RelayInvariant, PTL DEF Spec, ImplementsLog, Log!Spec

(***************************************************************************)
(* Streams deliver no event twice                                          *)
(***************************************************************************)

\* LIMIT 1 returns the first row.
LEMMA FirstOne ==
  ASSUME NEW S \in SUBSET Events, NEW e \in First(S, 1), NEW f \in S
  PROVE  e =< f
<1>. DEFINE before == {g \in S : g < e}
<1>1. e \in S /\ Cardinality(before) < 1
  BY DEF First
<1>2. IsFiniteSet(Events)
  BY FS_Interval, EventBounds DEF Events
<1>3. IsFiniteSet(before)
  <2>1. before \subseteq Events
    OBVIOUS
  <2>. QED
    BY <1>2, <2>1, FS_Subset
<1>4. before = {}
  BY <1>1, <1>3, FS_CardinalityType, FS_EmptySet
<1>. QED
  BY <1>1, <1>4 DEF Events

\* Every step preserves CursorInv.
LEMMA NextCursorInv == TypeOK /\ CursorInv /\ [Next]_vars => CursorInv'
<1>. SUFFICES ASSUME TypeOK, CursorInv, [Next]_vars PROVE CursorInv'
  OBVIOUS
<1>1. ASSUME NEW w \in Streams, StreamPoll(w) PROVE CursorInv'
  <2>. DEFINE new == First(After(cursor[w]), PollLimit)
  <2>1. \A e \in new : e \in Events /\ cursor[w] < e
    BY FirstSubset DEF After, TypeOK, Events
  <2>2. PICK c \in new : /\ \A e \in new : e =< c
                         /\ cursor' = [cursor EXCEPT ![w] = c]
    BY <1>1 DEF StreamPoll
  <2>3. /\ buf' = [buf EXCEPT ![w] = @ \cup new]
        /\ UNCHANGED <<got, delivered>>
    BY <1>1 DEF StreamPoll
  <2>4. ASSUME NEW v \in Streams
        PROVE  /\ got[v] =< cursor'[v]
               /\ \A e \in buf'[v] : got[v] < e /\ e =< cursor'[v]
    <3>1. CASE v # w
      BY <2>2, <2>3, <3>1 DEF CursorInv, TypeOK
    <3>2. CASE v = w
      <4>1. cursor'[w] = c /\ buf'[w] = buf[w] \cup new
        BY <2>2, <2>3 DEF TypeOK
      <4>2. cursor[w] < c /\ c \in Int /\ cursor[w] \in Int /\ got[w] \in Int
        BY <2>1, <2>2 DEF TypeOK, Events
      <4>3. got[w] =< cursor[w]
        BY DEF CursorInv
      <4>4. \A e \in buf[w] : e \in Int /\ got[w] < e /\ e =< cursor[w]
        BY DEF CursorInv, TypeOK, Events
      <4>5. \A e \in new : e \in Int /\ cursor[w] < e /\ e =< c
        BY <2>1, <2>2 DEF Events
      <4>. HIDE DEF new
      <4>6. got[w] =< c
        BY <4>2, <4>3
      <4>7. \A e \in buf[w] : got[w] < e /\ e =< c
        BY <4>2, <4>4
      <4>8. \A e \in new : got[w] < e /\ e =< c
        BY <4>2, <4>3, <4>5
      <4>. QED
        BY <3>2, <4>1, <4>6, <4>7, <4>8
    <3>. QED
      BY <3>1, <3>2
  <2>. HIDE DEF new
  <2>. QED
    BY <2>3, <2>4 DEF CursorInv
<1>2. ASSUME NEW w \in Streams, StreamDeliver(w) PROVE CursorInv'
  <2>1. PICK e \in First(buf[w], 1) :
          /\ buf' = [buf EXCEPT ![w] = @ \ {e}]
          /\ got' = [got EXCEPT ![w] = e]
          /\ delivered' = [delivered EXCEPT ![w][e] = @ + 1]
    BY <1>2 DEF StreamDeliver
  <2>2. e \in buf[w] /\ e \in Events /\ buf[w] \in SUBSET Events
    BY FirstSubset DEF TypeOK
  <2>3. \A f \in buf[w] : e =< f
    BY <2>2, FirstOne
  <2>4. got[w] < e /\ e =< cursor[w]
    BY <2>2 DEF CursorInv
  <2>5. cursor' = cursor
    BY <1>2 DEF StreamDeliver
  <2>6. /\ got'[w] = e /\ buf'[w] = buf[w] \ {e}
        /\ delivered'[w] = [delivered[w] EXCEPT ![e] = @ + 1]
        /\ \A v \in Streams \ {w} : /\ got'[v] = got[v] /\ buf'[v] = buf[v]
                                    /\ delivered'[v] = delivered[v]
    BY <2>1 DEF TypeOK
  <2>7. delivered[w] \in [Events -> Nat] /\ got[w] \in Int
    BY DEF TypeOK
  <2>8. delivered[w][e] = 0
    <3>1. ~ delivered[w][e] > 0
      BY <2>2, <2>4, <2>7 DEF CursorInv, Events
    <3>. QED
      BY <2>2, <2>7, <3>1
  <2>9. \A f \in Events : /\ delivered'[w][f] > 0 => f =< e
                          /\ delivered'[w][f] =< 1
    BY <2>2, <2>4, <2>6, <2>7, <2>8 DEF CursorInv, Events
  <2>10. \A f \in buf'[w] : e < f /\ f =< cursor[w]
    BY <2>2, <2>3, <2>6 DEF CursorInv, Events
  <2>11. ASSUME NEW v \in Streams
         PROVE  /\ got'[v] =< cursor'[v]
                /\ \A f \in buf'[v] : got'[v] < f /\ f =< cursor'[v]
                /\ \A f \in Events : delivered'[v][f] > 0 => f =< got'[v]
                /\ \A f \in Events : delivered'[v][f] =< 1
    <3>1. CASE v = w
      BY <2>4, <2>5, <2>6, <2>9, <2>10, <3>1
    <3>2. CASE v # w
      BY <2>5, <2>6, <3>2 DEF CursorInv
    <3>. QED
      BY <3>1, <3>2
  <2>. QED
    BY <2>11 DEF CursorInv
<1>3. ASSUME NEW w \in Streams, StreamReconnect(w) PROVE CursorInv'
  BY <1>3 DEF StreamReconnect, CursorInv, TypeOK
<1>4. CASE UNCHANGED stream
  BY <1>4 DEF stream, CursorInv
<1>5. CASE \/ \E e \in Events : Commit(e) \/ OutboxCleanup(e) \/ StoreCleanup(e)
           \/ \E q \in Relays : \/ RelayStep(q) \/ RelayTimeout(q)
                                \/ Reject(q) \/ RelayDies(q)
           \/ \E m \in net : Ingest(m)
           \/ UNCHANGED vars
  BY <1>4, <1>5 DEF Commit, OutboxCleanup, StoreCleanup, RelayStep, RelayFetch,
                    RelaySend, RelayApply, RelayFail, RelayTimeout, Reject,
                    RelayDies, Ingest, vars
<1>. QED
  BY <1>1, <1>2, <1>3, <1>5 DEF Next, StreamStep

\* Whatever connections drop, and however many events a poll returns, a client
\* receives no event a second time.
THEOREM DeliveredAtMostOnce == Spec => []DeliveredOnce
<1>1. Init => CursorInv
  BY EventBounds DEF Init, CursorInv
<1>2. CursorInv => DeliveredOnce
  BY DEF CursorInv, DeliveredOnce
<1>. QED
  BY <1>1, <1>2, PipelineTypes, NextCursorInv, PTL DEF Spec

(***************************************************************************)
(* Streams skip no event but those that came late                          *)
(***************************************************************************)

\* A cursor names an event that has arrived, and every stored event up to it
\* that did not come late has reached the client or is on its way there.
CatchInv ==
    \A w \in Streams :
       /\ cursor[w] \in Logged \cup {0}
       /\ got[w] \in Logged \cup {0}
       /\ buf[w] \subseteq Logged
       /\ \A e \in store \ late : e =< cursor[w] => delivered[w][e] > 0 \/ e \in buf[w]

\* A LIMIT query returns the first rows, whatever the limit.
LEMMA FirstClosed ==
  ASSUME NEW S \in SUBSET Events, NEW n \in Nat, NEW c \in First(S, n),
         NEW e \in S, e =< c
  PROVE  e \in First(S, n)
<1>. DEFINE Before(x) == {f \in S : f < x}
<1>1. c \in S /\ Cardinality(Before(c)) < n
  BY DEF First
<1>2. IsFiniteSet(Events)
  BY FS_Interval, EventBounds DEF Events
<1>3. IsFiniteSet(Before(c))
  <2>1. Before(c) \subseteq Events
    OBVIOUS
  <2>. QED
    BY <1>2, <2>1, FS_Subset
<1>4. Before(e) \subseteq Before(c)
  <2>1. \A f \in Events : f \in Int
    BY EventBounds DEF Events
  <2>. QED
    BY <1>1, <2>1
<1>5. /\ Cardinality(Before(e)) =< Cardinality(Before(c))
      /\ IsFiniteSet(Before(e))
  BY <1>3, <1>4, FS_Subset
<1>6. Cardinality(Before(e)) \in Nat /\ Cardinality(Before(c)) \in Nat
  BY <1>3, <1>5, FS_CardinalityType
<1>7. Cardinality(Before(e)) < n
  BY <1>1, <1>5, <1>6
<1>. QED
  BY <1>7 DEF First

\* The steps of a stream preserve CatchInv.
LEMMA StreamsCatch ==
  ASSUME TypeOK, CursorInv, CatchInv, NEW w \in Streams, StreamStep(w) \/ StreamReconnect(w)
  PROVE  CatchInv'
<1>1. TypeOK /\ CursorInv /\ CatchInv
  OBVIOUS
<1>2. UNCHANGED <<store, expired, late>>
  BY DEF StreamStep, StreamPoll, StreamDeliver, StreamReconnect
<1>4. \A e \in Events : e \in Int /\ 0 < e
  BY EventBounds DEF Events
<1>5. store \subseteq Events
  BY <1>1 DEF TypeOK
<1>6. \A v \in Streams : cursor[v] \in Int /\ got[v] \in Int
  BY <1>1 DEF TypeOK
<1>7. CASE StreamPoll(w)
  <2>. DEFINE after == After(cursor[w])
              new == First(after, PollLimit)
  <2>1. new \subseteq after /\ after \subseteq store
    BY FirstSubset DEF After
  <2>2. PICK c \in new : /\ \A e \in new : e =< c
                         /\ cursor' = [cursor EXCEPT ![w] = c]
    BY <1>7 DEF StreamPoll
  <2>3. buf' = [buf EXCEPT ![w] = @ \cup new] /\ UNCHANGED <<got, delivered>>
    BY <1>7 DEF StreamPoll
  <2>4. ASSUME NEW e \in store, e =< c, ~ (e =< cursor[w])
        PROVE  e \in new
    <3>1. e \in after
      BY <1>4, <1>5, <1>6, <2>1, <2>4 DEF After
    <3>2. after \in SUBSET Events
      BY <1>5, <2>1
    <3>. QED
      BY <2>4, <3>1, <3>2, FirstClosed, SizeAssumption
  <2>5. /\ cursor'[w] = c /\ buf'[w] = buf[w] \cup new
        /\ \A v \in Streams \ {w} : cursor'[v] = cursor[v] /\ buf'[v] = buf[v]
    BY <1>1, <2>2, <2>3 DEF TypeOK
  <2>6. c \in Logged /\ new \subseteq Logged
    BY <2>1 DEF Logged
  <2>. HIDE DEF new
  <2>. QED
    BY <1>1, <1>2, <2>3, <2>4, <2>5, <2>6 DEF CatchInv, Logged
<1>8. CASE StreamDeliver(w)
  <2>1. PICK e \in First(buf[w], 1) :
          /\ buf' = [buf EXCEPT ![w] = @ \ {e}]
          /\ got' = [got EXCEPT ![w] = e]
          /\ delivered' = [delivered EXCEPT ![w][e] = @ + 1]
    BY <1>8 DEF StreamDeliver
  <2>2. cursor' = cursor
    BY <1>8 DEF StreamDeliver
  <2>3. e \in buf[w] /\ e \in Events /\ e \in Logged
    BY <1>1, FirstSubset DEF TypeOK, CatchInv
  <2>4. /\ got'[w] = e /\ buf'[w] = buf[w] \ {e}
        /\ delivered'[w] = [delivered[w] EXCEPT ![e] = @ + 1]
        /\ \A v \in Streams \ {w} : /\ got'[v] = got[v] /\ buf'[v] = buf[v]
                                    /\ delivered'[v] = delivered[v]
    BY <1>1, <2>1 DEF TypeOK
  <2>5. delivered[w] \in [Events -> Nat]
    BY <1>1 DEF TypeOK
  <2>6. \A f \in Events : /\ delivered'[w][f] >= delivered[w][f]
                          /\ f = e => delivered'[w][f] > 0
    BY <2>3, <2>4, <2>5
  <2>7. \A f \in store \ late : f =< cursor[w] => delivered'[w][f] > 0 \/ f \in buf'[w]
    <3> SUFFICES ASSUME NEW f \in store \ late, f =< cursor[w]
                 PROVE  delivered'[w][f] > 0 \/ f \in buf'[w]
      OBVIOUS
    <3>1. delivered[w][f] > 0 \/ f \in buf[w]
      BY <1>1 DEF CatchInv
    <3>2. f \in Events
      BY <1>5
    <3>3. delivered[w][f] \in Nat /\ delivered'[w][f] \in Nat
      BY <2>3, <2>4, <2>5, <3>2
    <3>. QED
      BY <2>4, <2>6, <3>1, <3>2, <3>3
  <2>. QED
    BY <1>1, <1>2, <2>2, <2>3, <2>4, <2>7 DEF CatchInv, Logged
<1>9. CASE StreamReconnect(w)
  <2>1. /\ buf' = [buf EXCEPT ![w] = {}]
        /\ cursor' = [cursor EXCEPT ![w] = got[w]]
        /\ UNCHANGED <<got, delivered>>
    BY <1>9 DEF StreamReconnect
  <2>2. \A e \in store \ late : e =< got[w] => delivered[w][e] > 0
    <3>. SUFFICES ASSUME NEW e \in store \ late, e =< got[w] PROVE delivered[w][e] > 0
      OBVIOUS
    <3>1. e \in Int /\ got[w] =< cursor[w]
      BY <1>1, <1>4, <1>5 DEF CursorInv
    <3>2. e =< cursor[w] /\ ~ (got[w] < e)
      BY <1>6, <3>1
    <3>. QED
      BY <1>1, <3>2 DEF CatchInv, CursorInv
  <2>3. /\ cursor'[w] = got[w] /\ buf'[w] = {}
        /\ \A v \in Streams \ {w} : cursor'[v] = cursor[v] /\ buf'[v] = buf[v]
    BY <1>1, <2>1 DEF TypeOK
  <2>. QED
    BY <1>1, <1>2, <2>1, <2>2, <2>3 DEF CatchInv, Logged
<1>. QED
  BY <1>7, <1>8, <1>9 DEF StreamStep

\* Every step preserves CatchInv: an event that is stored and not late is
\* younger than all that have arrived, and so than every cursor.
LEMMA NextCatchInv == TypeOK /\ CursorInv /\ CatchInv /\ [Next]_vars => CatchInv'
<1>. SUFFICES ASSUME TypeOK, CursorInv, CatchInv, [Next]_vars PROVE CatchInv'
  OBVIOUS
<1>1. ASSUME NEW m \in net, Ingest(m) PROVE CatchInv'
  <2>1. UNCHANGED <<cursor, buf, got, delivered, expired>>
    BY <1>1 DEF Ingest, stream
  <2>2. Logged \subseteq Logged'
    BY <1>1 DEF Ingest, Logged
  <2>3. ASSUME NEW w \in Streams, NEW e \in store' \ late', e =< cursor[w]
        PROVE  delivered[w][e] > 0 \/ e \in buf[w]
    <3>1. CASE e \in store
      BY <1>1, <2>3, <3>1 DEF Ingest, CatchInv
    <3>2. CASE e \notin store
      <4>1. \A f \in Logged : ~ (f >= e)
        BY <1>1, <2>3, <3>2 DEF Ingest, Logged
      <4>2. e \in Events /\ cursor[w] \in 0..MaxEvents
        BY <1>1, <2>3, <3>2 DEF Ingest, TypeOK, Batch
      <4>3. e \in Int /\ 0 < e /\ cursor[w] \in Int
        BY <4>2, EventBounds DEF Events
      <4>4. cursor[w] \in Logged
        BY <2>3, <4>3 DEF CatchInv
      <4>5. cursor[w] >= e
        BY <2>3, <4>3
      <4>. QED
        BY <4>1, <4>4, <4>5
    <3>. QED
      BY <3>1, <3>2
  <2>. QED
    BY <2>1, <2>2, <2>3 DEF CatchInv
<1>2. ASSUME NEW e \in Events, StoreCleanup(e) PROVE CatchInv'
  <2>1. /\ UNCHANGED <<cursor, buf, got, delivered, late>>
        /\ store' \subseteq store
        /\ Logged \subseteq Logged'
    BY <1>2 DEF StoreCleanup, Logged, stream
  <2>. QED
    BY <2>1 DEF CatchInv
<1>3. CASE UNCHANGED <<store, expired, late, stream>>
  BY <1>3 DEF CatchInv, Logged, stream
<1>4. CASE \/ \E e \in Events : Commit(e) \/ OutboxCleanup(e)
           \/ \E q \in Relays : \/ RelayStep(q) \/ RelayTimeout(q)
                                \/ Reject(q) \/ RelayDies(q)
           \/ UNCHANGED vars
  BY <1>3, <1>4 DEF Commit, OutboxCleanup, RelayStep, RelayFetch, RelaySend,
                    RelayApply, RelayFail, RelayTimeout, Reject, RelayDies, vars
<1>. QED
  BY <1>1, <1>2, <1>4, StreamsCatch DEF Next

\* For any number of relays, streams, faults and reconnects, in whatever order
\* events commit, and whatever is given up or removed: an event that a client's
\* Last-Event-ID has passed and the client has not received was stored after a
\* younger one.
THEOREM SkippedOnlyIfLate == Spec => []OnlyLateAreSkipped
<1>1. Init => CursorInv /\ CatchInv
  BY EventBounds DEF Init, CursorInv, CatchInv
<1>2. TypeOK /\ CursorInv /\ CatchInv => OnlyLateAreSkipped
  <2>. SUFFICES ASSUME TypeOK, CursorInv, CatchInv,
                       NEW w \in Streams, NEW e \in store \ late, e =< got[w]
                PROVE  delivered[w][e] > 0
    BY DEF OnlyLateAreSkipped
  <2>1. e \in Int /\ got[w] \in Int /\ cursor[w] \in Int /\ got[w] =< cursor[w]
    BY EventBounds DEF TypeOK, Events, CursorInv
  <2>2. e =< cursor[w] /\ ~ (got[w] < e)
    BY <2>1
  <2>. QED
    BY <2>2 DEF CatchInv, CursorInv
<1>. QED
  BY <1>1, <1>2, PipelineTypes, NextCursorInv, NextCatchInv, PTL DEF Spec

(***************************************************************************)
(* Attempts                                                                *)
(***************************************************************************)

\* Relays that are about to count an attempt.
Failing == {q \in Relays : rpc[q] = "fail"}

\* Every attempt that is counted, or about to be, of an event that parses is a
\* fault: no relay counts what another has counted.
Counted == \A e \in Events \ Poison : attempts[e] + Cardinality(Failing) =< faults

\* How the failing relays change when one of them moves.
LEMMA FailingMoves ==
  ASSUME TypeOK, IsFiniteSet(Relays), NEW q \in Relays, NEW v \in RelayPc,
         rpc' = [rpc EXCEPT ![q] = v]
  PROVE  /\ Cardinality(Failing) \in Nat /\ Cardinality(Failing)' \in Nat
         /\ Cardinality(Failing)' =< Cardinality(Failing) + 1
         /\ v # "fail" => Cardinality(Failing)' =< Cardinality(Failing)
         /\ v # "fail" /\ rpc[q] = "fail" => Cardinality(Failing)' = Cardinality(Failing) - 1
<1>1. Failing \in SUBSET Relays
  BY DEF Failing
<1>2. IsFiniteSet(Failing)
  BY <1>1, FS_Subset
<1>3. Cardinality(Failing) \in Nat
  BY <1>2, FS_CardinalityType
<1>4. CASE v = "fail"
  <2>1. Failing' = Failing \cup {q}
    BY <1>4 DEF Failing, TypeOK
  <2>2. /\ IsFiniteSet(Failing \cup {q})
        /\ Cardinality(Failing \cup {q}) = IF q \in Failing THEN Cardinality(Failing)
                                                            ELSE Cardinality(Failing) + 1
    BY <1>2, FS_AddElement
  <2>. QED
    BY <1>3, <1>4, <2>1, <2>2
<1>5. CASE v # "fail"
  <2>1. Failing' = Failing \ {q}
    BY <1>5 DEF Failing, TypeOK
  <2>2. /\ IsFiniteSet(Failing \ {q})
        /\ Cardinality(Failing \ {q}) = IF q \in Failing THEN Cardinality(Failing) - 1
                                                         ELSE Cardinality(Failing)
    BY <1>2, FS_RemoveElement
  <2>3. Cardinality(Failing \ {q}) \in Nat
    BY <2>2, FS_CardinalityType
  <2>4. rpc[q] = "fail" => q \in Failing
    BY DEF Failing
  <2>. QED
    BY <1>3, <1>5, <2>1, <2>2, <2>3, <2>4
<1>. QED
  BY <1>4, <1>5

LEMMA NextCounted ==
  ASSUME IsFiniteSet(Relays), TypeOK, Counted, [Next]_vars
  PROVE  Counted'
<1>1. Cardinality(Failing) \in Nat
  <2>1. Failing \in SUBSET Relays
    BY DEF Failing
  <2>. QED
    BY <2>1, FS_Subset, FS_CardinalityType
<1>2. \A e \in Events : attempts[e] \in Nat
  BY DEF TypeOK
<1>3. faults \in Nat
  BY FaultBounds DEF TypeOK
<1>4. ASSUME UNCHANGED <<attempts, faults>>, NEW q \in Relays, NEW v \in RelayPc \ {"fail"},
             rpc' = [rpc EXCEPT ![q] = v]
      PROVE  Counted'
  <2>1. Cardinality(Failing)' \in Nat /\ Cardinality(Failing)' =< Cardinality(Failing)
    BY <1>4, FailingMoves
  <2>. QED
    BY <1>1, <1>2, <1>3, <1>4, <2>1 DEF Counted
<1>5. ASSUME UNCHANGED <<attempts, faults, rpc>> PROVE Counted'
  BY <1>5 DEF Counted, Failing
<1>6. ASSUME UNCHANGED attempts, faults' = faults + 1, NEW q \in Relays, NEW v \in RelayPc,
             rpc' = [rpc EXCEPT ![q] = v]
      PROVE  Counted'
  <2>1. Cardinality(Failing)' \in Nat /\ Cardinality(Failing)' =< Cardinality(Failing) + 1
    BY <1>6, FailingMoves
  <2>. QED
    BY <1>1, <1>2, <1>3, <1>6, <2>1 DEF Counted
<1>7. ASSUME NEW q \in Relays, RelayFetch(q) PROVE Counted'
  BY <1>4, <1>5, <1>7 DEF RelayFetch, rvars
<1>8. ASSUME NEW q \in Relays, RelaySend(q) PROVE Counted'
  BY <1>4, <1>8 DEF RelaySend
<1>9. ASSUME NEW q \in Relays, RelayTimeout(q) \/ Reject(q) PROVE Counted'
  BY <1>6, <1>9 DEF RelayTimeout, Reject
<1>10. ASSUME NEW q \in Relays, RelayApply(q) PROVE Counted'
  <2>1. \A e \in Events \ Poison : attempts'[e] = attempts[e]
    BY <1>10 DEF RelayApply
  <2>2. rpc' = [rpc EXCEPT ![q] = "idle"] /\ UNCHANGED faults
    BY <1>10 DEF RelayApply
  <2>3. Cardinality(Failing)' \in Nat /\ Cardinality(Failing)' =< Cardinality(Failing)
    BY <2>2, FailingMoves
  <2>. QED
    BY <1>1, <1>2, <1>3, <2>1, <2>2, <2>3 DEF Counted
<1>11. ASSUME NEW q \in Relays, RelayFail(q) PROVE Counted'
  <2>1. \A e \in Events : attempts'[e] \in {attempts[e], attempts[e] + 1}
    BY <1>11 DEF RelayFail
  <2>2. rpc[q] = "fail" /\ rpc' = [rpc EXCEPT ![q] = "idle"] /\ UNCHANGED faults
    BY <1>11 DEF RelayFail
  <2>3. Cardinality(Failing)' = Cardinality(Failing) - 1
    BY <2>2, FailingMoves
  <2>. QED
    BY <1>1, <1>2, <1>3, <2>1, <2>2, <2>3 DEF Counted
<1>12. ASSUME NEW q \in Relays, RelayDies(q) PROVE Counted'
  BY <1>6, <1>12 DEF RelayDies
<1>13. CASE \E m \in net : Ingest(m)
  <2>1. PICK m \in net : Ingest(m)
    BY <1>13
  <2>2. Failing' = Failing
    BY <2>1 DEF Ingest, Failing, TypeOK, Batch
  <2>. QED
    BY <2>1, <2>2 DEF Ingest, Counted
<1>14. CASE \/ \E e \in Events : Commit(e) \/ OutboxCleanup(e) \/ StoreCleanup(e)
            \/ \E w \in Streams : StreamStep(w) \/ StreamReconnect(w)
            \/ UNCHANGED vars
  BY <1>5, <1>14 DEF Commit, OutboxCleanup, StoreCleanup, StreamStep, StreamPoll,
                     StreamDeliver, StreamReconnect, rvars, vars
<1>. QED
  BY <1>7, <1>8, <1>9, <1>10, <1>11, <1>12, <1>13, <1>14 DEF Next, RelayStep

\* However many relays share the outbox without a lock, none counts an attempt
\* against an event that parses unless a request, an answer or a relay failed:
\* an event is given up only after MaxAttempts faults.
THEOREM AttemptsAreFaults ==
    IsFiniteSet(Relays) => (Spec => []OnlyFaultsAreCharged)
<1>. SUFFICES ASSUME IsFiniteSet(Relays) PROVE Spec => []OnlyFaultsAreCharged
  OBVIOUS
<1>1. Init => Counted
  <2>. SUFFICES ASSUME Init PROVE Counted
    OBVIOUS
  <2>1. Failing = {}
    BY DEF Init, Failing
  <2>. QED
    BY <2>1, FS_EmptySet DEF Init, Counted
<1>2. TypeOK /\ Counted /\ [Next]_vars => Counted'
  BY NextCounted
<1>3. TypeOK /\ Counted => OnlyFaultsAreCharged
  <2>. SUFFICES ASSUME TypeOK, Counted, NEW e \in Events \ Poison
                PROVE  attempts[e] =< faults
    BY DEF OnlyFaultsAreCharged
  <2>1. Failing \in SUBSET Relays
    BY DEF Failing
  <2>2. Cardinality(Failing) \in Nat
    BY <2>1, FS_Subset, FS_CardinalityType
  <2>3. attempts[e] \in Nat /\ faults \in Nat
    BY FaultBounds DEF TypeOK
  <2>. QED
    BY <2>2, <2>3 DEF Counted
<1>. QED
  BY <1>1, <1>2, <1>3, PipelineTypes, PTL DEF Spec
=============================================================================
