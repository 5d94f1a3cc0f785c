------------------------------- MODULE EventLog -------------------------------
(***************************************************************************)
(* What the event pipeline promises the services that publish into it      *)
(* (docs/06, 5 and 6): an event enters the log only after the transaction  *)
(* that caused it has committed, it enters it once however often it is     *)
(* delivered, it never leaves it again, and a publisher is told that an    *)
(* event has arrived only when it has.                                     *)
(***************************************************************************)
CONSTANT Events
VARIABLES accepted,   \* events whose transaction has committed
          log,        \* events that have been in the log
          acked       \* events the publisher knows to have arrived

logVars == <<accepted, log, acked>>

Init == accepted = {} /\ log = {} /\ acked = {}

Accept(e) ==
    /\ e \notin accepted
    /\ accepted' = accepted \cup {e}
    /\ UNCHANGED <<log, acked>>

\* A batch arrives; what was there already is a duplicate.
Append(new) ==
    /\ new \subseteq accepted
    /\ log' = log \cup new
    /\ UNCHANGED <<accepted, acked>>

Acknowledge(arrived) ==
    /\ arrived \subseteq log
    /\ acked' = acked \cup arrived
    /\ UNCHANGED <<accepted, log>>

Next ==
    \/ \E e \in Events : Accept(e)
    \/ \E S \in SUBSET Events : Append(S) \/ Acknowledge(S)

Spec == Init /\ [][Next]_logVars
=============================================================================
