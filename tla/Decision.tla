------------------------------- MODULE Decision -------------------------------
(***************************************************************************)
(* What a service promises of an outcome that others rely on: how an       *)
(* artifact ended, what the reviewers said of a tool call.  The outcome is *)
(* decided once and stays; it is announced once, by the transaction that   *)
(* decides it; and it is acted upon once at most, after the decision and   *)
(* only when the outcome calls for it.                                     *)
(***************************************************************************)
EXTENDS Naturals

CONSTANTS Subjects,   \* what is decided on
          Outcomes,   \* the ways it may be decided
          Open,       \* not decided yet
          Acting      \* the outcomes to act upon

VARIABLES outcome,    \* [Subjects -> its outcome, or Open]
          told,       \* [Subjects -> how often its outcome was announced]
          acted       \* [Subjects -> how often it was acted upon]

decisionVars == <<outcome, told, acted>>

Init ==
    /\ outcome = [x \in Subjects |-> Open]
    /\ told = [x \in Subjects |-> 0]
    /\ acted = [x \in Subjects |-> 0]

Decide(x, v) ==
    /\ outcome[x] = Open
    /\ outcome' = [outcome EXCEPT ![x] = v]
    /\ told' = [told EXCEPT ![x] = 1]
    /\ UNCHANGED acted

Act(x) ==
    /\ outcome[x] \in Acting
    /\ acted[x] = 0
    /\ acted' = [acted EXCEPT ![x] = 1]
    /\ UNCHANGED <<outcome, told>>

Next == \E x \in Subjects : Act(x) \/ \E v \in Outcomes : Decide(x, v)

Spec == Init /\ [][Next]_decisionVars
=============================================================================
