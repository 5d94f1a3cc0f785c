--------------------------- MODULE MCEventPipeline ---------------------------
(***************************************************************************)
(* Instances of EventPipeline for TLC.  Two events of one transaction have *)
(* the same occurred_at; the last event is another publisher's.            *)
(***************************************************************************)
EXTENDS EventPipeline, TLC

CONSTANTS q1, q2

TwoPublishers == q1 :> {1, 2} @@ q2 :> {3}
OnePublisher  == q1 :> Events
InOrder       == [e \in Events |-> e]
FirstTwoTie   == [e \in Events |-> IF e < 3 THEN 1 ELSE 2]
=============================================================================
