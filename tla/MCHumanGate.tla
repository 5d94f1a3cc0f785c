----------------------------- MODULE MCHumanGate -----------------------------
(***************************************************************************)
(* Instances of HumanGate for TLC.                                         *)
(***************************************************************************)
EXTENDS HumanGate, TLC

=============================================================================
