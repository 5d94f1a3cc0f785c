---------------------------- MODULE MCOrchestrator ----------------------------
(***************************************************************************)
(* Instances of Orchestrator for TLC.  Workers, sweepers and tasks of the  *)
(* same kind are interchangeable; symmetry is used in the safety runs only.*)
(***************************************************************************)
EXTENDS Orchestrator, TLC

Symmetry == Permutations(Workers) \cup Permutations(Sweepers)
=============================================================================
