------------------------------ MODULE MCSandbox ------------------------------
(***************************************************************************)
(* The instance of Sandbox for TLC; its liveness property rules symmetry   *)
(* out.                                                                    *)
(***************************************************************************)
EXTENDS Sandbox
=============================================================================
