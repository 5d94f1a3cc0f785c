------------------------------ MODULE MCWorkspace ------------------------------
(***************************************************************************)
(* Instances of Workspace for TLC.                                         *)
(***************************************************************************)
EXTENDS Workspace, TLC

\* An allow rule for members of any role, alone and beside a deny rule.
SomeRules == {{<<"allow", "workspace:manage_members">>},
              {<<"allow", "workspace:manage_members">>,
               <<"deny", "workspace:manage_members">>}}

Symmetry == Permutations(Workspaces) \cup Permutations(Users) \cup Permutations(Requests)
=============================================================================
