-------------------------- MODULE MCPolicyEditing --------------------------
(* The instance of PolicyEditing that TLC checks. *)
EXTENDS PolicyEditing, TLC

Symmetry == Permutations(Tabs)
=============================================================================
