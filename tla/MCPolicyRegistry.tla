-------------------------- MODULE MCPolicyRegistry --------------------------
(* PolicyRegistry on a small instance for TLC.  Policies and slots are     *)
(* interchangeable, and no property is a liveness property.                *)
EXTENDS PolicyRegistry, TLC

Symmetry == Permutations(Policies) \cup Permutations(Requests)
=============================================================================
