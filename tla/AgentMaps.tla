----------------------------- MODULE AgentMaps ------------------------------
(***************************************************************************)
(* What the parts of the agent that write and read the verdict maps share: *)
(* these maps, and the policies that the policy source may publish.        *)
(***************************************************************************)
EXTENDS Compile

CONSTANT Policies

ASSUME PoliciesAssumption ==
  \A p \in Policies : Len(p.rules) \in Nat /\ Valid(p)

VARIABLE maps
=============================================================================
