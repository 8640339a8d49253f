---------------------------- MODULE MCCopilotActions ----------------------------
(* A tab of one case, two confirmations and a judgment at the same time. *)
EXTENDS CopilotActions

Symmetric == Permutations(Tab) \cup Permutations(Writer)
=============================================================================
