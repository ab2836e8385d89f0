-------------------------- MODULE MCAgentWorkspace --------------------------
(* Small instances of AgentWorkspace; every bound is in its configuration. *)
EXTENDS AgentWorkspace, TLC

Symmetry == Permutations(Agents)
=============================================================================
