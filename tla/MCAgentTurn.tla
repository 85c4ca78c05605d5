---------------------------- MODULE MCAgentTurn ----------------------------
(* Model-checking instance of AgentTurn. *)
EXTENDS AgentTurn, TLC

\* The two agents are treated alike.
Symmetry == Permutations(Agents)
=============================================================================
