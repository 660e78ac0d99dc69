----------------------------- MODULE MCAgentLoop ------------------------------
(* The agent loop on small instances. *)
EXTENDS AgentLoop, TLC
Symmetry == Permutations(Prompts)
================================================================================
