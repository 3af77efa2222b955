--------------------------- MODULE MCAgentSession ---------------------------
(* Small instances of AgentSession. *)
EXTENDS AgentSession, TLC

SessionSymmetry == Permutations(Op) \cup Permutations(Port)
=============================================================================
