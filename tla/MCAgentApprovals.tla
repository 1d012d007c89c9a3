-------------------------- MODULE MCAgentApprovals --------------------------
(* A small instance of AgentApprovals for TLC. *)
EXTENDS AgentApprovals, TLC

Symmetry == Permutations(Chats) \cup Permutations(Resumes)
=============================================================================
