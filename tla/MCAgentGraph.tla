---------------------------- MODULE MCAgentGraph ----------------------------
(* A small instance of AgentGraph for TLC. *)
EXTENDS AgentGraph, TLC
=============================================================================
