---------------------------- MODULE MCAgentGraph ----------------------------
(* AgentGraph on a small instance: replies hold up to two calls. *)
EXTENDS AgentGraph, TLC

CONSTANTS a1, a2
=============================================================================
