---------------------------- MODULE MCAgentLoop ----------------------------
(* AgentLoop on small instances: two messages, one reply with two calls.     *)
EXTENDS AgentLoop
=============================================================================
