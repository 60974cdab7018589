---------------------------- MODULE MCAgentEvents ----------------------------
(* AgentEvents for TLC: the first events of one window. *)
EXTENDS AgentEvents
=============================================================================
