----------------------------- MODULE MCAgentRun -----------------------------
(* An instance of AgentRun. *)
EXTENDS AgentRun
=============================================================================
