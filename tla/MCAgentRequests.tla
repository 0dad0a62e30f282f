-------------------------- MODULE MCAgentRequests --------------------------
(* Small instances of AgentRequests.                                       *)
EXTENDS AgentRequests

AllKinds == {"start_fix", "run_scan", "other"}
ScansAndFixes == {"start_fix", "run_scan"}
ScansOnly == {"run_scan"}
=============================================================================
