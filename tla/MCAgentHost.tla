---------------------------- MODULE MCAgentHost -----------------------------
(* AgentHost on small instances. *)
EXTENDS AgentHost, TLC

RolesByKind == [s \in Sessions |-> IF s \in Orchestrators THEN "orchestrator" ELSE "worker"]
=============================================================================
