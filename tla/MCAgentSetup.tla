---------------------------- MODULE MCAgentSetup ----------------------------
(* A small instance of AgentSetup: one agent that can be asked about its   *)
(* login and one that cannot.                                              *)
EXTENDS AgentSetup

CONSTANTS claude, codex

MCAgents     == {claude, codex}
MCWithStatus == {codex}
=============================================================================
