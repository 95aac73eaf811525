---------------------------- MODULE MCAgentDaemon ----------------------------
(* A small instance of AgentDaemon: a capability anyone may use, one that  *)
(* needs an approval, one that needs an approval, the live image and an    *)
(* emergency, and one that is not registered.                              *)
EXTENDS AgentDaemon

CONSTANTS notify, gated, root, other

MCRequests == [cap: Capabilities, args: Arguments]

MCDeclared ==
    [cap \in {notify, gated, root} \cap Capabilities |->
        [privileged |-> cap # notify,
         risk       |-> IF cap = root THEN "high" ELSE "low",
         engagement |-> cap = gated,
         live       |-> cap = root,
         approval   |-> cap \in {gated, root}]]
=============================================================================
