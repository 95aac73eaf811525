--------------------------- MODULE MCConversation ---------------------------
(* A small instance of Conversation: two turns, an on-box and a public     *)
(* address, and a provider that is a cloud or a local one.                 *)
EXTENDS Conversation

CONSTANTS prov, m1, host, inside, outside

Cloud == [egress |-> "cloud", key |-> TRUE, models |-> {m1}, host |-> host,
          peers |-> {}]
Local == [egress |-> "local", key |-> FALSE, models |-> {}, host |-> host,
          peers |-> {host}]

MCManifests == {[p \in {prov} |-> Cloud], [p \in {prov} |-> Local]}

MCPrompts  == UNION {[1..n -> ToolResults] : n \in 0..(MaxTurns - 1)}
MCRequests ==
    [provider: Providers, model: Models, prompt: MCPrompts \cup {NotText}]

MCClearances == {[cloud |-> TRUE, providers |-> Unrestricted,
                  models |-> Unrestricted]}
=============================================================================
