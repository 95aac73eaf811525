---------------------------- MODULE MCEgressGate ----------------------------
(* Small instances of EgressGate: one provider that is a cloud provider, a *)
(* local one that declares its own name and an address, or one whose       *)
(* manifest does not parse; scope files that say each of the things the    *)
(* gate tells apart; and a name that resolves to on-box and public         *)
(* addresses, or to none.                                                  *)
EXTENDS EgressGate, TLC

CONSTANTS prov, m1, host, inside, outside

CallerSymmetry == Permutations(Callers)

Cloud   == [egress |-> "cloud", key |-> TRUE, models |-> {m1}, host |-> host,
            peers |-> {}]
Keyless == [Cloud EXCEPT !.key = FALSE]
Named   == [egress |-> "local", key |-> FALSE, models |-> {}, host |-> host,
            peers |-> {inside, host}]

MCManifests == {[p \in {prov} |-> Cloud], [p \in {prov} |-> Named],
                [p \in {} |-> Cloud]}
KeylessOnly == {[p \in {prov} |-> Keyless]}

MCRequests == [provider: Providers, model: Models, prompt: Prompts \cup {NotText}]

Cleared    == [cloud |-> TRUE, providers |-> Unrestricted,
               models |-> Unrestricted]
LocalOnly  == [cloud |-> FALSE, providers |-> {prov}, models |-> {m1}]

MCClearances   == {Cleared, LocalOnly}
OpenOrBroken   == {Cleared, Malformed}
OpenClearances == {Cleared}
=============================================================================
