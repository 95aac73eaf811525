----------------------------- MODULE MCApproval -----------------------------
(* Small instances of Approval, and the mutants its properties catch.      *)
EXTENDS Approval, TLC

Interchangeable ==
    Permutations(Resolvers) \cup Permutations(Consumers)
        \cup Permutations(Calls) \cup Permutations(Ids)
        \cup Permutations(Profiles)
=============================================================================
