------------------------- MODULE MCProviderSettings -------------------------
(* A small instance of ProviderSettings: one provider that takes a key,    *)
(* two layers, and registries that have it, do not, or are broken because  *)
(* its manifest is installed twice.                                        *)
EXTENDS ProviderSettings, TLC

CONSTANT p1

MCLayers == <<"user", "system">>

Manifest(root) == [root |-> root, id |-> p1]
MCManifests == {{Manifest("share")}, {Manifest("share"), Manifest("etc")}}

CommandSymmetry == Permutations(Commands)
=============================================================================
