SPECIFICATION Spec
CONSTANTS
    p1 = p1
    Commands = {c1, c2}
    Layers <- MCLayers
    Edited = {"system"}
    Manifests <- MCManifests
    Providers = {p1}
    NeedsKey = {p1}
    Secrets = {k1, k2}
    Unusable = Unusable
    Malformed = Malformed
    NoFile = NoFile
    Part = Part
    MaxRuns = 1
INVARIANTS SettingsTypeOK ChoiceIsNeverReplaced
PROPERTY ImplementsStore
SYMMETRY CommandSymmetry
