SPECIFICATION Spec
CONSTANTS
    claude = claude
    codex = codex
    Agents <- MCAgents
    WithStatus <- MCWithStatus
    NoAgent = NoAgent
    Sessions = {s1}
    MaxTyped = 2
INVARIANTS SetupTypeOK VendorCodeIsConfirmed OutcomesAreAccounted
CHECK_DEADLOCK FALSE
