SPECIFICATION ConvSpec
CONSTANTS
    prov = prov
    m1 = m1
    host = host
    inside = inside
    outside = outside
    Ids = {i1}
    Calls <- MCRequests
    Profiles = {operator}
    AnyProfile = AnyProfile
    NoUse = NoUse
    Engagements = {e1}
    NoEngagement = NoEngagement
    Providers = {prov}
    Models = {m1}
    Prompts <- MCPrompts
    NotText = NotText
    Names = {host}
    Addresses = {inside, outside}
    PublicAddresses = {outside}
    Manifests <- MCManifests
    CloudProfiles = {operator}
    Unrestricted = Unrestricted
    Malformed = Malformed
    Clearances <- MCClearances
    NoId = NoId
    Callers = {c1}
    MaxCalls = 2
    ToolResults = {found}
    MaxTurns = 2
INVARIANT CompletedMeansFinished
CHECK_DEADLOCK FALSE
