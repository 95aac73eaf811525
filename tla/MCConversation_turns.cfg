SPECIFICATION FairConvSpec
CONSTANTS
    prov = prov
    m1 = m1
    host = host
    inside = inside
    outside = outside
    Ids = {i1, i2}
    Calls <- MCRequests
    Profiles = {operator}
    AnyProfile = AnyProfile
    NoUse = NoUse
    Engagements = {e1}
    NoEngagement = NoEngagement
    Providers = {prov}
    Models = {m1}
    Prompts <- MCPrompts
    NotText = NotText
    Names = {host}
    Addresses = {inside, outside}
    PublicAddresses = {outside}
    Manifests <- MCManifests
    CloudProfiles = {operator}
    Unrestricted = Unrestricted
    Malformed = Malformed
    Clearances <- MCClearances
    NoId = NoId
    Callers = {c1}
    MaxCalls = 2
    ToolResults = {found}
    MaxTurns = 2
INVARIANTS ConvTypeOK IntentBeforeWire EverySendWasApproved PromptsStayWithPeers SendsAreAccounted
PROPERTY RunsEnd
CHECK_DEADLOCK FALSE
