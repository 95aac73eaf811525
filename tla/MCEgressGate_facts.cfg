SPECIFICATION GateSpec
CONSTANTS
    prov = prov
    m1 = m1
    host = host
    inside = inside
    outside = outside
    Ids = {i1}
    Calls <- MCRequests
    Profiles = {operator, observer}
    AnyProfile = AnyProfile
    NoUse = NoUse
    Engagements = {e1, e2}
    NoEngagement = NoEngagement
    Providers = {prov}
    Models = {m1}
    Prompts = {d1}
    NotText = NotText
    Names = {host}
    Addresses = {inside, outside}
    PublicAddresses = {outside}
    Manifests <- MCManifests
    CloudProfiles = {operator}
    Unrestricted = Unrestricted
    Malformed = Malformed
    Clearances <- MCClearances
    NoId = NoId
    Callers = {c1}
    MaxCalls = 1
INVARIANTS RefusalSpendsNothing DecisionsAreEvidenced PeersAreVetted
