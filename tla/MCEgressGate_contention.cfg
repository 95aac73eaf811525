SPECIFICATION GateSpec
CONSTANTS
    prov = prov
    m1 = m1
    host = host
    inside = inside
    outside = outside
    Ids = {i1}
    Calls <- MCRequests
    Profiles = {operator, observer}
    AnyProfile = AnyProfile
    NoUse = NoUse
    Engagements = {e1}
    NoEngagement = NoEngagement
    Providers = {prov}
    Models = {m1}
    Prompts = {d1, d2}
    NotText = NotText
    Names = {host}
    Addresses = {outside}
    PublicAddresses = {outside}
    Manifests <- KeylessOnly
    CloudProfiles = {operator}
    Unrestricted = Unrestricted
    Malformed = Malformed
    Clearances <- OpenOrBroken
    NoId = NoId
    Callers = {c1, c2}
    MaxCalls = 1
INVARIANT CloudIsApproved
SYMMETRY CallerSymmetry
