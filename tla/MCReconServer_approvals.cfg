SPECIFICATION ReconSpec
CONSTANTS
    Ids = {i1, i2}
    Calls <- MCRequests
    Profiles = {operator}
    AnyProfile = AnyProfile
    NoUse = NoUse
    Servers = {s1, s2}
    Hosts = {h1}
    Scans = {quick, full}
    Scripted = {}
    Tools = {"nmap_scan"}
    MaxRedirects = 0
    NoId = NoId
    MaxCalls = 1
INVARIANT ScansAreApproved
SYMMETRY ReconSymmetry
