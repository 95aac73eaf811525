SPECIFICATION FairReconSpec
CONSTANTS
    Ids = {i1}
    Calls <- MCRequests
    Profiles = {operator, observer}
    AnyProfile = AnyProfile
    NoUse = NoUse
    Servers = {s1}
    Hosts = {h1}
    Scans = {quick}
    Scripted = {quick}
    Tools = {"nmap_scan", "http_headers", "dns_lookup"}
    MaxRedirects = 1
    NoId = NoId
    MaxCalls = 2
PROPERTY SpentUnderItsProfile
