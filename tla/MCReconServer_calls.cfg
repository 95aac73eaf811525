SPECIFICATION FairReconSpec
CONSTANTS
    Ids = {i1}
    Calls <- MCRequests
    Profiles = {operator}
    AnyProfile = AnyProfile
    NoUse = NoUse
    Servers = {s1}
    Hosts = {h1, h2}
    Scans = {quick, service}
    Scripted = {service}
    Tools = {"nmap_scan", "http_headers", "dns_lookup", "whatweb_scan"}
    MaxRedirects = 2
    NoId = NoId
    MaxCalls = 1
INVARIANTS ReconTypeOK OnlyScopedHosts IntentBeforeTouch LogIsTrue
PROPERTY CallsEnd
