SPECIFICATION FairSpec
CONSTANTS
    s1 = s1
    s2 = s2
    t1 = t1
    Servers <- MCServers
    Tools <- MCTools
    NoTool = NoTool
    NoRequest = NoRequest
    MaxRequests = 4
    MaxLines = 2
INVARIANTS McpTypeOK AnswersAreOwn OneOwner NothingLeftBehind
PROPERTY SilenceIsEnded
CHECK_DEADLOCK FALSE
