SPECIFICATION FairDaemonSpec
CONSTANTS
    notify = notify
    gated = gated
    root = root
    other = other
    Ids = {i1, i2}
    Calls <- MCRequests
    Profiles = {observer, emergency}
    AnyProfile = AnyProfile
    NoUse = NoUse
    Connections = {c1, c2}
    Capabilities = {notify, gated, root, other}
    Arguments = {a1}
    Declared <- MCDeclared
    Powerful = {emergency}
    Emergency = emergency
    PoolSize = 1
    NoId = NoId
INVARIANTS DaemonTypeOK RepliesAreTrue RunsAreApproved
PROPERTIES AnsweredIsNotStarted EveryRequestIsAnswered
