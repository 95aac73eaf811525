SPECIFICATION Spec
CONSTANTS
    Ids = {i1}
    Calls = {call1, call2}
    Profiles = {p1, p2}
    AnyProfile = AnyProfile
    NoUse = NoUse
    Resolvers = {r1, r2}
    Consumers = {c1, c2}
    Ttl = 1
    MaxClock = 2
SYMMETRY Interchangeable
INVARIANTS TypeOK SingleUse SpentAsAsked ConsumedWasClaimed VerdictsStand
PROPERTIES ImplementsPermit TornStaysDead
