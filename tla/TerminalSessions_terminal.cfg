CONSTANTS
    s1 = s1
    s2 = s2
    k1 = k1
    k2 = k2
    Servers = {s1, s2}
    Keys = {k1}
    Kinds = {{k1}}
    None = None
    AcceptNew = FALSE
    MaxStarts = 2
    MaxRetired = 2
    MaxEvents = 2

SPECIFICATION FairSpec

INVARIANTS
    PageShowsItsOwn

PROPERTIES
    PageIsFreed
    SessionsAreReachable
    CloseEndsSessions

CHECK_DEADLOCK FALSE
