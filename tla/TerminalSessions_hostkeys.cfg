CONSTANTS
    s1 = s1
    s2 = s2
    k1 = k1
    k2 = k2
    Servers = {s1}
    Keys = {k1, k2}
    Kinds = {{k1}, {k2}}
    None = None
    AcceptNew = TRUE
    MaxStarts = 1
    MaxRetired = 2
    MaxEvents = 1

SPECIFICATION Spec

INVARIANTS
    TypeOK
    CredentialsToConfirmed

PROPERTIES
    ReplacedKeyIsKept

CHECK_DEADLOCK FALSE
