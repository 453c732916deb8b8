CONSTANTS
    a = a
    b = b
    o1 = o1
    o2 = o2
    o3 = o3
    None = None
    Servers = {a, b}
    Overlap = {a}
    Ops = {o1, o2, o3}

SPECIFICATION Spec

SYMMETRY Symmetry

INVARIANTS
    TypeOK
    BaselineIsInHistory

PROPERTIES
    SettledKeyKeepsReadable
    BaselineOnRequest

CHECK_DEADLOCK FALSE
