\* One client closes and re-requests a good and a bad path.
SPECIFICATION Spec
CONSTANTS
    c1 = c1
    c2 = c2
    p1 = p1
    p2 = p2
    Conn = {c1}
    Path = {p1, p2}
    BadPath = {p2}
    MaxSubs = 2
    BufSize = 1
    MaxSpawn = 2
    MaxBundle = 1
    Compaction = TRUE
CHECK_DEADLOCK FALSE
INVARIANTS
    RegisteredIsServedOrRefused
    AtMostOneLateFrame
PROPERTY
    ImplementsRegistry
