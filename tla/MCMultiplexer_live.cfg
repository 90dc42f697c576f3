\* A good and a bad path, closed and asked for again, and a reload; every
\* goroutine is fair.
SPECIFICATION FairSpec
CONSTANTS
    c1 = c1
    c2 = c2
    p1 = p1
    p2 = p2
    Conn = {c1}
    Path = {p1, p2}
    BadPath = {p2}
    MaxSubs = 1
    BufSize = 1
    MaxSpawn = 1
    MaxBundle = 2
    Compaction = TRUE
CHECK_DEADLOCK FALSE
INVARIANT
    IInv
PROPERTIES
    DepartedConnectionIsCleanedUp
    CancelledWatchReturns
    ServedWatchReopens
