\* The provider's doc comment: a reload is transparent to long-lived
\* subscriptions.  A subscription made before the kubeconfig is loaded
\* stays registered and dead.
SPECIFICATION FairSpec
CONSTANTS
    c1 = c1
    c2 = c2
    p1 = p1
    p2 = p2
    Conn = {c1}
    Path = {p1}
    BadPath = {}
    MaxSubs = 1
    BufSize = 1
    MaxSpawn = 1
    MaxBundle = 1
    Compaction = FALSE
CHECK_DEADLOCK FALSE
PROPERTY
    ReloadIsTransparent
