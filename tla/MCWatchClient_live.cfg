\* Every task and continuation is fair; three connections are lost.
SPECIFICATION FairSpec
CONSTANTS
    h1 = h1
    h2 = h2
    h3 = h3
    pods = pods
    nodes = nodes
    Hook = {h1, h2, h3}
    KeyOf <- Watches
    MaxBackoff = 1
    MaxSocket = 4
    CloseHandshake = FALSE
CHECK_DEADLOCK FALSE
INVARIANTS
    SingleSocket
PROPERTIES
    MountedIsRequested
