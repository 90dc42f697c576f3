\* Two listeners of one key and one of another; connections are lost, with and
\* without a closing handshake.
SPECIFICATION Spec
CONSTANTS
    h1 = h1
    h2 = h2
    h3 = h3
    pods = pods
    nodes = nodes
    Hook = {h1, h2, h3}
    KeyOf <- Watches
    MaxBackoff = 2
    MaxSocket = 4
    CloseHandshake = TRUE
CHECK_DEADLOCK FALSE
INVARIANTS
    SubscriptionsMatchListeners
    OpenSocketCarriesSubscriptions
    NeverStranded
