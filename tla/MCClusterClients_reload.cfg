\* Two requests probe the API version across two overlapping reloads; the second
\* of three kubeconfigs cannot be parsed.
SPECIFICATION FairSpec
CONSTANTS
    g1 = g1
    g2 = g2
    y1 = y1
    r1 = r1
    r2 = r2
    YamlReq = {y1}
    GatewayReq = {g1, g2}
    Reload = {r1, r2}
    MaxWrite = 3
    BadConfig = {2}
    RedisFails = TRUE
    WriteAtBoot = FALSE
CHECK_DEADLOCK FALSE

    
PROPERTIES
    ProbesOnlyUnknown
    
    ReloadEnds
