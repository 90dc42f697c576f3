\* A Namespace that others change too, and a Pod: visits, one Apply, late answers.
SPECIFICATION Spec
CONSTANTS
    ns = ns
    pod = pod
    None = None
    Target = {ns, pod}
    Forced = {ns}
    Busy = {ns}
    MaxVersion = 1
    MaxNonce = 1
    MaxApply = 1
    MaxOpen = 2
    MaxFail = 1
    MaxFlight = 1
INVARIANTS
    TypeOK
    
    DirtyIsKnown
    OneApplyAtATime
    AppliedIsShown
CHECK_DEADLOCK FALSE
