\* Both kinds of terminal, three keys.
SPECIFICATION FairSpec
CONSTANTS
    MaxKeys = 3
CHECK_DEADLOCK FALSE
INVARIANT
    NothingIsLeft
PROPERTIES
    FramesAreDelivered
    
