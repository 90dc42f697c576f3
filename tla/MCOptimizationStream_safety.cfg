\* Two presses of Generate, answers of two characters.
SPECIFICATION FairSpec
CONSTANTS
    MaxRun = 2
    MaxText = 2
    MaxWire = 2
CHECK_DEADLOCK FALSE
INVARIANTS
    AnswerIsWhole
    StopReachesTheRun
    NoErrorMeansComplete
PROPERTIES
    StreamingEnds
    LeavesNothingBehind
