\* Two questions; an answer of two characters and two calls of one tool.
SPECIFICATION FairSpec
CONSTANTS
    MaxRun = 2
    Tool = {pods}
    pods = pods
    MaxData = 2
    MaxWire = 2
CHECK_DEADLOCK FALSE
INVARIANTS
    NothingLost
    OldRunsAreOver
    
    QuestionComesFirst
PROPERTIES
    EndIsFinal
    StreamingEnds
