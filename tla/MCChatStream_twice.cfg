\* One question, a stop while its answer is finished and stored.
SPECIFICATION Spec
CONSTANTS
    MaxRun = 1
    Tool = {pods}
    pods = pods
    MaxData = 2
    MaxWire = 2
CHECK_DEADLOCK FALSE
INVARIANTS
    AtMostOneAnswer
