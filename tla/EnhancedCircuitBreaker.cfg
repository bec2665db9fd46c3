SPECIFICATION FairSpec
CONSTANTS
    Callers = {c1, c2}
    NoCaller = NoCaller
    HalfOpenMax = 1
    MaxCount = 2
PROPERTIES
    FailureIsRecorded
CHECK_DEADLOCK FALSE
