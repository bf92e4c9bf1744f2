SPECIFICATION Spec
CONSTANTS
    Pipes = {p}
    LegacyCap = 2
    Slots = 2
    MaxRetries = 1
    MaxPatches = 1
    Mixed = FALSE
INVARIANTS
    TypeOK
    ResultEarned
    WaitersExact
PROPERTIES
    OutcomeArrives
    ShutdownEnds
\* After the shutdown nothing is left to do.
CHECK_DEADLOCK FALSE
