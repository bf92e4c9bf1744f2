SPECIFICATION Spec
CONSTANTS
    Questions = {"q1", "q2"}
    MaxIterations = 4
    MaxRedirects = 3
    MaxAttempts = 2
    MaxRuns = 3
    MaxFaults = 2
INVARIANTS ReviewedWork SuspendedResumable
PROPERTIES RunEnds
\* the task ends
CHECK_DEADLOCK FALSE
