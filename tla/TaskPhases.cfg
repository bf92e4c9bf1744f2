SPECIFICATION Spec
CONSTANTS
    Questions = {q1}
    MaxRedirects = 2
    MaxRetries = 1
    MaxObjects = 2
    MaxRestarts = 1
    MaxFaults = 1
    PatchTo = {"cancelled"}
    MaxPatches = 1
INVARIANTS ReviewedWork StoreKeepsUp
PROPERTIES AnswersKept TaskEnds
\* the task ends
CHECK_DEADLOCK FALSE
