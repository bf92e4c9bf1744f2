SPECIFICATION Spec
CONSTANTS
    Ids = {x, y}
    Callers = {c1, c2}
    MaxGen = 3
INVARIANTS
    OneSupervisor
    AllRetired
PROPERTIES
    RetiredBeforeGone
    CallsReturn
\* The process may have panicked or have shut down.
CHECK_DEADLOCK FALSE
