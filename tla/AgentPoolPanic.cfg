SPECIFICATION Spec
CONSTANTS
    Ids = {x}
    Callers = {c1, c2}
    MaxGen = 3
INVARIANT
    NeverPanics
CHECK_DEADLOCK FALSE
