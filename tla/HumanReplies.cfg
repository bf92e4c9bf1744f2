SPECIFICATION Spec
CONSTANTS
    a = a  b = b  c = c  d = d
    A = A  B = B  C = C  D = D
    Agents = {a, b}
    Chains = {c, d}
    Tasks = {A, B, C, D}
    TaskOf <- MCTaskOf
    MaxAsks = 3
    MaxRestarts = 1
INVARIANTS
    OneHolder
    ChainServed
\* Asks are bounded.
CHECK_DEADLOCK FALSE
