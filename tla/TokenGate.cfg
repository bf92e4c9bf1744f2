SPECIFICATION GateSpec
CONSTANTS
    Requests = {r1, r2}
    Logouts = {l1, l2}
    Enabled = TRUE
    MaxFaults = 2
INVARIANTS RevokedRefused
\* every request and every logout has been answered
CHECK_DEADLOCK FALSE
