SPECIFICATION HubSpec
CONSTANTS
    Clients = {c1, c2}
    MaxClients = 1
    SendCap = 1
    BroadcastCap = 1
    MaxEvents = 4
    Stuck = {c2}
INVARIANTS ClosedOnce ClientsCapped
PROPERTIES ClientsLetGo ShutdownEnds
\* every goroutine may have ended
CHECK_DEADLOCK FALSE
