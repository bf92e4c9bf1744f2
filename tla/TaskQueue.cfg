SPECIFICATION Spec
CONSTANTS
    a1 = a1  a2 = a2  b = b  c = c
    A = A  B = B  C = C
    arch = arch  code = code
    NoTask = NoTask
    Tasks <- MCTasks
    Ids <- MCIds
    Roles <- MCRoles
    IdOf <- MCIdOf
    RoleOf <- MCRoleOf
    PriOf <- MCPriOf
    DepsOf <- MCDepsOf
    MaxRetries = 1
    MaxDone = 2
    Flaky = {a1, b}
    MaxCallers = 1
INVARIANTS
    TypeOK
    QueueCoherent
    ExclusiveCustody
    NoLostWakeup
PROPERTIES
    NoSilentLoss
    ImplementsPromise
\* Once the context is cancelled every worker stops.
CHECK_DEADLOCK FALSE
