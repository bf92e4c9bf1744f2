SPECIFICATION FilesSpec
CONSTANTS
    Skills = {s1, s2, s3}
    Long = {s1, s2}
    Anti = {s2, s3}
    MaxSkills = 2
    Patterns = {p1}
    Entries = {e1, e2, e3}
    MaxEntries = 1
    Readers = {r1}
    MaxCalls = 4
    MaxFaults = 1
    MaxCrashes = 1
    NoFile = NoFile
    Idle = Idle
    Torn = Torn
INVARIANTS DetailsPresent EntriesKept SectionsKept
\* the calls are bounded
CHECK_DEADLOCK FALSE
