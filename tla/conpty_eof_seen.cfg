SPECIFICATION ConSpec
CONSTANTS
    u1 = u1
    Async = TRUE
    Users = {u1}
    FarEnds = {TRUE}
    EventCreated = TRUE
    MaxSpawns = 2
    MaxUnits = 0
    MaxNudges = 1
    MaxCancels = 0
    ConsoleAllocated = TRUE
PROPERTY EofCallSeesTheEnd
\* A read(true) before any spawn waits for ever, by design.
CHECK_DEADLOCK FALSE
