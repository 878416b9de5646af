SPECIFICATION ConFairSpec
CONSTANTS
    u1 = u1
    Async = TRUE
    Users = {u1}
    FarEnds = {TRUE}
    EventCreated = TRUE
    MaxSpawns = 2
    MaxUnits = 0
    MaxNudges = 1
    MaxCancels = 1
    ConsoleAllocated = TRUE
INVARIANTS
    ConTypeOK
    ClosedOnce
    CleanupOnlyAfterExit
    NoConsoleLeak
    ConsoleOpenWhileServed
    ConReaderOutlivesChild
PROPERTIES
    ConDropEnds
    CleanupThreadEnds
    ClosedAfterExit
\* A read(true) before any spawn waits for ever, by design.
CHECK_DEADLOCK FALSE
