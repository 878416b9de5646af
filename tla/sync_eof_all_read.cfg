SPECIFICATION Spec
CONSTANTS
    u1 = u1
    u2 = u2
    Async = FALSE
    Users = {u1, u2}
    FarEnds = {FALSE}
    EventCreated = TRUE
    MaxSpawns = 1
    MaxUnits = 1
    MaxNudges = 1
    MaxCancels = 1
INVARIANT EofVerdictMeansAllRead
\* A read(true) before any spawn waits for ever, by design.
CHECK_DEADLOCK FALSE
