SPECIFICATION Spec
CONSTANTS
    u1 = u1
    u2 = u2
    Async = TRUE
    Users = {u1}
    FarEnds = {TRUE, FALSE}
    EventCreated = TRUE
    MaxSpawns = 2
    MaxUnits = 1
    MaxNudges = 1
    MaxCancels = 0
PROPERTY ReadAfterEndIsError
\* A read(true) before any spawn waits for ever, by design.
CHECK_DEADLOCK FALSE
