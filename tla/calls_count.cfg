SPECIFICATION Spec
CONSTANTS
    u1 = u1
    u2 = u2
    Users = {u1, u2}
    Modes = {TRUE, FALSE}
    Codes = {0}
    MaxSpawns = 1
    MaxCalls = 1
    MaxChunks = 1
    MaxCancels = 0
    Capacity = 1
INVARIANT
    CountIsWritten
