CONSTANTS
    p1 = p1
    p2 = p2
    Ptys = {p1, p2}
    Requests = {"Auto", "ConPTY", "WinPTY", "NoBackend"}
    Features = {"ConPTY", "WinPTY"}
SPECIFICATION Spec
CHECK_DEADLOCK FALSE
INVARIANT ConsoleStaysForItsUser
