SPECIFICATION FairSpec
CONSTANTS
    u1 = u1
    u2 = u2
    Users = {u1, u2}
    Modes = {TRUE, FALSE}
    Codes = {0, 259}
    MaxSpawns = 2
    MaxCalls = 2
    MaxChunks = 2
    MaxCancels = 1
    Capacity = 1
INVARIANTS
    CallsTypeOK
    MessagesUnbroken
    DeliveredIsPrefix
    AnsweredIsDelivered
    SyncCountsAll
    StatusAfterExit
PROPERTIES
    ImplementsInput
    CallsReturn
