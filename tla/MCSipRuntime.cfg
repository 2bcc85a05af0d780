SPECIFICATION MCSpec
CONSTANTS
    Op = {o1}
    Assoc = {a1}
    Lookup = {l1, l2}
    Device = {d1, d2}
    Rows = {"absent", "disabled", "unchecked", "blank", "password"}
    Kinds = {"message", "dialog", "invite", "subscribe", "refresh"}
    MaxCommands = 1
    MaxBatch = 2
    MaxConn = 2
    MaxEvents = 1
INVARIANTS
    FinalAnswerEndsWait
    IdsFollowConnections
    CallerHasWaiter
    NoForeignCredential
PROPERTIES
    OpenConnectionKeepsId
    WaitersCollected
    LookupsAnswered
CHECK_DEADLOCK FALSE
