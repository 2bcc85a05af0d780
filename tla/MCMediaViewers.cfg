SPECIFICATION Spec
CONSTANTS
    Stream = {s1}
    Conn = {c1, c2, c3}
    Token = {t1, t2}
    MaxQueue = 2
    MaxWorkers = 1
    MaxProc = 1
    InWait = 1
    Kinds = {"HttpFlv", "LocalMp4"}
    Requests = {"HttpFlv", "DashMp4"}
    Devices = {}
    MayRefuse = TRUE
INVARIANTS
    CountMatchesTokens
    TokenCoversViewers
    IdleCovered
SYMMETRY Symmetry
CHECK_DEADLOCK FALSE
