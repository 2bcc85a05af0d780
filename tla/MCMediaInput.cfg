SPECIFICATION FairSpec
CONSTANTS
    Stream = {s1}
    Conn = {c1}
    Token = {t1}
    MaxQueue = 2
    MaxWorkers = 1
    MaxProc = 1
    InWait = 2
    Kinds = {"HttpFlv"}
    Requests = {"HttpFlv"}
    Devices = {s1}
    MayRefuse = TRUE
INVARIANTS
    InputCovered
PROPERTIES
    SilenceReleases
    PlayAnswered
CHECK_DEADLOCK FALSE
