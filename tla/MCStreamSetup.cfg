SPECIFICATION LaterSpec
SYMMETRY LaterSymmetry
CONSTRAINT Bound
CONSTANTS
    Req = {r1, r2, r3}
    Caller <- MCCaller
    First = r1
    Channel = {c1}
    Modes = {"Live", "Down"}
    Nodes = 2
    MaxSsrc = 2
INVARIANTS
    OneStreamPerChannel
    DeviceMapBacked
    SsrcDistinct
    ViewerAdmitted
CHECK_DEADLOCK FALSE
