CONSTANTS
    Crtc = {1, 2, 3}
    Size <- OneSize
    Dark = Dark
    NumConnectors = 2
    Encoders <- SharedEncoders
    ModeLists <- OneMode
    InitialMode <- FHD
    MinMode <- NoMin
    BootRoute <- SharedRoute
    Flaky = {}
    OtherNodes = {}
    MaxQueue = 1
    NumPlanes = 2
    PlaneMasks <- SharedPlanes
SPECIFICATION VSpec
INVARIANTS
    TypeOK
    VTypeOK
    NoSteal
    SinkCurrent
    TwiceOnlyIfShared
PROPERTY OthersKept
\* The process may end: a crash stops everything.
CHECK_DEADLOCK FALSE
