CONSTANTS
    Crtc = {1, 2}
    Size <- OneSize
    Dark = Dark
    NumConnectors = 2
    Encoders <- PinnedEncoders
    ModeLists <- OneMode
    InitialMode <- FHD
    MinMode <- NoMin
    BootRoute <- PinnedRoute
    Flaky = {}
    OtherNodes = {}
    MaxQueue = 1
    NumPlanes = 1
    PlaneMasks <- OwnPlanes
SPECIFICATION VSpec
PROPERTY PathAccepted
\* The process may end: a crash stops everything.
CHECK_DEADLOCK FALSE
