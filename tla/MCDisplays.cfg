CONSTANTS
    Crtc = {1, 2}
    Size <- TwoSizes
    Dark = Dark
    NumConnectors = 2
    Encoders <- PinnedEncoders
    ModeLists <- TallFirst
    InitialMode <- FHD
    MinMode <- NoMin
    BootRoute <- PinnedRoute
    Flaky = {2}
    OtherNodes = {"nameless"}
    MaxQueue = 1
    NumPlanes = 0
    PlaneMasks <- OwnPlanes
SPECIFICATION VSpec
INVARIANTS
    CrashCause
    RouteInverse
    DisplayAddressed
PROPERTY ImplementsDisplayControl
\* The process may end: a crash stops everything.
CHECK_DEADLOCK FALSE
