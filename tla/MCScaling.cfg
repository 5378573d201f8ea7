CONSTANTS
    Crtc = {1}
    Size <- OneSize
    Dark = Dark
    NumConnectors = 1
    Encoders <- OneEncoder
    ModeLists <- OneMode
    InitialMode <- FHD
    MinMode <- NoMin
    BootRoute <- OneRoute
    Flaky = {}
    OtherNodes = {}
    MaxQueue = 1
    NumPlanes = 1
    PlaneMasks <- OnePlane
    Height = {1, 2, 11, 12}
SPECIFICATION SSpec
INVARIANT TrueMeansScaled
\* The process may end: a crash stops everything.
CHECK_DEADLOCK FALSE
