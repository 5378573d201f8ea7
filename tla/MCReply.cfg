CONSTANTS
    Crtc = {1}
    Size <- RangeSize
    Dark = Dark
    NumConnectors = 1
    Encoders <- RangeEncoders
    ModeLists <- RangeModes
    InitialMode <- FHD
    MinMode <- NoMin
    BootRoute <- RangeRoute
    Flaky = {1}
    OtherNodes = {}
    MaxQueue = 1
    NumPlanes = 1
    PlaneMasks <- RangePlanes
SPECIFICATION VSpec
PROPERTY FalseMeansFailed
\* The process may end: a crash stops everything.
CHECK_DEADLOCK FALSE
