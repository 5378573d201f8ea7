CONSTANTS
    Crtc = {1}
    Size <- RangeSize
    Dark = Dark
    NumConnectors = 1
    Encoders <- RangeEncoders
    ModeLists <- PreferredFirst
    InitialMode <- FHD
    MinMode <- NoMin
    BootRoute <- RangeRoute
    Flaky = {}
    OtherNodes = {}
    MaxQueue = 1
    NumPlanes = 1
    PlaneMasks <- RangePlanes
SPECIFICATION VSpec
INVARIANT OffersUnique
\* The process may end: a crash stops everything.
CHECK_DEADLOCK FALSE
