CONSTANTS
    Crtc = {1}
    Size <- RangeSize
    Dark = Dark
    NumConnectors = 1
    Encoders <- RangeEncoders
    ModeLists <- RangeModes
    InitialMode <- FHD
    MinMode <- RangeMin
    BootRoute <- RangeRoute
    Flaky = {1}
    OtherNodes = {"other"}
    MaxQueue = 1
    NumPlanes = 1
    PlaneMasks <- RangePlanes
SPECIFICATION VSpec
INVARIANTS
    CapOneDimension
    OffersCurrent
    RangeCurrent
PROPERTIES
    CatchUp
    RangeTaken
    MaxFollows
\* The process may end: a crash stops everything.
CHECK_DEADLOCK FALSE
