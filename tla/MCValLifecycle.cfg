CONSTANTS
    Card = {"vc4", "v3d", "usb"}
    Enumerations <- Orders
    Kms = {"vc4", "usb"}
    Dumb = {"vc4", "usb"}
    NoCard = NoCard
    UWord = 4
    Unusable = Unusable
    DefaultMax <- Max
    DefaultMin <- Min
    DefaultPlanes = {"MAIN"}
    PlaneName = {"MAIN", "SUB"}
    Files <- SomeFiles
    NoFile = NoFile
    MaxInit = 3
SPECIFICATION Spec
INVARIANTS
    TypeOK
    TickSafe
    ProperIsSafe
    OnlyOtherCardThrows
    MaximumHonoured
\* The process may end, and callers may stop calling.
CHECK_DEADLOCK FALSE
