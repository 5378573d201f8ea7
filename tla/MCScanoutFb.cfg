CONSTANTS
    Crtc = {c1, c2}
    Addr = {a1, a2, a3}
    Handle = {h1, h2, h3}
    FbId = {f1, f2, f3}
    Size = {hd, fhd}
    Null = Null
SPECIFICATION Spec
INVARIANTS
    NoOrphans
    ScanoutOwned
    Exclusive
PROPERTY ImplementsScanout
\* After "undefined" the model says nothing more of the process.
CHECK_DEADLOCK FALSE
