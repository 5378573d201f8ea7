CONSTANTS
    Word = 128
    Width <- Widths
    Height <- Heights
    Padding = {0, 1}
SPECIFICATION Spec
INVARIANTS
    PlanesInside
    PlanesApart
