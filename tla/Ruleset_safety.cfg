CONSTANTS
    c1 = c1
    c2 = c2
    Clients = {c1, c2}
    MaxVersion = 2
    Packaged = Packaged
    None = None
SPECIFICATION SafeSpec
SYMMETRY ClientSymmetry
INVARIANTS
    TypeOK
    HolderIsLive
PROPERTIES
    StoppedIsInert
    NeverRollsBack
