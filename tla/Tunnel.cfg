\* Both kinds of provider, with and without late output of killed children.
SPECIFICATION Spec
CONSTANTS
    c1 = c1
    c2 = c2
    c3 = c3
    Children = {c1, c2, c3}
    None = None
    MaxEnsuring = 2
INVARIANTS
    TypeOK
    InHand
    DownIsFinal
    StatusHolds
PROPERTIES
    StepsHold
    Settles
