\* Is the URL shown always that of the running child?
SPECIFICATION SafeSpec
CONSTANTS
    c1 = c1
    c2 = c2
    Children = {c1, c2}
    None = None
    MaxEnsuring = 1
SYMMETRY ChildSymmetry
INVARIANT ConnectedIsLive
