CONSTANTS
    c1 = c1
    Clients = {c1}
    MaxVersion = 2
    Packaged = Packaged
    None = None
SPECIFICATION SafeSpec
PROPERTY RefetchesOnlyStale
