CONSTANTS
    r1 = r1
    Requests = {r1}
    MaxVersion = 1
    PageSize = 1
    Capacity = 1
    RefuseFrom = 1
    MaxCrashes = 0
SPECIFICATION SafeSpec
INVARIANT PendingOnlyUnloaded
