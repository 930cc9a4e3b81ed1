CONSTANTS
    r1 = r1
    r2 = r2
    Requests = {r1, r2}
    MaxVersion = 2
    PageSize = 1
    Capacity = 2
    RefuseFrom = 1
    MaxCrashes = 1
SPECIFICATION Spec
INVARIANTS
    TypeOK
    RecordedOnce
    BacklogDone
PROPERTIES
    BackfillsComplete
