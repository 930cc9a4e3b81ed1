\* Two stop() callers against a queue that overflows and a sink that may fail.
SPECIFICATION Spec
CONSTANTS
    s1 = s1
    s2 = s2
    MaxQueue = 3
    BatchSize = 2
    MaxOffers = 6
    Stoppers = {s1, s2}
INVARIANTS
    TypeOK
    NotStranded
    Accounted
    StopDrains
PROPERTY ImplementsPromise
\* The calls of enqueue and stop are used up in the end.
CHECK_DEADLOCK FALSE
