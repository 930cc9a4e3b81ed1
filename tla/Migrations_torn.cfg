\* One process at a time, and two.
SPECIFICATION MigrationsSpec
CONSTANTS
    Processes = {p1, p2}
INVARIANT TornReapplies
CHECK_DEADLOCK FALSE
