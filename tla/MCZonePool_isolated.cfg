\* Four zones in three groups, two partitions.
SPECIFICATION Spec
CHECK_DEADLOCK FALSE
SYMMETRY Symm
CONSTANTS
    Part = {p1, p2}
    Level = {1, 2}
    Distance = 3
    TotalZone = 4
    ZoneSize = 2
    None = None
INVARIANTS PartitionsIsolated
