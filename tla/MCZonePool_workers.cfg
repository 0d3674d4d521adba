\* Four zones of two units in three groups; the workers allocate at any time.
\* The process exits when the zones are used up.
SPECIFICATION Spec
CHECK_DEADLOCK FALSE
SYMMETRY Symm
CONSTANTS
    Part = {p1, p2}
    Level = {1, 2}
    Distance = 3
    TotalZone = 4
    ZoneSize = 2
    None = None
INVARIANTS ZonesConserved StripeReady StripeSpread SegmentsReadable FailsOnlyWhenUsedUp
