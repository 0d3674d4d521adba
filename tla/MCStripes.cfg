\* Three threads; a device that is too small, one that is just large enough
\* for them to reach its limit, and one that is large enough for all zones.
SPECIFICATION Spec
CHECK_DEADLOCK FALSE
CONSTANTS
    w1 = w1
    w2 = w2
    Worker = {w1, w2}
    Width <- MCWidth
    THREAD_PER_IZG = 2
    MaxOpenRes = {1, 2, 5}
    UINT = 16
    ZoneSize = 2
    MaxRows = 2
    MaxFault = 1
INVARIANTS CountBalances DeviceNeverOverrun RefusedOnlyWhenScarce LayoutRight
