\* The bounds let every thread come to rest.
SPECIFICATION Spec
CHECK_DEADLOCK FALSE
CONSTANTS
    Thread = {t1, t2}
    Name = {a, b}
    LockName = {LOCK}
    MaxKey = 3
    MaxWork = 3
    Null = Null
INVARIANTS MapExact LocksExclusive WorkInOrder
PROPERTY WorkIsRun
