\* The process may end, and the bound lets every thread come to rest.
SPECIFICATION Spec
CHECK_DEADLOCK FALSE
CONSTANTS
    Thread = {t1, t2}
    LpName = {a, b}
    Distance = 3
    IoLevel = {1, 2}
    MaxCall = 6
    Null = Null
INVARIANTS OpenListExact BudgetSound AcceptedWhileOpen
PROPERTY CallsReturn
