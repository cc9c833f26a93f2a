CONSTANTS
    T1 = T1
    T2 = T2
    T3 = T3
    T4 = T4
    NULL = NULL
    Threads <- const_Threads
SPECIFICATION Spec
SYMMETRY symmetry
INVARIANTS
    NoStrandedWaiter
CHECK_DEADLOCK FALSE
