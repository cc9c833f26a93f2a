CONSTANTS
    t1 = t1
    t2 = t2
    c1 = c1
    c2 = c2
    NoThread = NoThread
    Threads <- const_Threads
    Callers <- const_Callers
    Joiners <- const_Joiners
    Detachers <- const_Detachers
    DetachIn <- const_DetachIn
SPECIFICATION FairSpec
INVARIANTS JoinFindsDeadThread FreedInTime
PROPERTIES Reclaimed
CHECK_DEADLOCK FALSE
