CONSTANTS
    c1 = c1
    c2 = c2
    t1 = t1
    t2 = t2
    CPUs <- const_OneCpu
    Timers <- const_Timers
    W = 4
    Delays <- const_Short
    MaxLate = 1
    MaxTick = 1
    MaxHeld = 2
SPECIFICATION TimerFairSpec
INVARIANTS QueueSorted NoEarlyFire NotTooLate
PROPERTIES TickEnds
