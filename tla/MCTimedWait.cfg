CONSTANTS
    c1 = c1
    c2 = c2
    t1 = t1
    t2 = t2
    t3 = t3
    NoThread = NoThread
    Threads <- const_Threads
    CPUs <- const_OneCpu
SPECIFICATION WaitSpec
INVARIANTS InfiniteWaitsLast TimerDiesWithFrame
