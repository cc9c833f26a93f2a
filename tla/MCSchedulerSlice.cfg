CONSTANTS
    c1 = c1
    c2 = c2
    t1 = t1
    t2 = t2
    t3 = t3
    CPUs <- const_TwoCpus
    BootCpu = c1
    Threads <- const_Threads
    Idle = Idle
    NoCpu = NoCpu
    Pinned <- const_AllPinned
    BasePriority <- const_AllOne
    NUM_PRIORITIES = 2
    QUANTUM = 2
    SetPriorities = {}
    RealTimeTargets = {}
    Sleeps = FALSE
SPECIFICATION MCFairSpec
PROPERTIES NoStarvation
CHECK_DEADLOCK FALSE
