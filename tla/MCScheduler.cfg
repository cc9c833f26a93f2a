CONSTANTS
    c1 = c1
    c2 = c2
    t1 = t1
    t2 = t2
    t3 = t3
    CPUs <- const_TwoCpus
    BootCpu = c1
    Threads <- const_Threads
    Idle = Idle
    NoCpu = NoCpu
    Pinned <- const_OnePinned
    BasePriority <- const_OneHigh
    NUM_PRIORITIES = 4
    QUANTUM = 1
    SetPriorities <- const_Change
    RealTimeTargets <- const_Targets
    Sleeps = TRUE
SPECIFICATION MCSpec
INVARIANTS Placement BookkeepingExact PreemptTimerExact
PROPERTIES SwitchesToHighest
CHECK_DEADLOCK FALSE
