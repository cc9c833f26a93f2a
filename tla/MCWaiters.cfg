CONSTANTS
    T1 = T1
    T2 = T2
    T3 = T3
    T4 = T4
    Threads <- const_Threads
    InitialValue = 1
    MaxCount = 2
SPECIFICATION WaitersSpec
INVARIANTS
    NoIdleUnit
PROPERTIES
    ImplementsCountingSemaphore
    WaiterServed
    EventObeysRules
    EventWaitEnds
CHECK_DEADLOCK FALSE
