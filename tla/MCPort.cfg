CONSTANTS
    T1 = T1  T2 = T2  T3 = T3
    W1 = W1
    R1 = R1  R2 = R2
    G1 = G1
    None = None
    Threads <- const_Threads
    WPorts <- const_WPorts
    RPorts <- const_RPorts
    Groups <- const_Groups
    BufSize = 2
    MaxPackets = 3
SPECIFICATION MCSpec
SYMMETRY Symmetry
INVARIANTS
    InOrder
    NobodyAsleepBesidePacket
    NoFault
CHECK_DEADLOCK FALSE
