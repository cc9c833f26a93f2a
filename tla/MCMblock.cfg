CONSTANTS
    Base = 4
    Top = 10
    FourG = 8
    Maps <- const_Maps
    MaxReserved = 3
    Mappings = {0, 1}
    Free = Free
    Requests <- const_Requests
    MaxPages = 3
    NewSizes = {1}
SPECIFICATION MblockSpec
INVARIANTS Partition AllocHighest HolderIsServed MemoryReported
PROPERTIES ImplementsPageMap
CHECK_DEADLOCK FALSE
