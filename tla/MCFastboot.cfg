CONSTANTS
    MaxPri = 1
    MaxCommands = 2
    Pieces = 2
SPECIFICATION Spec
INVARIANTS
    SlotDurable
PROPERTIES
    
    Answered
