CONSTANTS
    FileHdr = 3
    ChunkHdr = 3
    SparseBlock = 2
    Block = 4
    FillPiece = 4
    Page = 8
    MaxSize = 20
    BulkSizes = {1, 8, 13, 21}
    Images <- const_Images
    Leftovers <- const_Leftovers
SPECIFICATION FlashSpec
INVARIANTS
    BuffersNotShared
    ContextOutlivesWriter
    ResultTruthful
PROPERTIES
    Ends
