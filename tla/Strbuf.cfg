SPECIFICATION BufSpec
CONSTANTS
    SizeMax = 23
    Align = 2
    Header = 2
    BlockSize = 4
    Limit <- MCLimit
    MaxBlocks = 3
    Request <- MCRequest
    InitCapacity = 2
    IntMax = 2
    Other <- MCOther
    Char <- MCChar
    Piece <- MCPiece
    NUL = "NUL"
    Junk = "Junk"
    NoData = NoData
INVARIANTS
    ExtentsApart
    Inside
PROPERTIES
    Allocates
    HoldsText
