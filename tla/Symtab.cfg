\* Three tables, three names and an arena with room for three: a table grows
\* from two slots to eight.
SPECIFICATION SymtabSpec
CONSTANTS
    Table <- MCTable
    Str <- MCStr
    NoStr = NoStr
    Hash <- MCHash
    InitCap = 2
    MaxCap = 8
    MaxCopies = 3
INVARIANTS
    SymtabTypeOK
    Findable
    ProbeEnds
    NamesKept
PROPERTY
    Interns
