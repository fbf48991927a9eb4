\* Texts of up to four characters and longer ones, trees of up to three levels.
SPECIFICATION TextSpec
CONSTANTS
    Letter <- MCLetter
    Digit <- MCDigit
    Control <- MCControl
    Preserve = FALSE
    MaxReads = 12
    Source <- MCSource
    Trees <- MCTrees
    Height <- MCHeight
    IndentSpaces = 1
INVARIANTS
    LinesExact
    Covers
    TextExact
    WrittenReads
PROPERTY
    FeedsParser
