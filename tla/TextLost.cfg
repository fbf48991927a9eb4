\* The same texts: a string that lost a character is returned.
SPECIFICATION TextSpec
CONSTANTS
    Letter <- MCLetter
    Digit <- MCDigit
    Control <- MCControl
    Preserve = FALSE
    MaxReads = 12
    Source <- MCSource
    Trees <- MCTrees
    Height <- MCHeight
    IndentSpaces = 1
INVARIANT
    StringsWhole
