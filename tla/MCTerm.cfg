\* A file of five characters; six typed or written in all.
CONSTANTS
    CR = CR
    LF = LF
    BS = BS
    BEL = BEL
    SP = SP
    Bracket = Bracket
    Glyphs = {a, b}
    SinkSize = 5
    Texts <- MCTexts
    Lengths = {1, 2, 3}
    Budget = 5
    a = a
    b = b
SPECIFICATION TermSpec
CHECK_DEADLOCK FALSE
INVARIANTS
    InputNormal
    OutputNormal
    LineKept
