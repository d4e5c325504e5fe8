SPECIFICATION Spec
CONSTANTS
    Base = 4
    Tokens <- MCTokens
    HeaderPieces = 2
    ValuePieces = 3
    MayFail = TRUE
    Indeterminate = Indeterminate
INVARIANTS TypeOK WithinBuffer LengthPreserved
