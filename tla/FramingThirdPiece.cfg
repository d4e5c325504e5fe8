SPECIFICATION Spec
CONSTANTS
    Base = 4
    Tokens <- MCTokens
    HeaderPieces = 2
    ValuePieces = 3
    MayFail = FALSE
    Indeterminate = Indeterminate
INVARIANTS DeliveredIsPrefix
