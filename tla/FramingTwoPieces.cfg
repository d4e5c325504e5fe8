SPECIFICATION FairSpec
CONSTANTS
    Base = 4
    Tokens <- MCTokens
    HeaderPieces = 2
    ValuePieces = 2
    MayFail = FALSE
    Indeterminate = Indeterminate
PROPERTIES FairChannelSpec
