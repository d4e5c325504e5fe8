SPECIFICATION FairSpec
CONSTANTS
    Keys = {old, new}
    TextParts = 2
    Resolutions <- MCResolutions
    Faults = {"lib", "sys", "kill"}
INVARIANTS TypeOK ZeroMeansAnswered ReplyWhole NoMutualWait
PROPERTIES AuthenticationSpec RejectionTold BothEnd
