SPECIFICATION FairSpec
CONSTANTS
    LegCounts = {4}
    Messages = {m1, m2}
    NoMessage = NoMessage
    Recording = TRUE
    Faults = {}
    DefaultMech = default
    KnownMechs = {kerberos, spnego}
    Supported = {kerberos}
    MechArgs = {default}
    Resolutions <- OnlyServer
PROPERTIES BothSucceed
