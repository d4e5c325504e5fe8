SPECIFICATION FairSpec
CONSTANTS
    LegCounts = {1, 2}
    Messages = {m1, m2}
    NoMessage = NoMessage
    Recording = TRUE
    Faults = {}
    DefaultMech = default
    KnownMechs = {kerberos, spnego}
    Supported = {kerberos}
    MechArgs = {default, kerberos, spnego, unknown}
    Resolutions <- MCResolutions
PROPERTIES BothSucceed
