SPECIFICATION FairSpec
CONSTANTS
    LegCounts = {2}
    Messages = {m1, m2}
    NoMessage = NoMessage
    Recording = TRUE
    Faults = {"pieces"}
    DefaultMech = default
    KnownMechs = {kerberos, spnego}
    Supported = {kerberos}
    MechArgs = {default}
    Resolutions <- OnlyServer
INVARIANTS SuccessMeansSigned
