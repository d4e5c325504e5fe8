SPECIFICATION FairSpec
CONSTANTS
    LegCounts = {1, 2, 4}
    Messages = {m1, m2}
    NoMessage = NoMessage
    Recording = TRUE
    Faults = {"lib", "sys", "kill", "pieces"}
    DefaultMech = default
    KnownMechs = {kerberos, spnego}
    Supported = {kerberos}
    MechArgs = {default, kerberos, spnego, unknown}
    Resolutions <- MCResolutions
INVARIANTS TypeOK ConfirmedDelivery MutualEstablishment ConfirmedServerClean CleanReturn RecordsAgree NoMutualWait SpinOnlyAfterFailure
PROPERTIES DeliverySpec ClientSettles
