SPECIFICATION FairSpec
CONSTANTS
    i1 = i1
    i2 = i2
    s1 = s1
    s2 = s2
    None = None
    Insmod = {i1, i2}
    Server = {s1, s2}
    KillAllowed = TRUE
    Paced = FALSE
INVARIANT TypeOK
INVARIANT StrandedBound
INVARIANT GivenBound
INVARIANT SpuriousExplained
INVARIANT OneUnprocessed
INVARIANT DanglingOnlyByKill
PROPERTY DeliveryUnlessMisreturned
PROPERTY RowServices
PROPERTY HangOnlyByOops
CHECK_DEADLOCK FALSE
