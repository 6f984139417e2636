SPECIFICATION FairSpec
CONSTANTS
    Major = {1, 2}
    InitSize = 2
    RowSize = 3
    IntMax = 15
    MaxEntries = 6
INVARIANT TypeOK
INVARIANT NoOverrun
INVARIANT ExactBelowLimit
INVARIANT WakeupLosesNothing
INVARIANT NumbersAgree
INVARIANT RegistrationEnds
PROPERTY RowServiceBelowLimit
PROPERTY SigintEnds
CHECK_DEADLOCK FALSE
