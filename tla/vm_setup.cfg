SPECIFICATION FairSpec
CONSTANT MaxRows = 3
INVARIANT TypeOK
INVARIANT FlagsExclusive
INVARIANT ProcessedPrefix
INVARIANT InitOnce
INVARIANT RunsOwnImage
INVARIANT ShortOnlyWithoutLayout
INVARIANT OneRowLost
PROPERTY Served
PROPERTY RowServiceSpec
CHECK_DEADLOCK FALSE
