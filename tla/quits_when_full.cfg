SPECIFICATION Spec
CONSTANTS
    Major = {1, 2}
    InitSize = 2
    RowSize = 3
    IntMax = 15
    MaxEntries = 6
INVARIANT QuitsWhenFull
CHECK_DEADLOCK FALSE
