SPECIFICATION Spec
CONSTANTS
    i1 = i1
    i2 = i2
    s1 = s1
    None = None
    Insmod = {i1, i2}
    Server = {s1}
    MaxLoads = 3
SYMMETRY Symmetry
INVARIANT TapHasTable
INVARIANT NeverSetTwice
INVARIANT BrokenOnlyByRmmod
INVARIANT LeftoverBound
INVARIANT OrphanOnlyByAbort
INVARIANT CopyAllOrNothing
CHECK_DEADLOCK FALSE
