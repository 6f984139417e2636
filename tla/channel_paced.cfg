SPECIFICATION FairSpec
CONSTANTS
    i1 = i1
    i2 = i2
    i3 = i3
    s1 = s1
    s2 = s2
    None = None
    Insmod = {i1, i2, i3}
    Server = {s1, s2}
    KillAllowed = FALSE
    Paced = TRUE
INVARIANT NoLostWakeup
INVARIANT NoSpurious
PROPERTY EventuallyHanded
CHECK_DEADLOCK FALSE
