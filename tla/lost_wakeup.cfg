SPECIFICATION Spec
CONSTANTS
    i1 = i1
    i2 = i2
    i3 = i3
    s1 = s1
    None = None
    Insmod = {i1, i2, i3}
    Server = {s1}
    KillAllowed = FALSE
    Paced = FALSE
INVARIANT NoLostWakeup
CHECK_DEADLOCK FALSE
