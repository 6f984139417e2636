SPECIFICATION Spec
CONSTANTS
    i1 = i1
    i2 = i2
    s1 = s1
    None = None
    Insmod = {i1, i2}
    Server = {s1}
    KillAllowed = FALSE
    Paced = FALSE
INVARIANT NoSpurious
CHECK_DEADLOCK FALSE
