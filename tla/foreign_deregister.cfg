SPECIFICATION Spec
CONSTANTS
    i1 = i1
    s1 = s1
    s2 = s2
    None = None
    Insmod = {i1}
    Server = {s1, s2}
    KillAllowed = FALSE
    Paced = FALSE
PROPERTY DeregisterOwn
CHECK_DEADLOCK FALSE
