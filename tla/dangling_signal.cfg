SPECIFICATION Spec
CONSTANTS
    i1 = i1
    s1 = s1
    None = None
    Insmod = {i1}
    Server = {s1}
    KillAllowed = TRUE
    Paced = FALSE
INVARIANT SignalTargetOpen
CHECK_DEADLOCK FALSE
