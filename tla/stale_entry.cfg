SPECIFICATION Spec
CONSTANTS
    m1 = m1
    m2 = m2
    m3 = m3
    m4 = m4
    r1 = r1
    r2 = r2
    r3 = r3
    r4 = r4
    Garbage = Garbage
    None = None
    Insmod = {m1, m2}
    Request = {r1}
    InitSize = 1
INVARIANT EntryLive
CHECK_DEADLOCK FALSE
