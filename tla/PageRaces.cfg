CONSTANTS
    k1 = k1
    k2 = k2
    o1 = o1
    o2 = o2
    Keys = {k1}
    Operators = {o1, o2}
    PageSize = 1
    MaxEvents = 4
    MaxJobs = 5
    MaxRetries = 1
SPECIFICATION Spec
SYMMETRY Symmetry
INVARIANTS
    SoundUnlessRaced
    RewindLostOnlyToOpenPage
PROPERTY
    NewestWriteStaysLive
CHECK_DEADLOCK FALSE
