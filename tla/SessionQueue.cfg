CONSTANTS
    a = a
    b = b
    r1 = r1
    r2 = r2
    Sessions = {a, b}
    Receivers = {r1, r2}
    Batch = 2
    MaxMessages = 3
    MaxStrays = 3
SPECIFICATION QueueSpec
INVARIANTS
    NothingLostOrTwice
    OneReceiverPerSession
    RedeliveredInOrder
PROPERTY
    EveryMessageCompleted
CHECK_DEADLOCK FALSE
