CONSTANTS
    r1 = r1
    r2 = r2
    r3 = r3
    r4 = r4
    h1 = h1
    h2 = h2
    Requests = {r1, r2, r3, r4}
    Hashes = {h1, h2}
    HashOf <- TwoBodies
    MaxLost = 2
SPECIFICATION FairSpec
INVARIANTS
    OncePerEpoch
    AnswersAreEffects
    PendingIsHeld
PROPERTY
    EveryRequestAnswered
CHECK_DEADLOCK FALSE
