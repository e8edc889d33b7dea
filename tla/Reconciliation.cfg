CONSTANTS
    LeaOrder <- MCLeaOrder
    TypeOrder <- MCTypeOrder
    AlertWindow = 1
    CursorLagThreshold = 1
    MaxValue = 1
    QuietWindow = 1
    Retention = 2
    MaxTime = 2
    MaxEvents <- MCMaxEvents
    MaxRuns = 2
    MaxRetries = 1
SPECIFICATION ReconSpec
INVARIANTS
    VerdictTrueAtRest
    WedgedDriftAlerted
    LostEventsWereAlerted
PROPERTY
    SweepAccountsForAll
CHECK_DEADLOCK FALSE
