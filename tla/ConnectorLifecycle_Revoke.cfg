CONSTANTS
    Leas = {l1, l2}
    Names = {n1}
    Integrations = {i1}
    Operators = {o1, o2}
    NoLabel = NoLabel
    MaxChanges = 2
    PartnerStatuses = {"active", "disabled"}
    Intervals = {300, 600}
    MaxPages = 2
    MaxRows = 2
    MaxFlips = 1
SPECIFICATION ConnectorSpec
INVARIANT
    RevokeBlocksPolls
CHECK_DEADLOCK FALSE
