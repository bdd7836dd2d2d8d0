CONSTANTS
    Procs = {p1, p2}
    Width = 4
    Release = FALSE
    SupplyAmount = 3
    FundingReqs <- MCFundingReqs
    FeeBase = 1
    FeePerInput = 1
    InitLedgers <- MCLedgers
    MaxId = 8
SPECIFICATION BroadcasterSpec
PROPERTY FundsCheckExact
CHECK_DEADLOCK FALSE
