CONSTANTS
    Procs = {p1}
    Width = 4
    Release = TRUE
    SupplyAmount = 3
    FundingReqs <- MCFundingReqs
    FeeBase = 1
    FeePerInput = 1
    InitLedgers <- MCLedgers
    MaxId = 8
SPECIFICATION BroadcasterSpec
PROPERTY FundsCheckExact
CHECK_DEADLOCK FALSE
