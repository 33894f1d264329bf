SPECIFICATION Spec
CONSTANTS
    Symbols = {"call"}
    Prices <- MCPrices
    ContractSize <- MCContractSize
    RateScale = 10
    BuyRate = 1
    SellRate = 2
    PerOrder = 5
    InitialBalance = 1000
    MaxQuantity = 2
    Requests = {"r1"}
    Kinds = {"order", "view", "reset"}
    ChainExpires = FALSE
    MaxBought = 3
    MaxCrashes = 2
INVARIANTS
    BooksBalance
    DeathCostsOnePosting
    FilledOrdersAreApplied
