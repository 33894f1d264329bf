SPECIFICATION FairSpec
CONSTANTS
    Symbols = {"call", "put"}
    Prices <- MCPrices
    ContractSize <- MCContractSize
    RateScale = 10
    BuyRate = 1
    SellRate = 2
    PerOrder = 5
    InitialBalance = 1000
    MaxQuantity = 1
    Requests = {"r1"}
    Kinds = {"order", "view", "reset"}
    ChainExpires = FALSE
    MaxBought = 1
    MaxCrashes = 0
INVARIANTS
    TypeOK
PROPERTIES
    ExpiredIsSettled
    RefinesLedger
