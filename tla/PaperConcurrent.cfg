SPECIFICATION Spec
CONSTANTS
    Symbols = {"call"}
    Prices <- MCPrices
    ContractSize <- MCContractSize
    RateScale = 10
    BuyRate = 1
    SellRate = 2
    PerOrder = 5
    InitialBalance = 1000
    MaxQuantity = 1
    Requests = {r1, r2}
    Kinds = {"order"}
    ChainExpires = TRUE
    MaxBought = 2
    MaxCrashes = 0
SYMMETRY RequestSymmetry
VIEW WithoutMoney
INVARIANTS
    RowsCameFromFills
    FilledOrdersAreApplied
