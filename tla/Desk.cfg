SPECIFICATION Spec
CONSTANTS
    BookRows <- MCBookRows
    MaxOrder = 6
    Limits <- MCLimits
    Fees <- MCFees
    BrokerEquities <- MCBrokerEquities
    Premiums <- MCPremiums
    Filter <- MCFilter
    Listed <- MCListed
    EnrichLimit = 3
    BrokerSizes = {20}
    Quotes <- MCQuotes
    Spot = 10
    JalaliYears <- MCJalaliYears
    MarketFrom <- MCMarketFrom
    Learning = 7
    Ahead = 8
    Changes <- MCChanges
    Dividends = {0, 8}
    LastDay = 5
    IvChains <- MCIvChains
    IvDays = 3
    IvPlan <- MCIvPlan
    StratListed <- MCStratListed
    StratPlan <- MCStratPlan
    Contexts <- MCContexts
    BarPrices <- MCBarPrices
    FirstPrice = 2
    Bars = 9
    ReplayPlan <- MCReplayPlan
    FoldPlan <- MCFoldPlan
INVARIANTS
    FillsAreTheBest
    StopKeepsTheBudget
    ExtremesAreTrue
    CapitalCoversTheLoss
    JalaliRoundTrips
    CalendarTellsTheMarket
    ActionsCountOnce
    RankIsOfTheLastYear
    SoldCallsAreCovered
    LegsCanBeTraded
    BacktestIsCausal
    TestsUseOnlyTheirBars
    FiguresAreTrue
