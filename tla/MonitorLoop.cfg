SPECIFICATION FairSpec
CONSTANTS
    Strategies = {"s1"}
    MaxErrors = 1
    DataWarning = 1
    DataCritical = 2
    ErrorThreshold = 1
    DroughtWarning = 1
    DroughtCritical = 1
    Cooldown = 2
    PeriodLength <- MCPeriodLength
    Waits = {1, 2}
    MaxCrashes = 1
INVARIANTS
    TypeOK
PROPERTIES
    NoFlood
    FreshAlertsAreAnnounced
    ReportsAreSpaced
    OutageIsRepeated
    ReportsKeepComing
