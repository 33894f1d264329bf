SPECIFICATION FairSpec
CONSTANTS
    Signals = {"s1"}
    Limit = 2
    MaxUpdates = 3
    MaxCrashes = 1
INVARIANTS
    TypeOK
    NoUpdateIsSkipped
    CaughtUpMeansLastWish
PROPERTIES
    EveryUpdateIsHandled
