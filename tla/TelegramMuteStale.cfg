SPECIFICATION Spec
CONSTANTS
    Signals = {"s1"}
    Limit = 2
    MaxUpdates = 2
    MaxCrashes = 0
INVARIANTS
    DashboardIsMutedToo
