SPECIFICATION SourcesSpec
CONSTANTS
    Contracts = {c1, c2}
    c1 = c1
    c2 = c2
    Settings <- MCSettings
    Duties <- MCDuties
    TTL <- MCTTL
    Retries = 2
    AttemptTicks = 1
    EnrichLimit = 1
    Contexts = {r1, r2}
    r1 = r1
    r2 = r2
    Symbols = {c1}
    MaxDays = 1
    LastDay = 4
    Requests = {r1, r2}
    Keys <- MCKeys
    Values = {0, 1}
    MaxPatches = 3
    Example <- MCExample
    Unset = Unset
INVARIANTS
    AnswersAreFresh
    CorrectedStaysCorrected
    FilesKeepWhatTheyAreGiven
PROPERTIES
    EveryCallEnds
CHECK_DEADLOCK FALSE
