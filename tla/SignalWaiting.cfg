SPECIFICATION Spec
CONSTANTS
    Singles <- MCSingles
    Legs <- MCLegs
    Ratio <- MCRatio
    Sold <- MCSold
    Sizes <- MCSizes
    Window = 2
    Evaluators = {e1}
    MaxSignals = 3
    MaxFailures = 1
PROPERTIES
    OpenSignalsAreEvaluated
CHECK_DEADLOCK FALSE
