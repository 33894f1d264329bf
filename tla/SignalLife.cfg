SPECIFICATION Spec
CONSTANTS
    Singles <- MCSingles
    Legs <- MCLegs
    Ratio <- MCRatio
    Sold <- MCSold
    Sizes <- MCSizes
    Window = 2
    Evaluators = {e1, e2}
    MaxSignals = 3
    MaxFailures = 1
SYMMETRY EvaluatorSymmetry
VIEW WithoutProfits
INVARIANTS
    TypeOK
    LoggedStructuresAreWhole
    ToldIsLogged
    NoRepeatInOneLife
PROPERTIES
    DecidedIsFinal
CHECK_DEADLOCK FALSE
