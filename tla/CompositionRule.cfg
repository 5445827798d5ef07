SPECIFICATION FairSpec
CONSTANTS
    NaN = NaN
    NoComposition = NoComposition
    a = a
    b = b
    namesake = namesake
    ObjectiveId <- MCObjectiveId
    Webhook = TRUE
    Compositions = {c}
    SLOs = {a, b}
    Foreign = {}
    Existing = {a, b}
    Specs <- OneOrTwo
    Samples <- MCSamples
    ErrorRates <- MCErrorRates
    MaxEdits = 2
    MaxSLOEdits = 0
    MaxBoots = 0
CHECK_DEADLOCK FALSE
PROPERTIES
    RuleFollowsSpec
