SPECIFICATION FairSpec
CONSTANTS
    NaN = NaN
    NoComposition = NoComposition
    a = a
    b = b
    namesake = namesake
    ObjectiveId <- MCObjectiveId
    Webhook = TRUE
    Compositions = {c}
    SLOs = {a}
    Foreign = {}
    Existing = {}
    Specs <- JustOne
    Samples <- MCSamples
    ErrorRates <- MCErrorRates
    MaxEdits = 1
    MaxSLOEdits = 1
    MaxBoots = 0
CHECK_DEADLOCK FALSE
PROPERTIES
    ComesBack
