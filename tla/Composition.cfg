SPECIFICATION FairSpec
CONSTANTS
    NaN = NaN
    NoComposition = NoComposition
    a = a
    b = b
    namesake = namesake
    ObjectiveId <- MCObjectiveId
    Webhook = TRUE
    Compositions = {c}
    SLOs = {a, b}
    Foreign = {}
    Existing = {a}
    Specs <- MixedSpecs
    Samples <- MCSamples
    ErrorRates <- MCErrorRates
    MaxEdits = 2
    MaxSLOEdits = 1
    MaxBoots = 1
CHECK_DEADLOCK FALSE
INVARIANTS
    TypeOK
    ForgottenOnlyIfMissing
    ComposesTheWeakest
    ComposesTheRoutes
    OutageHitsItsRoutes
PROPERTIES
    StatusMatchesSpec
    Settles
