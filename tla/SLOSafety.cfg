SPECIFICATION Spec
CONSTANTS
    NaN = NaN
    NoSLO = NoSLO
    SLOs = {a}
    Kinds = {"plain"}
    Samples <- MCSamples
    Cooldown = 2
    MaxEdits = 3
    MaxBoots = 1
    MaxTime = 2
CONSTRAINT AlwaysTurbulent
CHECK_DEADLOCK FALSE
INVARIANTS
    TypeOK
    NeverForgotten
    CorrelationsSpaced
PROPERTIES
    StatusMatchesSpec
    GateSpec
