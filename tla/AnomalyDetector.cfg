SPECIFICATION Spec
CONSTANTS
    NaN = NaN
    Keys = {k1, k2}
    Rates <- MCRates
    Cooldown = 2
    MaxTime = 3
    MaxWipes = 1
SYMMETRY MCSymmetry
CHECK_DEADLOCK FALSE
INVARIANTS
    TypeOK
    CooldownSpacing
    CriticalRiseCovered
PROPERTIES
    SeverityIsBandOfSample
    GateSpec
