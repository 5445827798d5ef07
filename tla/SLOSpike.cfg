SPECIFICATION FairSpec
CONSTANTS
    NaN = NaN
    NoSLO = NoSLO
    SLOs = {a}
    Kinds = {"plain"}
    Samples <- MCSamples
    Cooldown = 2
    MaxEdits = 1
    MaxBoots = 0
    MaxTime = 0
CHECK_DEADLOCK FALSE
PROPERTIES
    SpikeIsRecorded
