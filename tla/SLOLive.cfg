SPECIFICATION FairSpec
CONSTANTS
    NaN = NaN
    NoSLO = NoSLO
    SLOs = {a}
    Kinds = {"plain", "badAlert", "oddWindow"}
    Samples <- MCLiveSamples
    Cooldown = 2
    MaxEdits = 3
    MaxBoots = 1
    MaxTime = 0
CHECK_DEADLOCK FALSE
PROPERTIES
    Polled
    Settles
