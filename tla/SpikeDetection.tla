--------------------------- MODULE SpikeDetection ---------------------------
(***************************************************************************)
(* The decision DetectSpike takes for one SLO (internal/correlation/       *)
(* detector.go), as operators on one BurnRateState record.  AnomalyDetector *)
(* keeps a map of these records; SLOReconciler calls the detector from     *)
(* inside a reconcile.                                                     *)
(*                                                                         *)
(* A burn rate is an integer multiple of the sustainable rate, or NaN:     *)
(* only its order relative to the three thresholds matters.                *)
(***************************************************************************)
EXTENDS Floats

CONSTANT
    Cooldown    \* AnomalyDetector.cooldown, in clock ticks

ASSUME CooldownAssumption == Cooldown \in Nat \ {0}

BurnRateCriticalThreshold == 14
BurnRateDegradedThreshold == 6
BurnRateWarningThreshold  == 1

Thresholds == {BurnRateWarningThreshold, BurnRateDegradedThreshold,
               BurnRateCriticalThreshold}

Severities == {"warning", "degraded", "critical"}

\* time.Time{}: so long ago that every cooldown has expired.
ZeroTime == 0 - Cooldown

\* A crossing of threshold t between two consecutive samples.
Crosses(previous, current, t) == Above(current, t) /\ AtMost(previous, t)

\* BurnRateState when the SLO is seen for the first time.
NewState(rate) == [previous |-> rate, last |-> ZeroTime]

\* Mutant: the cooldown ends one tick early.
InCooldownTooShort(state, time) == time - state.last < Cooldown - 1

\* time.Since(state.LastCorrelation) < d.cooldown
InCooldown(state, time) == time - state.last < Cooldown

\* SpikeResult.Detected
Detected(state, current, time) ==
    /\ ~InCooldown(state, time)
    /\ \E t \in Thresholds : Crosses(state.previous, current, t)

\* Mutant: the thresholds are tried from the lowest up.
SeverityLowestFirst(previous, current) ==
    IF Crosses(previous, current, BurnRateWarningThreshold) THEN "warning"
    ELSE IF Crosses(previous, current, BurnRateDegradedThreshold) THEN "degraded"
    ELSE "critical"

\* Mutant: the last branch leaves the severity empty.
SeverityNoWarning(previous, current) ==
    IF Crosses(previous, current, BurnRateCriticalThreshold) THEN "critical"
    ELSE IF Crosses(previous, current, BurnRateDegradedThreshold) THEN "degraded"
    ELSE ""

\* SpikeResult.Severity: the thresholds are tried from the highest down.
Severity(previous, current) ==
    IF Crosses(previous, current, BurnRateCriticalThreshold) THEN "critical"
    ELSE IF Crosses(previous, current, BurnRateDegradedThreshold) THEN "degraded"
    ELSE "warning"

\* Mutant: every sample above a threshold starts a cooldown, detected or not.
UpdatedStateAlwaysStamped(state, current, time) ==
    [previous |-> current,
     last     |-> IF Above(current, BurnRateWarningThreshold) THEN time ELSE state.last]

\* Mutant: a reported spike is not remembered.
UpdatedStateNotStamped(state, current, time) ==
    [previous |-> current, last |-> state.last]

\* The record DetectSpike leaves behind: the sample is always remembered, the
\* correlation time only when the spike is reported.
UpdatedState(state, current, time) ==
    [previous |-> current,
     last     |-> IF Detected(state, current, time) THEN time ELSE state.last]
=============================================================================
