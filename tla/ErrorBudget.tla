----------------------------- MODULE ErrorBudget -----------------------------
(***************************************************************************)
(* internal/errorbudget/calculator.go: the error budget of an objective    *)
(* and the status derived from it and from the multi-window burn rates.    *)
(*                                                                         *)
(* Units.  The windowed burn rate is the share of the budget consumed over *)
(* the SLO window, in 1/100000 (Unit = all of it).  Percentages have two   *)
(* decimals, so they are in 1/100 of a percent.  Budget.Total, .Consumed   *)
(* and .Remaining are printed with one decimal: tenths of a minute.  The   *)
(* preset burn rates are multiples of the sustainable rate.                *)
(***************************************************************************)
EXTENDS Floats

Unit == 100000

\* x/y to the nearest integer, halves away from zero (math.Round, %.1f).
RoundDiv(x, y) == (x + (y \div 2)) \div y

\* parseWindow: the units it accepts, in tenths of a minute.
UnitLength == [d |-> 14400, h |-> 600, m |-> 10]

ParsesWindow(window) == window.unit \in DOMAIN UnitLength
WindowLength(window) == window.number * UnitLength[window.unit]

\* Mutant: an overspent budget is not clamped.
NonNegativeUnclamped(x) == x

NonNegative(x) == IF x < 0 THEN 0 ELSE x

\* Budget.PercentRemaining: an overspent budget is clamped to zero before it is
\* rounded; NaN < 0 is false, so NaN passes through.
PercentRemaining(windowed) ==
    IF windowed = NaN THEN NaN
    ELSE RoundDiv(NonNegative(Unit - windowed), 10)

\* calculatePercentage.  Consumed is not clamped, Remaining is.
Budget(window, windowed) ==
    LET total == WindowLength(window)
        Share(part) == total * (part \div Unit)
                       + RoundDiv((total \div 100) * (part % Unit), Unit \div 100)
    IN  [total     |-> total,
         consumed  |-> IF windowed = NaN THEN NaN ELSE Share(windowed),
         remaining |-> IF windowed = NaN THEN NaN
                       ELSE Share(NonNegative(Unit - windowed)),
         percent   |-> PercentRemaining(windowed)]

-----------------------------------------------------------------------------
(***************************************************************************)
(* defaultBurnRatePresets of the controller, in order: 5m/1h, 1h/6h,       *)
(* 6h/3d, 7d/30d.  The burnRates slice a reconcile builds holds only the   *)
(* presets both of whose queries succeeded: a function on those presets.   *)
(***************************************************************************)
Presets == 1..4
Preset5m1h == 1
Preset1h6h == 2
Preset6h3d == 3

NoBurn == [short |-> 0, long |-> 0]

\* Mutant: a preset that was not collected counts as burning.
burnMissingIsFast(preset, burnRates) ==
    IF preset \in DOMAIN burnRates THEN burnRates[preset] ELSE [short |-> 15, long |-> 15]

\* burn(): a preset that was not collected counts as not burning at all.
burn(preset, burnRates) ==
    IF preset \in DOMAIN burnRates THEN burnRates[preset] ELSE NoBurn

\* Mutant: one of the two windows is enough.
ExceedsEither(preset, threshold, burnRates) ==
    \/ Above(burn(preset, burnRates).short, threshold)
    \/ Above(burn(preset, burnRates).long, threshold)

Exceeds(preset, threshold, burnRates) ==
    /\ Above(burn(preset, burnRates).short, threshold)
    /\ Above(burn(preset, burnRates).long, threshold)

\* The first tier that applies wins.  The target and the SLI value the Go
\* function also takes are not used by it.
DetermineStatus(percent, burnRates) ==
    IF AtMost(percent, 0) THEN "violated"
    ELSE IF Exceeds(Preset5m1h, 14, burnRates) THEN "critical"
    ELSE IF Exceeds(Preset1h6h, 6, burnRates) THEN "degraded"
    ELSE IF Exceeds(Preset6h3d, 1, burnRates) THEN "warning"
    ELSE "met"

Phases == {"met", "warning", "degraded", "critical", "violated"}

\* burnRates[0].ShortBurnRate: the first preset that was collected.
FirstShortBurnRate(burnRates) ==
    burnRates[CHOOSE p \in DOMAIN burnRates : \A q \in DOMAIN burnRates : p <= q].short

\* The computed status can be sent as JSON: PercentRemaining is clamped, so only
\* NaN spoils it; the burn rates are sent as they are.
\* A sample is the result of the queries of one pass.
EncodableSample(sample) ==
    /\ sample.windowed # NaN
    /\ \A p \in DOMAIN sample.burnRates :
        Encodable(sample.burnRates[p].short) /\ Encodable(sample.burnRates[p].long)
=============================================================================
