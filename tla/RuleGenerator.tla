---------------------------- MODULE RuleGenerator ----------------------------
(***************************************************************************)
(* internal/prometheus/prometheus_rule_generator.go: the PrometheusRule of *)
(* an objective.  A rule is told by the series it records and by its       *)
(* alerts: the series each one reads and, for a burn rate alert, the       *)
(* threshold as a fraction <<numerator, denominator>>.  A series is told   *)
(* by its metric and its slok_window label.  For, severities and           *)
(* annotations are left out.                                               *)
(***************************************************************************)
EXTENDS SliTemplates

Window(number, unit) == [number |-> number, unit |-> unit]

recordingWindows == {Window(5, "m"), Window(1, "h"), Window(6, "h"),
                     Window(3, "d"), Window(7, "d"), Window(30, "d")}

isRecordingWindow(window) == window \in recordingWindows

Preset(short, long, burnRate, suffix) ==
    [shortWindow |-> short, longWindow |-> long, burnRate |-> burnRate, suffix |-> suffix]

\* Mutant: the second tier is that of the first.
defaultBurnRatePresetsSwapped ==
    {Preset(Window(5, "m"), Window(1, "h"), <<6, 1>>, "Critical"),
     Preset(Window(1, "h"), Window(6, "h"), <<14, 1>>, "Degraded"),
     Preset(Window(6, "h"), Window(3, "d"), <<1, 1>>, "Warning"),
     Preset(Window(7, "d"), Window(30, "d"), <<1, 2>>, "SlowBurn")}

defaultBurnRatePresets ==
    {Preset(Window(5, "m"), Window(1, "h"), <<14, 1>>, "Critical"),
     Preset(Window(1, "h"), Window(6, "h"), <<6, 1>>, "Degraded"),
     Preset(Window(6, "h"), Window(3, "d"), <<1, 1>>, "Warning"),
     Preset(Window(7, "d"), Window(30, "d"), <<1, 2>>, "SlowBurn")}

\* Mutant: only the short window is looked at.
validateShortWindowOnly(alert) == isRecordingWindow(alert.shortWindow)

validateBurnRateAlertWindows(alert) ==
    isRecordingWindow(alert.shortWindow) /\ isRecordingWindow(alert.longWindow)

\* parseAlertWindowHours: hours as a fraction; "0d" is refused.
AlertUnit == [d |-> <<24, 1>>, h |-> <<1, 1>>, m |-> <<1, 60>>, s |-> <<1, 3600>>]
ParsesAlertWindow(window) == window.unit \in DOMAIN AlertUnit /\ window.number > 0
Hours(window) == <<window.number * AlertUnit[window.unit][1], AlertUnit[window.unit][2]>>

\* Mutant: the percentage is taken for a fraction.
burnRateThresholdOfFraction(alert, sloWindow) ==
    LET slo == Hours(sloWindow)
        consume == Hours(alert.consumeWindow)
    IN  <<alert.consumePercent * slo[1] * consume[2], slo[2] * consume[1]>>

burnRateThreshold(alert, sloWindow) ==
    LET slo == Hours(sloWindow)
        consume == Hours(alert.consumeWindow)
    IN  <<alert.consumePercent * slo[1] * consume[2], 100 * slo[2] * consume[1]>>

ValidAlert(alert, sloWindow) ==
    /\ validateBurnRateAlertWindows(alert)
    /\ ParsesAlertWindow(sloWindow) /\ ParsesAlertWindow(alert.consumeWindow)

\* The presets of the alerts, if none of the custom ones is refused.
burnRatePresetsForObjective(objective) ==
    IF objective.burnRateAlerts = {} THEN defaultBurnRatePresets
    ELSE {Preset(a.shortWindow, a.longWindow, burnRateThreshold(a, objective.window), a.name) :
            a \in objective.burnRateAlerts}

-----------------------------------------------------------------------------
SliErrorRateSeries(window) == <<"slok:sli_error_rate", window>>
BurnRateSeries(window)     == <<"slok:burn_rate", window>>
ErrorBudgetTarget          == <<"slok:error_budget_target", Window(30, "d")>>
ObjectiveTarget            == <<"slok:objective_target", Window(30, "d")>>
PercentRemainingMetric     == <<"optimization_request_objective_percent_remaining">>

\* The gauges the manager registers (internal/prometheus/metrics.go).
ExportedMetrics ==
    {<<"slok_slo_objective_status">>, <<"slok_slo_objective_percent_remaining">>,
     <<"slok_slo_objective_target">>, <<"slok_slo_objective_actual">>}

BurnRateAlert(preset) ==
    [kind |-> "burnRate", preset |-> preset,
     reads |-> {BurnRateSeries(preset.shortWindow), BurnRateSeries(preset.longWindow)}]

\* AtRisk, ViolatedWarning and the custom ones all read the one metric.
BudgetErrorAlert == [kind |-> "budgetError", reads |-> {PercentRemainingMetric}]

FinishedAlert(window) ==
    [kind |-> "finished", reads |-> {SliErrorRateSeries(window), ErrorBudgetTarget}]

\* Without a usable SLI, or with a custom burn rate alert that is refused, there is
\* no rule at all.
Generates(objective) ==
    /\ Resolve(objective.sli) # Unresolved
    /\ objective.burnRateEnabled =>
        \A a \in objective.burnRateAlerts : ValidAlert(a, objective.window)

CreatePrometheusRule(objective) ==
    [sli |-> Resolve(objective.sli),
     target |-> objective.target,
     records |-> {SliErrorRateSeries(w) : w \in recordingWindows}
                 \cup {BurnRateSeries(w) : w \in recordingWindows}
                 \cup {ObjectiveTarget, ErrorBudgetTarget},
     alerts |-> (IF objective.budgetErrorEnabled THEN {BudgetErrorAlert} ELSE {})
                \cup (IF objective.burnRateEnabled
                      THEN {BurnRateAlert(p) : p \in burnRatePresetsForObjective(objective)}
                           \cup {FinishedAlert(objective.window)}
                      ELSE {})]

-----------------------------------------------------------------------------
(***************************************************************************)
(* What Prometheus makes of the rule while the traffic is steady.          *)
(***************************************************************************)
BudgetOf(target) == Everything - target

\* A target above 100 %, which the schema admits, makes the budget negative.
BurnRate(errorRate, budget) ==
    IF budget > 0 THEN <<errorRate, budget>> ELSE <<-errorRate, -budget>>

Exceeding(x, y) == x[1] * y[2] > y[1] * x[2]

\* slok:burn_rate:<window> is the error rate over the budget.  The burn rate alerts say
\* on which labels their two series are matched; the finished alert does not, so that
\* all labels have to agree, slok_window as well.  Of the budget alerts, ViolatedWarning
\* and the custom ones fire on an overspent budget at the latest.
Fires(alert, rule, traffic) ==
    LET e == ErrorRate(rule.sli, traffic)
    IN  /\ alert.reads \subseteq rule.records \cup ExportedMetrics
        /\ e # NoData
        /\ \/ /\ alert.kind = "burnRate"
              /\ Exceeding(BurnRate(e, BudgetOf(rule.target)), alert.preset.burnRate)
           \/ /\ alert.kind = "finished"
              /\ \A s, t \in alert.reads : s[2] = t[2]
              /\ e > BudgetOf(rule.target)
           \/ /\ alert.kind = "budgetError"
              /\ e > BudgetOf(rule.target)
=============================================================================
