------------------------- MODULE ObjectiveEvaluation -------------------------
(***************************************************************************)
(* The data half of a reconcile (controller lines 96 to 193): the rule is  *)
(* generated and stored, Prometheus evaluates the one it had loaded, and   *)
(* errorbudget.Calculate and DetermineStatus judge its answers.  The rule, *)
(* the backtest command and the status speak of one service: here it is    *)
(* checked that they agree.  Failures between the steps are SLOReconciler's.*)
(***************************************************************************)
EXTENDS ErrorBudget, Backtest

CONSTANTS
    Objectives,     \* users ask for [sli, target, window, burnRateEnabled, burnRateAlerts,
                    \* budgetErrorEnabled]
    Services,       \* services with steady traffic: [absent, total, bad, buckets, series];
                    \* all but series is history: what really happens to it
    Varying,        \* bound: the objectives whose readings may be arbitrary, too
    WindowedRates,  \* bound: arbitrary results of slok:burn_rate:<window>
    BurnRateSets,   \* bound: arbitrary results of the preset queries
    NoRule, NoService, NoBudget

\* Targets are all the schema admits, those above 100 % as well, but 100 % itself: no
\* budget is zero here, that is SLOReconciler's ZeroBudget.  Series are finite and have
\* whole rates, the queries of a preset give two numbers or are left out.
ASSUME ObjectiveAssumption ==
    /\ \A o \in Objectives :
        /\ o.target \in 0..(2 * Everything) /\ o.target # Everything
        /\ o.window # NoWindow /\ o.window.number \in Nat
        /\ \A a \in o.burnRateAlerts : a.consumePercent \in Nat /\ a.consumeWindow.number \in Nat
    /\ Varying \subseteq Objectives
    /\ \A s \in Services : IsFiniteSet(s.series) /\ \A x \in s.series : x.rate \in Nat
    /\ WindowedRates \subseteq Int
    /\ \A b \in BurnRateSets :
        DOMAIN b \subseteq Presets /\ \A p \in DOMAIN b : b[p] \in [short : Int, long : Int]

VARIABLES
    objective,
    rule,                   \* the stored PrometheusRule
    loaded, service,        \* history: the rule and the traffic behind the last answers
    windowed, burnRates,    \* the last answers
    budget, phase           \* the status computed from them

vars == <<objective, rule, loaded, service, windowed, burnRates, budget, phase>>

\* The windows of defaultBurnRatePresets of the controller.
ControllerPresets ==
    <<[short |-> Window(5, "m"), long |-> Window(1, "h")],
      [short |-> Window(1, "h"), long |-> Window(6, "h")],
      [short |-> Window(6, "h"), long |-> Window(3, "d")],
      [short |-> Window(7, "d"), long |-> Window(30, "d")]>>

\* The schema of the resource, which is all that keeps an objective out: its webhook
\* admits everything.  Windows of alerts come in seconds as well.
ValidSLI(sli) ==
    /\ (sli.query = NoQuery) # (sli.template = NoTemplate)
    /\ sli.template # NoTemplate =>
        sli.template.name \in {"http-availability", "http-latency", "kubernetes-apiserver"}

ValidBurnRateAlert(alert) ==
    /\ alert.consumePercent >= 0
    /\ \A window \in {alert.consumeWindow, alert.longWindow, alert.shortWindow} :
        window.unit \in {"d", "h", "m", "s"}

ValidObjective(o) ==
    /\ o.target \in 0..(2 * Everything)
    /\ o.window.unit = "d"
    /\ ValidSLI(o.sli)
    /\ \A alert \in o.burnRateAlerts : ValidBurnRateAlert(alert)

\* What a service's series have to do with its history.  Its own series are those that
\* carry the labels of the objective; of a manual query, what the query selects.
Carrying(traffic, metric, labels) ==
    {x \in traffic : x.metric = metric /\ \A l \in DOMAIN labels : Param(x.labels, l, "") = labels[l]}

With(series, label, values) == {x \in series : Param(x.labels, label, "") \in values}

Counts(s, requests, errors) ==
    /\ s.absent <=> requests = {}
    /\ Rates(requests) = s.total /\ Rates(errors) = s.bad

\* A threshold is a bucket if there are series of it, which count the good requests.
Times(s, requests, fast, threshold) ==
    /\ s.absent <=> requests = {}
    /\ Rates(requests) = s.total
    /\ ~s.absent => (threshold \in s.buckets <=> fast # {})
    /\ fast # {} => Rates(fast) = s.total - s.bad

TellsOf(s, o) ==
    LET t == o.sli.template
        Own(metric) == Carrying(s.series, metric, t.labels)
        CountsOwn(metric, label, codes) == Counts(s, Own(metric), With(Own(metric), label, codes))
    IN  IF t = NoTemplate
        THEN Counts(s, Selected(o.sli.query.total, s.series), Selected(o.sli.query.error, s.series))
        ELSE /\ t.name = "http-availability" => CountsOwn("http_requests_total", "status", ServerErrors)
             /\ t.name = "kubernetes-apiserver" =>
                  CountsOwn("apiserver_request_total", "code", Param(t.params, "errorCodes", ServerErrors))
             /\ t.name = "http-latency" =>
                  LET threshold == Param(t.params, "threshold", "")
                  IN  Times(s, Own("http_request_duration_seconds_count"),
                            With(Own("http_request_duration_seconds_bucket"), "le", {threshold}),
                            threshold)

\* Error rates are whole multiples of 1/10000, so that none of them is rounded here.
ASSUME ServiceAssumption ==
    \A s \in Services :
        /\ s.total \in Nat /\ s.bad \in 0..s.total
        /\ s.total # 0 => (Everything * s.bad) % s.total = 0
        /\ \A o \in Objectives : (ValidObjective(o) /\ Generates(o)) => TellsOf(s, o)

Init ==
    /\ objective \in {o \in Objectives : ValidObjective(o)}
    /\ rule = NoRule /\ loaded = NoRule /\ service = NoService
    /\ windowed = 0 /\ burnRates = [p \in {} |-> NoBurn]
    /\ budget = NoBudget /\ phase = ""

\* The rule is written if it can be, else the stored one stays; it is loaded later.
Store ==
    /\ rule' \in {rule} \cup {CreatePrometheusRule(o) : o \in {objective} \cap {x \in Objectives : Generates(x)}}
    /\ loaded' = rule

Judge(w, b) ==
    /\ windowed' = w /\ burnRates' = b
    /\ budget' = Budget(objective.window, w)
    /\ phase' = DetermineStatus(PercentRemaining(w), b)

\* BuildUnknownStatus.
Unknown ==
    /\ windowed' = 0 /\ burnRates' = [p \in {} |-> NoBurn]
    /\ budget' = NoBudget
    /\ phase' = "unknown"

Answers(s) ==
    /\ rule # NoRule /\ isRecordingWindow(objective.window)
    /\ ErrorRate(rule.sli, s.series) # NoData

\* The windowed burn rate to 1/100000, the others rounded up to whole multiples, which no
\* threshold tells from the exact ones.  A negative budget makes them negative.
WindowedBurn(e, b) == IF b > 0 THEN RoundDiv(Unit * e, b) ELSE -RoundDiv(Unit * e, -b)
PresetBurn(e, b) == IF b > 0 THEN (e + b - 1) \div b ELSE -(e \div (-b))

\* Steady traffic.
PassSteady(s) ==
    /\ Store
    /\ service' = s
    /\ LET e == ErrorRate(rule.sli, s.series)
           b == BudgetOf(objective.target)
           multiple == PresetBurn(e, b)
       IN  IF Answers(s)
           THEN Judge(WindowedBurn(e, b), [p \in Presets |-> [short |-> multiple, long |-> multiple]])
           ELSE Unknown
    /\ UNCHANGED objective

PassVarying(w, b) ==
    /\ objective \in Varying /\ rule # NoRule
    /\ Store
    /\ service' = NoService
    /\ Judge(w, b)
    /\ UNCHANGED objective

PassFails ==
    /\ Store
    /\ service' = NoService
    /\ Unknown
    /\ UNCHANGED objective

Next ==
    \/ \E s \in Services : PassSteady(s)
    \/ \E w \in WindowedRates, b \in BurnRateSets : PassVarying(w, b)
    \/ PassFails

Spec == Init /\ [][Next]_vars

-----------------------------------------------------------------------------
Judged == phase \in Phases

\* Severity of a phase.
Rank == [met |-> 0, warning |-> 1, degraded |-> 2, critical |-> 3, violated |-> 4]

\* When each phase applies, taken by itself: less than half a hundredth of a
\* percent of the budget left, or both windows of a collected preset too fast.
Applies ==
    LET Burning(p, t) ==
            /\ p \in DOMAIN burnRates
            /\ burnRates[p].short > t
            /\ burnRates[p].long > t
    IN  [met |-> TRUE, warning |-> Burning(3, 1), degraded |-> Burning(2, 6),
         critical |-> Burning(1, 14), violated |-> Unit - windowed < 5]

\* The reference for the cascade of ifs (calculator.go:88-106) and the rounding
\* before it: the phase is the worst of those that apply, and only the presets
\* that were collected can raise an alarm.
PhaseIsWorst ==
    Judged =>
        /\ Applies[phase]
        /\ \A p \in DOMAIN Rank : Rank[p] > Rank[phase] => ~Applies[p]

\* Consumed and Remaining add up to Total to the printed precision while the
\* budget lasts; once overspent, Remaining is zero, Consumed exceeds Total and
\* the objective is violated (calculator.go:33-52, 88-91).
BudgetAddsUp ==
    Judged =>
        IF windowed <= Unit
        THEN budget.consumed + budget.remaining - budget.total \in -1..1
        ELSE /\ budget.remaining = 0
             /\ budget.consumed >= budget.total
             /\ phase = "violated"

\* Every reading of the next pass is at least as bad as that of this pass.
Worsens ==
    /\ Judged /\ Judged'
    /\ windowed' >= windowed
    /\ DOMAIN burnRates \subseteq DOMAIN burnRates'
    /\ \A p \in DOMAIN burnRates :
        /\ burnRates'[p].short >= burnRates[p].short
        /\ burnRates'[p].long >= burnRates[p].long

\* A service that only gets worse never gets a better phase.
PhaseIsMonotone == [][Worsens => Rank[phase'] >= Rank[phase]]_vars

Latency == loaded.sli.form = "latency"

\* From labels and templates to the phase: the status of a steady service says what
\* happens to that service, whatever else sends the same metrics.  A service without
\* series is violated (prometheus_rule_generator.go:172), one without requests is met
\* ("zero-traffic safe"), except that http-latency knows neither fallback
\* (templates.go:152): it takes no requests for no fast requests, and no series, or a
\* threshold that is no bucket, for no data.  All this with a target below 100 %: above
\* it the budget is negative and every service is met, whatever becomes of it.
SteadyServiceIsJudgedRight ==
    (service # NoService /\ loaded # NoRule /\ isRecordingWindow(objective.window)) =>
        phase =
            IF Latency /\ (service.absent \/ objective.sli.template.params.threshold
                                                  \notin service.buckets) THEN "unknown"
            ELSE IF /\ objective.target < Everything
                    /\ \/ service.absent
                       \/ service.total = 0 /\ Latency
                       \/ /\ service.total # 0
                          /\ service.bad * Everything >= service.total * BudgetOf(objective.target)
            THEN "violated"
            ELSE "met"

\* The alerts of a rule follow the three tables of presets (controller:59,
\* prometheus_rule_generator.go:33, calculator.go:92-101) as the status does: with the
\* default alerts, the phase of a pass is the worst of the alerts that its readings
\* fire, unless the budget is spent.  SlowBurn is an alert without a phase.
FiresOn(preset) ==
    \E p \in DOMAIN burnRates :
        /\ ControllerPresets[p] = [short |-> preset.shortWindow, long |-> preset.longWindow]
        /\ Exceeding(<<burnRates[p].short, 1>>, preset.burnRate)
        /\ Exceeding(<<burnRates[p].long, 1>>, preset.burnRate)

AlertsAgreeWithPhase ==
    (Judged /\ phase # "violated" /\ objective.burnRateEnabled /\ objective.burnRateAlerts = {}) =>
        LET firing == {a.preset.suffix : a \in {x \in loaded.alerts :
                            x.kind = "burnRate" /\ FiresOn(x.preset)}}
        IN  phase = IF "Critical" \in firing THEN "critical"
                    ELSE IF "Degraded" \in firing THEN "degraded"
                    ELSE IF "Warning" \in firing THEN "warning"
                    ELSE "met"

\* The burn rate alerts, with whatever windows users ask for, wait for no series that no
\* rule records (the generator refuses other windows, prometheus_rule_generator.go:52),
\* and neither does the finished alert of a window that is recorded.
AlertsHaveData ==
    rule # NoRule =>
        \A a \in rule.alerts :
            (a.kind = "burnRate" \/ (a.kind = "finished" /\ isRecordingWindow(objective.window)))
            => a.reads \subseteq rule.records

\* consumePercent is "the percentage of error budget that would be consumed within the
\* consumeWindow at the current burn rate to trigger the alert"
\* (servicelevelobjective_types.go:45): a custom alert fires on a steady service exactly
\* if it consumes more than that of a budget there is; no error consumes a negative one.
CustomAlertMeansConsumption ==
    (service # NoService /\ Judged /\ objective.burnRateEnabled) =>
        LET e == ErrorRate(loaded.sli, service.series)
            window == Hours(objective.window)
            Consumes(a) ==
                LET consume == Hours(a.consumeWindow)
                IN  /\ objective.target < Everything
                    /\ 100 * e * consume[1] * window[2]
                        > a.consumePercent * BudgetOf(objective.target) * window[1] * consume[2]
        IN  {a.preset.suffix : a \in {x \in loaded.alerts :
                x.kind = "burnRate" /\ Fires(x, loaded, service.series)}}
            = {a.name : a \in {x \in objective.burnRateAlerts : Consumes(x)}}
            \/ objective.burnRateAlerts = {}

\* The backtest command judges a steady service as the status does, but for a budget
\* spent to the last bit, which it passes (backtest.go:143), and it never calls a
\* stricter target easier.  With --pre-apply it has no fallbacks: without error series
\* it gives up on a service that is met, without any on one that is violated.  A target of
\* zero or above 100 %, which the schema admits, it refuses (main.go:273).
WhatIf == <<9000, 9900, 9990, 9999>>

BacktestAgrees ==
    service # NoService =>
        \A preApply \in BOOLEAN :
            LET Flags(targets) == [file |-> TRUE, name |-> FALSE, preApply |-> preApply,
                                   range |-> NoWindow, timeout |-> 30, targets |-> targets]
                rules == {loaded} \ {NoRule}
                one == runBacktest(Flags(<<>>), objective, rules, service.series)
                many == runBacktest(Flags(WhatIf), objective, rules, service.series)
            IN  /\ (one.error = "" /\ Judged) =>
                    IF one.results[1].status = "FAIL" THEN phase = "violated" /\ windowed > Unit
                    ELSE phase = "met" \/ windowed = Unit
                /\ (one.error # "" /\ Judged) =>
                    \/ objective.target = 0 \/ objective.target > Everything
                    \/ preApply /\ (service.absent \/ service.bad = 0)
                /\ \A i, j \in DOMAIN many.results :
                    (i < j /\ many.results[i].status = "FAIL") => many.results[j].status = "FAIL"

\* "exhausted error budget" is one of the default alerts (docs/alerting.md:67), and with
\* budget alerts, documented at docs/alerting.md:75, SLOObjectiveViolatedWarning stands
\* for it as well: where both are enabled, a steady service that has overspent its
\* budget sets off one of them.
SpentBudgetIsAlerted ==
    (/\ service # NoService /\ Judged /\ windowed > Unit
     /\ objective.burnRateEnabled /\ objective.budgetErrorEnabled) =>
        \E a \in loaded.alerts :
            a.kind \in {"finished", "budgetError"} /\ Fires(a, loaded, service.series)
=============================================================================
