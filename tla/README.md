# SloK in TLA+

A verification development for SloK, a Kubernetes operator that turns
`ServiceLevelObjective` resources into Prometheus recording rules and alerts, polls
Prometheus for their error budget and burn rates, writes the result to their status
and, when a burn rate jumps, records which cluster changes may have caused it.

Paths below are relative to the repository.

## The system

| Component | Code | State it keeps | Operations | Talks to |
|---|---|---|---|---|
| SLO controller | `internal/controller/servicelevelobjective_controller.go` | none of its own; the SLO's status, its `PrometheusRule`, the `SLOCorrelation`s | `Reconcile` | API server (through the watch cache), Prometheus, detector, engine |
| Anomaly detector | `internal/correlation/detector.go` | per SLO: previous burn rate, time of the last detection (memory only) | `DetectSpike`, `GetState`, `ResetCooldown`, `Clear` | called by the SLO controller |
| Change collector | `internal/correlation/collector.go` | ring buffer of the last 1000 changes (memory only) | four watch handlers, `GetChangesInWindow` | informer goroutines; read by the engine |
| Correlation engine | `internal/correlation/engine.go` | none | `Analyze` | collector; an LLM, if there is a key |
| Error budget | `internal/errorbudget/calculator.go` | none | `Calculate`, `DetermineStatus` | both controllers |
| Query cache | `internal/prometheus/cache.go`, `client.go` | query to value and fetch time (memory only) | `QuerySLI`, `CheckConnection` | Prometheus |
| Composition controller | `internal/controller/slocomposition_controller.go` | status of the `SLOComposition`, its `PrometheusRule` | `Reconcile` | API server, Prometheus (uncached) |
| Rule generator, templates | `internal/prometheus/prometheus_rule_generator.go`, `internal/templates/templates.go` | none | `CreatePrometheusRule`, `CreateAggregatedPrometheusRule` | both controllers |
| Webhooks | `internal/webhook/v1alpha1/` | none | validation of SLOs and compositions | API server |
| Command line | `cmd/slok`, `internal/backtest` | none | `backtest` | a file or the API server, Prometheus |
| Manager | `cmd/manager/main.go` | wires all of it; one worker per controller | | |

What is hard here. A reconcile is a dozen remote calls on a copy of the SLO that goes
out of date while it runs; each can fail, users edit and delete at any point, and the
process can die between any two of them. Nothing but the work queue remembers that an
SLO must be polled again. The detector changes its memory *before* the correlation it
promises is stored. The collector's handlers stamp a record before they take the lock.
The cache fetches without a lock. Burn rates are floats that may be NaN or infinite. And
status, alerts, aggregated rules and the backtest command each derive their own verdict
on the same service, from series that are matched by labels as text.
`PROJECT.json` lists these hazards at their lines, with the properties that watch them.

What makes each part correct:

- **Detector**: at most one detection per SLO and cooldown; no rise above the critical
  threshold without a recent detection; the severity of the highest band reached.
- **Error budget**: the phase is the worst one that applies; a service that only gets
  worse never gets a better phase; the printed parts add up.
- **Templates and rules**: the status of a service with steady traffic says what happens to
  that service; alerts fire exactly when the status or their own definition says so, and
  read series that somebody records; the backtest gives the same verdict.
- **SLO controller**: an SLO is never lost from the queue; a status belongs to the spec it
  is written on; correlations keep their distance; after failures stop, the cluster
  settles on what the specs ask for.
- **Composition controller**: polling ends only for a missing SLO; the rule is about the
  SLOs the composition refers to, as they are now, and composes their error rates as
  documented.
- **Collector**: it is the log of the last `Size` changes, and a window query misses and
  invents nothing.
- **Engine**: a report holds exactly the relevant changes around the spike that the collector
  has when it is read, blames the one of the highest score, and lists a change within 15 minutes
  of the spike before every crash of its namespace.
- **Cache**: no answer from before an error comes back after it; answers go back in time only
  across callers, and the operator has one caller.

## Modules

| Module | Models | State and actions |
|---|---|---|
| `Floats` | the part of `float64` decisions depend on | NaN, +Inf, `>`, `<=`, what JSON can carry |
| `SpikeDetection` | the decision of `DetectSpike` for one SLO | operators on a `BurnRateState` record |
| `AnomalyDetector` | the detector | `states` is the Go map; one action per method (each holds the mutex throughout); `detections`, `crossings`, `wipes` are history |
| `CooldownGate` | what the detector promises (abstract) | per key the time the gate last opened and how often it was told to forget |
| `ErrorBudget` | budget arithmetic and status cascade | operators |
| `SliTemplates` | how an SLI becomes queries, and what Prometheus makes of them | operators on sets of series |
| `RuleGenerator` | the `PrometheusRule` of an objective and its alerts | operators |
| `Backtest` | the `backtest` command from flags to verdict | operators |
| `ObjectiveEvaluation` | lines 96-193 of `Reconcile`, pass after pass, on the three above | the objective, its stored rule, the answers and the status of the last pass |
| `SLOReconciler` | the SLO controller in its environment | see below |
| `CompositionRule` | admission of a composition, its aggregated rule, the composed error rate | operators |
| `SLOCompositionReconciler` | the composition controller in its environment | see below |
| `Maps` | Go maps and object stores | `Extend`, `Drop` |
| `ChangeCollector` | the ring buffer and its handlers | `buffer`, `head`, `count` are the fields; `stamped` is a record between `time.Now()` and `addRecord`; `Restart` empties all |
| `CorrelationEngine` | `Analyze` on top of the collector | `trigger` is the time the controller has taken for the spike until the ring is read; `report` is the `SLOCorrelation` of the last step, if it was an analysis |
| `ChangeLog` | what the ring promises (abstract) | the last `Size` records, newest first |
| `CachedClient` | the cache under concurrent callers | per caller a program counter: miss, fetch, store; `answered` and `failed` are history |
| `Basics_proofs` | lemmas on maps, least and greatest elements, sums over finite sets | |
| `AnomalyDetector_proofs`, `CachedClient_proofs`, `ChangeCollector_proofs`, `CorrelationEngine_proofs`, `ObjectiveEvaluation_proofs`, `SLOCompositionReconciler_proofs`, `SLOReconciler_proofs` | theorems and proofs about the module they are named after | |
| `MC...` | values for TLC | |

### SLOReconciler

`api`, `rules`, `corrs` are what the API server stores. An edit, a creation or a status
write that changes something puts the SLO in `pending` (a watch event under way);
`Deliver` brings `cache` up to date and enqueues it. `queue` and `timers` are the work
queue and its delayed adds: a set each, as the real queue drops duplicates. The worker's
`pc` names its next remote call, and the actions follow `Reconcile` from top to bottom:

    Get -> CheckConnection -> WriteRule | SkipRule -> Query
        -> [CreateCorrelation -> FillCorrelation] -> WriteStatus -> (requeue)

with a failing alternative for every call. `obj` is the worker's copy; `obj.fresh` is
false as soon as the stored object has another resourceVersion, and a status update
succeeds only on a fresh copy. `Crash` wipes everything the process holds. `mode`
starts "turbulent" (users edit, calls fail, the process crashes) and may once turn "calm" (no
more of that) or "outage" (Prometheus is gone for good).

### SLOCompositionReconciler

The same environment around a second worker. SLOs are now objects that users create, edit
and delete (`slos`); the operator sees them in its cache (`seen`), but their events enqueue
nothing: `SetupWithManager` watches compositions only. A pass fetches the references one
by one, writes the rule and polls:

    Get -> CheckConnection -> FetchSLO ... FetchSLO -> WriteRule | SkipRule -> Query -> WriteStatus
                                   \ FetchMissing | FetchFails -----------------------/

`FetchMissing` is a NotFound of `Get`, `FetchFails` any other error: both write the phase unknown with the
condition ObjectiveFetchFailed, but after the first `WriteStatus` ends the pass without a delayed add, and after
the second the error is returned and the pass retried. `cause` in a status is history and tells them apart. `Owner` is the SLO
fetched last (the Go variable `slo` after the loop); `Ownable` is what
`SetControllerReference` accepts: same namespace, and no other SLO controls the rule.
The two controllers share no state but the cluster, and neither reads what the other
writes, so they are not composed. A spec is what users write ([objectives, type, routes,
window]); the API server stores it if `CompositionRule!Admitted` says so, and the rule that
`WriteRule` stores holds what `CreateAggregatedPrometheusRule` makes of it: if it can (`Generatable`), which it
decides by itself, from the type, the params and the aliases of the SLOs fetched, not by the webhook's check.

### ObjectiveEvaluation

One objective, its rule and a service. In every pass `Store` writes the rule (or fails
to), Prometheus answers from the rule it had loaded before, and `Judge` computes budget and
phase as `errorbudget` does. `PassSteady` takes a service whose traffic does not change, as a set of
labelled series, so that what the queries select decides the answer; `PassVarying` takes
any answers at the edges of thresholds and roundings; in `PassFails` a query has no data.
A pass is one action: what can happen between its calls is in `SLOReconciler`.

The definitions named `...Blindly`, `...Uncapped` and the like, commented "Mutant", are the
plausible bugs that every property is tried against; no specification uses them.

### Abstractions

- A burn rate is an integer multiple of the sustainable rate; only its order relative to
  the thresholds matters (steady traffic: rounded up, as the thresholds are whole). The windowed burn rate is in 1/100000 of the budget so that the
  rounding edges are visible.
- All Prometheus queries of one pass are one action (`Query`): nothing else in the model
  depends on when each is answered. What they return is any element of `Samples`.
- An SLO's spec is its version and one of three kinds: all well; alerting that makes rule
  generation fail; a window no recording rule computes ("90d", or a number that overflows).
  The series of such a window could only come from elsewhere, and `Calculate` then may or may
  not parse the window. In `calm` there is data exactly when the stored rule
  provides it (`CalmAnswer`). The name of the objective is fixed, so
  rules left behind by a rename are not in this model.
- The watch cache jumps to the newest version; a resync or a relist is no different from
  an event. `CreateOrUpdate` of the rule is one action.
- The fields `actual`, `lastQueried` and the texts of the budget are not in the status
  record: nothing reads them back. `spec` in a status is history.
- The detector's `GetState` and the collector's readers `GetChangesForNamespace`,
  `GetChangesForLabels` and `Stats`, which no production code calls, change no state and are left out.
- A selector is a metric with a set of matchers: the order in which Go walks the label map
  changes the text of a rule, and not what it selects. A regular expression is the set of
  values it matches. Traffic is the same in every window, so `rate`, `increase` and
  `avg_over_time` agree. `x / clamp_min(0, 1e-12)` is some number above every threshold.
- Error rates are in 1/10000 for objectives and in 1/1000, with the weights, for compositions.
  Alert windows, in any of the four units, are hours as fractions, so that thresholds are exact.
- Names, severities, `for` and annotations of rules are left out, and so are the thresholds of the
  budget alerts: all read one metric. So are the alerts
  of a composition, which are those of an objective on other series.
- A window query returns the set of the ring's places whose records it returns: its only reader, the
  engine, sorts them by score at once, and `sort.Slice` is not stable.
- `sort.Slice` may return any order in which the scores do not rise. The LLM's answer is a
  sentence, or nothing on any error. A spike may be analysed at any moment, more often
  than the cooldown lets the detector: reports do not depend on each other. Its time is taken
  first and the ring read later: what is recorded in between may be in the report.
- An object has its `kind`, namespace, labels and what handlers and scores look at; an update
  is recorded whatever it changed, as the watches have no predicate.

## Runs

| Run | Question | Result |
|---|---|---|
| `detector` | does the detector keep its promises for every stream of samples? | holds |
| `objective` | from labels to phase: does the status tell the truth about a service, and do alerts and backtest agree with it? is the cascade of ifs the declarative definition, at every edge? | holds, with the exceptions the properties spell out: http-latency without fallbacks, and every service met if the target is above 100 % |
| `alert_finished` | does an overspent budget set off one of the alerts on it? (`docs/alerting.md:67`, `:75`) | violated: for any window but 30d the two series of the finished alert never match, and the budget alerts read a metric that nobody exports |
| `slo_safety` | can a reconcile go wrong between edits, failures and a crash? | holds |
| `slo_live` | is every SLO polled for ever, and does the cluster settle? | holds |
| `slo_outage` | does an SLO become `unknown` when Prometheus is gone? (`docs/slo.md:160`) | violated: `CheckConnection` fails before any status is written |
| `slo_spike` | does every detected spike get an `SLOCorrelation`? (`docs/correlation.md:5`) | violated: one failed `Create` loses it, the cooldown has begun |
| `composition` | can the composition controller lose, mislabel or freeze a composition? does the rule compose its members? does an outage hit the right routes? | only a missing SLO, a rule it may not own, an empty chain or an empty list of objectives stop it, else holds; with AND_MIN a namesake in another namespace counts as a member |
| `composition_forgotten` | is the status computed once the SLOs are there? (`docs/composition.md:96`) | violated: the missing-SLO path never asks to be called again, and nothing else calls it but an edit, a restart, or controller-runtime's resync every ten hours, which is not in the model |
| `composition_rule` | is the rule about the SLOs referred to? (`docs/composition.md:13`) | violated: once another SLO is last, the old owner blocks every update |
| `collector` | does the ring implement the log, with handlers overtaking each other? is a report exact, and does it blame the right change? | holds; of the ten minutes after the spike a report sees what is recorded until it reads the ring, which is at once |
| `cache` | can an error bring back an old answer, and how unordered can answers be? | holds |

Three of the disagreements between the repository's words and its code that `PROJECT.json` lists as findings
come from runs that pass: their properties state what the code does, against the sentence they quote or
except. The target above 100 % is `SteadyServiceIsJudgedRight` (run `objective`), the namesake is
`ComposesTheWeakest` (`composition`), the window after the spike `ReportIsExact` (`collector`).

**Bounds.** `detector`: two SLOs (they share nothing but the map, so one pair shows any
mix-up of keys), a rate on each edge and NaN, cooldown 2, clock 0..3 and one reset: a cooldown can begin,
be met by samples, and end; a memory can be wiped and begin again. `slo_safety`: one SLO, three user writes (create, edit or
delete, re-create), one restart, clock 0..2 with cooldown 2: enough for two correlations
of one SLO in one process, for an SLO of the same name with another owner, and for
every call of a pass to meet an edit. The worker is one goroutine and `obj` is all it carries from
call to call, so two SLOs only meet in the queue; the theorems cover any number. Its
constraint keeps `mode` turbulent, as the other modes only remove behaviours. `slo_live`: the
same without time, with queries that have no data, good data and data JSON refuses, and
all three kinds of spec. `composition`: one composition, two SLOs
of which one is there from the start, nine specs (an odd window, of the SLO that has a namesake in another
namespace; an SLO that has none; no objectives; two routes over two SLOs with an alias given
twice; an empty chain; and an unknown alias, a route given twice, wrong weights and an unknown type, which are
refused), error rates 0 and 1/2 and every outage for each of the three SLOs, two writes of the composition and one of the SLOs,
one restart: a reference can be missing, appear, change or go at every point of a pass, and an edit can
change which SLO is last. There is no clock: a status written again may or may not fall into the second of
the one before (`MayBeNoOp`). `collector`: a ring of 3 records and 4 changes (it wraps; the bound stands for 1000 entries), three kinds in two
namespaces and for each an object its handler passes over, retention 2, clock 0..3 with analysis windows of 2 and confidence windows of 0 and 6
ticks, three selectors: both time scores that the windows allow (`engine.go:174-180`; the third is out of reach in
the code, too) and ties occur, and a record can fall out of the window, the retention or the ring between spike and
read. A ring of 3 names all its changes of high confidence in a summary; that the fourth is left out is proved. It is, with `composition`, the longest run: about three minutes.
`objective`: the three templates, manual queries and what
the schema refuses; targets 0, 99, 99.9 and 150 %; windows of 7, 30 and 90 days; default, custom and
refused alerts, one with a window in seconds; services that are absent, idle, flawless, or one request away from each
threshold, next to a second service that sends the same metrics; seven windowed rates around the
rounding, and every subset of presets with each window on or over its edge. A pass depends on the
rule stored by an earlier one and on nothing else, so three passes reach all there is. `cache`: two callers and two queries, each pair interchangeable (symmetry), TTL 1, clock 0..3. CHECK_DEADLOCK is off
where the bounds end every behaviour.

**Fairness** (`SLOReconciler!Fairness`). The worker goroutine runs (weak fairness on
`Reconcile`: it is never blocked, every call returns), informers deliver and timers fire (weak), the
work queue is FIFO, so an SLO that is in it again and again is taken (strong fairness on
`Get`: the worker may be busy in between), and the garbage collector works (weak).
Nothing is assumed about users, failures, crashes or the clock. `Settles` speaks of
behaviours in which failures stop; `Polled` needs no such premise.

## Theorems

Checked by TLAPS for every value of the constants: any number of SLOs, compositions, callers,
changes, edits and restarts. The assumptions are named and TLC evaluates them in every run.

| Assumption | Says | Because |
|---|---|---|
| `CooldownAssumption`, `CacheAssumption`, `SizeAssumption`, `LimitAssumption`, `BoundAssumption` | durations, sizes and bounds are natural numbers; the cooldown and the ring's size are positive | they are Go constants |
| `RatesAssumption`, `NaNAssumption` | burn rates are integers or NaN, and NaN is no integer | see Abstractions |
| `SLOAssumption`, `UnusedAssumption` | "none" is no SLO, and no record | a nil pointer, a zero struct |
| `KindsAssumption` | the four watched kinds | `SetupWithManager` of the collector |
| `WindowAssumption`, `TriggerAssumption` | the windows are numbers, the one after the spike is not empty; "no analysis" is no time | constants of `engine.go` |
| `CompositionAssumption` | the shapes of specs; weights are natural numbers, error rates lie between 0 and 1 | the schema; an error rate is a ratio |
| `ObjectiveAssumption` | targets from 0 to 200 %, but not exactly 100 %, natural numbers in windows and alerts, an SLO has a window, finitely many series with whole rates, two numbers per preset that answers | the schema and Prometheus. At exactly 100 % the budget is zero and the quotients are NaN or infinite: that target is left to `SLOReconciler`, whose `Samples` take them (`slo_live` has the NaN) |
| `ServiceAssumption` | a service's history is what its series tell: it is absent if none of them carries the objective's labels, their rates add up to its requests and bad requests, a threshold is a bucket if there are series of it; error rates are whole multiples of 1/10000 | the properties compare the status with what *happened*; the assumption says how that shows in the metrics, independently of any selector the operator builds. Rates are kept in 1/10000, and a rounded one would judge another service |
| `NoDataAssumption`, `NotANumberAssumption` | an empty result, and a flag that is no number, are no numbers | Prometheus, `strconv.ParseFloat` |

**Detector** (`AnomalyDetector_proofs`): `TypeCorrect`, `CooldownIsKept`, `CriticalRisesAreCovered`,
`SeveritiesAreBands`, `DetectorImplementsGate`. The inductive invariant `IInv` adds to the properties
what ties the history to the detector's memory: every detection of a key is at most as recent as
the key's last correlation time, and that one is not in the future. Without it nothing
says that the gap to *all* earlier detections is bounded by the gap to the last one.

**SLO controller** (`SLOReconciler_proofs`):

- `TypeCorrect`, in four parts, one per party.
- `NoSLOIsForgotten` and `StatusIsOfCurrentSpec`, from one invariant, `WatchInv`: an SLO
  without a watch event under way is in the cache as it is stored (`CacheCurrent`), a copy
  the worker believes fresh has the stored version (`CopyCurrent`), and `NeverForgotten`.
  The last alone is not inductive: a stale cache could answer NotFound for an SLO that
  exists, and the code drops it then.
- `CorrelationsKeepDistance`, from `CorrInv`: every correlation of this run of the process is at
  most as recent as the detector's memory of its SLO, and a whole cooldown older than a spike
  the worker has detected and not stored yet.
- `ControllerImplementsGate`: the whole controller, seen through the detector's memory, is a set
  of cooldown gates, and the epoch of every gate is the number of restarts: no edit, deletion, re-creation or failing
  call lets one forget (`DetectorImplementsGate` says the same of the detector, whose epochs count `ResetCooldown` and `Clear`).

**Collector** (`ChangeCollector_proofs`, of the collector alone): `TypeCorrect`, `NothingIsMissed`,
`OneKindIsInOrder`, and the refinement `RingImplementsLog`. All follow from
`RingInv`, that the places behind the write position hold the last entries of the log, and its step is
arithmetic of the ring (`Place`, modulo `Size`). What the readers promise needs more: no record
is from the future (`StampInv`), no two are the same (`DistinctInv`), and the records of one kind are in
order *together with the one its handler holds* (`OrderInv`); without the last part, adding that one
could break the order.

**Engine** (`CorrelationEngine_proofs`): `EngineKeepsCollector` shows that an analysis is a stutter of
the collector, so the theorems above hold beneath it (`CollectorIsRightUnderEngine`). `ReportInv` says how a report came about in the
read of the ring, from the time of the trigger, which need not be that of the read (`TriggerInv`); `ReportsAreExact`, `CausesComeFirst` and `SummariesBlameTheTop` are then facts about a filter,
a score and any order in which scores do not rise. `CausesFirst` rests on the scores: with every
selector, what an Event loses by its kind is more than what any other factor can return to it over a change
that has the full score for time (`CausesScoreMore`). Of changes further from the spike than the high confidence window, 15 minutes, it is
false: a ConfigMap of 29 minutes before scores 55, a crash of the last minute 60.

**Cache** (`CachedClient_proofs`): `TypeCorrect`, `ErrorsReviveNothing`, `OwnAnswersNeverGoBack`. For the second, an entry that is
still the caller's own after its query failed has expired, and stays so (`FailedIsExpired`). The
last is an action property and needs to know why a caller never overtakes itself: an entry
that is still the caller's own is the newest thing it has seen (`OwnEntryIsNewest`), and so is an
answer in hand that is not stored yet (`InHandIsNewest`).

**Composition controller** (`SLOCompositionReconciler_proofs`): `TypeCorrect`, `GivenUpOnlyIfMissing`,
`StatusIsOfCurrentSpec` by the argument of the SLO controller; `WatchInv` adds that a composition that lacks an
SLO is unknown. For `RulesComposeTheWeakest`, the SLOs fetched so far are those of the first objectives in their order
(`FetchInv`), so a rule selects exactly the SLOs its spec refers to (`StoredRules`), and the maximum
over the series these selectors match is the worst of them or of a namesake, whose outage is therefore the
composition's (`NamesakesAreSelected`). `OutagesHitTheirRoutes` adds
that a rule has the routes of its spec, and in the chain of each the SLOs its aliases stand for, the last of
a name (`HasRoutes`). Under an outage every product of a chain is 0 or the whole (`ChainIsLost`: the fold's
recursion is solved by giving its solution), so each route adds its weight or nothing, as in the sum of what is left.

**Error budget, rules and alerts** (`ObjectiveEvaluation_proofs`): `StatusIsTheWorst`,
`StatusIsMonotone`, `BudgetIsAccounted`, `AlertsReadWhatIsRecorded`, `AlertsFollowThePhase`,
`CustomAlertsMeanConsumption`, `ServicesAreJudgedRight`, `BacktestAgreesWithStatus`, for every objective, all
readings and any service. The invariant says that
both rules, the stored one and the one behind the last answers, are those of the objective, and that a
computed status is the judgement of numbers. That a service's error rate is a number at all is
a fact about sums over finite sets of series: `SumExists` in `Basics_proofs` shows, with a least
counterexample, that the fold's recursion has a solution and that it is a natural number.

From labels to the phase, `ServicesAreJudgedRight` has three steps. What a generated selector matches is
what carries the labels of the objective, for the three templates and every set of labels (`SelectedIsCarrying`,
`OneMoreMatcher`); so the recorded rate is the share of bad requests, or what the fallbacks make of an outage and of
idleness (`RuleMeasures`); and a steady rate knows no middle (`SteadyJudgement`): below the budget it is below
every threshold, at the budget it is violated already. The invariant keeps that the last status is this judgement
(`SteadyInv`). `BacktestAgreesWithStatus` compares with it what the command asks: the same recording rule, or with
`--pre-apply` the raw queries, which differ by the fallbacks and by nothing else (`RawLacksFallbacks`).

Four proofs failed at first for a good reason, and the model changed. Custom alerts of an objective
whose burn-rate alerts are disabled do not fire, so `CustomAlertMeansConsumption` is about the enabled ones, and
the run now has an objective that is not. A cascade of ifs had been written as a CASE with overlapping
guards, which TLC reads from top to bottom and the logic does not; these are nested IFs now. And the
composition proofs assumed at least one objective, which nothing in the schema asks for: they do without, and
the run has a composition of nothing, whose rule is never stored because the SLO that should own it has no name.
`BacktestAgrees` was false of a target of zero: the schema admits it and the status judges it, the command
refuses it (`cmd/slok/main.go:273`), as it does one above 100 %. The property says so, and the run has such objectives.

**Only model-checked.** Liveness (`Settles` of both controllers, `Polled`): under fairness and ENABLED, which
are out of the prover's reach. `ComposesTheRoutes`: the tolerance of its comparison covers the rounding of products
of the error rates and weights of the run, and would have to grow with the number and length of the routes; that the
right SLOs stand in the right routes with the right weights is `OutagesHitTheirRoutes`, proved, where nothing is
rounded. (Without rounding, and if no chain names an SLO twice, the composed rate is linear in the rate of each
SLO, so its values at the outages determine all others; this argument is not machine-checked.) No module declares RECURSIVE.

## Plan

1. Done: all components of the operator and the backtest command, with liveness for both
   controllers; proofs of every safety property that the passing runs check but `ComposesTheRoutes`, and of
   both refinements.
2. Left to prove: `ComposesTheRoutes` for fractional error rates, in exact fractions instead of 1/1000.
3. Names of rules, and what a rename of an objective leaves behind, would need a model of
   `SLOReconciler` with more than one rule per SLO.

## Not modelled

Formatting of PromQL, YAML and reports (`internal/backtest/report.go`); the prompt of the LLM; names of
rules; `For`, severities and annotations; alerts of compositions; metrics (registered, never
set); logging; deepcopy (generated); Helm charts, CRDs and dashboards; flags, TLS and probes of the manager;
leader election (one replica is assumed); reading of files and kubeconfig by the command line.
`internal/burnrate.Calculate`, `internal/validation`, `AvailableTemplates` and
`IsValidTemplate` have no caller in production code.
