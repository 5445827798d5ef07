------------------------------ MODULE Backtest ------------------------------
(***************************************************************************)
(* cmd/slok/main.go and internal/backtest: the backtest command, from its  *)
(* flags to its verdicts.  It is one sequential pass whose checks come in  *)
(* order; the first that fails is the outcome.  Targets are in 1/100 of a  *)
(* percent, so that a budget is in 1/10000; a flag text that is no number  *)
(* is NotANumber.                                                          *)
(***************************************************************************)
EXTENDS RuleGenerator, Sequences

CONSTANTS NotANumber, NoWindow

ASSUME NotANumberAssumption == NotANumber \notin Int

validateTarget(target) == target \notin {NotANumber} /\ target > 0 /\ target < 10000

parseTimeout(timeout) == timeout # NotANumber /\ timeout > 0

\* No --targets: the objective's own.
parseTargets(flags, slo) == IF flags.targets = <<>> THEN <<slo.target>> ELSE flags.targets

\* From the file the manual queries come along, never those of a template.  From the
\* cluster none do, and neither are they used.
ResolvedQueries(flags, slo) ==
    IF flags.file /\ slo.sli.query # NoQuery THEN slo.sli.query ELSE NoQuery

\* buildErrorRateQuery: the mode is not passed on, only the queries are, so that
\* without them the recording rules are asked, pre-apply or not.
Source(flags, slo) ==
    IF flags.preApply /\ ResolvedQueries(flags, slo) # NoQuery THEN "raw" ELSE "recording rules"

\* The raw query has no fallback: no series of errors is no data.
RawErrorRate(query, traffic) ==
    LET e == SumRate(query.error, traffic)
        t == SumRate(query.total, traffic)
    IN  IF e = NoData \/ t = NoData THEN NoData ELSE ClampedRatio(e, t)

\* avg_over_time of slok:sli_error_rate:5m, if the rule is there.
QueryAvgErrorRate(flags, slo, rules, traffic) ==
    IF Source(flags, slo) = "raw" THEN RawErrorRate(slo.sli.query, traffic)
    ELSE IF rules = {} THEN NoData
    ELSE ErrorRate((CHOOSE r \in rules : TRUE).sli, traffic)

\* Mutant: a budget spent to the last is failed.
computeTargetResultStrict(target, errorRate) ==
    [target |-> target, errorRate |-> errorRate,
     status |-> IF errorRate >= BudgetOf(target) THEN "FAIL" ELSE "PASS"]

\* BudgetBurned > 100; the two percentages are told by the rate.
computeTargetResult(target, errorRate) ==
    [target |-> target, errorRate |-> errorRate,
     status |-> IF errorRate > BudgetOf(target) THEN "FAIL" ELSE "PASS"]

Failed(why) == [error |-> why, source |-> "none", results |-> <<>>]

\* runBacktest, on a cluster and a Prometheus that answer: slo is the one the file or
\* the name gives, rules the PrometheusRule of that name, if there is one.
runBacktest(flags, slo, rules, traffic) ==
    LET targets == parseTargets(flags, slo)
        rate == QueryAvgErrorRate(flags, slo, rules, traffic)
    IN  IF flags.preApply /\ ~flags.file THEN Failed("--pre-apply requires --file")
        ELSE IF ~parseTimeout(flags.timeout) THEN Failed("timeout")
        ELSE IF ~flags.file /\ ~flags.name THEN Failed("provide --name or --file")
        ELSE IF flags.range = NoWindow /\ slo.window = NoWindow THEN Failed("range")
        ELSE IF \E i \in DOMAIN targets : ~validateTarget(targets[i]) THEN Failed("targets")
        ELSE IF rate = NoData THEN Failed("no data")
        ELSE [error |-> "",
              source |-> Source(flags, slo),
              results |-> [i \in DOMAIN targets |-> computeTargetResult(targets[i], rate)]]
=============================================================================
