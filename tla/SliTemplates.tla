---------------------------- MODULE SliTemplates ----------------------------
(***************************************************************************)
(* internal/templates/templates.go: how an SLI becomes queries, and what   *)
(* the error rate built from them says of a service with steady traffic.   *)
(*                                                                         *)
(* A selector is [metric, matchers]; a matcher <<label, values>> accepts   *)
(* the values its regular expression does.  Matchers are a set: the text   *)
(* lists them in the order Go walks the label map, which differs from one  *)
(* call to the next, and selects the same series in each.  Traffic is a    *)
(* set of series [metric, labels, rate]; error rates are in 1/10000.       *)
(***************************************************************************)
EXTENDS Integers, FiniteSetsExt

CONSTANTS
    ServerErrors,   \* status codes the expression 5.. matches
    NoTemplate, NoQuery,    \* the field of the SLI is not set
    NoData          \* an expression without a result

ASSUME NoDataAssumption == NoData \notin Int

Everything == 10000

\* buildLabelSelector
buildLabelSelector(labels) == {<<l, {labels[l]}>> : l \in DOMAIN labels}

Param(params, key, default) == IF key \in DOMAIN params THEN params[key] ELSE default

Selector(metric, matchers) == [metric |-> metric, matchers |-> matchers]
Ratio(total, error) == [form |-> "ratio", total |-> total, error |-> error]
Unresolved == [form |-> "none"]

\* Mutant: the errors of every service are counted.
httpAvailabilityUnlabelledErrors(t) ==
    Ratio(Selector("http_requests_total", buildLabelSelector(t.labels)),
          Selector("http_requests_total", {<<"status", ServerErrors>>}))

httpAvailabilityTemplate(t) ==
    LET labels == buildLabelSelector(t.labels)
    IN  Ratio(Selector("http_requests_total", labels),
              Selector("http_requests_total", labels \cup {<<"status", ServerErrors>>}))

\* Needs a threshold; that it is the text of a bucket's bound is not looked at.
httpLatencyTemplate(t) ==
    LET labels == buildLabelSelector(t.labels)
        threshold == Param(t.params, "threshold", "")
    IN  IF threshold = "" THEN Unresolved
        ELSE [form |-> "latency",
              fast |-> Selector("http_request_duration_seconds_bucket",
                                labels \cup {<<"le", {threshold}>>}),
              count |-> Selector("http_request_duration_seconds_count", labels)]

kubernetesAPIServerTemplate(t) ==
    LET labels == buildLabelSelector(t.labels)
        codes == Param(t.params, "errorCodes", ServerErrors)
    IN  Ratio(Selector("apiserver_request_total", labels),
              Selector("apiserver_request_total", labels \cup {<<"code", codes>>}))

resolveTemplate(t) ==
    CASE t.name = "http-availability"    -> httpAvailabilityTemplate(t)
      [] t.name = "http-latency"         -> httpLatencyTemplate(t)
      [] t.name = "kubernetes-apiserver" -> kubernetesAPIServerTemplate(t)
      [] OTHER                           -> Unresolved

\* A template wins over a query; the schema admits exactly one of them.
Resolve(sli) ==
    IF sli.template # NoTemplate THEN resolveTemplate(sli.template)
    ELSE IF sli.query = NoQuery THEN Unresolved
    ELSE Ratio(sli.query.total, sli.query.error)

-----------------------------------------------------------------------------
(***************************************************************************)
(* What Prometheus makes of the queries.                                   *)
(***************************************************************************)
Selected(selector, traffic) ==
    {s \in traffic :
        /\ s.metric = selector.metric
        /\ \A m \in selector.matchers : Param(s.labels, m[1], "") \in m[2]}

Rates(series) == LET Rate(s) == s.rate IN MapThenSumSet(Rate, series)

\* sum(rate(selector[w])): the same for every window, as the traffic is steady.
SumRate(selector, traffic) ==
    LET selected == Selected(selector, traffic)
    IN  IF selected = {} THEN NoData ELSE Rates(selected)

\* x / clamp_min(y, 1e-12): 0 stays 0 over nothing, all else is more than everything.
ClampedRatio(x, y) ==
    IF y > 0 THEN (Everything * x) \div y ELSE IF x = 0 THEN 0 ELSE 2 * Everything

\* sliErrorRateExpr: no series at all is an outage, no error series no error.
sliErrorRate(total, error) ==
    IF total = NoData THEN Everything
    ELSE ClampedRatio(IF error = NoData THEN 0 ELSE error, total)

\* The raw expression of http-latency, without such a fallback: no requests are no
\* fast requests.
latencyErrorRate(fast, count) ==
    IF fast = NoData \/ count = NoData THEN NoData
    ELSE Everything - ClampedRatio(fast, count)

ErrorRate(resolved, traffic) ==
    IF resolved.form = "latency"
    THEN latencyErrorRate(SumRate(resolved.fast, traffic), SumRate(resolved.count, traffic))
    ELSE sliErrorRate(SumRate(resolved.total, traffic), SumRate(resolved.error, traffic))
=============================================================================
