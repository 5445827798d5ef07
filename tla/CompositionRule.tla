--------------------------- MODULE CompositionRule ---------------------------
(***************************************************************************)
(* What a SLOComposition asks for and what becomes of it: the admission    *)
(* checks (the rules in api/v1alpha1/slocomposition_types.go, the webhook  *)
(* in internal/webhook/v1alpha1/slocomposition_webhook.go), the aggregated *)
(* rule (CreateAggregatedPrometheusRule) and the error rate Prometheus     *)
(* makes of it.  A spec is [objectives, type, routes, window]: a sequence  *)
(* of [name, ref], one of [name, weight, chain].  Weights and rates are in *)
(* 1/1000.  The alerts, those of RuleGenerator on other series, are left   *)
(* out.                                                                    *)
(***************************************************************************)
EXTENDS Integers, SequencesExt

CONSTANTS
    ObjectiveId,    \* objective_id (name/objective) of each SLO, in whatever namespace
    Webhook         \* ENABLE_WEBHOOKS is not "false"

Whole == 1000

Types   == {"AND_MIN", "WEIGHTED_ROUTES"}
Windows == {"recorded", "odd"}      \* odd: none of the recording rules computes it

Aliases(spec) == {o.name : o \in ToSet(spec.objectives)}
Refs(spec) == [i \in DOMAIN spec.objectives |-> spec.objectives[i].ref]

-----------------------------------------------------------------------------
TotalWeight(routes) == FoldLeft(LAMBDA x, r : x + r.weight, 0, routes)

\* The schema of the resource: a known type, and params only for weighted routes, at
\* least one, of weights that sum to 1 give or take 0.001.  A spec without params is one
\* without routes.
ValidSchema(spec) ==
    /\ spec.type \in Types
    /\ IF spec.type = "WEIGHTED_ROUTES"
       THEN spec.routes # <<>> /\ TotalWeight(spec.routes) \in (Whole - 1)..(Whole + 1)
       ELSE spec.routes = <<>>

\* The webhook looks an alias up among the objectives of the spec; it looks neither for
\* duplicate aliases nor for empty chains.
validateSLOComposition(spec) ==
    spec.type = "WEIGHTED_ROUTES" =>
        /\ \A i, j \in DOMAIN spec.routes : spec.routes[i].name = spec.routes[j].name => i = j
        /\ \A route \in ToSet(spec.routes) : ToSet(route.chain) \subseteq Aliases(spec)

Admitted(spec) == ValidSchema(spec) /\ (Webhook => validateSLOComposition(spec))

-----------------------------------------------------------------------------
\* Generation is given the SLOs fetched, members, in the order of the objectives.  The
\* aliases of the objectives that have a member:
FetchedAliases(spec, members) ==
    {spec.objectives[i].name : i \in DOMAIN spec.objectives \cap DOMAIN members}

\* Mutant: an alias that is in the map already is not set again.
aliasToFirstSLO(spec, members) ==
    [alias \in FetchedAliases(spec, members) |->
        members[Min({i \in DOMAIN members : spec.objectives[i].name = alias})].slo]

\* The map is filled in the order of the objectives: the last of a name stays.
aliasToSLO(spec, members) ==
    [alias \in FetchedAliases(spec, members) |->
        members[Max({i \in DOMAIN members : spec.objectives[i].name = alias})].slo]

\* The generator returns no error: the type is one of its cases, weighted routes have
\* params, and every alias of a chain is in the map.
Generatable(spec, members) ==
    /\ spec.type \in Types
    /\ spec.type = "WEIGHTED_ROUTES" =>
        /\ spec.routes # <<>>
        /\ \A route \in ToSet(spec.routes) : ToSet(route.chain) \subseteq FetchedAliases(spec, members)

CreateAggregatedPrometheusRule(spec, members) ==
    [ids |-> {ObjectiveId[m.slo] : m \in ToSet(members)},
     routes |-> [i \in DOMAIN spec.routes |->
                    [weight |-> spec.routes[i].weight,
                     slos |-> [j \in DOMAIN spec.routes[i].chain |->
                                aliasToSLO(spec, members)[spec.routes[i].chain[j]]]]]]

\* An empty chain is written "weight * ()", which is no PromQL.
Loadable(aggregate) == \A route \in ToSet(aggregate.routes) : route.slos # <<>>

\* Mutant: a chain fails only if all of it does.
ChainErrorRateOfAll(slos, errors) ==
    FoldLeft(LAMBDA x, s : (x * errors[s]) \div Whole, Whole, slos)

\* 1 - (1 - e1) * (1 - e2) * ...
ChainErrorRate(slos, errors) ==
    Whole - FoldLeft(LAMBDA x, s : (x * (Whole - errors[s])) \div Whole, Whole, slos)

\* Mutant: the best of the members instead of the worst.
ComposedErrorRateOfBest(aggregate, errors) ==
    Min({errors[s] : s \in {x \in DOMAIN errors : ObjectiveId[x] \in aggregate.ids}})

\* slok:sli_error_composition_rate: the maximum over all series of these ids, whatever
\* their namespace, or 1 - (sum of weight * success).
ComposedErrorRate(aggregate, errors) ==
    IF aggregate.routes = <<>>
    THEN Max({errors[s] : s \in {x \in DOMAIN errors : ObjectiveId[x] \in aggregate.ids}})
    ELSE Whole - FoldLeft(LAMBDA x, r : x + (r.weight * (Whole - ChainErrorRate(r.slos, errors))) \div Whole,
                          0, aggregate.routes)
=============================================================================
