--------------------- MODULE MCSLOCompositionReconciler ---------------------
EXTENDS SLOCompositionReconciler

CONSTANTS a, b, namesake

Sample(windowed, x) ==
    [data |-> TRUE, windowed |-> windowed,
     burnRates |-> [p \in Presets |-> [short |-> x, long |-> x]]]

\* No data, good data.  Data that cannot be written would only repeat a failing
\* status update, which may happen anyway until the world is calm.
NoData    == [data |-> FALSE, windowed |-> 0, burnRates |-> [p \in {} |-> NoBurn]]
Healthy   == Sample(20000, 0)
MCSamples == {NoData, Healthy}

\* No requests fail, or half of them.
MCErrorRates == {0, 500}

\* An SLO in a namespace without compositions is the namesake of a.
Alias(name, slo) == [name |-> name, ref |-> slo]
Route(name, weight, chain) == [name |-> name, weight |-> weight, chain |-> chain]

AndMin(objectives, window) ==
    [objectives |-> objectives, type |-> "AND_MIN", routes |-> <<>>, window |-> window]
Weighted(objectives, routes) ==
    [objectives |-> objectives, type |-> "WEIGHTED_ROUTES", routes |-> routes, window |-> "recorded"]

JustA == <<Alias("x", a)>>
JustB == <<Alias("x", b)>>
Both  == <<Alias("x", a), Alias("y", b)>>
Twice == <<Alias("x", b), Alias("x", a), Alias("y", b)>>
MCObjectiveId == (a :> "a/o") @@ (b :> "b/o") @@ (namesake :> "a/o")

OneOrTwo == {AndMin(JustA, "recorded"), AndMin(Both, "recorded")}
JustOne  == {AndMin(JustA, "recorded")}

\* A window that is not recorded, of an SLO that has a namesake; an SLO that has none; no
\* objectives; two routes and an alias given twice; an empty chain; and what is refused:
\* an unknown alias, a route twice, weights that do not add up, an unknown type.
MixedSpecs ==
    {AndMin(JustA, "odd"),
     AndMin(JustB, "recorded"),
     AndMin(<<>>, "recorded"),
     Weighted(Twice, <<Route("r", 900, <<"x">>), Route("s", 100, <<"x", "y">>)>>),
     Weighted(JustA, <<Route("r", 1000, <<>>)>>),
     Weighted(JustA, <<Route("r", 1000, <<"x", "z">>)>>),
     Weighted(JustA, <<Route("r", 500, <<"x">>), Route("r", 500, <<"x">>)>>),
     Weighted(JustA, <<Route("r", 500, <<"x">>)>>),
     [AndMin(JustA, "recorded") EXCEPT !.type = "OR_MAX"]}
=============================================================================
