-------------------------- MODULE MCSLOReconciler --------------------------
EXTENDS SLOReconciler

Burn(x) == [short |-> x, long |-> x]
Sample(windowed, burnRates) ==
    [data |-> TRUE, windowed |-> windowed, burnRates |-> burnRates]

NoData   == [data |-> FALSE, windowed |-> 0, burnRates |-> [p \in {} |-> NoBurn]]
Healthy  == Sample(20000, [p \in Presets |-> Burn(0)])
Outage   == Sample(20000, [p \in Presets |-> Burn(15)])
\* The 5m/1h queries failed: the detector is fed the 1h rate.
No5m     == Sample(20000, [p \in {2, 3, 4} |-> Burn(7)])
Spent    == Sample(130000, [p \in Presets |-> Burn(2)])
\* A target of 100: the budget is 0, every burn rate 0/0.
ZeroBudget == Sample(NaN, [p \in Presets |-> Burn(NaN)])

MCSamples == {Healthy, Outage}

\* For the safety runs: the other modes only take behaviours away.
AlwaysTurbulent == mode = "turbulent"

\* For the liveness runs: no data, good data, data that cannot be written.
MCLiveSamples == {NoData, Healthy, ZeroBudget}
=============================================================================
