---------------------------- MODULE CooldownGate ----------------------------
(***************************************************************************)
(* What the anomaly detector promises, whatever burn rates it is fed: it   *)
(* is a gate per SLO that opens at most once per cooldown and forgets when *)
(* it last did only when its epoch ends.                                   *)
(***************************************************************************)
EXTENDS Integers

CONSTANTS Keys, Cooldown

VARIABLES
    clock,      \* wall clock
    lastFired,  \* key -> time the gate last let a spike through
    epoch       \* key -> how often its memory was wiped

ZeroTime == 0 - Cooldown

Init ==
    /\ clock = 0
    /\ lastFired = [k \in Keys |-> ZeroTime]
    /\ epoch = [k \in Keys |-> 0]

\* The gate of k opens: only if the cooldown has run out.
Fire(k) ==
    /\ clock - lastFired[k] >= Cooldown
    /\ lastFired' = [lastFired EXCEPT ![k] = clock]
    /\ UNCHANGED <<clock, epoch>>

\* The memory of some keys is wiped: a new epoch begins for each of them.
Forget(K) ==
    /\ epoch' = [k \in Keys |-> IF k \in K THEN epoch[k] + 1 ELSE epoch[k]]
    /\ lastFired' = [k \in Keys |-> IF k \in K THEN ZeroTime ELSE lastFired[k]]
    /\ UNCHANGED clock

Tick ==
    /\ clock' = clock + 1
    /\ UNCHANGED <<lastFired, epoch>>

Next ==
    \/ \E k \in Keys : Fire(k)
    \/ \E K \in SUBSET Keys : Forget(K)
    \/ Tick

Spec == Init /\ [][Next]_<<clock, lastFired, epoch>>
=============================================================================
