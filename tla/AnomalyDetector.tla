--------------------------- MODULE AnomalyDetector ---------------------------
(***************************************************************************)
(* internal/correlation/detector.go: the map of burn-rate states behind    *)
(* one mutex.  Every method holds the mutex from its first to its last     *)
(* access, so a call is one action.                                        *)
(***************************************************************************)
EXTENDS SpikeDetection

CONSTANTS
    Keys,       \* namespace/name of the SLOs
    Rates,      \* burn rates a sample can have: integers and NaN
    MaxTime,    \* bound: ticks of the clock
    MaxWipes    \* bound: resets and clears of one key

ASSUME RatesAssumption == \A r \in Rates \ {NaN} : r \in Int
ASSUME BoundAssumption == MaxTime \in Nat /\ MaxWipes \in Nat

VARIABLES
    now,        \* the monotonic clock behind time.Now
    states,     \* map[string]*BurnRateState; its DOMAIN is the keys seen
    detections, \* history: the SpikeResults with Detected = true, and
    crossings,  \* history: the samples that rose above the critical threshold,
                \* both since the memory of their key was last wiped
    wipes       \* history: how often the memory of a key was wiped

vars == <<now, states, detections, crossings, wipes>>

State == [previous : Rates, last : Int]

Detection == [key : Keys, at : Nat, severity : Severities]
Crossing  == [key : Keys, at : Nat]

TypeOK ==
    /\ now \in Nat
    /\ DOMAIN states \subseteq Keys
    /\ states \in [DOMAIN states -> State]
    /\ detections \subseteq Detection
    /\ crossings \subseteq Crossing
    /\ wipes \in [Keys -> Nat]

NoStates == [k \in {} |-> NewState(NaN)]

Init ==
    /\ now = 0
    /\ states = NoStates
    /\ detections = {}
    /\ crossings = {}
    /\ wipes = [k \in Keys |-> 0]

\* DetectSpike, the SLO is unknown: record the sample, report nothing.
FirstSight(k, rate) ==
    /\ k \notin DOMAIN states
    /\ states' = [j \in DOMAIN states \cup {k} |->
                    IF j = k THEN NewState(rate) ELSE states[j]]
    /\ UNCHANGED <<now, detections, crossings, wipes>>

\* DetectSpike, the SLO is known.
DetectSpike(k, rate) ==
    /\ k \in DOMAIN states
    /\ LET s == states[k] IN
       /\ states' = [states EXCEPT ![k] = UpdatedState(s, rate, now)]
       /\ detections' = detections \cup
            {d \in {[key |-> k, at |-> now, severity |-> Severity(s.previous, rate)]} :
                Detected(s, rate, now)}
       /\ crossings' = crossings \cup
            {c \in {[key |-> k, at |-> now]} :
                Crosses(s.previous, rate, BurnRateCriticalThreshold)}
    /\ UNCHANGED <<now, wipes>>

ResetCooldown(k) ==
    /\ k \in DOMAIN states
    /\ wipes[k] < MaxWipes
    /\ wipes' = [wipes EXCEPT ![k] = @ + 1]
    /\ states' = [states EXCEPT ![k].last = ZeroTime]
    /\ detections' = {d \in detections : d.key # k}
    /\ crossings' = {c \in crossings : c.key # k}
    /\ UNCHANGED now

Clear ==
    /\ \A k \in Keys : wipes[k] < MaxWipes
    /\ wipes' = [k \in Keys |-> wipes[k] + 1]
    /\ states' = NoStates
    /\ detections' = {}
    /\ crossings' = {}
    /\ UNCHANGED now

Tick ==
    /\ now < MaxTime
    /\ now' = now + 1
    /\ UNCHANGED <<states, detections, crossings, wipes>>

Next ==
    \/ \E k \in Keys, rate \in Rates : FirstSight(k, rate) \/ DetectSpike(k, rate)
    \/ \E k \in Keys : ResetCooldown(k)
    \/ Clear
    \/ Tick

Spec == Init /\ [][Next]_vars

-----------------------------------------------------------------------------
(***************************************************************************)
(* Properties                                                              *)
(***************************************************************************)

\* "DefaultCooldown is the minimum time between correlations for the same SLO"
\* (detector.go:31): as long as nobody wipes the memory of a key, two of its
\* detections are never closer than the cooldown, whatever samples arrive, and
\* one instant never has two detections of different severities.
CooldownSpacing ==
    \A d, e \in detections :
        d.key = e.key =>
            /\ d.at < e.at => e.at - d.at >= Cooldown
            /\ d.at = e.at => d = e

\* A rise above the critical threshold is never silent: it is reported itself,
\* or a correlation of the same SLO less than a cooldown old stands for it.  A
\* rise is one between two consecutive samples; from NaN there is none to see,
\* nor from before the memory was wiped.
CriticalRiseCovered ==
    \A c \in crossings : \E d \in detections :
        d.key = c.key /\ d.at <= c.at /\ c.at - d.at < Cooldown

\* The severity of a new detection is the band the current sample is in, even
\* when it jumped over several thresholds at once, and the sample before it was
\* in a lower band.
SeverityIsBandOfSample ==
    [][\A d \in detections' \ detections :
        LET Band(r) == {t \in Thresholds : Above(r, t)}
            prev == Band(states[d.key].previous)
            cur  == Band(states'[d.key].previous)
        IN  /\ prev \subseteq cur /\ prev # cur
            /\ d.severity = "critical" <=> BurnRateCriticalThreshold \in cur
            /\ d.severity = "warning"  <=> cur = {BurnRateWarningThreshold}
      ]_vars

\* The detector implements one cooldown gate per SLO, which forgets when
\* ResetCooldown or Clear say so and at no other call.
Gate == INSTANCE CooldownGate WITH
            clock <- now,
            lastFired <- [k \in Keys |->
                            IF k \in DOMAIN states THEN states[k].last ELSE ZeroTime],
            epoch <- wipes

GateSpec == Gate!Spec
=============================================================================
