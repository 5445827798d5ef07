----------------------- MODULE AnomalyDetector_proofs -----------------------
(***************************************************************************)
(* For every set of keys, every set of rates and every cooldown: the types *)
(* of the detector, its two safety invariants, and that it implements one  *)
(* cooldown gate per SLO.                                                  *)
(***************************************************************************)
EXTENDS AnomalyDetector, TLAPS

\* Each BurnRateState agrees with the detections made since the memory of its
\* key was last wiped: LastCorrelation is the latest of them, or the zero time
\* when there is none.  A key that is not in the map has no history.
StatesMatchHistory ==
    /\ \A d \in detections :
        /\ d.key \in DOMAIN states
        /\ d.at <= states[d.key].last
    /\ \A c \in crossings : c.key \in DOMAIN states
    /\ \A k \in DOMAIN states :
        /\ states[k].last <= now
        /\ states[k].last # ZeroTime =>
             \E d \in detections : d.key = k /\ d.at = states[k].last

IInv == TypeOK /\ StatesMatchHistory /\ CooldownSpacing /\ CriticalRiseCovered

-----------------------------------------------------------------------------
\* What the detector decides is a severity of the SLOCorrelation CRD.
LEMMA SeverityType ==
    \A p, c : Severity(p, c) \in Severities
BY DEF Severity, Severities

\* The record DetectSpike leaves behind is a BurnRateState.
LEMMA UpdatedStateType ==
    ASSUME NEW s \in State, NEW rate \in Rates, NEW t \in Nat
    PROVE  UpdatedState(s, rate, t) \in State
BY DEF UpdatedState, State

\* A rise above the critical threshold is a spike unless the cooldown runs.
LEMMA CriticalRiseDetected ==
    ASSUME NEW s, NEW rate, NEW t,
           Crosses(s.previous, rate, BurnRateCriticalThreshold),
           ~InCooldown(s, t)
    PROVE  Detected(s, rate, t)
BY DEF Detected, Thresholds

-----------------------------------------------------------------------------
\* Every value the detector stores has its Go type's shape.
THEOREM TypeCorrect == Spec => []TypeOK
<1>1. Init => TypeOK
  BY DEF Init, TypeOK, NoStates
<1>2. TypeOK /\ [Next]_vars => TypeOK'
  <2> SUFFICES ASSUME TypeOK, [Next]_vars PROVE TypeOK'
    OBVIOUS
  <2>1. ASSUME NEW k \in Keys, NEW rate \in Rates, FirstSight(k, rate)
        PROVE  TypeOK'
    BY <2>1, CooldownAssumption DEF FirstSight, TypeOK, State, NewState, ZeroTime
  <2>2. ASSUME NEW k \in Keys, NEW rate \in Rates, DetectSpike(k, rate)
        PROVE  TypeOK'
    <3>1. UpdatedState(states[k], rate, now) \in State
      BY <2>2, UpdatedStateType DEF DetectSpike, TypeOK
    <3>2. Severity(states[k].previous, rate) \in Severities
      BY SeverityType
    <3> QED
      BY <2>2, <3>1, <3>2 DEF DetectSpike, TypeOK, Detection, Crossing
  <2>3. ASSUME NEW k \in Keys, ResetCooldown(k) PROVE TypeOK'
    BY <2>3, CooldownAssumption DEF ResetCooldown, TypeOK, State, ZeroTime
  <2>4. CASE Clear
    BY <2>4 DEF Clear, TypeOK, NoStates
  <2>5. CASE Tick
    BY <2>5 DEF Tick, TypeOK
  <2>6. CASE UNCHANGED vars
    BY <2>6 DEF vars, TypeOK
  <2> QED
    BY <2>1, <2>2, <2>3, <2>4, <2>5, <2>6 DEF Next
<1> QED
  BY <1>1, <1>2, PTL DEF Spec

-----------------------------------------------------------------------------
\* A DetectSpike keeps the inductive invariant.
LEMMA DetectSpikeKeepsInvariant ==
    ASSUME IInv, TypeOK', NEW k \in Keys, NEW rate \in Rates, DetectSpike(k, rate)
    PROVE  StatesMatchHistory' /\ CooldownSpacing' /\ CriticalRiseCovered'
<1> DEFINE s == states[k]
           d0 == [key |-> k, at |-> now, severity |-> Severity(s.previous, rate)]
           c0 == [key |-> k, at |-> now]
<1> USE CooldownAssumption DEF IInv
<1>1. /\ k \in DOMAIN states
      /\ DOMAIN states' = DOMAIN states
      /\ states'[k] = UpdatedState(s, rate, now)
      /\ \A j \in DOMAIN states : j # k => states'[j] = states[j]
      /\ now' = now
  BY DEF DetectSpike, TypeOK
<1>2. /\ now \in Nat
      /\ \A j \in DOMAIN states : states[j].last \in Int
      /\ \A d \in detections : d.at \in Nat
      /\ \A c \in crossings : c.at \in Nat
      /\ ZeroTime = 0 - Cooldown
  BY DEF TypeOK, State, Detection, Crossing, ZeroTime
<1>3. /\ Crosses(s.previous, rate, BurnRateCriticalThreshold) => crossings' = crossings \cup {c0}
      /\ ~Crosses(s.previous, rate, BurnRateCriticalThreshold) => crossings' = crossings
  BY DEF DetectSpike
<1>4. CASE Detected(s, rate, now)
  <2>1. detections' = detections \cup {d0}
    BY <1>4 DEF DetectSpike
  <2>2. states'[k].last = now /\ now - s.last >= Cooldown
    BY <1>1, <1>2, <1>4 DEF UpdatedState, Detected, InCooldown
  <2>3. \A d \in detections : d.key = k => now - d.at >= Cooldown
    BY <1>1, <1>2, <2>2 DEF StatesMatchHistory
  <2>4. StatesMatchHistory'
    <3>1. \A d \in detections' : d.key \in DOMAIN states' /\ d.at <= states'[d.key].last
      BY <1>1, <1>2, <2>1, <2>2, CooldownAssumption DEF StatesMatchHistory
    <3>2. \A c \in crossings' : c.key \in DOMAIN states'
      BY <1>1, <1>3 DEF StatesMatchHistory
    <3>3. \A j \in DOMAIN states' :
            /\ states'[j].last <= now'
            /\ states'[j].last # ZeroTime =>
                 \E d \in detections' : d.key = j /\ d.at = states'[j].last
      <4> SUFFICES ASSUME NEW j \in DOMAIN states
                   PROVE  /\ states'[j].last <= now
                          /\ states'[j].last # ZeroTime =>
                               \E d \in detections' : d.key = j /\ d.at = states'[j].last
        BY <1>1
      <4>1. CASE j = k
        <5>1. d0 \in detections' /\ d0.key = j /\ d0.at = states'[j].last
          BY <2>1, <2>2, <4>1
        <5> QED
          BY <1>2, <2>2, <4>1, <5>1
      <4>2. CASE j # k
        BY <1>1, <2>1, <4>2 DEF StatesMatchHistory
      <4> QED
        BY <4>1, <4>2
    <3> QED
      BY <3>1, <3>2, <3>3 DEF StatesMatchHistory
  <2>5. CooldownSpacing'
    BY <1>1, <1>2, <2>1, <2>3 DEF CooldownSpacing
  <2>6. CriticalRiseCovered'
    <3>1. d0 \in detections' /\ d0.key = c0.key /\ d0.at <= c0.at /\ c0.at - d0.at < Cooldown
      BY <1>2, <2>1
    <3> QED
      BY <1>3, <2>1, <3>1 DEF CriticalRiseCovered
  <2> QED
    BY <2>4, <2>5, <2>6
<1>5. CASE ~Detected(s, rate, now)
  <2>1. detections' = detections
    BY <1>5 DEF DetectSpike
  <2>2. states'[k].last = s.last
    BY <1>1, <1>5 DEF UpdatedState
  <2>3. StatesMatchHistory'
    BY <1>1, <1>2, <1>3, <2>1, <2>2 DEF StatesMatchHistory
  <2>4. CooldownSpacing'
    BY <2>1 DEF CooldownSpacing
  <2>5. CriticalRiseCovered'
    <3>1. CASE Crosses(s.previous, rate, BurnRateCriticalThreshold)
      <4>1. now - s.last < Cooldown
        BY <1>5, <3>1, CriticalRiseDetected DEF InCooldown
      <4>2. s.last # ZeroTime
        BY <1>1, <1>2, <4>1
      <4>3. PICK d \in detections : d.key = k /\ d.at = s.last
        BY <1>1, <4>2 DEF StatesMatchHistory
      <4>4. d \in detections' /\ d.key = c0.key /\ d.at <= c0.at /\ c0.at - d.at < Cooldown
        BY <1>1, <1>2, <2>1, <4>1, <4>3 DEF StatesMatchHistory
      <4> QED
        BY <1>3, <2>1, <3>1, <4>4 DEF CriticalRiseCovered
    <3>2. CASE ~Crosses(s.previous, rate, BurnRateCriticalThreshold)
      BY <1>3, <2>1, <3>2 DEF CriticalRiseCovered
    <3> QED
      BY <3>1, <3>2
  <2> QED
    BY <2>3, <2>4, <2>5
<1> QED
  BY <1>4, <1>5

\* The inductive invariant holds: history and memory always agree.
THEOREM InvariantHolds == Spec => []IInv
<1>1. Init => IInv
  BY DEF Init, IInv, TypeOK, NoStates, StatesMatchHistory, CooldownSpacing,
         CriticalRiseCovered
<1>2. TypeOK /\ IInv /\ TypeOK' /\ [Next]_vars => IInv'
  <2> SUFFICES ASSUME IInv, TypeOK', [Next]_vars
               PROVE  StatesMatchHistory' /\ CooldownSpacing' /\ CriticalRiseCovered'
    BY DEF IInv
  <2>1. ASSUME NEW k \in Keys, NEW rate \in Rates, FirstSight(k, rate)
        PROVE  StatesMatchHistory' /\ CooldownSpacing' /\ CriticalRiseCovered'
    <3>1. /\ DOMAIN states' = DOMAIN states \cup {k}
          /\ states'[k].last = ZeroTime
          /\ \A j \in DOMAIN states : states'[j] = states[j]
          /\ now' = now /\ now \in Nat /\ ZeroTime <= now
      BY <2>1, CooldownAssumption DEF FirstSight, NewState, IInv, TypeOK, ZeroTime
    <3>2. StatesMatchHistory'
      BY <2>1, <3>1 DEF FirstSight, IInv, StatesMatchHistory
    <3> QED
      BY <2>1, <3>2 DEF FirstSight, IInv, CooldownSpacing, CriticalRiseCovered
  <2>2. ASSUME NEW k \in Keys, NEW rate \in Rates, DetectSpike(k, rate)
        PROVE  StatesMatchHistory' /\ CooldownSpacing' /\ CriticalRiseCovered'
    BY <2>2, DetectSpikeKeepsInvariant
  <2>3. ASSUME NEW k \in Keys, ResetCooldown(k)
        PROVE  StatesMatchHistory' /\ CooldownSpacing' /\ CriticalRiseCovered'
    <3>1. /\ k \in DOMAIN states /\ DOMAIN states' = DOMAIN states
          /\ states'[k].last = ZeroTime
          /\ \A j \in DOMAIN states : j # k => states'[j] = states[j]
          /\ now' = now /\ now \in Nat /\ ZeroTime <= now
      BY <2>3, CooldownAssumption DEF ResetCooldown, State, IInv, TypeOK, ZeroTime
    <3>2. StatesMatchHistory'
      BY <2>3, <3>1 DEF ResetCooldown, IInv, StatesMatchHistory
    <3>3. CriticalRiseCovered'
      BY <2>3 DEF ResetCooldown, IInv, CriticalRiseCovered
    <3> QED
      BY <2>3, <3>2, <3>3 DEF ResetCooldown, IInv, CooldownSpacing
  <2>4. CASE Clear
    BY <2>4 DEF Clear, NoStates, StatesMatchHistory, CooldownSpacing, CriticalRiseCovered
  <2>5. CASE Tick
    <3>1. \A j \in DOMAIN states : states[j].last <= now'
      BY <2>5 DEF Tick, IInv, TypeOK, State, StatesMatchHistory
    <3> QED
      BY <2>5, <3>1 DEF Tick, IInv, StatesMatchHistory, CooldownSpacing, CriticalRiseCovered
  <2>6. CASE UNCHANGED vars
    BY <2>6 DEF vars, IInv, StatesMatchHistory, CooldownSpacing, CriticalRiseCovered
  <2> QED
    BY <2>1, <2>2, <2>3, <2>4, <2>5, <2>6 DEF Next
<1> QED
  BY <1>1, <1>2, TypeCorrect, PTL DEF Spec

\* Two detections of one SLO are never closer than the cooldown, for every set
\* of SLOs, every stream of samples and every cooldown.
THEOREM CooldownIsKept == Spec => []CooldownSpacing
BY InvariantHolds, PTL DEF IInv

\* No rise above the critical threshold goes without a correlation that is at
\* most one cooldown old.
THEOREM CriticalRisesAreCovered == Spec => []CriticalRiseCovered
BY InvariantHolds, PTL DEF IInv

-----------------------------------------------------------------------------
\* The detector implements one cooldown gate per SLO: a detection opens the
\* gate of its key, a reset or Clear ends its epoch, every other call is a stutter.
THEOREM DetectorImplementsGate == Spec => GateSpec
<1> DEFINE gate == [k \in Keys |-> IF k \in DOMAIN states THEN states[k].last ELSE ZeroTime]
<1> USE DEF Gate!ZeroTime, ZeroTime
<1>1. Init => Gate!Init
  BY DEF Init, NoStates, Gate!Init
<1>2. TypeOK /\ [Next]_vars => [Gate!Next]_<<now, gate, wipes>>
  <2> SUFFICES ASSUME TypeOK, [Next]_vars PROVE [Gate!Next]_<<now, gate, wipes>>
    OBVIOUS
  <2>1. ASSUME NEW k \in Keys, NEW rate \in Rates, FirstSight(k, rate)
        PROVE  UNCHANGED <<now, gate, wipes>>
    BY <2>1 DEF FirstSight, NewState, TypeOK
  <2>2. ASSUME NEW k \in Keys, NEW rate \in Rates, DetectSpike(k, rate)
        PROVE  Gate!Fire(k) \/ UNCHANGED <<now, gate, wipes>>
    <3>1. /\ k \in DOMAIN states /\ DOMAIN states' = DOMAIN states
          /\ states'[k] = UpdatedState(states[k], rate, now)
          /\ \A j \in DOMAIN states : j # k => states'[j] = states[j]
          /\ now' = now /\ wipes' = wipes /\ now \in Nat /\ states[k].last \in Int
      BY <2>2 DEF DetectSpike, TypeOK, State
    <3>2. CASE Detected(states[k], rate, now)
      <4>1. states'[k].last = now /\ now - states[k].last >= Cooldown
        BY <3>1, <3>2, CooldownAssumption DEF UpdatedState, Detected, InCooldown
      <4>2. gate' = [gate EXCEPT ![k] = now]
        BY <3>1, <4>1
      <4> QED
        BY <3>1, <4>1, <4>2 DEF Gate!Fire
    <3>3. CASE ~Detected(states[k], rate, now)
      BY <3>1, <3>3 DEF UpdatedState
    <3> QED
      BY <3>2, <3>3
  <2>3. ASSUME NEW k \in Keys, ResetCooldown(k) PROVE Gate!Forget({k})
    <3>1. wipes' = [j \in Keys |-> IF j \in {k} THEN wipes[j] + 1 ELSE wipes[j]]
      BY <2>3 DEF ResetCooldown, TypeOK
    <3>2. gate' = [j \in Keys |-> IF j \in {k} THEN ZeroTime ELSE gate[j]]
      BY <2>3 DEF ResetCooldown, TypeOK, State
    <3> QED
      BY <2>3, <3>1, <3>2 DEF ResetCooldown, Gate!Forget
  <2>4. ASSUME Clear PROVE Gate!Forget(Keys)
    BY <2>4 DEF Clear, NoStates, Gate!Forget
  <2>5. ASSUME Tick PROVE Gate!Tick
    BY <2>5 DEF Tick, Gate!Tick
  <2> QED
    BY <2>1, <2>2, <2>3, <2>4, <2>5 DEF Next, vars, Gate!Next
<1> QED
  BY <1>1, <1>2, TypeCorrect, PTL DEF Spec, GateSpec, Gate!Spec

-----------------------------------------------------------------------------
Band(r) == {t \in Thresholds : Above(r, t)}

\* A spike leaves a band for a higher one, and its severity names the higher one.
LEMMA SpikeClimbs ==
    ASSUME NEW p \in Rates, NEW r \in Rates, NEW t \in Thresholds, Crosses(p, r, t)
    PROVE  /\ Band(p) \subseteq Band(r) /\ Band(p) # Band(r)
           /\ Severity(p, r) = "critical" <=> BurnRateCriticalThreshold \in Band(r)
           /\ Severity(p, r) = "warning" <=> Band(r) = {BurnRateWarningThreshold}
<1> USE DEF BurnRateCriticalThreshold, BurnRateDegradedThreshold, BurnRateWarningThreshold
<1>1. /\ p \in Int /\ r \in Int /\ p # NaN /\ r # NaN /\ p <= t /\ r > t
      /\ Thresholds = {1, 6, 14} /\ t \in {1, 6, 14}
  BY RatesAssumption DEF Crosses, Above, AtMost, Thresholds
<1>2. \A u \in {1, 6, 14} : (u \in Band(p) <=> p > u) /\ (u \in Band(r) <=> r > u)
  BY <1>1 DEF Band, Above
<1>3. Band(p) \subseteq {1, 6, 14} /\ Band(r) \subseteq {1, 6, 14}
  BY <1>1 DEF Band
<1>4. Band(p) \subseteq Band(r) /\ t \in Band(r) \ Band(p)
  BY <1>1, <1>2, <1>3
<1>5. \A u \in {1, 6, 14} : Crosses(p, r, u) <=> (r > u /\ p <= u)
  BY <1>1 DEF Crosses, Above, AtMost
<1>6. Severity(p, r) = IF r > 14 THEN "critical" ELSE IF r > 6 THEN "degraded" ELSE "warning"
  BY <1>1, <1>5 DEF Severity
<1>7. Severity(p, r) = "critical" <=> 14 \in Band(r)
  BY <1>2, <1>6
<1>8. Severity(p, r) = "warning" <=> Band(r) = {1}
  BY <1>1, <1>2, <1>3, <1>6
<1> QED
  BY <1>4, <1>7, <1>8

\* The severity of each detection is the band of its sample, which is above that of the
\* sample before.
THEOREM SeveritiesAreBands == Spec => SeverityIsBandOfSample
<1> DEFINE Climbs(d) ==
             /\ Band(states[d.key].previous) \subseteq Band(states'[d.key].previous)
             /\ Band(states[d.key].previous) # Band(states'[d.key].previous)
             /\ d.severity = "critical" <=> BurnRateCriticalThreshold \in Band(states'[d.key].previous)
             /\ d.severity = "warning"
                  <=> Band(states'[d.key].previous) = {BurnRateWarningThreshold}
<1>1. TypeOK /\ [Next]_vars => [\A d \in detections' \ detections : Climbs(d)]_vars
  <2> SUFFICES ASSUME TypeOK, Next, NEW d \in detections' \ detections PROVE Climbs(d)
    OBVIOUS
  <2>1. PICK k \in Keys, rate \in Rates : DetectSpike(k, rate)
    BY DEF Next, FirstSight, DetectSpike, ResetCooldown, Clear, Tick
  <2>2. /\ d.key = k /\ d.severity = Severity(states[k].previous, rate)
        /\ Detected(states[k], rate, now) /\ k \in DOMAIN states
    BY <2>1 DEF DetectSpike
  <2>3. states[k].previous \in Rates /\ states'[k].previous = rate
    BY <2>1, <2>2 DEF DetectSpike, TypeOK, State, UpdatedState
  <2>4. PICK t \in Thresholds : Crosses(states[k].previous, rate, t)
    BY <2>2 DEF Detected
  <2> QED
    BY <2>2, <2>3, <2>4, SpikeClimbs
<1>2. [\A d \in detections' \ detections : Climbs(d)]_vars
        => [\A d \in detections' \ detections :
              LET B(r) == {t \in Thresholds : Above(r, t)}
                  prev == B(states[d.key].previous)
                  cur  == B(states'[d.key].previous)
              IN  /\ prev \subseteq cur /\ prev # cur
                  /\ d.severity = "critical" <=> BurnRateCriticalThreshold \in cur
                  /\ d.severity = "warning"  <=> cur = {BurnRateWarningThreshold}]_vars
  BY DEF Band
<1> QED
  BY <1>1, <1>2, TypeCorrect, PTL DEF Spec, SeverityIsBandOfSample
=============================================================================
