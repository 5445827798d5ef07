---------------------- MODULE ObjectiveEvaluation_proofs ----------------------
(***************************************************************************)
(* What holds of the evaluation of an objective for every objective, every *)
(* finite traffic and every reading: that the status is the worst phase    *)
(* that applies and never improves on worse readings, that the budget adds *)
(* up, and that the alerts of the rule read what the rule records and fire *)
(* when the status or the custom alert says so.                            *)
(***************************************************************************)
EXTENDS ObjectiveEvaluation, Basics_proofs

-----------------------------------------------------------------------------
(***************************************************************************)
(* The error rate of finite traffic is a number.                           *)
(***************************************************************************)
Traffic(series) == IsFiniteSet(series) /\ \A x \in series : x.rate \in Nat

LEMMA SumRateType ==
    ASSUME NEW traffic, Traffic(traffic), NEW selector, SumRate(selector, traffic) # NoData
    PROVE  SumRate(selector, traffic) \in Nat
<1> DEFINE S == Selected(selector, traffic)
           g == [x \in S |-> x.rate]
<1>1. IsFiniteSet(S) /\ g \in [S -> Nat]
  BY FS_Subset DEF Traffic, Selected
<1> HIDE DEF S
<1> DEFINE IsSum(h) == h = [s \in SUBSET S |-> IF s = {} THEN 0
                              ELSE LET x == CHOOSE y \in s : TRUE IN x.rate + h[s \ {x}]]
           h == CHOOSE f : IsSum(f)
<1>2. \A f : IsSum(f) <=> Sums(f, g, S)
  <2> SUFFICES ASSUME NEW f PROVE IsSum(f) <=> Sums(f, g, S)
    OBVIOUS
  <2>1. ASSUME NEW s \in SUBSET S
        PROVE  (IF s = {} THEN 0 ELSE LET x == CHOOSE y \in s : TRUE IN x.rate + f[s \ {x}])
                = Summed(f, g, s)
    BY DEF Summed
  <2> QED
    BY <2>1 DEF Sums
<1> HIDE DEF g
<1> HIDE DEF IsSum
<1>3. \E f : IsSum(f)
  BY <1>1, <1>2, SumExists
<1>4. IsSum(h)
  BY <1>3
<1>5. h[S] \in Nat
  BY <1>1, <1>2, <1>4, SumType
<1>6. SumRate(selector, traffic) = h[S]
  BY DEF SumRate, Rates, MapThenSumSet, MapThenFoldSet, h, IsSum, S
<1> QED
  BY <1>5, <1>6

LEMMA ErrorRateType ==
    ASSUME NEW traffic, Traffic(traffic), NEW sli, ErrorRate(sli, traffic) # NoData
    PROVE  ErrorRate(sli, traffic) \in Int
<1>1. ASSUME NEW x \in Nat, NEW y \in Nat PROVE ClampedRatio(x, y) \in Int
  BY DEF ClampedRatio, Everything
<1>2. CASE sli.form = "latency"
  <2>1. /\ SumRate(sli.fast, traffic) # NoData /\ SumRate(sli.count, traffic) # NoData
        /\ ErrorRate(sli, traffic)
            = Everything - ClampedRatio(SumRate(sli.fast, traffic), SumRate(sli.count, traffic))
    BY <1>2 DEF ErrorRate, latencyErrorRate
  <2> QED
    BY <1>1, <2>1, SumRateType DEF Everything
<1>3. CASE sli.form # "latency"
  BY <1>1, <1>3, SumRateType DEF ErrorRate, sliErrorRate, Everything
<1> QED
  BY <1>2, <1>3

-----------------------------------------------------------------------------
(***************************************************************************)
(* What a pass leaves behind: both rules are those of the objective, and a *)
(* computed status is the judgement of two numbers per preset and one for  *)
(* the window, all from the loaded rule.                                   *)
(***************************************************************************)
IsRule(r) == Generates(objective) /\ r = CreatePrometheusRule(objective)

RuleInv ==
    /\ objective \in Objectives /\ ValidObjective(objective)
    /\ rule # NoRule => IsRule(rule)
    /\ loaded # NoRule => IsRule(loaded)

AreReadings(b) == DOMAIN b \subseteq Presets /\ \A p \in DOMAIN b : b[p] \in [short : Int, long : Int]

JudgedInv ==
    Judged =>
        /\ loaded # NoRule
        /\ windowed \in Int /\ AreReadings(burnRates)
        /\ budget = Budget(objective.window, windowed)
        /\ phase = DetermineStatus(PercentRemaining(windowed), burnRates)

\* A service that answers is judged by its one error rate, one that does not is unknown.
SteadyRate == ErrorRate(loaded.sli, service.series)

Answered == loaded # NoRule /\ isRecordingWindow(objective.window) /\ SteadyRate # NoData

JudgedBy(e, b) ==
    LET multiple == PresetBurn(e, b)
    IN  /\ windowed = WindowedBurn(e, b)
        /\ burnRates = [p \in Presets |-> [short |-> multiple, long |-> multiple]]
        /\ phase = DetermineStatus(PercentRemaining(windowed), burnRates)

SteadyInv ==
    service # NoService =>
        /\ service \in Services
        /\ Answered => JudgedBy(SteadyRate, BudgetOf(objective.target))
        /\ ~Answered => phase = "unknown"

IInv == RuleInv /\ JudgedInv /\ SteadyInv

LEMMA BudgetIsSigned ==
    ASSUME NEW target \in 0..(2 * Everything), target # Everything
    PROVE  /\ BudgetOf(target) \in Int \ {0}
           /\ target < Everything => BudgetOf(target) \in 1..Everything
           /\ ~(target < Everything) => target > Everything /\ BudgetOf(target) < 0
BY DEF BudgetOf, Everything

LEMMA UnknownIsNotJudged == Unknown => ~Judged'
BY DEF Unknown, Judged, Phases

LEMMA JudgeStep ==
    ASSUME objective' = objective, loaded' # NoRule, NEW w \in Int, NEW b, AreReadings(b), Judge(w, b)
    PROVE  JudgedInv'
BY DEF Judge, JudgedInv, AreReadings

LEMMA StoreStep ==
    ASSUME RuleInv, Store, objective' = objective
    PROVE  RuleInv'
BY DEF RuleInv, Store, IsRule

LEMMA NextInvariant == IInv /\ [Next]_vars => IInv'
<1> SUFFICES ASSUME IInv, [Next]_vars PROVE IInv'
  OBVIOUS
<1>1. ASSUME NEW s \in Services, PassSteady(s) PROVE IInv'
  <2>1. RuleInv' /\ objective' = objective /\ loaded' = rule
    BY <1>1, StoreStep DEF PassSteady, Store, IInv
  <2>0. Answered' <=> Answers(s)
    BY <1>1, <2>1 DEF PassSteady, Answered, SteadyRate, Answers
  <2>2. CASE ~Answers(s)
    <3>1. ~Judged' /\ phase' = "unknown" /\ service' = s
      BY <1>1, <2>2, UnknownIsNotJudged DEF PassSteady, Unknown
    <3> QED
      BY <2>0, <2>1, <2>2, <3>1 DEF IInv, JudgedInv, SteadyInv
  <2>3. CASE Answers(s)
    <3> DEFINE e == ErrorRate(rule.sli, s.series)
               b == BudgetOf(objective.target)
               multiple == PresetBurn(e, b)
               readings == [p \in Presets |-> [short |-> multiple, long |-> multiple]]
    <3>1. e # NoData /\ rule # NoRule /\ service' = s
      BY <1>1, <2>3 DEF PassSteady, Answers
    <3>2. e \in Int /\ b \in Int \ {0}
      <4>1. Traffic(s.series)
        BY ObjectiveAssumption DEF Traffic
      <4>2. b \in Int \ {0}
        BY ObjectiveAssumption, BudgetIsSigned DEF IInv, RuleInv
      <4> QED
        BY <3>1, <4>1, <4>2, ErrorRateType
    <3>3. Judge(WindowedBurn(e, b), readings)
      BY <1>1, <2>3 DEF PassSteady
    <3> HIDE DEF e, b
    <3>4. multiple \in Int /\ WindowedBurn(e, b) \in Int
      <4>1. CASE b > 0
        BY <3>2, <4>1 DEF PresetBurn, WindowedBurn, RoundDiv, Unit
      <4>2. CASE ~(b > 0)
        <5>1. PICK d \in Nat \ {0} : d = -b
          BY <3>2, <4>2
        <5>2. PresetBurn(e, b) = -(e \div d) /\ WindowedBurn(e, b) = -RoundDiv(Unit * e, d)
          BY <4>2, <5>1 DEF PresetBurn, WindowedBurn
        <5>3. e \div d \in Int /\ RoundDiv(Unit * e, d) \in Int
          BY <3>2, <5>1 DEF RoundDiv, Unit
        <5> QED
          BY <5>2, <5>3
      <4> QED
        BY <4>1, <4>2
    <3> HIDE DEF multiple
    <3>5. AreReadings(readings)
      BY <3>4 DEF AreReadings
    <3> HIDE DEF readings
    <3>6. JudgedInv'
      BY <2>1, <3>1, <3>3, <3>4, <3>5, JudgeStep
    <3>7. SteadyInv'
      <4>1. PICK rate, share : rate = e /\ share = b
        OBVIOUS
      <4>2. SteadyRate' = rate /\ BudgetOf(objective.target)' = share
        BY <2>1, <3>1, <4>1 DEF SteadyRate, e, b
      <4>3. JudgedBy(rate, share)'
        BY <2>1, <3>3, <4>1 DEF JudgedBy, Judge, multiple, readings
      <4>4. JudgedBy(SteadyRate, BudgetOf(objective.target))'
        BY <4>2, <4>3 DEF JudgedBy
      <4> QED
        BY <2>0, <2>3, <3>1, <4>4 DEF SteadyInv
    <3> QED
      BY <2>1, <3>6, <3>7 DEF IInv
  <2> QED
    BY <2>2, <2>3
<1>2. ASSUME NEW w \in WindowedRates, NEW b \in BurnRateSets, PassVarying(w, b) PROVE IInv'
  <2>1. RuleInv' /\ objective' = objective /\ loaded' # NoRule /\ service' = NoService
    BY <1>2, StoreStep DEF PassVarying, Store, IInv
  <2>2. w \in Int /\ AreReadings(b)
    BY ObjectiveAssumption DEF AreReadings
  <2>3. JudgedInv'
    BY <1>2, <2>1, <2>2, JudgeStep DEF PassVarying
  <2> QED
    BY <2>1, <2>3 DEF IInv, SteadyInv
<1>3. CASE PassFails
  BY <1>3, StoreStep, UnknownIsNotJudged DEF PassFails, IInv, JudgedInv, SteadyInv
<1>4. CASE UNCHANGED vars
  BY <1>4 DEF vars, IInv, RuleInv, IsRule, JudgedInv, SteadyInv, Judged, Answered, SteadyRate, JudgedBy
<1> QED
  BY <1>1, <1>2, <1>3, <1>4 DEF Next

LEMMA Invariant == Spec => []IInv
<1>1. Init => IInv
  BY DEF Init, IInv, RuleInv, JudgedInv, SteadyInv, Judged, Phases
<1> QED
  BY <1>1, NextInvariant, PTL DEF Spec

-----------------------------------------------------------------------------
(***************************************************************************)
(* The status.                                                             *)
(***************************************************************************)
\* The two comparisons of the cascade, without NaN.
LEMMA SpentIsRounded ==
    ASSUME NEW w \in Int
    PROVE  AtMost(PercentRemaining(w), 0) <=> Unit - w < 5
BY NaNAssumption DEF AtMost, PercentRemaining, RoundDiv, NonNegative, Unit

Burns(b, p, t) == p \in DOMAIN b /\ b[p].short > t /\ b[p].long > t

LEMMA ExceedsIsBurns ==
    ASSUME NEW b, AreReadings(b), NEW p, NEW t \in Nat
    PROVE  Exceeds(p, t, b) <=> Burns(b, p, t)
<1>1. CASE p \in DOMAIN b
  <2>1. b[p].short \in Int /\ b[p].long \in Int
    BY <1>1 DEF AreReadings
  <2> QED
    BY <1>1, <2>1, NaNAssumption DEF Exceeds, burn, Burns, Above
<1>2. CASE p \notin DOMAIN b
  BY <1>2, NaNAssumption DEF Exceeds, burn, NoBurn, Burns, Above
<1> QED
  BY <1>1, <1>2

\* DetermineStatus in plain words.
LEMMA Cascade ==
    ASSUME NEW w \in Int, NEW b, AreReadings(b)
    PROVE  DetermineStatus(PercentRemaining(w), b) =
            IF Unit - w < 5 THEN "violated"
            ELSE IF Burns(b, 1, 14) THEN "critical"
            ELSE IF Burns(b, 2, 6) THEN "degraded"
            ELSE IF Burns(b, 3, 1) THEN "warning"
            ELSE "met"
BY SpentIsRounded, ExceedsIsBurns DEF DetermineStatus, Preset5m1h, Preset1h6h, Preset6h3d

LEMMA AppliesIs ==
    /\ DOMAIN Rank = {"met", "warning", "degraded", "critical", "violated"}
    /\ Applies["met"] /\ (Applies["warning"] <=> Burns(burnRates, 3, 1))
    /\ (Applies["degraded"] <=> Burns(burnRates, 2, 6))
    /\ (Applies["critical"] <=> Burns(burnRates, 1, 14))
    /\ (Applies["violated"] <=> Unit - windowed < 5)
BY DEF Applies, Rank, Burns

\* The status is the worst phase that applies, whatever was measured and whichever
\* queries failed.
THEOREM StatusIsTheWorst == Spec => []PhaseIsWorst
<1>1. IInv => PhaseIsWorst
  <2> SUFFICES ASSUME IInv, Judged
               PROVE  /\ Applies[phase]
                      /\ \A p \in DOMAIN Rank : Rank[p] > Rank[phase] => ~Applies[p]
    BY DEF PhaseIsWorst
  <2>1. /\ windowed \in Int /\ AreReadings(burnRates)
        /\ phase = DetermineStatus(PercentRemaining(windowed), burnRates)
    BY DEF IInv, JudgedInv
  <2>2. phase = IF Unit - windowed < 5 THEN "violated"
                ELSE IF Burns(burnRates, 1, 14) THEN "critical"
                ELSE IF Burns(burnRates, 2, 6) THEN "degraded"
                ELSE IF Burns(burnRates, 3, 1) THEN "warning"
                ELSE "met"
    BY <2>1, Cascade
  <2>3. Applies[phase]
    BY <2>2, AppliesIs
  <2>4. /\ Rank["met"] = 0 /\ Rank["warning"] = 1 /\ Rank["degraded"] = 2
        /\ Rank["critical"] = 3 /\ Rank["violated"] = 4
    BY DEF Rank
  <2>5. ASSUME NEW p \in {"met", "warning", "degraded", "critical", "violated"},
               Rank[p] > Rank[phase]
        PROVE  ~Applies[p]
    BY <2>2, <2>4, <2>5, AppliesIs
  <2> QED
    BY <2>3, <2>5, AppliesIs
<1> QED
  BY <1>1, Invariant, PTL

\* Worse readings never give a better phase.
THEOREM StatusIsMonotone == Spec => PhaseIsMonotone
<1>1. IInv /\ IInv' /\ [Next]_vars => [Worsens => Rank[phase'] >= Rank[phase]]_vars
  <2> SUFFICES ASSUME IInv, IInv', Worsens PROVE Rank[phase'] >= Rank[phase]
    OBVIOUS
  <2>1. /\ windowed \in Int /\ AreReadings(burnRates)
        /\ phase = DetermineStatus(PercentRemaining(windowed), burnRates)
    BY DEF IInv, JudgedInv, Worsens
  <2>2. /\ windowed' \in Int /\ AreReadings(burnRates')
        /\ phase' = DetermineStatus(PercentRemaining(windowed'), burnRates')
    BY DEF IInv, JudgedInv, Worsens, AreReadings
  <2>3. Unit - windowed < 5 => Unit - windowed' < 5
    <3>1. ASSUME NEW v \in Int, NEW w \in Int, v >= w, Unit - w < 5 PROVE Unit - v < 5
      BY <3>1 DEF Unit
    <3>2. windowed' >= windowed
      BY DEF Worsens
    <3> QED
      BY <2>1, <2>2, <3>1, <3>2
  <2>4. ASSUME NEW p, NEW t \in Nat, Burns(burnRates, p, t) PROVE Burns(burnRates', p, t)
    BY <2>1, <2>2, <2>4 DEF Worsens, Burns, AreReadings
  <2>5. /\ Rank["met"] = 0 /\ Rank["warning"] = 1 /\ Rank["degraded"] = 2
        /\ Rank["critical"] = 3 /\ Rank["violated"] = 4
    BY DEF Rank
  <2>6. /\ phase = IF Unit - windowed < 5 THEN "violated"
                   ELSE IF Burns(burnRates, 1, 14) THEN "critical"
                   ELSE IF Burns(burnRates, 2, 6) THEN "degraded"
                   ELSE IF Burns(burnRates, 3, 1) THEN "warning"
                   ELSE "met"
        /\ phase' = IF Unit - windowed' < 5 THEN "violated"
                    ELSE IF Burns(burnRates', 1, 14) THEN "critical"
                    ELSE IF Burns(burnRates', 2, 6) THEN "degraded"
                    ELSE IF Burns(burnRates', 3, 1) THEN "warning"
                    ELSE "met"
    BY <2>1, <2>2, Cascade
  <2> QED
    BY <2>3, <2>4, <2>5, <2>6
<1> QED
  BY <1>1, Invariant, PTL DEF Spec, PhaseIsMonotone

-----------------------------------------------------------------------------
(***************************************************************************)
(* The budget.                                                             *)
(***************************************************************************)
Share(total, part) ==
    total * (part \div Unit) + RoundDiv((total \div 100) * (part % Unit), Unit \div 100)

\* A part and the rest of the whole, taken apart at multiples of the whole.
LEMMA SplitParts ==
    ASSUME NEW w \in Int
    PROVE  \/ w % Unit = 0 /\ (Unit - w) % Unit = 0 /\ (Unit - w) \div Unit = 1 - (w \div Unit)
           \/ /\ w % Unit # 0 /\ (Unit - w) % Unit = Unit - (w % Unit)
              /\ (Unit - w) \div Unit = -(w \div Unit)
<1>1. ASSUME NEW x \in Int
      PROVE  /\ x \div Unit \in Int /\ x % Unit \in Int /\ 0 <= x % Unit /\ x % Unit < Unit
             /\ x = Unit * (x \div Unit) + (x % Unit)
  BY DEF Unit
<1>2. ASSUME NEW q \in Int, NEW r \in Int, 0 <= r, r < Unit,
             NEW q2 \in Int, NEW r2 \in Int, 0 <= r2, r2 < Unit,
             w = Unit * q + r, Unit - w = Unit * q2 + r2
      PROVE  \/ r = 0 /\ r2 = 0 /\ q2 = 1 - q
             \/ r # 0 /\ r2 = Unit - r /\ q2 = -q
  <2>1. Unit * (q + q2) + (r + r2) = Unit
    BY <1>2 DEF Unit
  <2>2. CASE r = 0
    BY <1>2, <2>1, <2>2 DEF Unit
  <2>3. CASE r # 0
    <3>1. q + q2 = 0
      BY <1>2, <2>1, <2>3 DEF Unit
    <3>2. q2 = -q
      BY <3>1
    <3>3. r + r2 = Unit
      BY <2>1, <3>1 DEF Unit
    <3>4. r2 = Unit - r
      BY <3>3 DEF Unit
    <3> QED
      BY <2>3, <3>2, <3>4
  <2> QED
    BY <2>2, <2>3
<1>3. Unit - w \in Int
  BY DEF Unit
<1> DEFINE q == w \div Unit
           r == w % Unit
           q2 == (Unit - w) \div Unit
           r2 == (Unit - w) % Unit
<1>4. q \in Int /\ r \in Int /\ 0 <= r /\ r < Unit /\ w = Unit * q + r
  BY <1>1
<1>5. q2 \in Int /\ r2 \in Int /\ 0 <= r2 /\ r2 < Unit /\ Unit - w = Unit * q2 + r2
  BY <1>1, <1>3
<1> HIDE DEF q, r, q2, r2
<1>6. \/ r = 0 /\ r2 = 0 /\ q2 = 1 - q
      \/ r # 0 /\ r2 = Unit - r /\ q2 = -q
  BY <1>2, <1>4, <1>5
<1> QED
  BY <1>6 DEF q, r, q2, r2

\* What is rounded off a part, the rest makes good but for one.
LEMMA RoundedParts ==
    ASSUME NEW a \in Int, NEW k \in Int
    PROVE  RoundDiv(a, 1000) + RoundDiv(100000 * k - a, 1000) - 100 * k \in 0..1
BY DEF RoundDiv

LEMMA SharesAddUp ==
    ASSUME NEW total \in Nat, total % 100 = 0, NEW w \in Int
    PROVE  Share(total, w) + Share(total, Unit - w) - total \in 0..1
<1> DEFINE q == w \div Unit
           r == w % Unit
           k == total \div 100
<1>1. q \in Int /\ r \in Int /\ k \in Int /\ total = 100 * k
  BY DEF Unit
<1>2. CASE w % Unit = 0
  <2>1. (Unit - w) % Unit = 0 /\ (Unit - w) \div Unit = 1 - q
    BY <1>2, SplitParts
  <2>2. k * 0 = 0 /\ RoundDiv(0, Unit \div 100) = 0
    BY <1>1 DEF RoundDiv, Unit
  <2>3. Share(total, w) = total * q /\ Share(total, Unit - w) = total * (1 - q)
    <3>1. Share(total, w) = total * q + RoundDiv(k * r, Unit \div 100)
      BY DEF Share
    <3>2. Share(total, Unit - w)
            = total * ((Unit - w) \div Unit) + RoundDiv(k * ((Unit - w) % Unit), Unit \div 100)
      BY DEF Share
    <3>3. total * q \in Int /\ total * (1 - q) \in Int
      BY <1>1
    <3> HIDE DEF q, k
    <3> QED
      BY <1>1, <1>2, <2>1, <2>2, <3>1, <3>2, <3>3
  <2> HIDE DEF q
  <2>4. total * q + total * (1 - q) - total = 0
    BY <1>1
  <2> QED
    BY <2>3, <2>4
<1>3. CASE w % Unit # 0
  <2>1. /\ (Unit - w) % Unit = Unit - r
        /\ (Unit - w) \div Unit = -q
    BY <1>3, SplitParts
  <2>2. Share(total, w) = total * q + RoundDiv(k * r, 1000)
    BY DEF Share, Unit
  <2>3. Share(total, Unit - w) = total * (-q) + RoundDiv(k * (Unit - r), 1000)
    <3>1. Share(total, Unit - w)
            = total * ((Unit - w) \div Unit) + RoundDiv(k * ((Unit - w) % Unit), Unit \div 100)
      BY DEF Share
    <3>2. Unit \div 100 = 1000
      BY DEF Unit
    <3> HIDE DEF q, k, r
    <3> QED
      BY <2>1, <3>1, <3>2
  <2> HIDE DEF q, k, r
  <2>4. k * (Unit - r) = 100000 * k - k * r /\ k * r \in Int
    BY <1>1 DEF Unit
  <2>5. RoundDiv(k * r, 1000) + RoundDiv(100000 * k - k * r, 1000) - 100 * k \in 0..1
    BY <1>1, <2>4, RoundedParts
  <2>6. total * q + total * (-q) = 0 /\ total * q \in Int /\ total * (-q) \in Int
    BY <1>1
  <2>7. RoundDiv(k * r, 1000) \in Int /\ RoundDiv(100000 * k - k * r, 1000) \in Int
    BY <1>1, <2>4 DEF RoundDiv
  <2> QED
    BY <1>1, <2>2, <2>3, <2>4, <2>5, <2>6, <2>7
<1> QED
  BY <1>2, <1>3

LEMMA ShareIsMore ==
    ASSUME NEW total \in Nat, NEW w \in Int, w > Unit
    PROVE  Share(total, w) >= total
<1> DEFINE q == w \div Unit
           r == w % Unit
           k == total \div 100
<1>1. q \in Int /\ q >= 1 /\ r \in Nat /\ k \in Nat
  BY DEF Unit
<1>2. Share(total, w) = total * q + RoundDiv(k * r, 1000)
  BY DEF Share, Unit
<1> HIDE DEF q, k, r
<1>3. k * r \in Nat
  BY <1>1
<1>4. RoundDiv(k * r, 1000) \in Int /\ RoundDiv(k * r, 1000) >= 0
  BY <1>3 DEF RoundDiv
<1>5. total * q \in Int /\ total * q >= total
  BY <1>1
<1> QED
  BY <1>2, <1>4, <1>5

\* Consumed and remaining budget make the whole of it while it lasts; once it is
\* overspent nothing remains and the objective is violated.
THEOREM BudgetIsAccounted == Spec => []BudgetAddsUp
<1>1. IInv => BudgetAddsUp
  <2> SUFFICES ASSUME IInv, Judged PROVE BudgetAddsUp
    BY DEF BudgetAddsUp
  <2> DEFINE total == WindowLength(objective.window)
  <2>1. /\ windowed \in Int /\ AreReadings(burnRates)
        /\ budget = Budget(objective.window, windowed)
        /\ phase = DetermineStatus(PercentRemaining(windowed), burnRates)
    BY DEF IInv, JudgedInv
  <2>2. total \in Nat /\ total % 100 = 0
    <3>1. objective.window.number \in Nat /\ objective.window.unit = "d"
      BY ObjectiveAssumption DEF IInv, RuleInv, ValidObjective
    <3>2. ASSUME NEW n \in Nat PROVE n * 14400 \in Nat /\ (n * 14400) % 100 = 0
      OBVIOUS
    <3>3. total = objective.window.number * 14400
      BY <3>1 DEF WindowLength, UnitLength
    <3> QED
      BY <3>1, <3>2, <3>3
  <2>3. /\ budget.total = total
        /\ budget.consumed = Share(total, windowed)
        /\ budget.remaining = Share(total, NonNegative(Unit - windowed))
    BY <2>1, NaNAssumption DEF Budget, Share
  <2> HIDE DEF total
  <2>4. CASE windowed <= Unit
    <3>1. NonNegative(Unit - windowed) = Unit - windowed
      <4>1. ASSUME NEW w \in Int, w <= Unit PROVE NonNegative(Unit - w) = Unit - w
        BY <4>1 DEF NonNegative, Unit
      <4> QED
        BY <2>1, <2>4, <4>1
    <3>2. Share(total, windowed) + Share(total, Unit - windowed) - total \in 0..1
      BY <2>1, <2>2, SharesAddUp
    <3> QED
      BY <2>3, <2>4, <3>1, <3>2 DEF BudgetAddsUp
  <2>5. CASE ~(windowed <= Unit)
    <3>1. ASSUME NEW w \in Int, ~(w <= Unit)
          PROVE  w > Unit /\ NonNegative(Unit - w) = 0 /\ Unit - w < 5
      BY <3>1 DEF NonNegative, Unit
    <3>2. Share(total, 0) = 0
      <4>1. total * 0 = 0 /\ (total \div 100) * 0 = 0
        BY <2>2
      <4>2. 0 \div Unit = 0 /\ 0 % Unit = 0 /\ RoundDiv(0, Unit \div 100) = 0
        BY DEF Unit, RoundDiv
      <4> QED
        BY <4>1, <4>2 DEF Share
    <3>3. Share(total, windowed) >= total
      BY <2>1, <2>2, <2>5, <3>1, ShareIsMore
    <3>4. phase = "violated"
      BY <2>1, <2>5, <3>1, Cascade
    <3> QED
      BY <2>1, <2>3, <2>5, <3>1, <3>2, <3>3, <3>4 DEF BudgetAddsUp
  <2> QED
    BY <2>4, <2>5
<1> QED
  BY <1>1, Invariant, PTL

-----------------------------------------------------------------------------
(***************************************************************************)
(* The alerts.                                                             *)
(***************************************************************************)
\* The windows a rule's burn rate alerts look at are all recorded.
LEMMA PresetsAreRecorded ==
    ASSUME NEW o, Generates(o), o.burnRateEnabled,
           NEW preset \in burnRatePresetsForObjective(o)
    PROVE  preset.shortWindow \in recordingWindows /\ preset.longWindow \in recordingWindows
<1>1. CASE o.burnRateAlerts = {}
  BY <1>1 DEF burnRatePresetsForObjective, defaultBurnRatePresets, Preset, recordingWindows
<1>2. CASE o.burnRateAlerts # {}
  <2>1. PICK a \in o.burnRateAlerts :
            preset = Preset(a.shortWindow, a.longWindow, burnRateThreshold(a, o.window), a.name)
    BY <1>2 DEF burnRatePresetsForObjective
  <2>2. isRecordingWindow(a.shortWindow) /\ isRecordingWindow(a.longWindow)
    BY DEF Generates, ValidAlert, validateBurnRateAlertWindows
  <2> QED
    BY <2>1, <2>2 DEF Preset, isRecordingWindow
<1> QED
  BY <1>1, <1>2

\* What is among the records of a rule.
LEMMA RecordsOf ==
    ASSUME NEW o
    PROVE  /\ \A w \in recordingWindows : BurnRateSeries(w) \in CreatePrometheusRule(o).records
           /\ \A w : SliErrorRateSeries(w) \in CreatePrometheusRule(o).records <=> isRecordingWindow(w)
           /\ ErrorBudgetTarget \in CreatePrometheusRule(o).records
<1> DEFINE R == CreatePrometheusRule(o).records
<1>1. R = {SliErrorRateSeries(w) : w \in recordingWindows}
          \cup {BurnRateSeries(w) : w \in recordingWindows} \cup {ObjectiveTarget, ErrorBudgetTarget}
  BY DEF CreatePrometheusRule
<1> HIDE DEF R
<1>2. \A w : /\ SliErrorRateSeries(w) # ObjectiveTarget /\ SliErrorRateSeries(w) # ErrorBudgetTarget
             /\ \A v : SliErrorRateSeries(w) # BurnRateSeries(v)
             /\ \A v : SliErrorRateSeries(w) = SliErrorRateSeries(v) => w = v
  BY DEF SliErrorRateSeries, BurnRateSeries, ObjectiveTarget, ErrorBudgetTarget
<1>3. \A w : SliErrorRateSeries(w) \in R <=> isRecordingWindow(w)
  BY <1>1, <1>2 DEF isRecordingWindow
<1>6. \A w \in recordingWindows : BurnRateSeries(w) \in R
  BY <1>1
<1>7. ErrorBudgetTarget \in R
  BY <1>1
<1> QED
  BY <1>3, <1>6, <1>7 DEF R

\* The burn rate alerts of a rule read series the rule records, whatever the alerts users
\* ask for, and so does its finished alert if the window is recorded.
THEOREM AlertsReadWhatIsRecorded == Spec => []AlertsHaveData
<1>1. IInv => AlertsHaveData
  <2> SUFFICES ASSUME IInv, rule # NoRule, NEW a \in rule.alerts,
                      a.kind = "burnRate"
                        \/ (a.kind = "finished" /\ isRecordingWindow(objective.window))
               PROVE  a.reads \subseteq rule.records
    BY DEF AlertsHaveData
  <2>1. Generates(objective) /\ rule = CreatePrometheusRule(objective)
    BY DEF IInv, RuleInv, IsRule
  <2>2. CASE a = BudgetErrorAlert
    BY <2>2 DEF BudgetErrorAlert
  <2>3. CASE objective.burnRateEnabled /\ a = FinishedAlert(objective.window)
    BY <2>1, <2>3, RecordsOf DEF FinishedAlert
  <2>4. ASSUME objective.burnRateEnabled, NEW p \in burnRatePresetsForObjective(objective),
               a = BurnRateAlert(p)
        PROVE  a.reads \subseteq rule.records
    BY <2>1, <2>4, PresetsAreRecorded, RecordsOf DEF BurnRateAlert
  <2> QED
    BY <2>1, <2>2, <2>3, <2>4 DEF CreatePrometheusRule
<1> QED
  BY <1>1, Invariant, PTL

\* The pair of windows of the controller's first three presets, and of no other.
LEMMA ControllerWindows ==
    ASSUME NEW p \in Presets
    PROVE  /\ ControllerPresets[p] = [short |-> Window(5, "m"), long |-> Window(1, "h")] <=> p = 1
           /\ ControllerPresets[p] = [short |-> Window(1, "h"), long |-> Window(6, "h")] <=> p = 2
           /\ ControllerPresets[p] = [short |-> Window(6, "h"), long |-> Window(3, "d")] <=> p = 3
<1>1. /\ Window(5, "m") # Window(1, "h") /\ Window(5, "m") # Window(6, "h") /\ Window(5, "m") # Window(7, "d")
      /\ Window(1, "h") # Window(6, "h") /\ Window(1, "h") # Window(7, "d")
      /\ Window(6, "h") # Window(7, "d")
  BY DEF Window
<1>2. /\ ControllerPresets[1].short = Window(5, "m") /\ ControllerPresets[2].short = Window(1, "h")
      /\ ControllerPresets[3].short = Window(6, "h") /\ ControllerPresets[4].short = Window(7, "d")
  BY DEF ControllerPresets
<1>3. /\ ControllerPresets[1] = [short |-> Window(5, "m"), long |-> Window(1, "h")]
      /\ ControllerPresets[2] = [short |-> Window(1, "h"), long |-> Window(6, "h")]
      /\ ControllerPresets[3] = [short |-> Window(6, "h"), long |-> Window(3, "d")]
  BY DEF ControllerPresets
<1>4. p \in {1, 2, 3, 4}
  BY DEF Presets
<1> QED
  BY <1>1, <1>2, <1>3, <1>4

\* An alert on the windows of preset p fires on the readings that burn preset p.
LEMMA FiresOnIsBurns ==
    ASSUME AreReadings(burnRates), NEW p \in Presets, NEW t \in Nat, NEW short, NEW long, NEW suffix,
           \A q \in Presets : ControllerPresets[q] = [short |-> short, long |-> long] <=> q = p
    PROVE  FiresOn(Preset(short, long, <<t, 1>>, suffix)) <=> Burns(burnRates, p, t)
<1> DEFINE preset == Preset(short, long, <<t, 1>>, suffix)
<1>1. preset.shortWindow = short /\ preset.longWindow = long /\ preset.burnRate = <<t, 1>>
  BY DEF Preset
<1> HIDE DEF preset
<1>2. ASSUME NEW v \in Int PROVE Exceeding(<<v, 1>>, preset.burnRate) <=> v > t
  BY <1>1 DEF Exceeding
<1>3. \A q \in DOMAIN burnRates : q \in Presets /\ burnRates[q].short \in Int /\ burnRates[q].long \in Int
  BY DEF AreReadings
<1>4. FiresOn(preset) <=> \E q \in DOMAIN burnRates : q = p /\ burnRates[q].short > t /\ burnRates[q].long > t
  BY <1>1, <1>2, <1>3 DEF FiresOn
<1> QED
  BY <1>4 DEF Burns, preset

\* With the default alerts, the phase of a pass is the worst of the alerts that its
\* readings fire, unless the budget is spent: three tables in two packages agree.
THEOREM AlertsFollowThePhase == Spec => []AlertsAgreeWithPhase
<1>1. IInv => AlertsAgreeWithPhase
  <2> DEFINE firing == {a.preset.suffix : a \in {x \in loaded.alerts :
                            x.kind = "burnRate" /\ FiresOn(x.preset)}}
  <2> SUFFICES ASSUME IInv, Judged, phase # "violated", objective.burnRateEnabled,
                      objective.burnRateAlerts = {}
               PROVE  phase = IF "Critical" \in firing THEN "critical"
                              ELSE IF "Degraded" \in firing THEN "degraded"
                              ELSE IF "Warning" \in firing THEN "warning"
                              ELSE "met"
    BY DEF AlertsAgreeWithPhase
  <2>1. /\ windowed \in Int /\ AreReadings(burnRates)
        /\ phase = DetermineStatus(PercentRemaining(windowed), burnRates)
    BY DEF IInv, JudgedInv
  <2>2. {x \in loaded.alerts : x.kind = "burnRate"} = {BurnRateAlert(p) : p \in defaultBurnRatePresets}
    <3>1. loaded = CreatePrometheusRule(objective)
      BY DEF IInv, JudgedInv, RuleInv, IsRule
    <3> QED
      BY <3>1 DEF CreatePrometheusRule, burnRatePresetsForObjective, BurnRateAlert, BudgetErrorAlert,
                  FinishedAlert
  <2>3. firing = {p.suffix : p \in {q \in defaultBurnRatePresets : FiresOn(q)}}
    <3>1. \A p : BurnRateAlert(p).preset = p
      BY DEF BurnRateAlert
    <3> QED
      BY <2>2, <3>1
  <2> HIDE DEF firing
  <2> DEFINE critical == Preset(Window(5, "m"), Window(1, "h"), <<14, 1>>, "Critical")
             degraded == Preset(Window(1, "h"), Window(6, "h"), <<6, 1>>, "Degraded")
             warning  == Preset(Window(6, "h"), Window(3, "d"), <<1, 1>>, "Warning")
             slow     == Preset(Window(7, "d"), Window(30, "d"), <<1, 2>>, "SlowBurn")
  <2>4. /\ FiresOn(critical) <=> Burns(burnRates, 1, 14)
        /\ FiresOn(degraded) <=> Burns(burnRates, 2, 6)
        /\ FiresOn(warning) <=> Burns(burnRates, 3, 1)
    BY <2>1, ControllerWindows, FiresOnIsBurns DEF Presets
  <2>5. /\ critical.suffix = "Critical" /\ degraded.suffix = "Degraded"
        /\ warning.suffix = "Warning" /\ slow.suffix = "SlowBurn"
    BY DEF Preset
  <2>6. defaultBurnRatePresets = {critical, degraded, warning, slow}
    BY DEF defaultBurnRatePresets
  <2> HIDE DEF critical, degraded, warning, slow
  <2>7. /\ "Critical" \in firing <=> Burns(burnRates, 1, 14)
        /\ "Degraded" \in firing <=> Burns(burnRates, 2, 6)
        /\ "Warning" \in firing <=> Burns(burnRates, 3, 1)
    BY <2>3, <2>4, <2>5, <2>6
  <2>8. phase = IF Unit - windowed < 5 THEN "violated"
                ELSE IF Burns(burnRates, 1, 14) THEN "critical"
                ELSE IF Burns(burnRates, 2, 6) THEN "degraded"
                ELSE IF Burns(burnRates, 3, 1) THEN "warning"
                ELSE "met"
    BY <2>1, Cascade
  <2> QED
    BY <2>7, <2>8
<1> QED
  BY <1>1, Invariant, PTL

-----------------------------------------------------------------------------
(***************************************************************************)
(* Steady services: the error rate is that of the history, and its        *)
(* judgement has no middle.                                                *)
(***************************************************************************)
LEMMA NoRates == Rates({}) = 0
<1> DEFINE g == [x \in {} |-> 0]
           IsSum(h) == h = [s \in SUBSET {} |-> IF s = {} THEN 0
                              ELSE LET x == CHOOSE y \in s : TRUE IN x.rate + h[s \ {x}]]
           h == CHOOSE f : IsSum(f)
<1>1. IsSum([s \in SUBSET {} |-> 0])
  OBVIOUS
<1>2. IsSum(h)
  BY <1>1
<1>3. h[{}] = 0
  BY <1>2
<1>4. Rates({}) = h[{}]
  BY DEF Rates, MapThenSumSet, MapThenFoldSet, h, IsSum
<1> QED
  BY <1>3, <1>4

\* A whole error rate is read the same from the errors and from the rest.
LEMMA WholeRate ==
    ASSUME NEW total \in Nat, NEW bad \in 0..total,
           total # 0 => (Everything * bad) % total = 0
    PROVE  /\ total # 0 => \E e \in 0..Everything :
                /\ e * total = Everything * bad
                /\ ClampedRatio(bad, total) = e /\ ClampedRatio(total - bad, total) = Everything - e
           /\ total = 0 => bad = 0 /\ ClampedRatio(0, total) = 0
<1>1. CASE total = 0
  BY <1>1 DEF ClampedRatio
<1>2. CASE total # 0
  <2> DEFINE e == (Everything * bad) \div total
  <2>1. e \in Int /\ Everything * bad = total * e
    <3>1. ASSUME NEW x \in Int, x % total = 0 PROVE x \div total \in Int /\ x = total * (x \div total)
      BY <1>2, <3>1
    <3>2. Everything * bad \in Int
      BY DEF Everything
    <3> QED
      BY <1>2, <3>1, <3>2
  <2> HIDE DEF e
  <2>2. e \in 0..Everything
    <3>1. 0 <= e
      <4> SUFFICES ASSUME e <= -1 PROVE FALSE
        BY <2>1
      <4>1. total * e <= total * (-1)
        BY <1>2, <2>1
      <4> QED
        BY <1>2, <2>1, <4>1 DEF Everything
    <3>2. e <= Everything
      <4> SUFFICES ASSUME e >= Everything + 1 PROVE FALSE
        BY <2>1 DEF Everything
      <4>1. total * e >= total * (Everything + 1)
        BY <1>2, <2>1 DEF Everything
      <4>2. total * (Everything + 1) = Everything * total + total
        BY DEF Everything
      <4>3. Everything * bad <= Everything * total
        BY DEF Everything
      <4> QED
        BY <1>2, <2>1, <4>1, <4>2, <4>3 DEF Everything
    <3> QED
      BY <2>1, <3>1, <3>2
  <2>3. ClampedRatio(bad, total) = e
    BY <1>2 DEF ClampedRatio, e
  <2>4. ClampedRatio(total - bad, total) = Everything - e
    <3>1. Everything * (total - bad) = total * (Everything - e)
      BY <2>1 DEF Everything
    <3>2. ASSUME NEW x \in Int PROVE (total * x) \div total = x
      BY <1>2
    <3>3. (Everything * (total - bad)) \div total = Everything - e
      <4>1. Everything - e \in Int
        BY <2>1 DEF Everything
      <4> QED
        BY <3>1, <3>2, <4>1
    <3> QED
      BY <1>2, <3>3 DEF ClampedRatio
  <2> QED
    BY <1>2, <2>1, <2>2, <2>3, <2>4
<1> QED
  BY <1>1, <1>2

\* Spent or untouched, fast in every window or in none: an error rate of the budget or
\* more is a violation, any other leaves at least one part in Everything.
LEMMA SteadyJudgement ==
    ASSUME NEW e \in Int, NEW b \in 1..Everything, JudgedBy(e, b)
    PROVE  /\ IF e > b THEN phase = "violated" /\ windowed > Unit
              ELSE phase = "met" \/ windowed = Unit
           /\ phase = IF e >= b THEN "violated" ELSE "met"
<1> DEFINE multiple == (e + b - 1) \div b
           w == RoundDiv(Unit * e, b)
<1>0. b > 0
  OBVIOUS
<1>1. /\ windowed = w /\ phase = DetermineStatus(PercentRemaining(w), burnRates)
      /\ burnRates = [p \in Presets |-> [short |-> multiple, long |-> multiple]]
  BY <1>0 DEF JudgedBy, WindowedBurn, PresetBurn
<1>2. b \in Nat \ {0} /\ b <= 10000
  BY DEF Everything
<1>3. multiple \in Int /\ (e < b => multiple <= 1)
  <2>1. ASSUME NEW x \in Int, x < 2 * b PROVE x \div b \in Int /\ x \div b <= 1
    BY <1>2, <2>1
  <2>2. ASSUME NEW x \in Int PROVE x \div b \in Int
    BY <1>2
  <2> QED
    BY <1>2, <2>1, <2>2
<1>4. w \in Int /\ (e = b => w = Unit) /\ (e > b => w > Unit) /\ (e < b => Unit - w >= 5)
  <2> DEFINE h == b \div 2
  <2>1. h \in Int /\ 0 <= h /\ 2 * h <= b
    BY <1>2
  <2>2. ASSUME NEW x \in Int
        PROVE  x \div b \in Int /\ b * (x \div b) <= x /\ x < b * ((x \div b) + 1)
    BY <1>2
  <2>3. w \in Int /\ b * w <= Unit * e + h /\ Unit * e + h < b * (w + 1)
    BY <2>1, <2>2 DEF RoundDiv, Unit
  <2> HIDE DEF w, h
  <2>4. CASE e = b
    <3>0. PICK over \in Int : w = Unit + over
      <4>1. w - Unit \in Int /\ w = Unit + (w - Unit)
        BY <2>3 DEF Unit
      <4> QED
        BY <4>1
    <3>1. b * over <= h /\ h < b * (over + 1)
      <4>1. b * w = Unit * b + b * over /\ b * (w + 1) = Unit * b + b * (over + 1)
        BY <1>2, <3>0 DEF Unit
      <4> QED
        BY <1>2, <2>1, <2>3, <2>4, <4>1 DEF Unit
    <3>2. ASSUME NEW d \in Int, b * d <= h, h < b * (d + 1) PROVE d = 0
      <4>1. ~(d >= 1)
        <5> SUFFICES ASSUME d >= 1 PROVE FALSE
          OBVIOUS
        <5>1. b * d >= b
          BY <1>2
        <5> QED
          BY <1>2, <2>1, <3>2, <5>1
      <4>2. ~(d <= -1)
        <5> SUFFICES ASSUME d <= -1 PROVE FALSE
          OBVIOUS
        <5>1. b * (d + 1) <= 0
          BY <1>2
        <5> QED
          BY <1>2, <2>1, <3>2, <5>1
      <4> QED
        BY <4>1, <4>2
    <3> QED
      BY <2>4, <3>0, <3>1, <3>2 DEF Unit
  <2>5. CASE e > b
    <3> SUFFICES ASSUME w <= Unit PROVE FALSE
      BY <2>3, <2>5 DEF Unit
    <3>1. b * (w + 1) <= b * (Unit + 1)
      BY <1>2, <2>3 DEF Unit
    <3>2. Unit * e >= Unit * b + Unit /\ b * (Unit + 1) = Unit * b + b
      BY <1>2, <2>5 DEF Unit
    <3> QED
      BY <1>2, <2>1, <2>3, <3>1, <3>2 DEF Unit
  <2>6. CASE e < b
    <3> SUFFICES ASSUME w >= Unit - 4 PROVE FALSE
      BY <2>3, <2>6 DEF Unit
    <3>1. b * w >= b * (Unit - 4)
      BY <1>2, <2>3 DEF Unit
    <3>2. Unit * e <= Unit * b - Unit /\ b * (Unit - 4) = Unit * b - 4 * b
      BY <1>2, <2>6 DEF Unit
    <3> QED
      BY <1>2, <2>1, <2>3, <3>1, <3>2 DEF Unit
  <2> QED
    BY <2>3, <2>4, <2>5, <2>6
<1> HIDE DEF w, multiple
<1>5. AreReadings(burnRates)
  BY <1>1, <1>3 DEF AreReadings
<1>6. phase = IF Unit - w < 5 THEN "violated"
              ELSE IF Burns(burnRates, 1, 14) THEN "critical"
              ELSE IF Burns(burnRates, 2, 6) THEN "degraded"
              ELSE IF Burns(burnRates, 3, 1) THEN "warning"
              ELSE "met"
  BY <1>1, <1>4, <1>5, Cascade
<1>7. e < b => \A p, t \in Nat : t >= 1 => ~Burns(burnRates, p, t)
  BY <1>1, <1>3 DEF Burns
<1>8. e >= b => Unit - w < 5
  BY <1>2, <1>4 DEF Unit
<1>9. e < b => ~(Unit - w < 5)
  BY <1>4 DEF Unit
<1>10. phase = IF e >= b THEN "violated" ELSE "met"
  <2>1. e < b <=> ~(e >= b)
    BY <1>2
  <2> QED
    BY <1>6, <1>7, <1>8, <1>9, <2>1
<1>11. (e > b => e >= b) /\ (~(e > b) => e = b \/ ~(e >= b))
  BY <1>2
<1> QED
  BY <1>1, <1>4, <1>10, <1>11

\* No errors of any number are too many for a negative budget.
LEMMA NegativeBudget ==
    ASSUME NEW e \in Nat, NEW b \in Int, b < 0, JudgedBy(e, b)
    PROVE  phase = "met"
<1>1. PICK d \in Nat \ {0} : d = -b
  OBVIOUS
<1> DEFINE multiple == -(e \div d)
           w == -RoundDiv(Unit * e, d)
<1>2. /\ windowed = w /\ phase = DetermineStatus(PercentRemaining(w), burnRates)
      /\ burnRates = [p \in Presets |-> [short |-> multiple, long |-> multiple]]
  BY <1>1 DEF JudgedBy, WindowedBurn, PresetBurn
<1>3. ASSUME NEW x \in Nat PROVE x \div d \in Int /\ x \div d >= 0
  BY <1>1
<1>4. multiple \in Int /\ multiple <= 0
  BY <1>3
<1>5. w \in Int /\ w <= 0
  <2>1. Unit * e + (d \div 2) \in Nat
    BY <1>1 DEF Unit
  <2> QED
    BY <1>3, <2>1 DEF RoundDiv
<1> HIDE DEF multiple, w
<1>6. AreReadings(burnRates)
  BY <1>2, <1>4 DEF AreReadings
<1>7. \A p, t \in Nat : t >= 1 => ~Burns(burnRates, p, t)
  BY <1>2, <1>4 DEF Burns
<1>8. ~(Unit - w < 5)
  BY <1>5 DEF Unit
<1> QED
  BY <1>2, <1>5, <1>6, <1>7, <1>8, Cascade

\* Matching the labels selects the series that carry them.
LEMMA SelectedIsCarrying ==
    ASSUME NEW traffic, NEW metric, NEW labels
    PROVE  Selected(Selector(metric, buildLabelSelector(labels)), traffic)
            = Carrying(traffic, metric, labels)
<1> DEFINE L == buildLabelSelector(labels)
           Accepts(m, x) == Param(x.labels, m[1], "") \in m[2]
<1>1. ASSUME NEW x
      PROVE  (\A m \in L : Accepts(m, x)) <=> \A l \in DOMAIN labels : Param(x.labels, l, "") = labels[l]
  <2>1. L = {<<l, {labels[l]}>> : l \in DOMAIN labels}
    BY DEF buildLabelSelector
  <2>2. ASSUME NEW l PROVE Accepts(<<l, {labels[l]}>>, x) <=> Param(x.labels, l, "") = labels[l]
    OBVIOUS
  <2> HIDE DEF L, Accepts
  <2> QED
    BY <2>1, <2>2
<1>2. Selected(Selector(metric, L), traffic)
        = {x \in traffic : x.metric = metric /\ \A m \in L : Accepts(m, x)}
  BY DEF Selected, Selector
<1> HIDE DEF L, Accepts
<1> QED
  BY <1>1, <1>2 DEF Carrying, L

\* One matcher more selects among the series that the others select.
LEMMA OneMoreMatcher ==
    ASSUME NEW traffic, NEW metric, NEW matchers, NEW label, NEW values
    PROVE  Selected(Selector(metric, matchers \cup {<<label, values>>}), traffic)
            = With(Selected(Selector(metric, matchers), traffic), label, values)
<1> DEFINE Accepts(m, x) == Param(x.labels, m[1], "") \in m[2]
           more == matchers \cup {<<label, values>>}
<1>1. ASSUME NEW x
      PROVE  (\A m \in more : Accepts(m, x))
             <=> (\A m \in matchers : Accepts(m, x)) /\ Param(x.labels, label, "") \in values
  <2>1. Accepts(<<label, values>>, x) <=> Param(x.labels, label, "") \in values
    OBVIOUS
  <2> HIDE DEF Accepts
  <2> QED
    BY <2>1
<1> HIDE DEF more
<1>2. /\ Selected(Selector(metric, more), traffic)
            = {x \in traffic : x.metric = metric /\ \A m \in more : Accepts(m, x)}
      /\ Selected(Selector(metric, matchers), traffic)
            = {x \in traffic : x.metric = metric /\ \A m \in matchers : Accepts(m, x)}
  BY DEF Selected, Selector
<1> HIDE DEF Accepts
<1>3. Selected(Selector(metric, more), traffic)
        = With(Selected(Selector(metric, matchers), traffic), label, values)
  BY <1>1, <1>2 DEF With
<1> QED
  BY <1>3 DEF more

\* The error rate that a history amounts to: all fails of an absent service, and of an idle
\* one if no fast requests are none; else the share of the bad.
AmountsTo(s, rate, latency) ==
    /\ rate \in 0..Everything
    /\ IF s.absent \/ (s.total = 0 /\ latency) THEN rate = Everything
       ELSE rate * s.total = Everything * s.bad /\ (s.total = 0 => rate = 0)

LEMMA RatioIs ==
    ASSUME NEW total, NEW error, NEW traffic
    PROVE  /\ Ratio(total, error).form = "ratio"
           /\ ErrorRate(Ratio(total, error), traffic)
                = sliErrorRate(SumRate(total, traffic), SumRate(error, traffic))
BY DEF Ratio, ErrorRate

LEMMA LatencyIs ==
    ASSUME NEW fast, NEW count, NEW traffic
    PROVE  LET sli == [form |-> "latency", fast |-> fast, count |-> count]
           IN  /\ sli.form = "latency"
               /\ ErrorRate(sli, traffic)
                    = latencyErrorRate(SumRate(fast, traffic), SumRate(count, traffic))
BY DEF ErrorRate

LEMMA SumOf ==
    ASSUME NEW selector, NEW traffic, NEW n \in Int, Rates(Selected(selector, traffic)) = n
    PROVE  /\ SumRate(selector, traffic) = NoData <=> Selected(selector, traffic) = {}
           /\ SumRate(selector, traffic) = IF Selected(selector, traffic) = {} THEN NoData ELSE n
BY NoDataAssumption DEF SumRate

LEMMA CountedRate ==
    ASSUME NEW s \in Services, NEW total, NEW error,
           Counts(s, Selected(total, s.series), Selected(error, s.series))
    PROVE  AmountsTo(s, sliErrorRate(SumRate(total, s.series), SumRate(error, s.series)), FALSE)
<1> DEFINE t == SumRate(total, s.series)
           e == SumRate(error, s.series)
<1> SUFFICES AmountsTo(s, sliErrorRate(t, e), FALSE)
  OBVIOUS
<1>1. /\ s.total \in Nat /\ s.bad \in 0..s.total
      /\ s.total # 0 => (Everything * s.bad) % s.total = 0
  BY ServiceAssumption
<1>2. t = IF s.absent THEN NoData ELSE s.total
  BY <1>1, SumOf DEF Counts
<1>3. (IF e = NoData THEN 0 ELSE e) = s.bad
  BY <1>1, SumOf, NoRates, NoDataAssumption DEF Counts
<1> HIDE DEF t, e
<1>4. CASE s.absent
  BY <1>2, <1>4 DEF sliErrorRate, AmountsTo, Everything
<1>5. CASE ~s.absent
  <2>1. t # NoData /\ t = s.total
    BY <1>1, <1>2, <1>5, NoDataAssumption
  <2>2. sliErrorRate(t, e) = ClampedRatio(s.bad, s.total)
    BY <1>3, <2>1 DEF sliErrorRate
  <2>3. CASE s.total = 0
    <3>1. ClampedRatio(s.bad, s.total) = 0 /\ s.bad = 0
      BY <1>1, <2>3, WholeRate
    <3>2. 0 \in 0..Everything /\ 0 * s.total = Everything * s.bad
      BY <1>1, <3>1 DEF Everything
    <3> QED
      BY <1>5, <2>2, <3>1, <3>2 DEF AmountsTo
  <2>4. CASE s.total # 0
    <3>1. PICK r \in 0..Everything : r * s.total = Everything * s.bad /\ ClampedRatio(s.bad, s.total) = r
      BY <1>1, <2>4, WholeRate
    <3> QED
      BY <1>5, <2>2, <2>4, <3>1 DEF AmountsTo
  <2> QED
    BY <2>3, <2>4
<1> QED
  BY <1>4, <1>5

LEMMA TimedRate ==
    ASSUME NEW s \in Services, NEW count, NEW fast, NEW threshold,
           Times(s, Selected(count, s.series), Selected(fast, s.series), threshold)
    PROVE  LET rate == latencyErrorRate(SumRate(fast, s.series), SumRate(count, s.series))
           IN  IF s.absent \/ threshold \notin s.buckets THEN rate = NoData
               ELSE AmountsTo(s, rate, TRUE)
<1> DEFINE c == SumRate(count, s.series)
           f == SumRate(fast, s.series)
<1>1. /\ s.total \in Nat /\ s.bad \in 0..s.total
      /\ s.total # 0 => (Everything * s.bad) % s.total = 0
  BY ServiceAssumption
<1>2. c = IF s.absent THEN NoData ELSE s.total
  BY <1>1, SumOf DEF Times
<1>3. ~s.absent => f = IF threshold \in s.buckets THEN s.total - s.bad ELSE NoData
  <2>1. CASE Selected(fast, s.series) = {}
    BY <2>1 DEF SumRate, Times
  <2>2. CASE Selected(fast, s.series) # {}
    BY <1>1, <2>2, SumOf DEF Times
  <2> QED
    BY <2>1, <2>2
<1> HIDE DEF c, f
<1>4. CASE s.absent \/ threshold \notin s.buckets
  BY <1>2, <1>3, <1>4 DEF latencyErrorRate, c, f
<1>5. CASE ~s.absent /\ threshold \in s.buckets
  <2>1. c = s.total /\ f = s.total - s.bad /\ c # NoData /\ f # NoData
    BY <1>1, <1>2, <1>3, <1>5, NoDataAssumption
  <2>2. latencyErrorRate(f, c) = Everything - ClampedRatio(s.total - s.bad, s.total)
    BY <2>1 DEF latencyErrorRate
  <2>3. CASE s.total = 0
    <3>1. ClampedRatio(s.total - s.bad, s.total) = 0
      BY <1>1, <2>3, WholeRate
    <3>2. latencyErrorRate(f, c) = Everything /\ Everything \in 0..Everything
      BY <2>2, <3>1 DEF Everything
    <3>3. AmountsTo(s, latencyErrorRate(f, c), TRUE)
      BY <2>3, <3>2 DEF AmountsTo
    <3> QED
      BY <1>5, <3>3 DEF c, f
  <2>4. CASE s.total # 0
    <3>1. PICK r \in 0..Everything :
            r * s.total = Everything * s.bad /\ ClampedRatio(s.total - s.bad, s.total) = Everything - r
      BY <1>1, <2>4, WholeRate
    <3>2. latencyErrorRate(f, c) = r
      BY <2>2, <3>1 DEF Everything
    <3> QED
      BY <1>5, <2>4, <3>1, <3>2 DEF AmountsTo, c, f
  <2> QED
    BY <2>3, <2>4
<1> QED
  BY <1>4, <1>5

\* What the rule of an objective measures of a service.
LEMMA RuleMeasures ==
    ASSUME NEW s \in Services, NEW o \in Objectives, ValidObjective(o), Generates(o)
    PROVE  LET sli == Resolve(o.sli)
               latency == sli.form = "latency"
               rate == ErrorRate(sli, s.series)
           IN  IF latency /\ (s.absent \/ o.sli.template.params.threshold \notin s.buckets)
               THEN rate = NoData
               ELSE AmountsTo(s, rate, latency)
<1> DEFINE t == o.sli.template
<1>1. TellsOf(s, o) /\ ValidSLI(o.sli) /\ Resolve(o.sli) # Unresolved
  BY ServiceAssumption DEF ValidObjective, Generates
<1>2. CASE t = NoTemplate
  <2> DEFINE q == o.sli.query
  <2>1. Resolve(o.sli) = Ratio(q.total, q.error)
    BY <1>1, <1>2 DEF Resolve, ValidSLI
  <2>2. Counts(s, Selected(q.total, s.series), Selected(q.error, s.series))
    BY <1>1, <1>2 DEF TellsOf
  <2>3. AmountsTo(s, sliErrorRate(SumRate(q.total, s.series), SumRate(q.error, s.series)), FALSE)
    BY <2>2, CountedRate
  <2>4. /\ Ratio(q.total, q.error).form = "ratio"
        /\ ErrorRate(Ratio(q.total, q.error), s.series)
            = sliErrorRate(SumRate(q.total, s.series), SumRate(q.error, s.series))
    BY RatioIs
  <2> QED
    BY <2>1, <2>3, <2>4
<1>3. ASSUME t # NoTemplate, NEW metric, NEW label, NEW codes,
             LET labels == buildLabelSelector(t.labels)
             IN  Resolve(o.sli) = Ratio(Selector(metric, labels),
                                        Selector(metric, labels \cup {<<label, codes>>})),
             Counts(s, Carrying(s.series, metric, t.labels),
                    With(Carrying(s.series, metric, t.labels), label, codes))
      PROVE  Resolve(o.sli).form = "ratio" /\ AmountsTo(s, ErrorRate(Resolve(o.sli), s.series), FALSE)
  <2> DEFINE total == Selector(metric, buildLabelSelector(t.labels))
             error == Selector(metric, buildLabelSelector(t.labels) \cup {<<label, codes>>})
  <2>1. Counts(s, Selected(total, s.series), Selected(error, s.series))
    <3> DEFINE own == Selector(metric, buildLabelSelector(t.labels))
    <3>1. Selected(own, s.series) = Carrying(s.series, metric, t.labels)
      BY SelectedIsCarrying
    <3>2. Selected(error, s.series) = With(Selected(own, s.series), label, codes)
      BY OneMoreMatcher
    <3> HIDE DEF error
    <3> QED
      BY <1>3, <3>1, <3>2
  <2>2. Resolve(o.sli) = Ratio(total, error)
    BY <1>3
  <2> HIDE DEF total, error
  <2>3. AmountsTo(s, sliErrorRate(SumRate(total, s.series), SumRate(error, s.series)), FALSE)
    BY <2>1, CountedRate
  <2>4. /\ Ratio(total, error).form = "ratio"
        /\ ErrorRate(Ratio(total, error), s.series)
            = sliErrorRate(SumRate(total, s.series), SumRate(error, s.series))
    BY RatioIs
  <2> QED
    BY <2>2, <2>3, <2>4
<1>4. CASE t # NoTemplate /\ t.name = "http-availability"
  <2>1. Resolve(o.sli) = httpAvailabilityTemplate(t)
    BY <1>4 DEF Resolve, resolveTemplate
  <2>2. Counts(s, Carrying(s.series, "http_requests_total", t.labels),
               With(Carrying(s.series, "http_requests_total", t.labels), "status", ServerErrors))
    BY <1>1, <1>4 DEF TellsOf
  <2> QED
    BY <1>3, <1>4, <2>1, <2>2 DEF httpAvailabilityTemplate
<1>5. CASE t # NoTemplate /\ t.name = "kubernetes-apiserver"
  <2>1. Resolve(o.sli) = kubernetesAPIServerTemplate(t)
    BY <1>5 DEF Resolve, resolveTemplate
  <2>2. Counts(s, Carrying(s.series, "apiserver_request_total", t.labels),
               With(Carrying(s.series, "apiserver_request_total", t.labels), "code",
                    Param(t.params, "errorCodes", ServerErrors)))
    BY <1>1, <1>5 DEF TellsOf
  <2> QED
    BY <1>3, <1>5, <2>1, <2>2 DEF kubernetesAPIServerTemplate
<1>6. CASE t # NoTemplate /\ t.name = "http-latency"
  <2> DEFINE labels == buildLabelSelector(t.labels)
             threshold == Param(t.params, "threshold", "")
             fast == Selector("http_request_duration_seconds_bucket", labels \cup {<<"le", {threshold}>>})
             count == Selector("http_request_duration_seconds_count", labels)
  <2>1. Resolve(o.sli) = httpLatencyTemplate(t)
    BY <1>6 DEF Resolve, resolveTemplate
  <2>2. threshold # "" /\ Resolve(o.sli) = [form |-> "latency", fast |-> fast, count |-> count]
    BY <1>1, <2>1 DEF httpLatencyTemplate
  <2>3. threshold = t.params.threshold
    BY <2>2 DEF Param
  <2>4. Times(s, Carrying(s.series, "http_request_duration_seconds_count", t.labels),
              With(Carrying(s.series, "http_request_duration_seconds_bucket", t.labels), "le", {threshold}),
              threshold)
    BY <1>1, <1>6 DEF TellsOf
  <2>5. Times(s, Selected(count, s.series), Selected(fast, s.series), threshold)
    <3> HIDE DEF threshold
    <3>1. Selected(count, s.series) = Carrying(s.series, "http_request_duration_seconds_count", t.labels)
      BY SelectedIsCarrying
    <3>2. Selected(fast, s.series)
            = With(Carrying(s.series, "http_request_duration_seconds_bucket", t.labels), "le", {threshold})
      <4> DEFINE buckets == Selector("http_request_duration_seconds_bucket", labels)
      <4>1. Selected(fast, s.series) = With(Selected(buckets, s.series), "le", {threshold})
        <5> HIDE DEF labels
        <5> QED
          BY OneMoreMatcher
      <4>2. Selected(buckets, s.series)
                = Carrying(s.series, "http_request_duration_seconds_bucket", t.labels)
        BY SelectedIsCarrying
      <4> QED
        BY <4>1, <4>2
    <3> HIDE DEF fast, count
    <3> QED
      BY <2>4, <3>1, <3>2
  <2> HIDE DEF threshold, fast, count
  <2>6. /\ Resolve(o.sli).form = "latency"
        /\ ErrorRate(Resolve(o.sli), s.series)
            = latencyErrorRate(SumRate(fast, s.series), SumRate(count, s.series))
    BY <2>2, LatencyIs
  <2>7. IF s.absent \/ threshold \notin s.buckets THEN ErrorRate(Resolve(o.sli), s.series) = NoData
        ELSE AmountsTo(s, ErrorRate(Resolve(o.sli), s.series), TRUE)
    BY <2>5, <2>6, TimedRate
  <2> QED
    BY <2>3, <2>6, <2>7
<1> QED
  BY <1>1, <1>2, <1>4, <1>5, <1>6 DEF ValidSLI

\* From the labels and the template of an objective to its phase: the status of a steady
\* service is what its history deserves, whatever other services send.
THEOREM ServicesAreJudgedRight == Spec => []SteadyServiceIsJudgedRight
<1>1. IInv => SteadyServiceIsJudgedRight
  <2> DEFINE b == BudgetOf(objective.target)
             missing == Latency /\ (service.absent \/ objective.sli.template.params.threshold
                                                        \notin service.buckets)
             spent == \/ service.absent
                      \/ service.total = 0 /\ Latency
                      \/ service.total # 0 /\ service.bad * Everything >= service.total * b
             below == objective.target < Everything
  <2> SUFFICES ASSUME IInv, service # NoService, loaded # NoRule, isRecordingWindow(objective.window)
               PROVE  phase = IF missing THEN "unknown"
                              ELSE IF below /\ spent THEN "violated" ELSE "met"
    BY DEF SteadyServiceIsJudgedRight
  <2>1. /\ service \in Services /\ objective \in Objectives
        /\ ValidObjective(objective) /\ Generates(objective) /\ loaded.sli = Resolve(objective.sli)
    BY DEF IInv, SteadyInv, RuleInv, IsRule, CreatePrometheusRule
  <2>2. IF missing THEN SteadyRate = NoData ELSE AmountsTo(service, SteadyRate, Latency)
    BY <2>1, RuleMeasures DEF SteadyRate, Latency
  <2>3. CASE missing
    BY <2>2, <2>3 DEF IInv, SteadyInv, Answered
  <2>4. CASE ~missing
    <3>1. AmountsTo(service, SteadyRate, Latency) /\ SteadyRate \in 0..Everything
      BY <2>2, <2>4 DEF AmountsTo
    <3>2. JudgedBy(SteadyRate, b)
      <4>1. SteadyRate # NoData
        BY <3>1, NoDataAssumption
      <4> QED
        BY <4>1 DEF IInv, SteadyInv, Answered
    <3>3. b \in Int /\ (below => b \in 1..Everything) /\ (~below => b < 0)
      BY <2>1, ObjectiveAssumption, BudgetIsSigned
    <3>4. SteadyRate \in Nat
      BY <3>1
    <3> HIDE DEF b, below
    <3>9. CASE ~below
      BY <2>4, <3>2, <3>3, <3>4, <3>9, NegativeBudget
    <3> SUFFICES ASSUME below PROVE phase = IF spent THEN "violated" ELSE "met"
      BY <2>4, <3>9
    <3>5. phase = IF SteadyRate >= b THEN "violated" ELSE "met"
      BY <3>2, <3>3, <3>4, SteadyJudgement
    <3>6. service.total \in Nat /\ service.bad \in Nat
      BY <2>1, ServiceAssumption
    <3>7. SteadyRate >= b <=> spent
      <4>1. CASE service.absent \/ (service.total = 0 /\ Latency)
        BY <3>1, <3>3, <4>1 DEF AmountsTo
      <4>2. CASE ~service.absent /\ service.total = 0 /\ ~Latency
        BY <3>1, <3>3, <4>2 DEF AmountsTo
      <4>3. CASE ~service.absent /\ service.total # 0
        <5>1. SteadyRate * service.total = Everything * service.bad
          BY <3>1, <4>3 DEF AmountsTo
        <5>2. ASSUME NEW r \in Int, NEW c \in Int, NEW n \in Nat, n # 0
              PROVE  r >= c <=> r * n >= n * c
          <6>1. ASSUME r >= c PROVE r * n >= n * c
            BY <5>2, <6>1
          <6>2. ASSUME r <= c - 1 PROVE r * n < n * c
            <7>1. r * n <= (c - 1) * n
              BY <5>2, <6>2
            <7> QED
              BY <5>2, <7>1
          <6> QED
            BY <6>1, <6>2
        <5>3. SteadyRate >= b <=> SteadyRate * service.total >= service.total * b
          BY <3>3, <3>4, <3>6, <4>3, <5>2
        <5>4. Everything * service.bad = service.bad * Everything
          BY <3>6 DEF Everything
        <5> QED
          BY <4>3, <5>1, <5>3, <5>4
      <4> QED
        BY <4>1, <4>2, <4>3
    <3> QED
      BY <3>5, <3>7
  <2> QED
    BY <2>3, <2>4
<1> QED
  BY <1>1, Invariant, PTL

-----------------------------------------------------------------------------
(***************************************************************************)
(* Custom alerts.                                                          *)
(***************************************************************************)
AreHours(h) == h[1] \in Nat /\ h[2] \in Nat

LEMMA HoursType ==
    ASSUME NEW window, window.number \in Nat, ParsesAlertWindow(window)
    PROVE  AreHours(Hours(window))
<1>1. window.unit \in {"d", "h", "m", "s"}
  BY DEF ParsesAlertWindow, AlertUnit
<1>2. \A u \in {"d", "h", "m", "s"} : AlertUnit[u][1] \in Nat /\ AlertUnit[u][2] \in Nat
  BY DEF AlertUnit
<1>3. ASSUME NEW i \in Nat, NEW j \in Nat PROVE i * j \in Nat
  OBVIOUS
<1> QED
  BY <1>1, <1>2, <1>3 DEF AreHours, Hours

\* A burn rate over a threshold that is made of a percentage and two windows, without the
\* fractions; never with a negative budget.
LEMMA ExceedingIs ==
    ASSUME NEW e \in Nat, NEW b \in Int, b # 0, NEW percent \in Nat,
           NEW c, AreHours(c), NEW w, AreHours(w)
    PROVE  Exceeding(BurnRate(e, b), <<percent * w[1] * c[2], 100 * w[2] * c[1]>>)
            <=> b > 0 /\ 100 * e * c[1] * w[2] > percent * b * w[1] * c[2]
<1> DEFINE t == percent * w[1] * c[2]
           u == 100 * w[2] * c[1]
<1>1. c[1] \in Nat /\ c[2] \in Nat /\ w[1] \in Nat /\ w[2] \in Nat
  BY DEF AreHours
<1>2. ASSUME NEW i \in Nat, NEW j \in Nat PROVE i * j \in Nat
  OBVIOUS
<1>3. t \in Nat /\ u \in Nat
  BY <1>1, <1>2
<1>4. CASE b > 0
  <2>1. Exceeding(BurnRate(e, b), <<t, u>>) <=> e * u > t * b
    BY <1>4 DEF Exceeding, BurnRate
  <2>2. e * u = 100 * e * c[1] * w[2] /\ t * b = percent * b * w[1] * c[2]
    BY <1>1
  <2> QED
    BY <1>4, <2>1, <2>2
<1>5. CASE ~(b > 0)
  <2>1. Exceeding(BurnRate(e, b), <<t, u>>) <=> (-e) * u > t * (-b)
    BY <1>5 DEF Exceeding, BurnRate
  <2> HIDE DEF t, u
  <2>2. (-e) * u = -(e * u) /\ e * u \in Nat /\ t * (-b) \in Nat
    BY <1>2, <1>3, <1>5
  <2> QED
    BY <1>5, <2>1, <2>2 DEF t, u
<1> QED
  BY <1>4, <1>5

\* A custom alert fires on a steady service exactly if the service consumes more than the
\* alert's share of the budget, with the percentages and windows users write.
THEOREM CustomAlertsMeanConsumption == Spec => []CustomAlertMeansConsumption
<1>1. IInv => CustomAlertMeansConsumption
  <2> DEFINE e == ErrorRate(loaded.sli, service.series)
             window == Hours(objective.window)
             Consumes(a) ==
                LET consume == Hours(a.consumeWindow)
                IN  /\ objective.target < Everything
                    /\ 100 * e * consume[1] * window[2]
                        > a.consumePercent * BudgetOf(objective.target) * window[1] * consume[2]
             custom == objective.burnRateAlerts
             firing == {x \in loaded.alerts : x.kind = "burnRate" /\ Fires(x, loaded, service.series)}
             PresetOf(a) == Preset(a.shortWindow, a.longWindow, burnRateThreshold(a, objective.window), a.name)
  <2> SUFFICES ASSUME IInv, service # NoService, Judged, objective.burnRateEnabled, custom # {}
               PROVE  {a.preset.suffix : a \in firing} = {a.name : a \in {x \in custom : Consumes(x)}}
    BY DEF CustomAlertMeansConsumption
  <2>1. /\ Generates(objective) /\ loaded = CreatePrometheusRule(objective)
        /\ e # NoData /\ service \in Services /\ objective \in Objectives
        /\ ValidObjective(objective)
    BY DEF IInv, JudgedInv, SteadyInv, RuleInv, IsRule, Judged, Phases, Answered, SteadyRate
  <2>2. e \in Nat
    <3>1. loaded.sli = Resolve(objective.sli)
      BY <2>1 DEF CreatePrometheusRule
    <3>2. \E latency : AmountsTo(service, e, latency)
      BY <2>1, <3>1, RuleMeasures
    <3> QED
      BY <3>2 DEF AmountsTo
  <2>3. {x \in loaded.alerts : x.kind = "burnRate"} = {BurnRateAlert(PresetOf(a)) : a \in custom}
    <3>1. burnRatePresetsForObjective(objective) = {PresetOf(a) : a \in custom}
      BY DEF burnRatePresetsForObjective
    <3> HIDE DEF PresetOf
    <3>2. \A p : BurnRateAlert(p).kind = "burnRate"
      BY DEF BurnRateAlert
    <3>3. BudgetErrorAlert.kind # "burnRate" /\ FinishedAlert(objective.window).kind # "burnRate"
      BY DEF BudgetErrorAlert, FinishedAlert
    <3>4. loaded.alerts = (IF objective.budgetErrorEnabled THEN {BudgetErrorAlert} ELSE {})
                          \cup {BurnRateAlert(p) : p \in {PresetOf(a) : a \in custom}}
                          \cup {FinishedAlert(objective.window)}
      BY <2>1, <3>1 DEF CreatePrometheusRule
    <3> QED
      BY <3>2, <3>3, <3>4
  <2>4. ASSUME NEW a \in custom
        PROVE  /\ BurnRateAlert(PresetOf(a)).preset.suffix = a.name
               /\ Fires(BurnRateAlert(PresetOf(a)), loaded, service.series) <=> Consumes(a)
    <3> DEFINE x == BurnRateAlert(PresetOf(a))
               percent == a.consumePercent
               consume == Hours(a.consumeWindow)
               b == BudgetOf(objective.target)
               below == objective.target < Everything
    <3>1. /\ x.kind = "burnRate" /\ x.preset.suffix = a.name
          /\ x.preset.burnRate = burnRateThreshold(a, objective.window)
      BY DEF BurnRateAlert, Preset
    <3>2. x.reads \subseteq loaded.records
      <4>1. PresetOf(a) \in burnRatePresetsForObjective(objective)
        BY DEF burnRatePresetsForObjective
      <4> HIDE DEF PresetOf
      <4>2. /\ PresetOf(a).shortWindow \in recordingWindows
            /\ PresetOf(a).longWindow \in recordingWindows
        BY <2>1, <4>1, PresetsAreRecorded
      <4> QED
        BY <2>1, <4>2, RecordsOf DEF BurnRateAlert
    <3>3. percent \in Nat /\ AreHours(consume) /\ AreHours(window)
      <4>1. /\ percent \in Nat /\ a.consumeWindow.number \in Nat /\ objective.window.number \in Nat
        BY <2>1, ObjectiveAssumption
      <4>2. ParsesAlertWindow(a.consumeWindow) /\ ParsesAlertWindow(objective.window)
        BY <2>1 DEF Generates, ValidAlert
      <4> QED
        BY <4>1, <4>2, HoursType
    <3>4. b \in Int /\ (below => b > 0) /\ (~below => b < 0)
      BY <2>1, ObjectiveAssumption, BudgetIsSigned
    <3>5. loaded.target = objective.target
      BY <2>1 DEF CreatePrometheusRule
    <3>6. Fires(x, loaded, service.series)
            <=> Exceeding(BurnRate(e, b), burnRateThreshold(a, objective.window))
      BY <2>1, <3>1, <3>2, <3>5 DEF Fires
    <3>7. burnRateThreshold(a, objective.window)
            = <<percent * window[1] * consume[2], 100 * window[2] * consume[1]>>
      BY DEF burnRateThreshold
    <3>8. Consumes(a) <=>
            below /\ 100 * e * consume[1] * window[2] > percent * b * window[1] * consume[2]
      OBVIOUS
    <3> HIDE DEF e, b, below, consume, window, percent, x
    <3>9. Exceeding(BurnRate(e, b), <<percent * window[1] * consume[2], 100 * window[2] * consume[1]>>)
            <=> b > 0 /\ 100 * e * consume[1] * window[2] > percent * b * window[1] * consume[2]
      BY <2>2, <3>3, <3>4, ExceedingIs
    <3>10. below <=> b > 0
      BY <3>4
    <3> QED
      BY <3>1, <3>6, <3>7, <3>8, <3>9, <3>10 DEF x
  <2> HIDE DEF Consumes, PresetOf
  <2>5. firing = {BurnRateAlert(PresetOf(a)) : a \in {x \in custom : Consumes(x)}}
    BY <2>3, <2>4
  <2> HIDE DEF firing
  <2> QED
    BY <2>4, <2>5
<1> QED
  BY <1>1, Invariant, PTL

-----------------------------------------------------------------------------
(***************************************************************************)
(* The backtest command, from a file that holds the objective.             *)
(***************************************************************************)
FromFile(preApply, targets) ==
    [file |-> TRUE, name |-> FALSE, preApply |-> preApply, range |-> NoWindow, timeout |-> 30,
     targets |-> targets]

\* With --pre-apply the raw queries, if the objective has any; else what the rule records.
RateAsked(preApply) ==
    IF preApply /\ objective.sli.query # NoQuery
    THEN RawErrorRate(objective.sli.query, service.series)
    ELSE IF loaded = NoRule THEN NoData ELSE SteadyRate

LEMMA AsksFor ==
    ASSUME NEW preApply \in BOOLEAN, NEW targets
    PROVE  QueryAvgErrorRate(FromFile(preApply, targets), objective, {loaded} \ {NoRule}, service.series)
            = RateAsked(preApply)
<1> DEFINE flags == FromFile(preApply, targets)
           rules == {loaded} \ {NoRule}
<1>1. flags.file = TRUE /\ flags.preApply = preApply
  BY DEF FromFile
<1> HIDE DEF flags
<1>2. Source(flags, objective) = "raw" <=> preApply /\ objective.sli.query # NoQuery
  BY <1>1 DEF Source, ResolvedQueries
<1>3. loaded = NoRule => rules = {}
  OBVIOUS
<1>4. loaded # NoRule => rules # {} /\ (CHOOSE r \in rules : TRUE) = loaded
  <2> SUFFICES ASSUME loaded # NoRule PROVE rules # {} /\ (CHOOSE r \in rules : TRUE) = loaded
    OBVIOUS
  <2>1. rules = {loaded}
    OBVIOUS
  <2> HIDE DEF rules
  <2> QED
    BY <2>1
<1> HIDE DEF rules
<1>5. QueryAvgErrorRate(flags, objective, rules, service.series) = RateAsked(preApply)
  BY <1>2, <1>3, <1>4 DEF QueryAvgErrorRate, RateAsked, SteadyRate
<1> QED
  BY <1>5 DEF flags, rules

Outcome(preApply, targets) ==
    runBacktest(FromFile(preApply, targets), objective, {loaded} \ {NoRule}, service.series)

Verdicts(asked, rate) == [i \in DOMAIN asked |-> computeTargetResult(asked[i], rate)]

\* Of the checks before the verdicts only two can fail.
LEMMA BacktestIs ==
    ASSUME objective \in Objectives, NEW preApply \in BOOLEAN, NEW targets,
           NEW asked, asked = parseTargets(FromFile(preApply, targets), objective)
    PROVE  LET outcome == Outcome(preApply, targets)
               fine == RateAsked(preApply) # NoData /\ \A i \in DOMAIN asked : validateTarget(asked[i])
           IN  /\ outcome.error = "" <=> fine
               /\ outcome.results = IF fine THEN Verdicts(asked, RateAsked(preApply)) ELSE <<>>
<1> DEFINE flags == FromFile(preApply, targets)
           rate == RateAsked(preApply)
           outcome == Outcome(preApply, targets)
           valid == \A i \in DOMAIN asked : validateTarget(asked[i])
           verdicts == Verdicts(asked, rate)
<1>1. /\ flags.file /\ ~flags.name /\ flags.range = NoWindow /\ flags.timeout = 30
  BY DEF FromFile
<1>2. parseTimeout(flags.timeout) /\ objective.window # NoWindow
  BY <1>1, ObjectiveAssumption, NotANumberAssumption DEF parseTimeout
<1>3. QueryAvgErrorRate(flags, objective, {loaded} \ {NoRule}, service.series) = rate
  BY AsksFor
<1> HIDE DEF flags
<1>4. outcome = IF ~valid THEN Failed("targets")
                ELSE IF rate = NoData THEN Failed("no data")
                ELSE [error |-> "", source |-> Source(flags, objective), results |-> verdicts]
  BY <1>1, <1>2, <1>3 DEF runBacktest, Outcome, Verdicts, flags
<1> HIDE DEF rate, outcome, valid, verdicts
<1>5. \A why \in {"targets", "no data"} : Failed(why).error # "" /\ Failed(why).results = <<>>
  BY DEF Failed
<1>6. CASE rate # NoData /\ valid
  <2>1. outcome.error = "" /\ outcome.results = verdicts
    BY <1>4, <1>6
  <2> QED
    BY <1>6, <2>1 DEF rate, outcome, valid, verdicts
<1>7. CASE ~(rate # NoData /\ valid)
  <2>1. \E why \in {"targets", "no data"} : outcome = Failed(why)
    BY <1>4, <1>7
  <2>2. outcome.error # "" /\ outcome.results = <<>>
    BY <1>5, <2>1
  <2> QED
    BY <1>7, <2>2 DEF rate, outcome, valid
<1> QED
  BY <1>6, <1>7

LEMMA TargetIsValid ==
    ASSUME NEW target \in 0..(2 * Everything), target # Everything
    PROVE  validateTarget(target) <=> target # 0 /\ target < Everything
BY NotANumberAssumption DEF validateTarget, Everything

LEMMA RateAskedType ==
    ASSUME NEW preApply \in BOOLEAN, service \in Services, RateAsked(preApply) # NoData
    PROVE  RateAsked(preApply) \in Int
<1>1. Traffic(service.series)
  BY ObjectiveAssumption DEF Traffic
<1>2. CASE preApply /\ objective.sli.query # NoQuery
  <2> DEFINE e == SumRate(objective.sli.query.error, service.series)
             t == SumRate(objective.sli.query.total, service.series)
  <2>1. e # NoData /\ t # NoData /\ RateAsked(preApply) = ClampedRatio(e, t)
    BY <1>2 DEF RateAsked, RawErrorRate
  <2>2. e \in Nat /\ t \in Nat
    BY <1>1, <2>1, SumRateType
  <2> HIDE DEF e, t
  <2>3. ClampedRatio(e, t) \in Int
    BY <2>2 DEF ClampedRatio, Everything
  <2> QED
    BY <2>1, <2>3
<1>3. CASE ~(preApply /\ objective.sli.query # NoQuery)
  BY <1>1, <1>3, ErrorRateType DEF RateAsked, SteadyRate
<1> QED
  BY <1>2, <1>3

\* The raw queries lack the fallbacks of the rule, and nothing else.
LEMMA RawLacksFallbacks ==
    ASSUME IInv, Judged, service # NoService, NEW preApply \in BOOLEAN
    PROVE  /\ RateAsked(preApply) \in {NoData, SteadyRate}
           /\ RateAsked(preApply) = NoData => preApply /\ (service.absent \/ service.bad = 0)
<1>1. loaded # NoRule /\ SteadyRate # NoData
  BY DEF IInv, SteadyInv, Judged, Phases, Answered
<1>2. CASE ~(preApply /\ objective.sli.query # NoQuery)
  BY <1>1, <1>2 DEF RateAsked
<1>3. CASE preApply /\ objective.sli.query # NoQuery
  <2> DEFINE q == objective.sli.query
             e == SumRate(q.error, service.series)
             t == SumRate(q.total, service.series)
  <2>1. /\ service \in Services /\ objective \in Objectives
        /\ ValidObjective(objective) /\ Generates(objective) /\ loaded.sli = Resolve(objective.sli)
    BY <1>1 DEF IInv, SteadyInv, RuleInv, IsRule, CreatePrometheusRule
  <2>2. objective.sli.template = NoTemplate
    BY <1>3, <2>1 DEF ValidObjective, ValidSLI
  <2>3. Counts(service, Selected(q.total, service.series), Selected(q.error, service.series))
    BY <2>1, <2>2, ServiceAssumption DEF TellsOf
  <2>4. SteadyRate = sliErrorRate(t, e)
    <3>1. Resolve(objective.sli) = Ratio(q.total, q.error)
      BY <1>3, <2>2 DEF Resolve
    <3>2. ErrorRate(Ratio(q.total, q.error), service.series) = sliErrorRate(t, e)
      BY RatioIs
    <3> QED
      BY <2>1, <3>1, <3>2 DEF SteadyRate
  <2>5. service.total \in Int /\ service.bad \in Int
    BY <2>1, ServiceAssumption
  <2>6. t = NoData => service.absent
    BY <2>3, <2>5, SumOf DEF Counts
  <2>7. e = NoData => service.bad = 0
    BY <2>3, <2>5, SumOf, NoRates DEF Counts
  <2>8. RateAsked(preApply) = IF e = NoData \/ t = NoData THEN NoData ELSE ClampedRatio(e, t)
    BY <1>3 DEF RateAsked, RawErrorRate
  <2> HIDE DEF e, t
  <2>9. CASE e = NoData \/ t = NoData
    BY <1>3, <2>6, <2>7, <2>8, <2>9
  <2>10. CASE e # NoData /\ t # NoData
    BY <1>1, <2>4, <2>8, <2>10 DEF sliErrorRate
  <2> QED
    BY <2>9, <2>10
<1> QED
  BY <1>2, <1>3

\* The command never disagrees with the status about a steady service but for a budget
\* spent to the last bit, whatever the traffic, the templates and the target.
THEOREM BacktestAgreesWithStatus == Spec => []BacktestAgrees
<1>1. IInv => BacktestAgrees
  <2> SUFFICES ASSUME IInv, service # NoService, NEW preApply \in BOOLEAN
               PROVE  LET one == Outcome(preApply, <<>>)
                          many == Outcome(preApply, WhatIf)
                      IN  /\ (one.error = "" /\ Judged) =>
                                IF one.results[1].status = "FAIL" THEN phase = "violated" /\ windowed > Unit
                                ELSE phase = "met" \/ windowed = Unit
                          /\ (one.error # "" /\ Judged) =>
                                \/ objective.target = 0 \/ objective.target > Everything
                                \/ preApply /\ (service.absent \/ service.bad = 0)
                          /\ \A i, j \in DOMAIN many.results :
                                (i < j /\ many.results[i].status = "FAIL") => many.results[j].status = "FAIL"
    BY DEF BacktestAgrees, FromFile, Outcome
  <2> DEFINE one == Outcome(preApply, <<>>)
             many == Outcome(preApply, WhatIf)
             rate == RateAsked(preApply)
             target == objective.target
  <2>1. objective \in Objectives /\ service \in Services
        /\ target \in 0..(2 * Everything) /\ target # Everything
    BY ObjectiveAssumption DEF IInv, RuleInv, SteadyInv
  <2>2. rate # NoData => rate \in Int
    BY <2>1, RateAskedType
  <2>3. /\ one.error = "" <=> rate # NoData /\ target # 0 /\ target < Everything
        /\ one.error = "" => one.results[1].status = IF rate > BudgetOf(target) THEN "FAIL" ELSE "PASS"
    <3>1. parseTargets(FromFile(preApply, <<>>), objective) = <<target>>
      BY DEF parseTargets, FromFile
    <3>2. validateTarget(target) <=> target # 0 /\ target < Everything
      BY <2>1, TargetIsValid
    <3> HIDE DEF rate, one, target
    <3>3. DOMAIN <<target>> = {1} /\ <<target>>[1] = target
      OBVIOUS
    <3>4. /\ one.error = "" <=> rate # NoData /\ validateTarget(target)
          /\ one.error = "" => one.results = Verdicts(<<target>>, rate)
      <4>1. /\ one.error = "" <=> rate # NoData /\ \A i \in DOMAIN <<target>> : validateTarget(<<target>>[i])
            /\ one.error = "" => one.results = Verdicts(<<target>>, rate)
        BY <2>1, <3>1, BacktestIs DEF one, rate
      <4> QED
        BY <3>3, <4>1
    <3>5. one.error = "" => one.results[1] = computeTargetResult(target, rate)
      BY <3>3, <3>4 DEF Verdicts
    <3>6. computeTargetResult(target, rate).status = IF rate > BudgetOf(target) THEN "FAIL" ELSE "PASS"
      BY DEF computeTargetResult
    <3> QED
      BY <3>2, <3>4, <3>5, <3>6
  <2>4. \A i, j \in DOMAIN many.results :
            (i < j /\ many.results[i].status = "FAIL") => many.results[j].status = "FAIL"
    <3>1. parseTargets(FromFile(preApply, WhatIf), objective) = WhatIf
      BY DEF parseTargets, FromFile, WhatIf
    <3>2. \/ many.results = <<>>
          \/ rate # NoData /\ many.results = Verdicts(WhatIf, rate)
      BY <2>1, <3>1, BacktestIs
    <3>3. CASE many.results = <<>>
      BY <3>3
    <3>4. CASE rate # NoData /\ many.results = Verdicts(WhatIf, rate)
      <4> HIDE DEF rate, many
      <4> SUFFICES ASSUME NEW i \in 1..4, NEW j \in 1..4, i < j, rate > BudgetOf(WhatIf[i])
                   PROVE  rate > BudgetOf(WhatIf[j])
        BY <3>4 DEF computeTargetResult, WhatIf, Verdicts
      <4>1. rate \in Int
        BY <2>2, <3>4
      <4>2. /\ BudgetOf(WhatIf[1]) = 1000 /\ BudgetOf(WhatIf[2]) = 100
            /\ BudgetOf(WhatIf[3]) = 10 /\ BudgetOf(WhatIf[4]) = 1
        BY DEF BudgetOf, WhatIf, Everything
      <4> QED
        BY <4>1, <4>2
    <3> QED
      BY <3>2, <3>3, <3>4
  <2>5. Judged /\ one.error = "" =>
            IF one.results[1].status = "FAIL" THEN phase = "violated" /\ windowed > Unit
            ELSE phase = "met" \/ windowed = Unit
    <3> SUFFICES ASSUME Judged, one.error = ""
                 PROVE  IF one.results[1].status = "FAIL" THEN phase = "violated" /\ windowed > Unit
                        ELSE phase = "met" \/ windowed = Unit
      OBVIOUS
    <3> DEFINE b == BudgetOf(target)
    <3>1. rate \in Int /\ rate = SteadyRate
      BY <2>2, <2>3, RawLacksFallbacks
    <3>2. JudgedBy(rate, b)
      BY <3>1 DEF IInv, SteadyInv, Judged, Phases, Answered
    <3>3. b \in 1..Everything
      BY <2>1, <2>3, BudgetIsSigned
    <3>4. one.results[1].status = IF rate > b THEN "FAIL" ELSE "PASS"
      BY <2>3
    <3> HIDE DEF rate, b, one
    <3>5. IF rate > b THEN phase = "violated" /\ windowed > Unit
          ELSE phase = "met" \/ windowed = Unit
      BY <3>1, <3>2, <3>3, SteadyJudgement
    <3> QED
      BY <3>4, <3>5
  <2>6. Judged /\ one.error # "" =>
            \/ target = 0 \/ target > Everything
            \/ preApply /\ (service.absent \/ service.bad = 0)
    BY <2>1, <2>3, RawLacksFallbacks, BudgetIsSigned
  <2> QED
    BY <2>4, <2>5, <2>6
<1> QED
  BY <1>1, Invariant, PTL
=============================================================================
