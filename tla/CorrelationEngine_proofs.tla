---------------------- MODULE CorrelationEngine_proofs ----------------------
(***************************************************************************)
(* For any size of the ring and any windows: the collector under the       *)
(* engine keeps its promises, a report holds exactly the relevant changes, *)
(* causes come before consequences, and the summary blames the top of the  *)
(* list.                                                                   *)
(***************************************************************************)
EXTENDS CorrelationEngine, ChangeCollector_proofs, FiniteSetTheorems

-----------------------------------------------------------------------------
(***************************************************************************)
(* The inductive invariant.                                                *)
(***************************************************************************)
\* The changes an analysis of a spike at time works on, if it reads the ring now.
Filtered(time, selector) ==
    filterBySelector(GetChangesInWindow(time - WindowBefore, time + WindowAfter), selector)

Scored(time, selector) == scoreChanges(Filtered(time, selector), time, Labels(selector))

\* A report is of this instant: the ring has not moved since.
ReportInv ==
    report # NoReport =>
        /\ report.selector \in Selectors /\ report.detectedAt \in Nat
        /\ report.events \in Sorted(Scored(report.detectedAt, report.selector))
        /\ report.summary
            \in FinalSummary(report.events, Filtered(report.detectedAt, report.selector))

TriggerInv == trigger \in Nat \cup {NoTrigger}

EngineInv == IInv /\ TriggerInv /\ ReportInv

LEMMA AnalyzeStep ==
    ASSUME NEW selector \in Selectors, TriggerInv, Analyze(selector)
    PROVE  ReportInv' /\ TriggerInv'
<1> DEFINE changes == GetChangesInWindow(trigger - WindowBefore, trigger + WindowAfter)
           filtered == filterBySelector(changes, selector)
<1>1. PICK scored \in Sorted(scoreChanges(filtered, trigger, Labels(selector))) :
        \E summary \in FinalSummary(scored, filtered) :
            report' = [selector |-> selector, detectedAt |-> trigger,
                       window |-> <<trigger - WindowBefore, trigger + WindowAfter>>,
                       events |-> scored, summary |-> summary]
  BY DEF Analyze
<1>2. UNCHANGED collector
  BY DEF Analyze
<1>3. filtered = Filtered(trigger, selector)
  BY DEF Filtered
<1>4. /\ report'.selector = selector /\ report'.events = scored /\ report'.detectedAt = trigger
      /\ report'.summary \in FinalSummary(scored, filtered)
  BY <1>1
<1>5. PICK time : time = trigger
  OBVIOUS
<1>6. /\ Filtered(time, selector)' = Filtered(time, selector)
      /\ Scored(time, selector)' = Scored(time, selector)
  BY <1>2 DEF Filtered, Scored, collector, filterBySelector, scoreChanges, GetChangesInWindow,
              InWindow, Contents
<1>7. time \in Nat /\ report'.detectedAt = time
  BY <1>4, <1>5 DEF Analyze, TriggerInv
<1>8. TriggerInv'
  BY DEF Analyze, TriggerInv
<1> QED
  BY <1>1, <1>3, <1>4, <1>5, <1>6, <1>7, <1>8 DEF ReportInv, Scored

\* A step of the engine is a step of the collector, or leaves the collector alone.
LEMMA EngineInductive == EngineInv /\ [Next]_vars => EngineInv'
<1> SUFFICES ASSUME EngineInv, [Next]_vars PROVE EngineInv'
  OBVIOUS
<1>1. [Collect]_collector
  BY DEF Next, vars, Trigger, Analyze, Collect
<1>2. IInv'
  BY <1>1, Inductive DEF EngineInv
<1>3. CASE trigger' \in {trigger, NoTrigger} /\ report' = NoReport
  BY <1>2, <1>3 DEF EngineInv, TriggerInv, ReportInv
<1>4. CASE Trigger
  BY <1>2, <1>4, LogIsPast DEF EngineInv, Trigger, TriggerInv, ReportInv
<1>5. ASSUME NEW selector \in Selectors, Analyze(selector) PROVE EngineInv'
  BY <1>2, <1>5, AnalyzeStep DEF EngineInv
<1>6. CASE UNCHANGED vars
  <2>1. UNCHANGED <<collector, trigger, report>>
    BY <1>6 DEF vars
  <2>2. \A time, selector :
            /\ Filtered(time, selector)' = Filtered(time, selector)
            /\ Scored(time, selector)' = Scored(time, selector)
    BY <2>1 DEF Filtered, Scored, collector, filterBySelector, scoreChanges, GetChangesInWindow,
                InWindow, Contents
  <2> QED
    BY <1>2, <2>1, <2>2 DEF EngineInv, TriggerInv, ReportInv
<1> QED
  <2>1. CASE Work /\ UNCHANGED trigger /\ report' = NoReport
    BY <1>3, <2>1
  <2>2. CASE Restart /\ trigger' = NoTrigger /\ report' = NoReport
    BY <1>3, <2>2
  <2> QED
    BY <1>4, <1>5, <1>6, <2>1, <2>2 DEF Next

LEMMA EngineInvariant == Spec => []EngineInv
<1>1. EngineInit => EngineInv
  BY InitIsGood DEF EngineInit, EngineInv, TriggerInv, ReportInv
<1> QED
  BY <1>1, EngineInductive, PTL DEF Spec

-----------------------------------------------------------------------------
\* An analysis only reads: under the engine the collector is the collector, so that
\* all that is proved of it holds here.
THEOREM EngineKeepsCollector == Spec => CollectorSpec
<1>1. EngineInit => Init
  BY DEF EngineInit
<1>2. [Next]_vars => [Collect]_collector
  BY DEF Next, vars, Trigger, Analyze, Collect
<1> QED
  BY <1>1, <1>2, PTL DEF Spec, CollectorSpec

\* Whenever analyses read the ring, however they fall between the handlers' steps: no
\* change in a window is missing, each kind comes newest first, and the ring is the tail
\* of the log.
THEOREM CollectorIsRightUnderEngine ==
    Spec => [](TypeOK /\ WindowIsComplete /\ KindsInOrder) /\ LogSpec
BY EngineKeepsCollector, TypeCorrect, NothingIsMissed, OneKindIsInOrder, RingImplementsLog,
   PTL

-----------------------------------------------------------------------------
(***************************************************************************)
(* What a report is made of.                                               *)
(***************************************************************************)
\* s has each of the n entries of scored once, in the order of their scores: in its
\* place i the entry p[i].
Lists(s, scored, n, p) ==
    /\ n \in Nat /\ p \in [1..n -> DOMAIN scored] /\ DOMAIN s = 1..n
    /\ \A i \in 1..n : s[i] = scored[p[i]]
    /\ \A i, j \in 1..n : p[i] = p[j] => i = j
    /\ \A c \in DOMAIN scored : \E i \in 1..n : p[i] = c
    /\ \A i, j \in 1..n : i < j => s[i].score >= s[j].score

LEMMA SortedLists ==
    ASSUME NEW scored, IsFiniteSet(DOMAIN scored), NEW s \in Sorted(scored)
    PROVE  \E n, p : Lists(s, scored, n, p)
<1> DEFINE D == DOMAIN scored
           n == Cardinality(D)
<1>1. n \in Nat
  BY FS_CardinalityType
<1>2. PICK p \in SetToSeqs(D) : s = [i \in DOMAIN p |-> scored[p[i]]]
  BY DEF Sorted
<1>3. p \in [1..n -> D] /\ \A i, j \in 1..n : i # j => p[i] # p[j]
  BY DEF SetToSeqs
<1>4. \A c \in D : \E i \in 1..n : p[i] = c
  <2>1. p \in Injection(1..n, D)
    BY <1>3 DEF Injection, IsInjective
  <2>2. Cardinality(1..n) = n
    BY <1>1, FS_Interval
  <2>3. p \in Surjection(1..n, D)
    BY <2>1, <2>2, FS_Injection
  <2> QED
    BY <2>3 DEF Surjection
<1>5. DOMAIN s = 1..n /\ \A i \in 1..n : s[i] = scored[p[i]]
  BY <1>2, <1>3
<1>6. \A i, j \in 1..n : i < j => s[i].score >= s[j].score
  BY <1>5 DEF Sorted
<1>7. Lists(s, scored, n, p)
  BY <1>1, <1>3, <1>4, <1>5, <1>6 DEF Lists
<1> QED
  BY <1>7

\* The events of a report are the n changes found, each once and in the order of
\* their scores; the event in place i is made of the change at p[i].
Reports(n, p) ==
    /\ n \in Nat /\ p \in [1..n -> Filtered(report.detectedAt, report.selector)] /\ DOMAIN report.events = 1..n
    /\ \A i \in 1..n :
        /\ report.events[i].record = Contents[p[i]]
        /\ report.events[i].score = Score(Contents[p[i]], report.detectedAt, Labels(report.selector))
        /\ report.events[i].confidence = Confidence(report.events[i].score)
    /\ \A i, j \in 1..n : p[i] = p[j] => i = j
    /\ \A c \in Filtered(report.detectedAt, report.selector) : \E i \in 1..n : p[i] = c
    /\ \A i, j \in 1..n : i < j => report.events[i].score >= report.events[j].score

LEMMA ReportLists ==
    ASSUME EngineInv, report # NoReport
    PROVE  \E n, p : Reports(n, p)
<1> DEFINE time == report.detectedAt
           selector == report.selector
           scored == Scored(time, selector)
           filtered == Filtered(time, selector)
<1>1. DOMAIN scored = filtered /\ filtered \subseteq 1..count
  BY DEF Scored, scoreChanges, Filtered, filterBySelector, GetChangesInWindow
<1>2. IsFiniteSet(filtered)
  <2>1. count \in Nat
    BY ContentsIsLog DEF EngineInv, IInv
  <2>2. IsFiniteSet(1..count)
    BY <2>1, FS_Interval
  <2> QED
    BY <1>1, <2>2, FS_Subset
<1>3. report.events \in Sorted(scored)
  BY DEF EngineInv, ReportInv
<1>4. \A c \in filtered :
        /\ scored[c].record = Contents[c]
        /\ scored[c].score = Score(Contents[c], time, Labels(selector))
        /\ scored[c].confidence = Confidence(scored[c].score)
  BY DEF Scored, scoreChanges
<1> HIDE DEF scored, filtered
<1>5. PICK n, p : Lists(report.events, scored, n, p)
  BY <1>1, <1>2, <1>3, SortedLists
<1>6. /\ n \in Nat /\ p \in [1..n -> filtered] /\ DOMAIN report.events = 1..n
      /\ \A i, j \in 1..n : p[i] = p[j] => i = j
      /\ \A c \in filtered : \E i \in 1..n : p[i] = c
      /\ \A i, j \in 1..n : i < j => report.events[i].score >= report.events[j].score
  BY <1>1, <1>5 DEF Lists
<1>7. \A i \in 1..n :
        /\ report.events[i].record = Contents[p[i]]
        /\ report.events[i].score = Score(Contents[p[i]], report.detectedAt, Labels(selector))
        /\ report.events[i].confidence = Confidence(report.events[i].score)
  <2>1. \A i \in 1..n : report.events[i] = scored[p[i]] /\ p[i] \in filtered
    BY <1>1, <1>5 DEF Lists
  <2> QED
    BY <1>4, <2>1
<1>8. Reports(n, p)
  BY <1>6, <1>7 DEF filtered, Reports
<1> QED
  BY <1>8

\* Each record is in the ring once, and is of the past.
LEMMA FilteredAreRecords ==
    ASSUME IInv, NEW time, NEW selector, NEW c \in Filtered(time, selector)
    PROVE  /\ c \in 1..count /\ Contents[c] \in Record
           /\ Contents[c].timestamp \in Nat /\ Contents[c].timestamp <= now /\ now \in Nat
           /\ Contents[c].object \in Deliveries
<1>1. c \in 1..count
  BY DEF Filtered, filterBySelector, GetChangesInWindow
<1>2. /\ Contents[c] = log[Len(log) + 1 - c] /\ Len(log) + 1 - c \in 1..Len(log)
  BY <1>1, ContentsIsLog, LogIsPast DEF IInv
<1> QED
  BY <1>1, <1>2, LogIsPast DEF Record

-----------------------------------------------------------------------------
\* However late the ring is read: a report holds the changes of the window around its
\* spike that the ring has by then and the selector covers, no other and each once, for
\* every size, retention and window.
THEOREM ReportsAreExact == Spec => []ReportIsExact
<1>1. EngineInv => ReportIsExact
  <2> SUFFICES ASSUME EngineInv, report # NoReport
               PROVE  /\ {report.events[i].record : i \in DOMAIN report.events}
                            = {log[i] : i \in {k \in 1..Len(log) : InReport(k)}}
                      /\ \A i, j \in DOMAIN report.events :
                            report.events[i].record = report.events[j].record => i = j
    BY DEF ReportIsExact
  <2> DEFINE selector == report.selector
             start == report.detectedAt - WindowBefore
             end == report.detectedAt + WindowAfter
             inWindow == GetChangesInWindow(start, end)
             found == {k \in 1..Len(log) :
                        /\ Len(log) - k < Size
                        /\ start < log[k].timestamp /\ log[k].timestamp < end
                        /\ now - log[k].timestamp <= Retention}
             wanted == {k \in 1..Len(log) : InReport(k)}
             filtered == Filtered(report.detectedAt, selector)
  <2>1. PICK n, p : Reports(n, p)
    BY ReportLists
  <2>2. start \in Int /\ end \in Int
    BY WindowAssumption DEF EngineInv, ReportInv
  <2>3. {Contents[c] : c \in inWindow} = {log[k] : k \in found}
    <3> HIDE DEF start, end
    <3> QED
      BY <2>2, WindowIsExact DEF EngineInv
  <2>4. filtered = {c \in inWindow : Relevant(Contents[c].object, selector)}
    BY DEF Filtered, filterBySelector, Relevant, Scope, Labels, matchLabels
  <2>5. wanted = {k \in found : Relevant(log[k].object, selector)}
    <3>1. \A k \in 1..Len(log) : log[k].timestamp > start <=> start < log[k].timestamp
      BY <2>2, LogIsPast DEF EngineInv
    <3> QED
      BY <3>1 DEF InReport
  <2> HIDE DEF wanted, found, inWindow
  <2>6. {Contents[c] : c \in filtered} = {log[k] : k \in wanted}
    <3>1. ASSUME NEW c \in filtered PROVE \E k \in wanted : log[k] = Contents[c]
      BY <2>3, <2>4, <2>5
    <3>2. ASSUME NEW k \in wanted PROVE \E c \in filtered : log[k] = Contents[c]
      BY <2>3, <2>4, <2>5
    <3> QED
      BY <3>1, <3>2
  <2>7. {report.events[i].record : i \in DOMAIN report.events} = {Contents[c] : c \in filtered}
    BY <2>1 DEF Reports
  <2>8. \A c \in filtered : c \in 1..count
    BY FilteredAreRecords DEF EngineInv
  <2>9. \A i, j \in DOMAIN report.events :
            report.events[i].record = report.events[j].record => i = j
    BY <2>1, <2>8, EntriesDiffer DEF EngineInv, Reports
  <2> QED
    BY <2>6, <2>7, <2>9 DEF wanted
<1> QED
  BY <1>1, EngineInvariant, PTL

-----------------------------------------------------------------------------
(***************************************************************************)
(* Scores.                                                                 *)
(***************************************************************************)
LEMMA ScoreIsInteger ==
    ASSUME NEW record, record.timestamp \in Nat, record.object \in Deliveries,
           NEW time \in Nat, NEW labels
    PROVE  Score(record, time, labels) \in Int
<1>1. record.object.kind \in {"Deployment", "ConfigMap", "Secret", "Event"}
  BY KindsAssumption DEF Kinds
<1>2. KindScore(record.object) \in Int
  BY <1>1 DEF KindScore
<1>3. \A d : TimeScore(d) \in Int
  BY DEF TimeScore
<1> QED
  BY <1>2, <1>3 DEF Score

\* What counts for a cause: a change close to the spike has all the points there are
\* for its time, an Event has at most 10 for its kind, any other change at least 15, and
\* a change of the workload has every point an Event can have for its labels.
LEMMA CausesScoreMore ==
    ASSUME NEW e, NEW c, NEW time \in Nat, NEW labels,
           e.object \in Deliveries, c.object \in Deliveries,
           e.timestamp \in Nat, c.timestamp \in Nat,
           Distance(time, c.timestamp) <= HighWindow,
           e.object.kind = "Event", c.object.kind # "Event",
           e.object.namespace = c.object.namespace,
           matchLabels(c.object.labels, labels)
    PROVE  Score(c, time, labels) > Score(e, time, labels)
<1> DEFINE de == Distance(time, e.timestamp)
           dc == Distance(time, c.timestamp)
           Home(o) == IF o.namespace = SLONamespace THEN 20 ELSE 0
           Match(o) == IF DOMAIN labels # {} /\ matchLabels(o.labels, labels) THEN 30 ELSE 0
<1>2. TimeScore(de) \in Int /\ TimeScore(dc) = 30 /\ TimeScore(de) <= 30
  BY DEF TimeScore
<1>3. KindScore(e.object) \in Int /\ KindScore(e.object) <= 10
  BY DEF KindScore
<1>4. KindScore(c.object) \in Int /\ KindScore(c.object) >= 15
  BY KindsAssumption DEF Kinds, KindScore
<1>5. Match(c.object) >= Match(e.object) /\ Match(c.object) \in Int /\ Match(e.object) \in Int
  OBVIOUS
<1>6. Home(c.object) = Home(e.object) /\ Home(e.object) \in Int
  OBVIOUS
<1>7. Score(e, time, labels) =
        TimeScore(de) + KindScore(e.object) + Home(e.object) + Match(e.object)
  BY DEF Score
<1>8. Score(c, time, labels) =
        TimeScore(dc) + KindScore(c.object) + Home(c.object) + Match(c.object)
  BY DEF Score
<1> HIDE DEF Match, Home, de, dc
<1> QED
  BY <1>2, <1>3, <1>4, <1>5, <1>6, <1>7, <1>8

\* No Event, be it a crash, is listed before a change of its namespace from within
\* HighConfidenceWindow of the spike, for all windows, labels and times of the read.
THEOREM CausesComeFirst == Spec => []CausesFirst
<1>1. EngineInv => CausesFirst
  <2> SUFFICES ASSUME EngineInv, report # NoReport,
                      NEW i \in DOMAIN report.events, NEW j \in DOMAIN report.events,
                      report.events[i].record.object.kind = "Event",
                      report.events[j].record.object.kind # "Event",
                      report.events[i].record.object.namespace
                        = report.events[j].record.object.namespace,
                      Distance(report.detectedAt, report.events[j].record.timestamp)
                        <= HighWindow
               PROVE  j < i
    BY DEF CausesFirst
  <2> DEFINE labels == Labels(report.selector)
             time == report.detectedAt
             e == report.events[i].record
             c == report.events[j].record
  <2>1. PICK n, p : Reports(n, p)
    BY ReportLists
  <2>2. /\ i \in 1..n /\ j \in 1..n
        /\ p[i] \in Filtered(report.detectedAt, report.selector) /\ p[j] \in Filtered(report.detectedAt, report.selector)
        /\ e = Contents[p[i]] /\ c = Contents[p[j]]
        /\ report.events[i].score = Score(e, time, labels)
        /\ report.events[j].score = Score(c, time, labels)
    BY <2>1 DEF Reports
  <2>3. /\ e.timestamp \in Nat /\ c.timestamp \in Nat /\ time \in Nat
        /\ e.object \in Deliveries /\ c.object \in Deliveries
    BY <2>2, FilteredAreRecords DEF EngineInv, ReportInv
  <2>4. matchLabels(c.object.labels, labels)
    BY <2>2 DEF Filtered, filterBySelector, Labels, matchLabels
  <2> HIDE DEF e, c, labels, time
  <2>5. Score(c, time, labels) > Score(e, time, labels)
    BY <2>3, <2>4, CausesScoreMore DEF e, c, time
  <2>6. Score(c, time, labels) \in Int /\ Score(e, time, labels) \in Int
    BY <2>3, ScoreIsInteger
  <2>7. ~(i < j) /\ i # j
    BY <2>1, <2>2, <2>5, <2>6 DEF Reports
  <2> QED
    BY <2>1, <2>2, <2>7 DEF Reports
<1> QED
  BY <1>1, EngineInvariant, PTL

-----------------------------------------------------------------------------
(***************************************************************************)
(* Whom the summary blames.                                                *)
(***************************************************************************)
\* A set of places that has with each one all before it is the first h places.
LEMMA Prefix ==
    ASSUME NEW n \in Nat, NEW S, S \subseteq 1..n,
           \A i \in S, j \in 1..n : j < i => j \in S
    PROVE  \E h \in 0..n : S = 1..h
<1> DEFINE T == (1..(n + 1)) \ S
<1>1. T \subseteq Nat /\ T # {}
  <2>1. n + 1 \in T
    OBVIOUS
  <2> QED
    BY <2>1
<1> HIDE DEF T
<1>2. Min(T) \in T /\ \A t \in T : Min(T) <= t
  BY <1>1, LeastOf
<1>3. Min(T) \in 1..(n + 1) /\ Min(T) \notin S
  BY <1>2 DEF T
<1> DEFINE h == Min(T) - 1
<1>4. h \in 0..n
  BY <1>3
<1>5. ASSUME NEW i \in S PROVE i \in 1..h
  BY <1>3
<1>6. ASSUME NEW i \in 1..h PROVE i \in S
  <2>1. i \in 1..(n + 1) /\ i < Min(T) /\ Min(T) \in Nat
    BY <1>3
  <2>2. i \notin T
    BY <1>2, <2>1
  <2> QED
    BY <2>1, <2>2 DEF T
<1> QED
  BY <1>4, <1>5, <1>6

\* The changes of high confidence are the first of the report.
LEMMA HighAreFirst ==
    ASSUME EngineInv, report # NoReport, NEW n, NEW p, Reports(n, p)
    PROVE  \E h \in 0..n : High(report.events) = 1..h
<1>1. \A i \in 1..n : report.events[i].score \in Int
  <2> SUFFICES ASSUME NEW i \in 1..n PROVE report.events[i].score \in Int
    OBVIOUS
  <2>1. p[i] \in Filtered(report.detectedAt, report.selector)
    BY DEF Reports
  <2>2. /\ Contents[p[i]].timestamp \in Nat /\ Contents[p[i]].object \in Deliveries
        /\ report.detectedAt \in Nat
    BY <2>1, FilteredAreRecords DEF EngineInv, ReportInv
  <2> QED
    BY <2>2, ScoreIsInteger DEF Reports
<1>2. High(report.events) = {i \in 1..n : report.events[i].score >= 50}
  BY <1>1 DEF High, Reports, Confidence
<1>3. \A i \in High(report.events), j \in 1..n : j < i => j \in High(report.events)
  BY <1>1, <1>2 DEF Reports
<1>4. n \in Nat /\ High(report.events) \subseteq 1..n
  BY <1>2 DEF Reports
<1> QED
  BY <1>3, <1>4, Prefix

LEMMA MinOfThree ==
    ASSUME NEW h \in Nat
    PROVE  Min({3, h}) = IF h < 3 THEN h ELSE 3
BY DEF Min

\* A summary made by the rules names the first three changes of high confidence.
LEMMA SummaryNamesFirst ==
    ASSUME NEW scored, NEW n \in Nat, DOMAIN scored = 1..n,
           NEW h \in 0..n, High(scored) = 1..h
    PROVE  generateSummary(scored) = {scored[i].record : i \in {i \in 1..h : i <= 3}}
<1>1. Cardinality(High(scored)) = h
  BY FS_Interval
<1>2. CASE h = 0
  <2>1. High(scored) = {} /\ {i \in 1..h : i <= 3} = {}
    BY <1>2
  <2> QED
    BY <1>1, <1>2, <2>1 DEF generateSummary
<1>3. CASE h = 1
  <2>1. {i \in 1..h : i <= 3} = {1} /\ High(scored) # {}
    BY <1>3
  <2> QED
    BY <1>1, <1>3, <2>1 DEF generateSummary
<1>4. CASE h > 1
  <2> DEFINE FirstThree == {i \in High(scored) : Cardinality({j \in High(scored) : j < i}) < 3}
  <2>1. \A i \in 1..h : Cardinality({j \in High(scored) : j < i}) = i - 1
    <3> SUFFICES ASSUME NEW i \in 1..h PROVE Cardinality({j \in 1..h : j < i}) = i - 1
      OBVIOUS
    <3>1. {j \in 1..h : j < i} = 1..(i - 1)
      OBVIOUS
    <3>2. Cardinality(1..(i - 1)) = i - 1
      BY FS_Interval
    <3> QED
      BY <3>1, <3>2
  <2>2. FirstThree = {i \in 1..h : i <= 3}
    BY <2>1
  <2>3. High(scored) # {} /\ Cardinality(High(scored)) # 1 /\ Cardinality(High(scored)) > 1
    <3>1. 1 \in 1..h
      BY <1>4
    <3>2. High(scored) # {}
      BY <3>1
    <3>3. h # 1 /\ h > 1
      BY <1>4
    <3> HIDE DEF FirstThree
    <3> QED
      BY <1>1, <3>2, <3>3
  <2>4. generateSummary(scored) = {scored[i].record : i \in FirstThree}
    BY <2>3, Zenon DEF generateSummary
  <2> QED
    BY <2>2, <2>4
<1> QED
  BY <1>2, <1>3, <1>4

\* The rules blame changes of high confidence, three if there are as many, and none
\* that an unnamed one outscores, in whatever order equal scores come.
THEOREM SummariesBlameTheTop == Spec => []SummaryBlamesTop
<1>1. EngineInv => SummaryBlamesTop
  <2> DEFINE events == report.events
             high == High(events)
             named == {i \in DOMAIN events : events[i].record \in report.summary.names}
  <2> SUFFICES ASSUME EngineInv, report # NoReport, report.summary.by = "rules"
               PROVE  /\ named \subseteq high
                      /\ Cardinality(named) = Min({3, Cardinality(high)})
                      /\ \A i \in named, j \in high \ named : events[i].score >= events[j].score
    BY DEF SummaryBlamesTop
  <2>1. PICK n, p : Reports(n, p)
    BY ReportLists
  <2>2. PICK h \in 0..n : high = 1..h
    BY <2>1, HighAreFirst
  <2>3. n \in Nat /\ DOMAIN events = 1..n /\ h \in Nat /\ h <= n
    BY <2>1, <2>2 DEF Reports
  <2>4. report.summary.names = generateSummary(events)
    <3>1. report.summary \in FinalSummary(events, Filtered(report.detectedAt, report.selector))
      BY DEF EngineInv, ReportInv
    <3>2. PICK answer : report.summary =
                [by |-> IF answer = "" THEN "rules" ELSE "LLM",
                 names |-> IF answer = "" THEN generateSummary(events) ELSE {}]
      BY <3>1 DEF FinalSummary
    <3>3. /\ report.summary.by = IF answer = "" THEN "rules" ELSE "LLM"
          /\ report.summary.names = IF answer = "" THEN generateSummary(events) ELSE {}
      <4> DEFINE by == IF answer = "" THEN "rules" ELSE "LLM"
                 names == IF answer = "" THEN generateSummary(events) ELSE {}
      <4>1. report.summary = [by |-> by, names |-> names]
        BY <3>2
      <4> HIDE DEF by, names
      <4>2. report.summary.by = by /\ report.summary.names = names
        BY <4>1
      <4> QED
        BY <4>2 DEF by, names
    <3> QED
      BY <3>3
  <2>5. report.summary.names = {events[i].record : i \in {i \in 1..h : i <= 3}}
    BY <2>2, <2>3, <2>4, SummaryNamesFirst
  <2>6. \A i, j \in 1..n : events[i].record = events[j].record => i = j
    <3>1. \A c \in Filtered(report.detectedAt, report.selector) : c \in 1..count
      BY FilteredAreRecords DEF EngineInv
    <3>2. \A a, b \in 1..count : Contents[a] = Contents[b] => a = b
      BY EntriesDiffer DEF EngineInv
    <3> QED
      BY <2>1, <3>1, <3>2 DEF Reports
  <2>7. named = {i \in 1..h : i <= 3}
    BY <2>3, <2>5, <2>6
  <2>8. Cardinality(named) = Min({3, Cardinality(high)})
    <3>1. Cardinality(high) = h
      BY <2>2, <2>3, FS_Interval
    <3>2. named = 1..(IF h < 3 THEN h ELSE 3)
      BY <2>3, <2>7
    <3>3. Cardinality(named) = IF h < 3 THEN h ELSE 3
      <4> DEFINE m == IF h < 3 THEN h ELSE 3
      <4>1. m \in Nat /\ named = 1..m
        BY <2>3, <3>2
      <4> HIDE DEF m, named
      <4>2. Cardinality(1..m) = m
        BY <4>1, FS_Interval
      <4> QED
        BY <4>1, <4>2 DEF m
    <3> QED
      BY <2>3, <3>1, <3>3, MinOfThree
  <2>9. \A i \in named, j \in high \ named : i < j /\ i \in 1..n /\ j \in 1..n
    BY <2>2, <2>3, <2>7
  <2>10. \A i \in named, j \in high \ named : events[i].score >= events[j].score
    BY <2>1, <2>9 DEF Reports
  <2> QED
    BY <2>2, <2>7, <2>8, <2>10
<1> QED
  BY <1>1, EngineInvariant, PTL
=============================================================================
