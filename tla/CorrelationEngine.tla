-------------------------- MODULE CorrelationEngine --------------------------
(***************************************************************************)
(* internal/correlation/engine.go: the analysis of a burn rate spike, on   *)
(* top of the collector that keeps recording.  The controller's goroutine  *)
(* takes the time of the spike first; Analyze takes the read lock later,   *)
(* and once, so that it sees one state of the ring.  Handlers may record   *)
(* changes in between.  The report lasts until the next step: what becomes *)
(* of it is SLOReconciler's.                                               *)
(***************************************************************************)
EXTENDS ChangeCollector

CONSTANTS
    SLONamespace,
    Selectors,      \* workloadSelectors in use: [namespaces, labels], or NoSelector
    NoSelector,     \* the field is not set
    WindowBefore, WindowAfter,      \* DefaultWindowBefore, DefaultWindowAfter
    HighWindow, MediumWindow,       \* HighConfidenceWindow, MediumConfidenceWindow
    UsesLLM,        \* GROQ_API_KEY is set
    NoReport,
    NoTrigger       \* no analysis is under way

ASSUME WindowAssumption ==
    /\ WindowBefore \in Nat /\ WindowAfter \in Nat \ {0}
    /\ HighWindow \in Nat /\ MediumWindow \in Nat

ASSUME TriggerAssumption == NoTrigger \notin Nat

VARIABLES
    trigger,    \* triggerTime of the analysis under way
    report      \* the SLOCorrelation of the last step, if it was an analysis

vars == <<collector, trigger, report>>

-----------------------------------------------------------------------------
\* Events carry no labels of the workload and are let through by their namespace.
filterBySelector(changes, selector) ==
    LET Allowed(o) ==
            IF selector = NoSelector THEN o.namespace = SLONamespace
            ELSE /\ o.namespace \in IF selector.namespaces # {} THEN selector.namespaces
                                    ELSE {SLONamespace}
                 /\ o.kind = "Event" \/ matchLabels(o.labels, selector.labels)
    IN  {i \in changes : Allowed(Contents[i].object)}

Distance(x, y) == IF x < y THEN y - x ELSE x - y

TimeScore(distance) ==
    IF distance <= HighWindow THEN 30 ELSE IF distance <= MediumWindow THEN 15 ELSE 5

\* Mutant: a crash counts as much as a Deployment.
KindScoreCrashFirst(o) ==
    CASE o.kind = "Deployment" -> 25
      [] o.kind = "ConfigMap" -> 20
      [] o.kind = "Secret" -> 15
      [] o.kind = "Event" -> IF o.crash THEN 25 ELSE -5

KindScore(o) ==
    CASE o.kind = "Deployment" -> 25
      [] o.kind = "ConfigMap" -> 20
      [] o.kind = "Secret" -> 15
      [] o.kind = "Event" -> IF o.crash THEN 10 ELSE -5

Score(record, time, labels) ==
    LET o == record.object
    IN  TimeScore(Distance(time, record.timestamp)) + KindScore(o)
        + (IF o.namespace = SLONamespace THEN 20 ELSE 0)
        + (IF DOMAIN labels # {} /\ matchLabels(o.labels, labels) THEN 30 ELSE 0)

Confidence(score) == IF score >= 50 THEN "high" ELSE IF score >= 25 THEN "medium" ELSE "low"

scoreChanges(changes, time, labels) ==
    [i \in changes |->
        LET score == Score(Contents[i], time, labels)
        IN  [record |-> Contents[i], score |-> score, confidence |-> Confidence(score)]]

\* Mutant: the changes come in any order.
SortedNot(scored) == {[i \in DOMAIN p |-> scored[p[i]]] : p \in SetToSeqs(DOMAIN scored)}

\* sort.Slice is not stable: any order in which the scores do not rise.
Sorted(scored) ==
    {s \in {[i \in DOMAIN p |-> scored[p[i]]] : p \in SetToSeqs(DOMAIN scored)} :
        \A i, j \in DOMAIN s : i < j => s[i].score >= s[j].score}

High(scored) == {i \in DOMAIN scored : scored[i].confidence = "high"}

\* Whom the summary blames: the first of the list, if one change has high confidence,
\* or the first three of those that have.
generateSummary(scored) ==
    LET high == High(scored)
        FirstThree == {i \in high : Cardinality({j \in high : j < i}) < 3}
    IN  CASE high = {}              -> {}
          [] Cardinality(high) = 1  -> {scored[1].record}
          [] Cardinality(high) > 1  -> {scored[i].record : i \in FirstThree}

\* queryLLM: a sentence that replaces the summary and names what it likes, or, on any
\* error, a bad status or no choice in the answer, "".
queryLLM == {"sentence", ""}

FinalSummary(scored, filtered) ==
    {[by |-> IF answer = "" THEN "rules" ELSE "LLM",
      names |-> IF answer = "" THEN generateSummary(scored) ELSE {}] :
        answer \in IF UsesLLM /\ filtered # {} THEN queryLLM ELSE {""}}

Labels(selector) == IF selector = NoSelector THEN <<>> ELSE selector.labels

\* The call of Analyze: time.Now() is its argument.
Trigger ==
    /\ trigger = NoTrigger
    /\ trigger' = now
    /\ report' = NoReport
    /\ UNCHANGED collector

\* Mutant: the window lies around the time of the read.
AnalyzeAround(selector) ==
    LET start == now - WindowBefore
        end == now + WindowAfter
        filtered == filterBySelector(GetChangesInWindow(start, end), selector)
    IN  /\ trigger # NoTrigger
        /\ \E scored \in Sorted(scoreChanges(filtered, trigger, Labels(selector))) :
            \E summary \in FinalSummary(scored, filtered) :
                report' = [selector |-> selector, detectedAt |-> trigger,
                           window |-> <<start, end>>, events |-> scored, summary |-> summary]
        /\ trigger' = NoTrigger
        /\ UNCHANGED collector

\* Analyze from the read of the ring on.
Analyze(selector) ==
    LET start == trigger - WindowBefore
        end == trigger + WindowAfter
        filtered == filterBySelector(GetChangesInWindow(start, end), selector)
    IN  /\ trigger # NoTrigger
        /\ \E scored \in Sorted(scoreChanges(filtered, trigger, Labels(selector))) :
            \E summary \in FinalSummary(scored, filtered) :
                report' = [selector |-> selector, detectedAt |-> trigger,
                           window |-> <<start, end>>, events |-> scored, summary |-> summary]
        /\ trigger' = NoTrigger
        /\ UNCHANGED collector

-----------------------------------------------------------------------------
EngineInit == Init /\ trigger = NoTrigger /\ report = NoReport

Next ==
    \/ Work /\ UNCHANGED trigger /\ report' = NoReport
    \/ Restart /\ trigger' = NoTrigger /\ report' = NoReport
    \/ Trigger
    \/ \E selector \in Selectors : Analyze(selector)

Spec == EngineInit /\ [][Next]_vars

-----------------------------------------------------------------------------
(***************************************************************************)
(* Properties                                                              *)
(***************************************************************************)
\* Where and by which labels an analysis looks, without the branches of the code.
Scope(selector) ==
    IF selector = NoSelector \/ selector.namespaces = {} THEN {SLONamespace}
    ELSE selector.namespaces

Relevant(o, selector) ==
    /\ o.namespace \in Scope(selector)
    /\ o.kind # "Event" => \A k \in DOMAIN Labels(selector) : o.labels[k] = selector.labels[k]

\* A report is of the time of its spike, however late the ring is read and whatever
\* the handlers did in between (engine.go:70-81): its records are the relevant ones of
\* the window around detectedAt that were added before the read and are neither
\* pushed out of the ring nor too old by then, each once.  Some may be later than the
\* spike; what is added after the read is not among them, and the controller passes
\* time.Now() for the spike, so that of the ten minutes after it an instant is seen.
InReport(k) ==
    /\ Len(log) - k < Size
    /\ log[k].timestamp > report.detectedAt - WindowBefore
    /\ log[k].timestamp < report.detectedAt + WindowAfter
    /\ now - log[k].timestamp <= Retention
    /\ Relevant(log[k].object, report.selector)

ReportIsExact ==
    report # NoReport =>
        LET events == report.events
        IN  /\ {events[i].record : i \in DOMAIN events}
                    = {log[i] : i \in {k \in 1..Len(log) : InReport(k)}}
            /\ \A i, j \in DOMAIN events : events[i].record = events[j].record => i = j

\* Whatever order equal scores come in, the rule-based summary names the single
\* change of high confidence, or high ones that no unnamed change outscores
\* (engine.go:248-256 takes the first of the list for it).
SummaryBlamesTop ==
    (report # NoReport /\ report.summary.by = "rules") =>
        LET high == High(report.events)
            named == {i \in DOMAIN report.events : report.events[i].record \in report.summary.names}
        IN  /\ named \subseteq high
            /\ Cardinality(named) = Min({3, Cardinality(high)})
            /\ \A i \in named, j \in high \ named :
                report.events[i].score >= report.events[j].score

\* "Events are consequences, not causes (usually)" (engine.go:196): a change within
\* HighConfidenceWindow of the spike is listed before every Event of its namespace,
\* be it a crash and however close to the spike.  A change from further back has no
\* such place: a crash of the last minute comes before a ConfigMap of half an hour ago.
CausesFirst ==
    report # NoReport =>
        \A i, j \in DOMAIN report.events :
            LET e == report.events[i].record
                c == report.events[j].record
            IN  (/\ e.object.kind = "Event" /\ c.object.kind # "Event"
                 /\ e.object.namespace = c.object.namespace
                 /\ Distance(report.detectedAt, c.timestamp) <= HighWindow)
                => j < i
=============================================================================
