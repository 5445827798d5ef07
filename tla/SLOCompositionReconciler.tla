---------------------- MODULE SLOCompositionReconciler ----------------------
(***************************************************************************)
(* The SLOComposition controller (internal/controller/                     *)
(* slocomposition_controller.go): it fetches the SLOs a composition refers *)
(* to, aggregates them in a PrometheusRule and polls Prometheus for the    *)
(* composed objective.  It watches compositions only; SLOs come, change    *)
(* and go on their own.  The environment is that of SLOReconciler: edits,  *)
(* late watch events, failing calls, crashes.                              *)
(***************************************************************************)
EXTENDS ErrorBudget, Maps, CompositionRule

CONSTANTS
    Compositions,   \* SLOCompositions, all in one namespace
    NoComposition,  \* the worker holds none
    SLOs,           \* the SLOs they may refer to
    Foreign,        \* those in another namespace than the compositions
    Existing,       \* those there from the start
    Specs,          \* specs users write, as in CompositionRule
    Samples,        \* results one pass of Prometheus queries can have
    ErrorRates,     \* bound: the error rates composed rules are tried on, in 1/1000
    MaxEdits,       \* bound: user writes of compositions
    MaxSLOEdits,    \* bound: user writes of SLOs
    MaxBoots        \* bound: operator restarts

ASSUME CompositionAssumption ==
    /\ NoComposition \notin Compositions
    /\ Foreign \subseteq SLOs /\ Existing \subseteq SLOs
    /\ SLOs \subseteq DOMAIN ObjectiveId /\ Webhook \in BOOLEAN
    /\ ErrorRates \subseteq 0..Whole
    /\ \A spec \in Specs :
        /\ spec.objectives \in Seq([name : STRING, ref : SLOs])
        /\ spec.routes \in Seq([name : STRING, weight : Nat, chain : Seq(STRING)])
        /\ spec.window \in Windows

VARIABLES
    slos,       \* SLO -> [uid, version]; DOMAIN = those that exist
    seen,       \* the same, as the watch cache of the operator has it
    sloEdits,   \* user writes of SLOs so far
    comps,      \* composition -> stored object
    rules,      \* composition -> its PrometheusRule
    edits,      \* user writes of compositions so far
    pending, cache, queue, timers,  \* as in SLOReconciler; cache: what Reconcile reads of an object
    pc,         \* next call of the Reconcile in progress
    obj,        \* the worker's copy of the composition
    fetched,    \* sloList
    result,     \* the status it has computed
    boots, mode                     \* as in SLOReconciler

k8s    == <<slos, sloEdits, comps, rules, edits>>
ctrl   == <<pending, cache, queue, timers>>
worker == <<pc, obj, fetched, result>>
world  == <<boots, mode>>
vars   == <<k8s, seen, ctrl, worker, world>>

\* available is the reason of the Available condition; fetchFailed tells whether
\* the ObjectiveFetchFailed condition is there.  As history: spec, the version it was
\* computed from, and cause, what the pass that wrote it came to.
NoStatus == [phase |-> "", available |-> "", fetchFailed |-> FALSE, spec |-> 0, cause |-> ""]
NoSpec   == [objectives |-> <<>>, type |-> "AND_MIN", routes |-> <<>>, window |-> "recorded"]
NoObj    == [comp |-> NoComposition, uid |-> 0, version |-> 0, spec |-> NoSpec, fresh |-> FALSE]
NoResult == [phase |-> "", reason |-> "", encodable |-> TRUE]
Empty    == [x \in {} |-> NoStatus]

Init ==
    /\ slos = [s \in Existing |-> [uid |-> 0, version |-> 0]] /\ seen = slos /\ sloEdits = 0
    /\ comps = Empty /\ rules = Empty /\ edits = 0
    /\ pending = {} /\ cache = Empty /\ queue = {} /\ timers = {}
    /\ pc = "idle" /\ obj = NoObj /\ fetched = <<>> /\ result = NoResult
    /\ boots = 0 /\ mode = "turbulent"

Turbulent == mode = "turbulent"
-----------------------------------------------------------------------------
(***************************************************************************)
(* Users, the API server and the watch caches.                             *)
(***************************************************************************)
\* An SLO is created or edited (its objective is renamed, say), or deleted.
WriteSLO(s) ==
    /\ Turbulent /\ sloEdits < MaxSLOEdits
    /\ sloEdits' = sloEdits + 1
    /\ \/ slos' = Extend(slos, s,
                    [uid |-> IF s \in DOMAIN slos THEN slos[s].uid ELSE sloEdits + 1,
                     version |-> sloEdits + 1])
       \/ s \in DOMAIN slos /\ slos' = Drop(slos, s)
    /\ UNCHANGED <<seen, comps, rules, edits, ctrl, worker, world>>

\* The operator's cache of SLOs catches up; no composition is enqueued.
SeeSLO(s) ==
    /\ seen' = IF s \in DOMAIN slos THEN Extend(seen, s, slos[s]) ELSE Drop(seen, s)
    /\ seen' # seen
    /\ UNCHANGED <<k8s, ctrl, worker, world>>

UserWrite(c) ==
    /\ Turbulent /\ edits < MaxEdits
    /\ edits' = edits + 1
    /\ pending' = pending \cup {c}
    /\ obj' = IF obj.comp = c THEN [obj EXCEPT !.fresh = FALSE] ELSE obj
    /\ UNCHANGED <<slos, seen, sloEdits, rules, cache, queue, timers, pc, fetched, result, world>>

CreateComposition(c, spec) ==
    /\ c \notin DOMAIN comps
    /\ Admitted(spec)
    /\ comps' = Extend(comps, c, [uid |-> edits + 1, version |-> edits + 1, spec |-> spec,
                                  status |-> NoStatus])
    /\ UserWrite(c)

EditComposition(c, spec) ==
    /\ c \in DOMAIN comps
    /\ Admitted(spec)
    /\ comps' = [comps EXCEPT ![c].version = edits + 1, ![c].spec = spec]
    /\ UserWrite(c)

DeleteComposition(c) ==
    /\ c \in DOMAIN comps
    /\ comps' = Drop(comps, c)
    /\ UserWrite(c)

Alive(owner) == owner.slo \in DOMAIN slos /\ slos[owner.slo].uid = owner.uid

\* The garbage collector removes a rule with the SLO that controls it.
CollectRule(c) ==
    /\ c \in DOMAIN rules
    /\ ~Alive(rules[c].owner)
    /\ rules' = Drop(rules, c)
    /\ UNCHANGED <<slos, seen, sloEdits, comps, edits, ctrl, worker, world>>

\* A status of the cache matters only while it is the stored one: with it an update passes.
Cached(c) == [uid |-> comps[c].uid, version |-> comps[c].version, spec |-> comps[c].spec]

Deliver(c) ==
    /\ c \in pending
    /\ cache' = IF c \in DOMAIN comps THEN Extend(cache, c, Cached(c)) ELSE Drop(cache, c)
    /\ pending' = pending \ {c}
    /\ queue' = queue \cup {c}
    /\ UNCHANGED <<k8s, seen, timers, worker, world>>

TimerFires(c) ==
    /\ c \in timers
    /\ timers' = timers \ {c}
    /\ queue' = queue \cup {c}
    /\ UNCHANGED <<k8s, seen, pending, cache, worker, world>>

\* Mutant: the pass ends, the composition stays in hand.
ReturnForgotten(requeue) ==
    /\ pc' = "idle" /\ obj' = obj /\ fetched' = <<>> /\ result' = NoResult
    /\ timers' = IF requeue THEN timers \cup {obj.comp} ELSE timers

\* Reconcile returns, with or without a delayed add.
Return(requeue) ==
    /\ pc' = "idle" /\ obj' = NoObj /\ fetched' = <<>> /\ result' = NoResult
    /\ timers' = IF requeue THEN timers \cup {obj.comp} ELSE timers

Crash ==
    /\ Turbulent /\ boots < MaxBoots
    /\ boots' = boots + 1
    /\ seen' = slos
    /\ pending' = DOMAIN comps
    /\ cache' = Empty /\ queue' = {} /\ timers' = {}
    /\ pc' = "idle" /\ obj' = NoObj /\ fetched' = <<>> /\ result' = NoResult
    /\ UNCHANGED <<k8s, mode>>

-----------------------------------------------------------------------------
(***************************************************************************)
(* Reconcile, one action per call that leaves the process or reads a cache *)
(***************************************************************************)
Get(c) ==
    /\ pc = "idle"
    /\ c \in queue /\ c \in DOMAIN cache
    /\ queue' = queue \ {c}
    /\ pc' = "connect"
    /\ obj' = [comp |-> c, uid |-> cache[c].uid, version |-> cache[c].version,
               spec |-> cache[c].spec, fresh |-> c \notin pending]
    /\ UNCHANGED <<k8s, seen, pending, cache, timers, fetched, result, world>>

GetNotFound(c) ==
    /\ pc = "idle"
    /\ c \in queue /\ c \notin DOMAIN cache
    /\ queue' = queue \ {c}
    /\ UNCHANGED <<k8s, seen, pending, cache, timers, worker, world>>

AfterFetch(n) == IF n < Len(obj.spec.objectives) THEN "fetch" ELSE "rule"

CheckConnection ==
    /\ pc = "connect"
    /\ pc' = AfterFetch(0)
    /\ UNCHANGED <<k8s, seen, ctrl, obj, fetched, result, world>>

CheckConnectionFails ==
    /\ pc = "connect"
    /\ Turbulent
    /\ Return(TRUE)
    /\ UNCHANGED <<k8s, seen, pending, cache, queue, world>>

\* The next objective, from the watch cache.
NextRef == Refs(obj.spec)[Len(fetched) + 1]

FetchSLO ==
    /\ pc = "fetch"
    /\ NextRef \in DOMAIN seen
    /\ fetched' = Append(fetched, [slo |-> NextRef, uid |-> seen[NextRef].uid,
                                   version |-> seen[NextRef].version])
    /\ pc' = AfterFetch(Len(fetched'))
    /\ UNCHANGED <<k8s, seen, ctrl, obj, result, world>>

Unknown(reason) == [phase |-> "unknown", reason |-> reason, encodable |-> TRUE]

FetchMissing ==
    /\ pc = "fetch"
    /\ NextRef \notin DOMAIN seen
    /\ result' = Unknown("ObjectiveNotFound")
    /\ pc' = "write"
    /\ UNCHANGED <<k8s, seen, ctrl, obj, fetched, world>>

\* Any other error of the Get, from a cache that is not started or a context that is done.
FetchFails ==
    /\ pc = "fetch"
    /\ Turbulent
    /\ result' = Unknown("FetchFailed")
    /\ pc' = "write"
    /\ UNCHANGED <<k8s, seen, ctrl, obj, fetched, world>>

\* SetControllerReference(&slo, rule), slo being the SLO fetched last: refused
\* across namespaces, and when another SLO controls the rule already; without objectives
\* slo has neither name nor uid, and the API server takes no such reference.
Owner == fetched[Len(fetched)]
Ownable ==
    /\ fetched # <<>>
    /\ Owner.slo \notin Foreign
    /\ obj.comp \in DOMAIN rules => rules[obj.comp].owner.slo = Owner.slo

NewRule ==
    [owner |-> [slo |-> Owner.slo, uid |-> Owner.uid], spec |-> obj.version, members |-> fetched,
     source |-> obj.spec, aggregate |-> CreateAggregatedPrometheusRule(obj.spec, fetched)]

\* Mutant: a rule that exists for this spec is not written again.
WriteRuleOncePerSpec ==
    /\ pc = "rule"
    /\ Generatable(obj.spec, fetched) /\ Ownable
    /\ rules' = IF obj.comp \in DOMAIN rules /\ rules[obj.comp].spec = obj.version THEN rules
                ELSE Extend(rules, obj.comp, NewRule)
    /\ pc' = "query"
    /\ UNCHANGED <<slos, seen, sloEdits, comps, edits, ctrl, obj, fetched, result, world>>

WriteRule ==
    /\ pc = "rule"
    /\ Generatable(obj.spec, fetched) /\ Ownable
    /\ rules' = Extend(rules, obj.comp, NewRule)
    /\ pc' = "query"
    /\ UNCHANGED <<slos, seen, sloEdits, comps, edits, ctrl, obj, fetched, result, world>>

\* Any error of the rule is logged and ignored.
SkipRule ==
    /\ pc = "rule"
    /\ ~Generatable(obj.spec, fetched) \/ ~Ownable \/ Turbulent
    /\ pc' = "query"
    /\ UNCHANGED <<k8s, seen, ctrl, obj, fetched, result, world>>

Outcomes(sample) ==
    IF ~sample.data THEN {Unknown("QueryFailed")}
    ELSE {[phase |-> DetermineStatus(PercentRemaining(sample.windowed), sample.burnRates),
           reason |-> "Reconciled",
           encodable |-> EncodableSample(sample)]}
         \cup {Unknown("CalculationFailed") : w \in {obj.spec.window} \cap {"odd"}}

\* As in SLOReconciler: what Prometheus can answer once all is calm.
RuleFor(c, version, members) ==
    c \in DOMAIN rules /\ rules[c].spec = version /\ rules[c].members = members

Answerable(c, spec) == Loadable(rules[c].aggregate) /\ spec.window # "odd"

CalmAnswer(sample) ==
    /\ EncodableSample(sample)
    /\ sample.data => obj.comp \in DOMAIN rules /\ Answerable(obj.comp, obj.spec)
    /\ (RuleFor(obj.comp, obj.version, fetched) /\ Answerable(obj.comp, obj.spec)) => sample.data

Query(sample) ==
    /\ pc = "query"
    /\ mode = "calm" => CalmAnswer(sample)
    /\ result' \in Outcomes(sample)
    /\ pc' = "write"
    /\ UNCHANGED <<k8s, seen, ctrl, obj, fetched, world>>

\* The fetches an error ends, whatever it is, set ObjectiveFetchFailed and leave Available
\* alone; every other outcome sets Available and leaves ObjectiveFetchFailed alone.
FetchErrors == {"ObjectiveNotFound", "FetchFailed"}
Missing == result.reason = "ObjectiveNotFound"

NewStatus ==
    LET old == comps[obj.comp].status
    IN  [phase |-> result.phase,
         available |-> IF result.reason \in FetchErrors THEN old.available ELSE result.reason,
         fetchFailed |-> old.fetchFailed \/ result.reason \in FetchErrors,
         spec |-> obj.version,
         cause |-> result.reason]

Visible(status) == [status EXCEPT !.spec = 0, !.cause = ""]

\* lastUpdateTime counts seconds: an update that repeats the status within the
\* second changes nothing and causes no event.
MayBeNoOp == Visible(NewStatus) = Visible(comps[obj.comp].status)

\* Mutant: the status is written whatever version the worker read.
WriteStatusBlindly ==
    /\ pc = "write"
    /\ obj.comp \in DOMAIN comps /\ result.encodable
    /\ comps' = [comps EXCEPT ![obj.comp].status = NewStatus]
    /\ pending' = pending \cup {obj.comp}
    /\ Return(~Missing)
    /\ UNCHANGED <<slos, seen, sloEdits, rules, edits, cache, queue, world>>

\* Mutant: whatever error the Get ended with is dropped once the status is written.
WriteStatusDropsErrors ==
    /\ pc = "write"
    /\ obj.fresh /\ result.encodable
    /\ comps' = [comps EXCEPT ![obj.comp].status = NewStatus]
    /\ \/ pending' = pending \cup {obj.comp}
       \/ MayBeNoOp /\ pending' = pending
    /\ Return(result.reason \notin FetchErrors)
    /\ UNCHANGED <<slos, seen, sloEdits, rules, edits, cache, queue, world>>

\* After a missing SLO, IgnoreNotFound(err) is nil: no error, no RequeueAfter.  Another
\* error of the Get is returned, which brings the composition back.
WriteStatus ==
    /\ pc = "write"
    /\ obj.fresh /\ result.encodable
    /\ comps' = [comps EXCEPT ![obj.comp].status = NewStatus]
    /\ \/ pending' = pending \cup {obj.comp}
       \/ MayBeNoOp /\ pending' = pending
    /\ Return(~Missing)
    /\ UNCHANGED <<slos, seen, sloEdits, rules, edits, cache, queue, world>>

WriteStatusFails ==
    /\ pc = "write"
    /\ ~obj.fresh \/ ~result.encodable \/ Turbulent
    /\ Return(TRUE)
    /\ UNCHANGED <<k8s, seen, pending, cache, queue, world>>

-----------------------------------------------------------------------------
TurbulenceEnds ==
    /\ Turbulent
    /\ mode' = "calm"
    /\ UNCHANGED <<k8s, seen, ctrl, worker, boots>>

Reconcile ==
    \/ CheckConnection \/ CheckConnectionFails
    \/ FetchSLO \/ FetchMissing \/ FetchFails
    \/ WriteRule \/ SkipRule
    \/ \E sample \in Samples : Query(sample)
    \/ WriteStatus \/ WriteStatusFails

Next ==
    \/ \E c \in Compositions, spec \in Specs : CreateComposition(c, spec) \/ EditComposition(c, spec)
    \/ \E c \in Compositions : DeleteComposition(c) \/ CollectRule(c) \/ Deliver(c)
                               \/ TimerFires(c) \/ Get(c) \/ GetNotFound(c)
    \/ \E s \in SLOs : WriteSLO(s) \/ SeeSLO(s)
    \/ Crash
    \/ Reconcile
    \/ TurbulenceEnds

Spec == Init /\ [][Next]_vars

\* As in SLOReconciler; the watch on SLOs delivers too.
Fairness ==
    /\ WF_vars(Reconcile)
    /\ \A s \in SLOs : WF_vars(SeeSLO(s))
    /\ \A c \in Compositions :
        /\ WF_vars(Deliver(c))
        /\ WF_vars(TimerFires(c))
        /\ SF_vars(Get(c) \/ GetNotFound(c))
        /\ WF_vars(CollectRule(c))

FairSpec == Spec /\ Fairness

-----------------------------------------------------------------------------
(***************************************************************************)
(* Properties                                                              *)
(***************************************************************************)
StatusPhases == Phases \cup {"", "unknown"}
Reasons == {"", "QueryFailed", "CalculationFailed", "Reconciled"}
Causes == Reasons \cup FetchErrors
Status == [phase : StatusPhases, available : Reasons, fetchFailed : BOOLEAN,
           spec : Nat, cause : Causes]
Composition == [uid : Nat, version : Nat, spec : Specs, status : Status]
Entry == [uid : Nat, version : Nat, spec : Specs]
Member == [slo : SLOs, uid : Nat, version : Nat]
Aggregate == [ids : SUBSET {ObjectiveId[s] : s \in DOMAIN ObjectiveId},
              routes : Seq([weight : Nat, slos : Seq(SLOs)])]
Rule == [owner : [slo : SLOs, uid : Nat], spec : Nat, members : Seq(Member),
         source : Specs, aggregate : Aggregate]
SLOObject == [uid : Nat, version : Nat]

K8sType ==
    /\ DOMAIN slos \subseteq SLOs /\ slos \in [DOMAIN slos -> SLOObject]
    /\ DOMAIN comps \subseteq Compositions /\ comps \in [DOMAIN comps -> Composition]
    /\ DOMAIN rules \subseteq Compositions /\ rules \in [DOMAIN rules -> Rule]
    /\ edits \in Nat /\ sloEdits \in Nat

CtrlType ==
    /\ DOMAIN seen \subseteq SLOs /\ seen \in [DOMAIN seen -> SLOObject]
    /\ DOMAIN cache \subseteq Compositions /\ cache \in [DOMAIN cache -> Entry]
    /\ pending \cup queue \cup timers \subseteq Compositions

WorkerType ==
    /\ pc \in {"idle", "connect", "fetch", "rule", "query", "write"}
    /\ pc = "idle" <=> obj.comp = NoComposition
    /\ obj \in [comp : Compositions \cup {NoComposition}, uid : Nat, version : Nat,
               spec : Specs \cup {NoSpec}, fresh : BOOLEAN]
    /\ fetched \in Seq(Member)
    /\ pc \in {"rule", "query"} => [i \in DOMAIN fetched |-> fetched[i].slo] = Refs(obj.spec)
    /\ result \in [phase : StatusPhases, reason : Causes, encodable : BOOLEAN]

WorldType == boots \in Nat /\ mode \in {"turbulent", "calm"}

\* The types of everything above; the worker is idle exactly while it holds no
\* composition, and has all members in hand when it comes to the rule.
TypeOK == K8sType /\ CtrlType /\ WorkerType /\ WorldType

\* Nothing will bring the controller back to composition c.
Forgotten(c) == c \notin pending \cup queue \cup timers /\ obj.comp # c

GivenUp(c) ==
    /\ comps[c].status.cause = "ObjectiveNotFound"
    /\ comps[c].status.phase = "unknown" /\ comps[c].status.fetchFailed
    /\ comps[c].status.spec = comps[c].version

\* Reconcile gives up a composition in one case only: the last pass found an SLO it
\* refers to missing, and the status says so, of the current spec.  No failed call, not
\* even a fetch that fails otherwise and is reported with the same condition (:95-109), no
\* edit, conflict, re-creation or restart ends the polling.
ForgottenOnlyIfMissing ==
    \A c \in DOMAIN comps : Forgotten(c) => GivenUp(c)

\* A status is only written onto the spec it was computed from, although up to
\* a dozen remote calls lie between the Get and the status update.
StatusMatchesSpec ==
    [][\A c \in DOMAIN comps \cap DOMAIN comps' :
        comps'[c].status # comps[c].status => comps'[c].status.spec = comps'[c].version]_vars

\* The chance that some SLO of a set fails, if each does with its error rate and
\* independently: by cases, in 1/1000.
SomeFails(down, all, errors) ==
    FoldSet(LAMBDA s, x : (x * (IF s \in down THEN errors[s] ELSE Whole - errors[s])) \div Whole,
            Whole, all)
ChanceOfFailure(all, errors) ==
    MapThenSumSet(LAMBDA down : SomeFails(down, all, errors), SUBSET all \ {{}})

\* What the chain of a route stands for.
ChainOf(spec, route) ==
    {spec.objectives[i].ref : i \in {k \in DOMAIN spec.objectives :
        /\ spec.objectives[k].name \in ToSet(route.chain)
        /\ \A j \in DOMAIN spec.objectives :
            spec.objectives[j].name = spec.objectives[k].name => j <= k}}

\* The error rate of the worst of the SLOs a spec refers to.
WorstReferenced(spec, errors) == Max({errors[s] : s \in ToSet(Refs(spec))})

\* The SLOs a spec does not refer to that have the id of one it refers to: an SLO of that
\* name in another namespace, whose objective has the same name too.
Namesakes(spec) ==
    {s \in DOMAIN ObjectiveId \ ToSet(Refs(spec)) :
        \E r \in ToSet(Refs(spec)) : ObjectiveId[s] = ObjectiveId[r]}

\* The error rates while the SLOs of a set are down and the others serve all.
Outage(down) == [s \in DOMAIN ObjectiveId |-> IF s \in down THEN Whole ELSE 0]

\* A stored AND_MIN rule takes its rate from the SLOs its spec refers to and, as it asks
\* for their ids only (prometheus_rule_generator.go:253), from their namesakes in other
\* namespaces, against docs/composition.md:18, "uses the worst referenced SLO": it never
\* makes its composition look better than the worst SLO its spec refers to; no worse
\* either, unless one of them has a namesake; and the outage of a namesake alone is an
\* outage of the composition.  Whatever was edited while the SLOs were fetched, no member
\* is lost, left over or taken from another spec.
ComposesTheWeakest ==
    \A c \in DOMAIN rules : rules[c].source.type = "AND_MIN" =>
        LET spec == rules[c].source
            aggregate == rules[c].aggregate
        IN  /\ \A errors \in [DOMAIN ObjectiveId -> ErrorRates] :
                LET rate == ComposedErrorRate(aggregate, errors)
                IN  /\ rate >= WorstReferenced(spec, errors)
                    /\ Namesakes(spec) = {} => rate = WorstReferenced(spec, errors)
            /\ \A s \in Namesakes(spec) : ComposedErrorRate(aggregate, Outage({s})) = Whole

\* WEIGHTED_ROUTES: the weighted chance that a route fails (:364), where of two objectives
\* with one alias only the later one counts (:348), as long as no chain names an SLO twice
\* and up to the tolerance of the weights.
ComposesTheRoutes ==
    \A c \in DOMAIN rules : rules[c].source.type = "WEIGHTED_ROUTES" =>
        LET spec == rules[c].source
        IN  \A errors \in [DOMAIN ObjectiveId -> ErrorRates] :
                ComposedErrorRate(rules[c].aggregate, errors)
                    - MapThenSumSet(LAMBDA i : (spec.routes[i].weight *
                          ChanceOfFailure(ChainOf(spec, spec.routes[i]), errors)) \div Whole,
                          DOMAIN spec.routes) \in -1..1

\* "Requests can take different paths" (docs/composition.md:42), and a path is lost with
\* the first SLO of its chain that is: when some SLOs fail altogether and the others not
\* at all, what is left is the weight of the routes that pass none of them.
OutageHitsItsRoutes ==
    \A c \in DOMAIN rules : rules[c].source.type = "WEIGHTED_ROUTES" =>
        LET spec == rules[c].source
        IN  \A down \in SUBSET DOMAIN ObjectiveId :
                LET Left(route) == IF ChainOf(spec, route) \cap down = {} THEN route.weight ELSE 0
                    left == [i \in DOMAIN spec.routes |-> [weight |-> Left(spec.routes[i])]]
                IN  ComposedErrorRate(rules[c].aggregate, Outage(down)) = Whole - TotalWeight(left)

References(c) == ToSet(Refs(comps[c].spec))
Members(c) ==
    [i \in DOMAIN comps[c].spec.objectives |->
        LET s == Refs(comps[c].spec)[i] IN [slo |-> s, uid |-> slos[s].uid, version |-> slos[s].version]]
Complete(c) == References(c) \subseteq DOMAIN slos

\* The rule of c cannot be brought up to date.  A list of objectives may be empty
\* (slocomposition_types.go:77); the SLO that should own the rule has no name then.
Blocked(c) ==
    \/ ~Generatable(comps[c].spec, Members(c)) \/ Refs(comps[c].spec) = <<>>
    \/ LET last == Last(Refs(comps[c].spec))
       IN  last \in Foreign \/ (c \in DOMAIN rules /\ rules[c].owner.slo # last)

\* What the cluster should look like for the compositions and SLOs it holds.
SettledComposition(c) ==
    /\ comps[c].status.spec = comps[c].version
    /\ Complete(c)
    /\ Blocked(c) \/ RuleFor(c, comps[c].version, Members(c))
    /\ Blocked(c) \/ comps[c].status.available =
                        IF Answerable(c, comps[c].spec) THEN "Reconciled" ELSE "QueryFailed"

Settled ==
    /\ \A c \in DOMAIN comps : SettledComposition(c)
            \/ (GivenUp(c) /\ (Forgotten(c) \/ ~Complete(c)))
    /\ \A c \in DOMAIN rules : Alive(rules[c].owner)

\* Once failures and edits stop, every composition that is not given up for a
\* missing SLO, and whose rule is not blocked, gets the rule of its current spec and
\* of the current SLOs, and the status that goes with it; rules of SLOs that are
\* gone disappear.  No SLO event helps: only polling notices a changed SLO.
Settles == (<>(mode = "calm")) => <>[]Settled

Composable(c) ==
    mode = "calm" /\ c \in DOMAIN comps /\ Complete(c) /\ Generatable(comps[c].spec, Members(c))
    /\ comps[c].spec.window # "odd"
Computed(c) == c \in DOMAIN comps /\ comps[c].status.phase \in Phases
Composed(c) ==
    /\ c \in DOMAIN comps /\ c \in DOMAIN rules
    /\ {m.slo : m \in ToSet(rules[c].members)} = References(c)

\* "SloK writes composed availability, error budget, burn rate, and status to the
\* composition status" (docs/composition.md:96): when all is calm and the SLOs of a
\* composition are there, its status is computed.
ComesBack == \A c \in Compositions : Composable(c) ~> Computed(c)

\* "The composition is only as healthy as the weakest referenced SLO"
\* (docs/composition.md:13): when all is calm its rule is about the SLOs it refers to.
RuleFollowsSpec == \A c \in Compositions : Composable(c) ~> Composed(c)
=============================================================================
