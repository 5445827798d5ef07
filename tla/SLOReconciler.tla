---------------------------- MODULE SLOReconciler ----------------------------
(***************************************************************************)
(* The ServiceLevelObjective controller (internal/controller/              *)
(* servicelevelobjective_controller.go) between the Kubernetes API server, *)
(* its own watch cache and work queue, Prometheus and the anomaly          *)
(* detector.  One worker reconciles one SLO at a time                      *)
(* (MaxConcurrentReconciles is left at 1); everything else interleaves     *)
(* with every call it makes: users edit and delete SLOs, watch events      *)
(* arrive late, API writes fail or conflict, Prometheus goes down, the     *)
(* operator crashes and restarts.                                          *)
(***************************************************************************)
EXTENDS ErrorBudget, SpikeDetection, Maps

CONSTANTS
    SLOs,       \* namespace/name of the ServiceLevelObjectives
    NoSLO,      \* a value that is no SLO: the worker holds none
    Kinds,      \* spec kinds in use, a subset of AllKinds
    Samples,    \* results one pass of Prometheus queries can have
    MaxEdits,   \* bound: user writes
    MaxBoots,   \* bound: operator restarts
    MaxTime     \* bound: ticks of the clock

\* What tells two specs apart for the controller: all is well; the alerting
\* section makes CreatePrometheusRule fail; the window ("90d", or a number that
\* overflows) is none of those the recording rules compute.
AllKinds == {"plain", "badAlert", "oddWindow"}

ASSUME SLOAssumption == NoSLO \notin SLOs /\ Kinds \subseteq AllKinds
ASSUME BoundAssumption == MaxEdits \in Nat /\ MaxBoots \in Nat /\ MaxTime \in Nat

VARIABLES
    \* Kubernetes
    api,        \* SLO -> stored object; DOMAIN = the SLOs that exist
    rules,      \* SLO -> its PrometheusRule
    corrs,      \* the SLOCorrelations
    edits,      \* user writes so far; numbers uids and spec versions
    \* controller-runtime
    pending,    \* SLOs whose last change has not reached the watch cache
    cache,      \* SLO -> object as the watch cache has it
    queue,      \* work queue
    timers,     \* SLOs with a delayed re-add (RequeueAfter or back-off)
    \* the worker
    pc,         \* next call of the Reconcile in progress
    obj,        \* its local copy of the SLO
    result,     \* the objective status it has computed
    spike,      \* when it detected a spike in this pass, or -1
    \* the rest of the process and of the world
    states,     \* AnomalyDetector.states
    boots,      \* restarts so far
    now,
    mode        \* "turbulent": users edit and every remote call may fail;
                \* "calm": from now on nobody edits and no call fails;
                \* "outage": likewise, but Prometheus is down for good

k8s    == <<api, rules, corrs, edits>>
ctrl   == <<pending, cache, queue, timers>>
worker == <<pc, obj, result, spike>>
world  == <<boots, now, mode>>
vars   == <<k8s, ctrl, worker, states, world>>

\* status of an SLO: phase and reason of its Available condition, and, as
\* history, the spec version they were computed from; at is lastUpdateTime.
NoStatus == [phase |-> "", reason |-> "", spec |-> 0, at |-> 0]
NoObj    == [slo |-> NoSLO, uid |-> 0, version |-> 0, kind |-> "plain", fresh |-> FALSE]
NoResult == [phase |-> "", reason |-> "", encodable |-> TRUE, spikeEncodable |-> TRUE]
NoSpike  == -1
Empty    == [s \in {} |-> NoStatus]

Init ==
    /\ api = Empty /\ rules = Empty /\ corrs = {} /\ edits = 0
    /\ pending = {} /\ cache = Empty /\ queue = {} /\ timers = {}
    /\ pc = "idle" /\ obj = NoObj /\ result = NoResult /\ spike = NoSpike
    /\ states = Empty
    /\ boots = 0 /\ now = 0 /\ mode = "turbulent"

-----------------------------------------------------------------------------
(***************************************************************************)
(* Users and the API server.  A change of an SLO puts a watch event under  *)
(* way and gives the object a new resourceVersion: a copy the worker holds *)
(* is out of date from then on.                                            *)
(***************************************************************************)
Turbulent == mode = "turbulent"

Changed(s) ==
    /\ pending' = pending \cup {s}
    /\ obj' = IF obj.slo = s THEN [obj EXCEPT !.fresh = FALSE] ELSE obj

UserWrite(s) ==
    /\ Turbulent /\ edits < MaxEdits
    /\ edits' = edits + 1
    /\ Changed(s)
    /\ UNCHANGED <<rules, corrs, cache, queue, timers, pc, result, spike, states, world>>

CreateSLO(s, kind) ==
    /\ s \notin DOMAIN api
    /\ api' = Extend(api, s, [uid |-> edits + 1, version |-> edits + 1,
                              kind |-> kind, status |-> NoStatus])
    /\ UserWrite(s)

EditSLO(s, kind) ==
    /\ s \in DOMAIN api
    /\ api' = [api EXCEPT ![s].version = edits + 1, ![s].kind = kind]
    /\ UserWrite(s)

DeleteSLO(s) ==
    /\ s \in DOMAIN api
    /\ api' = Drop(api, s)
    /\ UserWrite(s)

\* The garbage collector removes what an SLO that is gone controlled.
Alive(s, uid) == s \in DOMAIN api /\ api[s].uid = uid

CollectRule(s) ==
    /\ s \in DOMAIN rules
    /\ ~Alive(s, rules[s].owner)
    /\ rules' = Drop(rules, s)
    /\ UNCHANGED <<api, corrs, edits, ctrl, worker, states, world>>

CollectCorrelation(c) ==
    /\ ~Alive(c.slo, c.owner)
    /\ corrs' = corrs \ {c}
    /\ UNCHANGED <<api, rules, edits, ctrl, worker, states, world>>

-----------------------------------------------------------------------------
(***************************************************************************)
(* controller-runtime: watch, work queue, delayed adds.                    *)
(***************************************************************************)
\* The watch event arrives: the cache catches up and the SLO is enqueued.
Deliver(s) ==
    /\ s \in pending
    /\ cache' = IF s \in DOMAIN api THEN Extend(cache, s, api[s]) ELSE Drop(cache, s)
    /\ pending' = pending \ {s}
    /\ queue' = queue \cup {s}
    /\ UNCHANGED <<k8s, timers, worker, states, world>>

TimerFires(s) ==
    /\ s \in timers
    /\ timers' = timers \ {s}
    /\ queue' = queue \cup {s}
    /\ UNCHANGED <<k8s, pending, cache, worker, states, world>>

\* Mutant: nothing is put back.
ReturnWithoutRequeue(requeue) ==
    /\ pc' = "idle" /\ result' = NoResult /\ spike' = NoSpike
    /\ timers' = timers

\* Mutant: the error is logged, but the pass goes on without an SLO in hand.
ReturnForgotten(requeue) ==
    /\ pc' = "query" /\ result' = NoResult /\ spike' = NoSpike
    /\ timers' = IF requeue THEN timers \cup {obj.slo} ELSE timers

\* Reconcile returns; RequeueAfter and the back-off after an error both mean a
\* delayed add.
Return(requeue) ==
    /\ pc' = "idle" /\ result' = NoResult /\ spike' = NoSpike
    /\ timers' = IF requeue THEN timers \cup {obj.slo} ELSE timers

\* A crash loses everything in the process.  The restarted operator lists all
\* SLOs before its worker starts.
Crash ==
    /\ Turbulent /\ boots < MaxBoots
    /\ boots' = boots + 1
    /\ pending' = DOMAIN api
    /\ cache' = Empty /\ queue' = {} /\ timers' = {}
    /\ pc' = "idle" /\ obj' = NoObj /\ result' = NoResult /\ spike' = NoSpike
    /\ states' = Empty
    /\ UNCHANGED <<k8s, now, mode>>

-----------------------------------------------------------------------------
(***************************************************************************)
(* Reconcile, one action per call that leaves the process.                 *)
(***************************************************************************)
\* r.Get reads the watch cache.
Get(s) ==
    /\ pc = "idle"
    /\ s \in queue
    /\ s \in DOMAIN cache
    /\ queue' = queue \ {s}
    /\ pc' = "connect"
    /\ obj' = [slo |-> s, uid |-> cache[s].uid, version |-> cache[s].version,
               kind |-> cache[s].kind, fresh |-> s \notin pending]
    /\ UNCHANGED <<k8s, pending, cache, timers, result, spike, states, world>>

\* Mutant: the detector forgets an SLO that is gone.
GetNotFoundForgets(s) ==
    /\ pc = "idle"
    /\ s \in queue
    /\ s \notin DOMAIN cache
    /\ queue' = queue \ {s}
    /\ states' = Drop(states, s)
    /\ UNCHANGED <<k8s, pending, cache, timers, worker, world>>

\* NotFound is ignored: Reconcile returns without an error and without requeue.
GetNotFound(s) ==
    /\ pc = "idle"
    /\ s \in queue
    /\ s \notin DOMAIN cache
    /\ queue' = queue \ {s}
    /\ UNCHANGED <<k8s, pending, cache, timers, worker, states, world>>

CheckConnection ==
    /\ pc = "connect"
    /\ mode # "outage"
    /\ pc' = "rule"
    /\ UNCHANGED <<k8s, ctrl, obj, result, spike, states, world>>

\* The error is returned: no status is written.
CheckConnectionFails ==
    /\ pc = "connect"
    /\ mode # "calm"
    /\ Return(TRUE)
    /\ obj' = NoObj
    /\ UNCHANGED <<k8s, pending, cache, queue, states, world>>

RuleFor(s, uid, version) ==
    s \in DOMAIN rules /\ rules[s] = [owner |-> uid, spec |-> version]

\* Mutant: a rule that exists is taken to be the right one.
WriteRuleOnce ==
    /\ pc = "rule"
    /\ obj.kind # "badAlert"
    /\ rules' = IF obj.slo \in DOMAIN rules THEN rules
                ELSE Extend(rules, obj.slo, [owner |-> obj.uid, spec |-> obj.version])
    /\ pc' = "query"
    /\ UNCHANGED <<api, corrs, edits, ctrl, obj, result, spike, states, world>>

\* CreateOrUpdate of the PrometheusRule, owned by the SLO.
WriteRule ==
    /\ pc = "rule"
    /\ obj.kind # "badAlert"
    /\ rules' = Extend(rules, obj.slo, [owner |-> obj.uid, spec |-> obj.version])
    /\ pc' = "query"
    /\ UNCHANGED <<api, corrs, edits, ctrl, obj, result, spike, states, world>>

\* No rule could be generated, or it could not be stored: logged and ignored.
SkipRule ==
    /\ pc = "rule"
    /\ obj.kind = "badAlert" \/ Turbulent
    /\ pc' = "query"
    /\ UNCHANGED <<k8s, ctrl, obj, result, spike, states, world>>

Unknown(reason) == [NoResult EXCEPT !.phase = "unknown", !.reason = reason]

\* One of the two first queries fails.
QueryFails(sample) ==
    /\ ~sample.data
    /\ result' = Unknown("QueryFailed")
    /\ pc' = "write"
    /\ UNCHANGED <<spike, states>>

\* The window's series comes from elsewhere, and its number does not parse.
CalculationFails(sample) ==
    /\ sample.data
    /\ obj.kind = "oddWindow"
    /\ result' = Unknown("CalculationFailed")
    /\ pc' = "write"
    /\ UNCHANGED <<spike, states>>

\* Budget, burn rates, phase, and the detector fed with burnRates[0].
Computes(sample) ==
    LET s == obj.slo
        rate == FirstShortBurnRate(sample.burnRates)
        fed == DOMAIN sample.burnRates # {}
        detected == fed /\ s \in DOMAIN states /\ Detected(states[s], rate, now)
    IN  /\ sample.data
        /\ result' = [phase |-> DetermineStatus(PercentRemaining(sample.windowed),
                                                sample.burnRates),
                      reason |-> "Reconciled",
                      encodable |-> EncodableSample(sample),
                      spikeEncodable |-> fed => Encodable(rate)]
        /\ states' =
            IF ~fed THEN states
            ELSE IF s \notin DOMAIN states THEN Extend(states, s, NewState(rate))
            ELSE [states EXCEPT ![s] = UpdatedState(states[s], rate, now)]
        /\ spike' = IF detected THEN now ELSE NoSpike
        /\ pc' = IF detected THEN "correlate" ELSE "write"

\* Once the world is calm values are finite, and there is data when the stored
\* rule is that of the spec in hand, none when there is no rule for the window.
\* During an outage the query cache may still answer.
CalmAnswer(sample) ==
    /\ EncodableSample(sample)
    /\ sample.data => obj.slo \in DOMAIN rules /\ obj.kind # "oddWindow"
    /\ (RuleFor(obj.slo, obj.uid, obj.version) /\ obj.kind # "oddWindow") => sample.data

Query(sample) ==
    /\ pc = "query"
    /\ mode = "calm" => CalmAnswer(sample)
    /\ QueryFails(sample) \/ CalculationFails(sample) \/ Computes(sample)
    /\ UNCHANGED <<k8s, ctrl, obj, world>>

\* The SLOCorrelation is sent with the burn rate that crossed: +Inf spoils it.
\* The name of an SLOCorrelation is made of the SLO's name and the minute.
SameName(c) == c.slo = obj.slo /\ c.at = spike

CreateCorrelation ==
    /\ pc = "correlate"
    /\ result.spikeEncodable
    /\ ~\E c \in corrs : SameName(c)
    /\ corrs' = corrs \cup {[slo |-> obj.slo, owner |-> obj.uid, at |-> spike,
                             boot |-> boots, filled |-> FALSE]}
    /\ pc' = "fill"
    /\ UNCHANGED <<api, rules, edits, ctrl, obj, result, spike, states, world>>

\* AlreadyExists is silent, any other error is logged: the pass goes on.
CreateCorrelationFails ==
    /\ pc = "correlate"
    /\ Turbulent \/ ~result.spikeEncodable \/ \E c \in corrs : SameName(c)
    /\ pc' = "write"
    /\ UNCHANGED <<k8s, ctrl, obj, result, spike, states, world>>

\* The status subresource of the correlation; a failure is logged.
FillCorrelation ==
    /\ pc = "fill"
    /\ \/ corrs' = {IF SameName(c) THEN [c EXCEPT !.filled = TRUE] ELSE c : c \in corrs}
       \/ Turbulent /\ UNCHANGED corrs
    /\ pc' = "write"
    /\ UNCHANGED <<api, rules, edits, ctrl, obj, result, spike, states, world>>

NewStatus == [phase |-> result.phase, reason |-> result.reason,
              spec |-> obj.version, at |-> now]

\* Mutant: the status is written whatever version the worker read.
WriteStatusBlindly ==
    /\ pc = "write"
    /\ obj.slo \in DOMAIN api /\ result.encodable
    /\ api' = [api EXCEPT ![obj.slo].status = NewStatus]
    /\ pending' = IF api[obj.slo].status = NewStatus THEN pending
                  ELSE pending \cup {obj.slo}
    /\ Return(TRUE)
    /\ obj' = NoObj
    /\ UNCHANGED <<rules, corrs, edits, cache, queue, states, world>>

\* r.Status().Update succeeds only on the version the worker read.  An update
\* that changes nothing leaves the resourceVersion alone and causes no event.
WriteStatus ==
    /\ pc = "write"
    /\ obj.fresh /\ result.encodable
    /\ api' = [api EXCEPT ![obj.slo].status = NewStatus]
    /\ pending' = IF api[obj.slo].status = NewStatus THEN pending
                  ELSE pending \cup {obj.slo}
    /\ Return(TRUE)
    /\ obj' = NoObj
    /\ UNCHANGED <<rules, corrs, edits, cache, queue, states, world>>

\* Mutant: the error of the update is swallowed.
WriteStatusFailsSilently ==
    /\ pc = "write"
    /\ ~obj.fresh \/ ~result.encodable \/ Turbulent
    /\ Return(FALSE)
    /\ obj' = NoObj
    /\ UNCHANGED <<k8s, pending, cache, queue, states, world>>

\* Conflict, NotFound, a value JSON cannot carry, or the API server is away.
WriteStatusFails ==
    /\ pc = "write"
    /\ ~obj.fresh \/ ~result.encodable \/ Turbulent
    /\ Return(TRUE)
    /\ obj' = NoObj
    /\ UNCHANGED <<k8s, pending, cache, queue, states, world>>

-----------------------------------------------------------------------------
Tick ==
    /\ now < MaxTime
    /\ now' = now + 1
    /\ UNCHANGED <<k8s, ctrl, worker, states, boots, mode>>

TurbulenceEnds ==
    /\ Turbulent
    /\ mode' \in {"calm", "outage"}
    /\ UNCHANGED <<k8s, ctrl, worker, states, boots, now>>

Reconcile ==
    \/ CheckConnection \/ CheckConnectionFails
    \/ WriteRule \/ SkipRule
    \/ \E sample \in Samples : Query(sample)
    \/ CreateCorrelation \/ CreateCorrelationFails \/ FillCorrelation
    \/ WriteStatus \/ WriteStatusFails

Next ==
    \/ \E s \in SLOs, kind \in Kinds : CreateSLO(s, kind) \/ EditSLO(s, kind)
    \/ \E s \in SLOs : DeleteSLO(s) \/ CollectRule(s) \/ Deliver(s) \/ TimerFires(s)
                       \/ Get(s) \/ GetNotFound(s)
    \/ \E c \in corrs : CollectCorrelation(c)
    \/ Crash
    \/ Reconcile
    \/ Tick \/ TurbulenceEnds

Spec == Init /\ [][Next]_vars

\* The worker goroutine keeps running its pass; watch events and timers arrive;
\* the work queue is FIFO, so a waiting SLO is eventually taken; the garbage
\* collector does its work.
Fairness ==
    /\ WF_vars(Reconcile)
    /\ \A s \in SLOs :
        /\ WF_vars(Deliver(s))
        /\ WF_vars(TimerFires(s))
        /\ SF_vars(Get(s) \/ GetNotFound(s))
        /\ WF_vars(CollectRule(s))
    /\ WF_vars(\E c \in corrs : CollectCorrelation(c))

FairSpec == Spec /\ Fairness

-----------------------------------------------------------------------------
(***************************************************************************)
(* Properties                                                              *)
(***************************************************************************)
StatusPhases == Phases \cup {"", "unknown"}
Reasons == {"", "QueryFailed", "CalculationFailed", "Reconciled"}
Status == [phase : StatusPhases, reason : Reasons, spec : Nat, at : Nat]
SLOObject == [uid : Nat, version : Nat, kind : AllKinds, status : Status]

K8sType ==
    /\ DOMAIN api \subseteq SLOs /\ api \in [DOMAIN api -> SLOObject]
    /\ DOMAIN rules \subseteq SLOs
    /\ rules \in [DOMAIN rules -> [owner : Nat, spec : Nat]]
    /\ corrs \subseteq [slo : SLOs, owner : Nat, at : Nat, boot : Nat, filled : BOOLEAN]
    /\ edits \in Nat

CtrlType ==
    /\ DOMAIN cache \subseteq SLOs /\ cache \in [DOMAIN cache -> SLOObject]
    /\ pending \subseteq SLOs /\ queue \subseteq SLOs /\ timers \subseteq SLOs

WorkerType ==
    /\ pc \in {"idle", "connect", "rule", "query", "correlate", "fill", "write"}
    /\ obj \in [slo : SLOs \cup {NoSLO}, uid : Nat, version : Nat, kind : AllKinds,
               fresh : BOOLEAN]
    /\ pc = "idle" <=> obj.slo = NoSLO
    /\ result \in [phase : StatusPhases, reason : Reasons,
                  encodable : BOOLEAN, spikeEncodable : BOOLEAN]
    /\ spike \in Nat \cup {NoSpike}
    /\ pc \in {"correlate", "fill"} => spike \in Nat

WorldType ==
    /\ DOMAIN states \subseteq SLOs
    /\ \A s \in DOMAIN states : states[s].last \in Int
    /\ boots \in Nat /\ now \in Nat
    /\ mode \in {"turbulent", "calm", "outage"}

TypeOK == K8sType /\ CtrlType /\ WorkerType /\ WorldType

\* An SLO that exists is never forgotten: a watch event is on its way, it waits
\* in the queue, a timer will bring it back, or it is being reconciled.  The
\* controller polls Prometheus only because of this.
NeverForgotten ==
    \A s \in DOMAIN api :
        s \in pending \/ s \in queue \/ s \in timers \/ (pc # "idle" /\ obj.slo = s)

\* Within one run of the operator the SLOCorrelations of an SLO are at least a
\* cooldown apart, also across deletion and re-creation of the SLO.
CorrelationsSpaced ==
    \A c, d \in corrs :
        (c.slo = d.slo /\ c.boot = d.boot /\ c.at < d.at) => d.at - c.at >= Cooldown

\* What the watch cache says of an SLO without an event under way is true, and a
\* copy the worker believes fresh has the stored version.
CacheCurrent ==
    \A s \in SLOs \ pending :
        /\ s \in DOMAIN api <=> s \in DOMAIN cache
        /\ s \in DOMAIN api => cache[s].version = api[s].version

CopyCurrent ==
    obj.fresh => obj.slo \in DOMAIN api /\ api[obj.slo].version = obj.version

\* A status is only ever written onto the spec it was computed from: an edit, or
\* a deletion and re-creation, while Reconcile runs makes the write fail.
StatusMatchesSpec ==
    [][\A s \in DOMAIN api \cap DOMAIN api' :
        api'[s].status # api[s].status => api'[s].status.spec = api'[s].version]_vars

\* The detector inside the controller is still one cooldown gate per SLO, and a
\* restart of the operator is all that makes one forget: a cooldown outlives
\* failed calls and the deletion and re-creation of the SLO.
Gate == INSTANCE CooldownGate WITH
            Keys <- SLOs,
            clock <- now,
            lastFired <- [s \in SLOs |->
                            IF s \in DOMAIN states THEN states[s].last ELSE ZeroTime],
            epoch <- [s \in SLOs |-> boots]

GateSpec == Gate!Spec

\* Whatever fails, every SLO is reconciled again and again.
Polled ==
    \A s \in SLOs : []<>(s \in DOMAIN api => obj.slo = s)

\* What the cluster should look like for the specs it holds, and no leftovers of
\* SLOs that are gone.
Settled ==
    /\ \A s \in DOMAIN api :
        /\ api[s].status.spec = api[s].version
        /\ api[s].kind = "plain" => api[s].status.reason = "Reconciled"
        /\ (api[s].kind = "oddWindow" \/ s \notin DOMAIN rules)
                => api[s].status.reason = "QueryFailed"
        /\ api[s].kind # "badAlert" => RuleFor(s, api[s].uid, api[s].version)
    /\ \A s \in DOMAIN rules : Alive(s, rules[s].owner)
    /\ \A c \in corrs : Alive(c.slo, c.owner)

\* Once failures and edits stop, the cluster reaches that state and stays there,
\* whatever had gone wrong before.
Settles == (<>(mode = "calm")) => <>[]Settled

\* "When a burn-rate spike is detected, SloK creates an SLOCorrelation resource"
\* (docs/correlation.md:5), sooner or later, while the SLO exists.
SpikeIsRecorded ==
    LET Detection(s) == s \in DOMAIN api /\ s \in DOMAIN states /\ states[s].last >= 0
        Recorded(s)  == \E c \in corrs : c.slo = s /\ c.at = states[s].last
    IN  \A s \in SLOs : Detection(s) ~> (Detection(s) => Recorded(s))

\* "unknown: SloK could not query or compute the objective" (docs/slo.md:160):
\* when Prometheus goes away for good, an SLO last seen "met" ends up unknown.
OutageBecomesUnknown ==
    \A s \in SLOs :
        (mode = "outage" /\ s \in DOMAIN api /\ api[s].status.phase = "met")
            ~> (s \in DOMAIN api => api[s].status.phase = "unknown")
=============================================================================
