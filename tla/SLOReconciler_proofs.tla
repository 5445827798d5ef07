------------------------ MODULE SLOReconciler_proofs ------------------------
(***************************************************************************)
(* For any number of SLOs, any query results, any bounds: the types of the *)
(* controller, that no SLO is ever forgotten, that no status is written    *)
(* onto a spec it was not computed from, that correlations keep their      *)
(* distance, and that the detector inside is still a cooldown gate.        *)
(***************************************************************************)
EXTENDS SLOReconciler, Basics_proofs

-----------------------------------------------------------------------------
(***************************************************************************)
(* Facts about the operators.                                              *)
(***************************************************************************)
\* The cascade returns one of the five phases.
LEMMA PhaseType ==
    \A p, b : DetermineStatus(p, b) \in Phases
BY DEF DetermineStatus, Phases

\* A pass ends with the worker idle and empty-handed.
LEMMA IdleType == ASSUME pc' = "idle", obj' = NoObj, result' = NoResult, spike' = NoSpike
                  PROVE  WorkerType'
BY DEF WorkerType, NoObj, NoResult, NoSpike, StatusPhases, Reasons, AllKinds

-----------------------------------------------------------------------------
(***************************************************************************)
(* Type correctness, one lemma per group of actions.                       *)
(***************************************************************************)
\* A user's write is type correct if what it leaves in the store is.
LEMMA UserWriteTypes ==
    ASSUME TypeOK, NEW s \in SLOs, UserWrite(s),
           DOMAIN api' \subseteq SLOs, api' \in [DOMAIN api' -> SLOObject]
    PROVE  TypeOK'
<1> USE DEF TypeOK
<1>1. edits' \in Nat
  BY DEF UserWrite, K8sType
<1>2. K8sType'
  BY <1>1 DEF K8sType, UserWrite
<1>3. CtrlType'
  BY DEF CtrlType, UserWrite, Changed
<1>4. WorkerType'
  BY DEF WorkerType, UserWrite, Changed
<1>5. WorldType'
  BY DEF WorldType, UserWrite, world
<1> QED
  BY <1>2, <1>3, <1>4, <1>5

LEMMA UserTypes ==
    ASSUME TypeOK, NEW s \in SLOs,
           DeleteSLO(s) \/ \E kind \in Kinds : CreateSLO(s, kind) \/ EditSLO(s, kind)
    PROVE  TypeOK'
<1>1. edits + 1 \in Nat /\ DOMAIN api \subseteq SLOs /\ api \in [DOMAIN api -> SLOObject]
  BY DEF TypeOK, K8sType
<1>2. ASSUME NEW kind \in Kinds, CreateSLO(s, kind) PROVE TypeOK'
  <2> DEFINE new == [uid |-> edits + 1, version |-> edits + 1, kind |-> kind,
                     status |-> NoStatus]
  <2>1. new \in SLOObject
    BY <1>1, SLOAssumption DEF SLOObject, NoStatus, Status, StatusPhases, Reasons
  <2>2. api' = Extend(api, s, new) /\ UserWrite(s)
    BY <1>2 DEF CreateSLO
  <2> HIDE DEF new
  <2> QED
    BY <1>1, <2>1, <2>2, ExtendType, UserWriteTypes
<1>3. ASSUME NEW kind \in Kinds, EditSLO(s, kind) PROVE TypeOK'
  <2> DEFINE new == [api[s] EXCEPT !.version = edits + 1, !.kind = kind]
  <2>1. new \in SLOObject
    <3>1. api[s] \in SLOObject /\ kind \in AllKinds
      BY <1>1, <1>3, SLOAssumption DEF EditSLO
    <3> QED
      BY <1>1, <3>1 DEF SLOObject
  <2>2. api' = [api EXCEPT ![s] = new] /\ UserWrite(s)
    BY <1>1, <1>3 DEF EditSLO
  <2> HIDE DEF new
  <2>3. DOMAIN api' \subseteq SLOs /\ api' \in [DOMAIN api' -> SLOObject]
    BY <1>1, <2>1, <2>2, UpdateType
  <2> QED
    BY <2>2, <2>3, UserWriteTypes
<1>4. CASE DeleteSLO(s)
  BY <1>1, <1>4, DropType, UserWriteTypes DEF DeleteSLO
<1> QED
  BY <1>2, <1>3, <1>4

LEMMA CtrlTypes ==
    ASSUME TypeOK, NEW s \in SLOs,
           CollectRule(s) \/ Deliver(s) \/ TimerFires(s) \/ Get(s) \/ GetNotFound(s)
    PROVE  TypeOK'
<1> USE DEF TypeOK, k8s, ctrl, worker, world
<1>1. CASE CollectRule(s)
  <2>1. K8sType'
    BY <1>1, DropType DEF CollectRule, K8sType
  <2> QED
    BY <1>1, <2>1 DEF CollectRule, CtrlType, WorkerType, WorldType
<1>2. CASE Deliver(s)
  <2>1. DOMAIN cache' \subseteq SLOs /\ cache' \in [DOMAIN cache' -> SLOObject]
    <3>1. CASE s \in DOMAIN api
      <4>1. api[s] \in SLOObject
        BY <3>1 DEF K8sType
      <4> QED
        BY <1>2, <3>1, <4>1, ExtendType DEF Deliver, CtrlType
    <3>2. CASE s \notin DOMAIN api
      BY <1>2, <3>2, DropType DEF Deliver, CtrlType
    <3> QED
      BY <3>1, <3>2
  <2> QED
    BY <1>2, <2>1 DEF Deliver, K8sType, CtrlType, WorkerType, WorldType
<1>3. CASE TimerFires(s)
  BY <1>3 DEF TimerFires, K8sType, CtrlType, WorkerType, WorldType
<1>4. CASE Get(s)
  <2>1. cache[s] \in SLOObject
    BY <1>4 DEF Get, CtrlType
  <2>2. WorkerType'
    BY <1>4, <2>1, SLOAssumption DEF Get, WorkerType, SLOObject
  <2> QED
    BY <1>4, <2>2 DEF Get, K8sType, CtrlType, WorldType
<1>5. CASE GetNotFound(s)
  BY <1>5 DEF GetNotFound, K8sType, CtrlType, WorkerType, WorldType
<1> QED
  BY <1>1, <1>2, <1>3, <1>4, <1>5

\* Query: the phase, the detector's memory and the detection time.
LEMMA QueryTypes ==
    ASSUME TypeOK, NEW sample \in Samples, Query(sample)
    PROVE  TypeOK'
<1> USE DEF TypeOK, k8s, ctrl, world
<1>1. obj.slo \in SLOs /\ pc = "query" /\ obj.slo # NoSLO
  BY DEF Query, WorkerType
<1>2. WorkerType' /\ WorldType'
  <2>1. CASE QueryFails(sample) \/ CalculationFails(sample)
    <3> DEFINE Result == [phase : StatusPhases, reason : Reasons, encodable : BOOLEAN,
                           spikeEncodable : BOOLEAN]
    <3>1. /\ Unknown("QueryFailed") \in Result
          /\ Unknown("CalculationFailed") \in Result
      BY DEF Unknown, NoResult, StatusPhases, Reasons
    <3>2. result' \in Result
      BY <2>1, <3>1 DEF QueryFails, CalculationFails
    <3>3. pc' = "write" /\ UNCHANGED <<obj, spike, states, boots, now, mode>>
      BY <2>1 DEF Query, QueryFails, CalculationFails
    <3> QED
      BY <1>1, <3>2, <3>3 DEF WorkerType, WorldType
  <2>2. CASE Computes(sample)
    <3> DEFINE s == obj.slo
               rate == FirstShortBurnRate(sample.burnRates)
    <3>1. DetermineStatus(PercentRemaining(sample.windowed), sample.burnRates) \in StatusPhases
      BY PhaseType DEF StatusPhases
    <3>2. EncodableSample(sample) \in BOOLEAN
      BY DEF EncodableSample
    <3>3. result' \in [phase : StatusPhases, reason : Reasons, encodable : BOOLEAN,
                           spikeEncodable : BOOLEAN]
      BY <2>2, <3>1, <3>2 DEF Computes, Reasons
    <3>4. /\ spike' \in Nat \cup {NoSpike}
          /\ pc' \in {"correlate", "write"}
          /\ pc' = "correlate" => spike' \in Nat
      BY <2>2 DEF Computes, WorldType
    <3>5. WorkerType'
      BY <1>1, <3>3, <3>4 DEF Query, WorkerType
    <3>6. /\ DOMAIN states' \subseteq SLOs
          /\ \A t \in DOMAIN states' : states'[t].last \in Int
      <4>1. NewState(rate).last \in Int
        BY CooldownAssumption DEF NewState, ZeroTime
      <4>2. s \in DOMAIN states => UpdatedState(states[s], rate, now).last \in Int
        BY DEF UpdatedState, WorldType
      <4>3. CASE states' = states
        BY <4>3 DEF WorldType
      <4>4. CASE s \notin DOMAIN states /\ states' = Extend(states, s, NewState(rate))
        <5>1. /\ DOMAIN states' = DOMAIN states \cup {s}
              /\ states'[s] = NewState(rate)
              /\ \A t \in DOMAIN states : t # s => states'[t] = states[t]
          BY <4>4 DEF Extend
        <5> QED
          BY <1>1, <4>1, <5>1 DEF WorldType
      <4>5. CASE /\ s \in DOMAIN states
                 /\ states' = [states EXCEPT ![s] = UpdatedState(states[s], rate, now)]
        BY <4>2, <4>5 DEF WorldType
      <4> QED
        BY <2>2, <4>3, <4>4, <4>5 DEF Computes
    <3> QED
      BY <3>5, <3>6 DEF Query, WorldType
  <2> QED
    BY <2>1, <2>2 DEF Query
<1> QED
  BY <1>2 DEF Query, K8sType, CtrlType

\* The other calls of a pass.
LEMMA ReconcileTypes ==
    ASSUME TypeOK, Reconcile
    PROVE  TypeOK'
<1> USE DEF TypeOK, k8s, ctrl, worker, world
<1>1. CASE CheckConnection
  BY <1>1 DEF CheckConnection, K8sType, CtrlType, WorkerType, WorldType
<1>2. CASE CheckConnectionFails
  BY <1>2, IdleType DEF CheckConnectionFails, Return, K8sType, CtrlType, WorkerType, WorldType
<1>3. CASE WriteRule
  <2> DEFINE rule == [owner |-> obj.uid, spec |-> obj.version]
             Rule == [owner : Nat, spec : Nat]
  <2>1. rule \in Rule /\ obj.slo \in SLOs
    BY <1>3 DEF WriteRule, WorkerType
  <2>2. DOMAIN rules' \subseteq SLOs /\ rules' \in [DOMAIN rules' -> Rule]
    <3>1. /\ rules' = Extend(rules, obj.slo, rule)
          /\ DOMAIN rules \subseteq SLOs /\ rules \in [DOMAIN rules -> Rule]
      BY <1>3 DEF WriteRule, K8sType
    <3> HIDE DEF rule, Rule
    <3> QED
      BY <2>1, <3>1, ExtendType
  <2>3. K8sType'
    BY <1>3, <2>2 DEF WriteRule, K8sType
  <2> QED
    BY <1>3, <2>3 DEF WriteRule, CtrlType, WorkerType, WorldType
<1>4. CASE SkipRule
  BY <1>4 DEF SkipRule, K8sType, CtrlType, WorkerType, WorldType
<1>5. ASSUME NEW sample \in Samples, Query(sample) PROVE TypeOK'
  BY <1>5, QueryTypes
<1>6. CASE CreateCorrelation
  <2>1. [slo |-> obj.slo, owner |-> obj.uid, at |-> spike, boot |-> boots, filled |-> FALSE]
          \in [slo : SLOs, owner : Nat, at : Nat, boot : Nat, filled : BOOLEAN]
    BY <1>6 DEF CreateCorrelation, WorkerType, WorldType
  <2>2. K8sType'
    BY <1>6, <2>1 DEF CreateCorrelation, K8sType
  <2> QED
    BY <1>6, <2>2 DEF CreateCorrelation, CtrlType, WorkerType, WorldType
<1>7. CASE CreateCorrelationFails
  BY <1>7 DEF CreateCorrelationFails, K8sType, CtrlType, WorkerType, WorldType
<1>8. CASE FillCorrelation
  <2> DEFINE Correlation == [slo : SLOs, owner : Nat, at : Nat, boot : Nat, filled : BOOLEAN]
  <2>1. corrs' \subseteq Correlation
    <3>1. corrs \subseteq Correlation
      BY DEF K8sType
    <3>2. \A c \in Correlation : [c EXCEPT !.filled = TRUE] \in Correlation
      OBVIOUS
    <3> HIDE DEF Correlation
    <3> QED
      BY <1>8, <3>1, <3>2 DEF FillCorrelation
  <2>2. K8sType'
    BY <1>8, <2>1 DEF FillCorrelation, K8sType
  <2> QED
    BY <1>8, <2>2 DEF FillCorrelation, CtrlType, WorkerType, WorldType
<1>9. CASE WriteStatus
  <2>1. NewStatus \in Status
    BY DEF NewStatus, Status, WorkerType, WorldType
  <2>2. DOMAIN api' \subseteq SLOs /\ api' \in [DOMAIN api' -> SLOObject]
    <3> DEFINE new == [api[obj.slo] EXCEPT !.status = NewStatus]
    <3>1. DOMAIN api \subseteq SLOs /\ api \in [DOMAIN api -> SLOObject]
      BY DEF K8sType
    <3>2. obj.slo \in DOMAIN api => new \in SLOObject
      BY <2>1, <3>1 DEF SLOObject
    <3>3. api' = [api EXCEPT ![obj.slo] = new]
      BY <1>9 DEF WriteStatus
    <3> HIDE DEF new
    <3> QED
      BY <3>1, <3>2, <3>3, UpdateType
  <2>3. CtrlType'
    BY <1>9 DEF WriteStatus, Return, CtrlType, WorkerType
  <2> QED
    BY <1>9, <2>2, <2>3, IdleType DEF WriteStatus, Return, K8sType, WorldType
<1>10. CASE WriteStatusFails
  BY <1>10, IdleType DEF WriteStatusFails, Return, K8sType, CtrlType, WorkerType, WorldType
<1> QED
  BY <1>1, <1>2, <1>3, <1>4, <1>5, <1>6, <1>7, <1>8, <1>9, <1>10 DEF Reconcile

\* Every variable of the controller keeps its shape.
THEOREM TypeCorrect == Spec => []TypeOK
<1>1. Init => TypeOK
  <2> SUFFICES ASSUME Init PROVE TypeOK
    OBVIOUS
  <2>1. K8sType
    BY DEF Init, K8sType, Empty
  <2>2. CtrlType
    BY DEF Init, CtrlType, Empty
  <2>3. WorkerType
    BY DEF Init, WorkerType, NoObj, NoResult, NoSpike, StatusPhases, Reasons, AllKinds
  <2>4. WorldType
    BY DEF Init, WorldType, Empty
  <2> QED
    BY <2>1, <2>2, <2>3, <2>4 DEF TypeOK
<1>2. TypeOK /\ [Next]_vars => TypeOK'
  <2> SUFFICES ASSUME TypeOK, [Next]_vars PROVE TypeOK'
    OBVIOUS
  <2> USE DEF k8s, ctrl, worker, world
  <2>1. ASSUME NEW s \in SLOs, NEW kind \in Kinds, CreateSLO(s, kind) \/ EditSLO(s, kind)
        PROVE  TypeOK'
    BY <2>1, UserTypes
  <2>2. ASSUME NEW s \in SLOs, DeleteSLO(s) PROVE TypeOK'
    BY <2>2, UserTypes
  <2>3. ASSUME NEW s \in SLOs,
               CollectRule(s) \/ Deliver(s) \/ TimerFires(s) \/ Get(s) \/ GetNotFound(s)
        PROVE  TypeOK'
    BY <2>3, CtrlTypes
  <2>4. ASSUME NEW c \in corrs, CollectCorrelation(c) PROVE TypeOK'
    BY <2>4 DEF CollectCorrelation, TypeOK, K8sType, CtrlType, WorkerType, WorldType
  <2>5. CASE Crash
    BY <2>5, IdleType DEF Crash, Empty, TypeOK, K8sType, CtrlType, WorldType
  <2>6. CASE Reconcile
    BY <2>6, ReconcileTypes
  <2>7. CASE Tick
    BY <2>7 DEF Tick, TypeOK, K8sType, CtrlType, WorkerType, WorldType
  <2>8. CASE TurbulenceEnds
    BY <2>8 DEF TurbulenceEnds, TypeOK, K8sType, CtrlType, WorkerType, WorldType
  <2>9. CASE UNCHANGED vars
    BY <2>9 DEF vars, TypeOK, K8sType, CtrlType, WorkerType, WorldType
  <2> QED
    BY <2>1, <2>2, <2>3, <2>4, <2>5, <2>6, <2>7, <2>8, <2>9 DEF Next
<1> QED
  BY <1>1, <1>2, PTL DEF Spec

-----------------------------------------------------------------------------
(***************************************************************************)
(* No SLO is forgotten, and no status lands on another spec.               *)
(***************************************************************************)
\* GetNotFound drops an SLO without a requeue; that forgets nothing only because
\* a cache that lacks an existing SLO has an event on its way.
WatchInv == NeverForgotten /\ CacheCurrent /\ CopyCurrent

\* A step that leaves the store, the cache and the pending events alone, drops
\* nothing from queue and timers and does not change which SLO the worker holds.
LEMMA QuietStep ==
    ASSUME WatchInv, UNCHANGED <<api, pending, cache, obj>>,
           queue \subseteq queue', timers \subseteq timers', pc' # "idle" \/ pc = "idle"
    PROVE  WatchInv'
BY DEF WatchInv, NeverForgotten, CacheCurrent, CopyCurrent

\* A pass that ends leaves a timer for its SLO.
LEMMA ReturnStep ==
    ASSUME WatchInv, TypeOK, Return(TRUE), obj' = NoObj,
           UNCHANGED <<api, cache, queue, pending>>
    PROVE  WatchInv'
<1>1. timers' = timers \cup {obj.slo}
  BY DEF Return
<1>2. NeverForgotten'
  BY <1>1 DEF WatchInv, NeverForgotten
<1> QED
  BY <1>2 DEF WatchInv, CacheCurrent, CopyCurrent, NoObj

\* A user's write is announced by an event and outdates the worker's copy.
LEMMA UserWriteStep ==
    ASSUME WatchInv, TypeOK, NEW s \in SLOs, UserWrite(s),
           DOMAIN api' \subseteq DOMAIN api \cup {s},
           \A t \in SLOs : t # s => /\ t \in DOMAIN api <=> t \in DOMAIN api'
                                    /\ t \in DOMAIN api => api'[t] = api[t]
    PROVE  WatchInv'
<1> USE DEF UserWrite, Changed
<1>0. DOMAIN api \subseteq SLOs
  BY DEF TypeOK, K8sType
<1>1. NeverForgotten'
  <2> SUFFICES ASSUME NEW t \in DOMAIN api'
               PROVE  t \in pending' \/ t \in queue' \/ t \in timers' \/ (pc' # "idle" /\ obj'.slo = t)
    BY DEF NeverForgotten
  <2>1. obj'.slo = obj.slo
    BY DEF TypeOK, WorkerType
  <2> QED
    BY <1>0, <2>1 DEF WatchInv, NeverForgotten
<1>2. CacheCurrent'
  BY DEF WatchInv, CacheCurrent
<1>3. CopyCurrent'
  <2>1. CASE obj.slo = s
    <3>1. obj'.fresh = FALSE
      BY <2>1 DEF TypeOK, WorkerType
    <3> QED
      BY <3>1 DEF CopyCurrent
  <2>2. CASE obj.slo # s
    BY <1>0, <2>2 DEF WatchInv, CopyCurrent
  <2> QED
    BY <2>1, <2>2
<1> QED
  BY <1>1, <1>2, <1>3 DEF WatchInv

\* The only step of the worker that writes an SLO.
LEMMA WriteStatusStep ==
    ASSUME WatchInv, TypeOK, WriteStatus
    PROVE  WatchInv'
<1> DEFINE s == obj.slo
<1>1. /\ s \in DOMAIN api /\ DOMAIN api' = DOMAIN api
      /\ \A t \in DOMAIN api : t # s => api'[t] = api[t]
      /\ api'[s].version = api[s].version
  BY DEF WriteStatus, WatchInv, CopyCurrent, TypeOK, K8sType, SLOObject
<1>2. pending \subseteq pending' /\ pending' \subseteq pending \cup {s}
      /\ timers' = timers \cup {s} /\ UNCHANGED <<cache, queue>>
  BY DEF WriteStatus, Return
<1>3. NeverForgotten'
  BY <1>1, <1>2 DEF WatchInv, NeverForgotten
<1>4. CacheCurrent'
  <2> SUFFICES ASSUME NEW t \in SLOs \ pending'
               PROVE  /\ t \in DOMAIN api' <=> t \in DOMAIN cache'
                      /\ t \in DOMAIN api' => cache'[t].version = api'[t].version
    BY DEF CacheCurrent
  <2>1. t \in SLOs \ pending
    BY <1>2
  <2>2. t \in DOMAIN api => api'[t].version = api[t].version
    BY <1>1
  <2> QED
    BY <1>1, <1>2, <2>1, <2>2 DEF WatchInv, CacheCurrent
<1>5. CopyCurrent'
  BY DEF WriteStatus, CopyCurrent, NoObj
<1> QED
  BY <1>3, <1>4, <1>5 DEF WatchInv

THEOREM WatchInvHolds == Spec => []WatchInv
<1>1. Init => WatchInv
  BY DEF Init, Empty, NoObj, WatchInv, NeverForgotten, CacheCurrent, CopyCurrent
<1>2. TypeOK /\ WatchInv /\ [Next]_vars => WatchInv'
  <2> SUFFICES ASSUME TypeOK, WatchInv, [Next]_vars PROVE WatchInv'
    OBVIOUS
  <2> USE DEF k8s, ctrl, worker, world
  <2>1. ASSUME NEW s \in SLOs, NEW kind \in Kinds, CreateSLO(s, kind) PROVE WatchInv'
    BY <2>1, UserWriteStep DEF CreateSLO, Extend
  <2>2. ASSUME NEW s \in SLOs, NEW kind \in Kinds, EditSLO(s, kind) PROVE WatchInv'
    BY <2>2, UserWriteStep DEF EditSLO
  <2>3. ASSUME NEW s \in SLOs, DeleteSLO(s) PROVE WatchInv'
    BY <2>3, UserWriteStep DEF DeleteSLO, Drop
  <2>4. ASSUME NEW s \in SLOs, CollectRule(s) PROVE WatchInv'
    BY <2>4, QuietStep DEF CollectRule
  <2>5. ASSUME NEW s \in SLOs, Deliver(s) PROVE WatchInv'
    <3>1. NeverForgotten'
      BY <2>5 DEF Deliver, WatchInv, NeverForgotten
    <3>2. CacheCurrent'
      <4>1. CASE s \in DOMAIN api
        BY <2>5, <4>1 DEF Deliver, Extend, WatchInv, CacheCurrent
      <4>2. CASE s \notin DOMAIN api
        BY <2>5, <4>2 DEF Deliver, Drop, WatchInv, CacheCurrent
      <4> QED
        BY <4>1, <4>2
    <3> QED
      BY <2>5, <3>1, <3>2 DEF Deliver, WatchInv, CopyCurrent
  <2>6. ASSUME NEW s \in SLOs, TimerFires(s) PROVE WatchInv'
    BY <2>6 DEF TimerFires, WatchInv, NeverForgotten, CacheCurrent, CopyCurrent
  <2>7. ASSUME NEW s \in SLOs, Get(s) PROVE WatchInv'
    <3>1. obj'.slo = s /\ obj'.version = cache[s].version /\ (obj'.fresh <=> s \notin pending)
      BY <2>7 DEF Get
    <3>2. NeverForgotten'
      BY <2>7, <3>1 DEF Get, WatchInv, NeverForgotten
    <3>3. CopyCurrent'
      BY <2>7, <3>1 DEF Get, WatchInv, CacheCurrent, CopyCurrent
    <3> QED
      BY <2>7, <3>2, <3>3 DEF Get, WatchInv, CacheCurrent
  <2>8. ASSUME NEW s \in SLOs, GetNotFound(s) PROVE WatchInv'
    <3>1. s \in DOMAIN api => s \in pending
      BY <2>8 DEF GetNotFound, WatchInv, CacheCurrent
    <3> QED
      BY <2>8, <3>1 DEF GetNotFound, WatchInv, NeverForgotten, CacheCurrent, CopyCurrent
  <2>9. ASSUME NEW c \in corrs, CollectCorrelation(c) PROVE WatchInv'
    BY <2>9, QuietStep DEF CollectCorrelation
  <2>10. CASE Crash
    BY <2>10 DEF Crash, Empty, NoObj, WatchInv, NeverForgotten, CacheCurrent, CopyCurrent
  <2>11. CASE Reconcile
    <3>1. CASE CheckConnectionFails \/ WriteStatusFails
      BY <3>1, ReturnStep DEF CheckConnectionFails, WriteStatusFails
    <3>2. CASE WriteStatus
      BY <3>2, WriteStatusStep
    <3>3. ASSUME NEW sample \in Samples, Query(sample) PROVE WatchInv'
      <4>1. pc' # "idle"
        BY <3>3 DEF Query, QueryFails, CalculationFails, Computes
      <4> QED
        BY <3>3, <4>1, QuietStep DEF Query
    <3>4. CASE \/ CheckConnection \/ WriteRule \/ SkipRule \/ CreateCorrelation
               \/ CreateCorrelationFails \/ FillCorrelation
      BY <3>4, QuietStep DEF CheckConnection, WriteRule, SkipRule, CreateCorrelation,
                             CreateCorrelationFails, FillCorrelation
    <3> QED
      BY <2>11, <3>1, <3>2, <3>3, <3>4 DEF Reconcile
  <2>12. CASE Tick \/ TurbulenceEnds
    BY <2>12, QuietStep DEF Tick, TurbulenceEnds
  <2>13. CASE UNCHANGED vars
    BY <2>13, QuietStep DEF vars
  <2> QED
    BY <2>1, <2>2, <2>3, <2>4, <2>5, <2>6, <2>7, <2>8, <2>9, <2>10, <2>11, <2>12,
       <2>13 DEF Next
<1> QED
  BY <1>1, <1>2, TypeCorrect, PTL DEF Spec

\* An SLO that exists is always on some path back to the worker.
THEOREM NoSLOIsForgotten == Spec => []NeverForgotten
BY WatchInvHolds, PTL DEF WatchInv

\* A successful status write is for the spec the object has at that moment.
THEOREM StatusIsOfCurrentSpec == Spec => StatusMatchesSpec
<1> DEFINE Good == \A s \in DOMAIN api \cap DOMAIN api' :
                     api'[s].status # api[s].status => api'[s].status.spec = api'[s].version
<1>1. TypeOK /\ WatchInv /\ [Next]_vars => [Good]_vars
  <2> SUFFICES ASSUME TypeOK, WatchInv, Next PROVE Good
    OBVIOUS
  <2> USE DEF k8s, ctrl, worker, world
  <2>0. DOMAIN api \subseteq SLOs /\ api \in [DOMAIN api -> SLOObject]
    BY DEF TypeOK, K8sType
  <2>1. CASE UNCHANGED api
    BY <2>1
  <2>2. ASSUME NEW s \in SLOs, NEW kind \in Kinds, CreateSLO(s, kind) PROVE Good
    BY <2>2 DEF CreateSLO, Extend
  <2>3. ASSUME NEW s \in SLOs, NEW kind \in Kinds, EditSLO(s, kind) PROVE Good
    BY <2>0, <2>3 DEF EditSLO, SLOObject
  <2>4. ASSUME NEW s \in SLOs, DeleteSLO(s) PROVE Good
    BY <2>4 DEF DeleteSLO, Drop
  <2>5. CASE WriteStatus
    <3>1. obj.slo \in DOMAIN api /\ api[obj.slo].version = obj.version
      BY <2>5 DEF WriteStatus, WatchInv, CopyCurrent
    <3>2. /\ api'[obj.slo].status.spec = obj.version
          /\ api'[obj.slo].version = obj.version
          /\ \A t \in DOMAIN api : t # obj.slo => api'[t] = api[t]
      BY <2>0, <2>5, <3>1 DEF WriteStatus, NewStatus, SLOObject
    <3> QED
      BY <3>1, <3>2
  <2>6. CASE Reconcile
    BY <2>1, <2>5, <2>6 DEF Reconcile, CheckConnection, CheckConnectionFails, WriteRule,
       SkipRule, Query, CreateCorrelation, CreateCorrelationFails, FillCorrelation,
       WriteStatusFails
  <2> QED
    BY <2>1, <2>2, <2>3, <2>4, <2>6 DEF Next, CollectRule, Deliver, TimerFires, Get,
       GetNotFound, CollectCorrelation, Crash, Tick, TurbulenceEnds
<1> QED
  BY <1>1, TypeCorrect, WatchInvHolds, PTL DEF Spec, StatusMatchesSpec

-----------------------------------------------------------------------------
(***************************************************************************)
(* Correlations keep their distance.                                       *)
(***************************************************************************)
\* What the detector remembers bounds the correlations of this run of the
\* operator: none is later than the last detection of its SLO, and while a newly
\* detected spike is on its way into an SLOCorrelation, the earlier ones of that
\* SLO are a cooldown away from it.
DetectorBoundsCorrelations ==
    /\ \A c \in corrs :
        /\ c.boot <= boots
        /\ c.boot = boots => c.slo \in DOMAIN states /\ c.at <= states[c.slo].last
    /\ \A s \in DOMAIN states : states[s].last <= now
    /\ pc = "correlate" =>
        /\ obj.slo \in DOMAIN states /\ states[obj.slo].last = spike
        /\ \A c \in corrs : (c.slo = obj.slo /\ c.boot = boots) => spike - c.at >= Cooldown

CorrInv == DetectorBoundsCorrelations /\ CorrelationsSpaced

\* Steps that neither create a correlation nor touch the detector.
LEMMA CorrQuietStep ==
    ASSUME CorrInv, corrs' \subseteq corrs, UNCHANGED <<states, boots>>,
           now <= now', TypeOK, now' \in Nat,
           pc' # "correlate" \/ (UNCHANGED <<pc, spike>> /\ obj'.slo = obj.slo)
    PROVE  CorrInv'
<1>1. \A s \in DOMAIN states' : states'[s].last <= now'
  BY DEF CorrInv, DetectorBoundsCorrelations, TypeOK, WorldType
<1>2. DetectorBoundsCorrelations'
  BY <1>1 DEF CorrInv, DetectorBoundsCorrelations
<1> QED
  BY <1>2 DEF CorrInv, CorrelationsSpaced

\* The detector is fed: a detection is a cooldown after the last one, hence
\* after every correlation of the SLO.
LEMMA CorrQueryStep ==
    ASSUME CorrInv, TypeOK, NEW sample \in Samples, Query(sample)
    PROVE  CorrInv'
<1> USE DEF k8s, ctrl, world
<1>1. UNCHANGED <<corrs, boots, now, obj>> /\ pc = "query" /\ CorrelationsSpaced'
  BY DEF Query, CorrInv, CorrelationsSpaced
<1>2. CASE QueryFails(sample) \/ CalculationFails(sample)
  <2>1. pc' = "write" /\ UNCHANGED states
    BY <1>2 DEF QueryFails, CalculationFails
  <2> QED
    BY <1>1, <2>1, CorrQuietStep DEF TypeOK, WorldType
<1>3. CASE Computes(sample)
  <2> DEFINE s == obj.slo
             rate == FirstShortBurnRate(sample.burnRates)
             fed == DOMAIN sample.burnRates # {}
             detected == fed /\ s \in DOMAIN states /\ Detected(states[s], rate, now)
  <2>1. /\ now \in Nat /\ Cooldown \in Nat /\ ZeroTime = 0 - Cooldown
        /\ \A t \in DOMAIN states : states[t].last \in Int
        /\ \A c \in corrs : c.at \in Nat
    BY CooldownAssumption DEF TypeOK, WorldType, K8sType, ZeroTime
  <2>2. CASE detected
    <3>1. now - states[s].last >= Cooldown
      BY <2>1, <2>2 DEF Detected, InCooldown
    <3>2. /\ s \in DOMAIN states /\ DOMAIN states' = DOMAIN states
          /\ states'[s].last = now /\ spike' = now
          /\ \A t \in DOMAIN states : t # s => states'[t] = states[t]
      BY <1>3, <2>2 DEF Computes, UpdatedState
    <3>3. \A c \in corrs : (c.slo = s /\ c.boot = boots) => now - c.at >= Cooldown
      BY <2>1, <3>1, <3>2 DEF CorrInv, DetectorBoundsCorrelations
    <3>4. \A c \in corrs : c.boot = boots => c.slo \in DOMAIN states' /\ c.at <= states'[c.slo].last
      BY <2>1, <3>2, <3>3 DEF CorrInv, DetectorBoundsCorrelations
    <3>5. \A t \in DOMAIN states' : states'[t].last <= now
      BY <2>1, <3>2 DEF CorrInv, DetectorBoundsCorrelations
    <3> QED
      BY <1>1, <3>2, <3>3, <3>4, <3>5 DEF CorrInv, DetectorBoundsCorrelations
  <2>3. CASE ~detected
    <3>1. pc' = "write"
      BY <1>3, <2>3 DEF Computes
    <3>2. /\ DOMAIN states \subseteq DOMAIN states'
          /\ \A t \in DOMAIN states : states'[t].last = states[t].last
          /\ \A t \in DOMAIN states' \ DOMAIN states : states'[t].last = ZeroTime
      <4>1. CASE states' = states
        BY <4>1
      <4>2. CASE s \notin DOMAIN states /\ states' = Extend(states, s, NewState(rate))
        BY <4>2 DEF Extend, NewState
      <4>3. CASE /\ fed /\ s \in DOMAIN states
                 /\ states' = [states EXCEPT ![s] = UpdatedState(states[s], rate, now)]
        BY <2>3, <4>3 DEF UpdatedState
      <4> QED
        BY <1>3, <4>1, <4>2, <4>3 DEF Computes
    <3>3. \A t \in DOMAIN states' : states'[t].last <= now
      BY <2>1, <3>2 DEF CorrInv, DetectorBoundsCorrelations
    <3> QED
      BY <1>1, <3>1, <3>2, <3>3 DEF CorrInv, DetectorBoundsCorrelations
  <2> QED
    BY <2>2, <2>3
<1> QED
  BY <1>2, <1>3 DEF Query

LEMMA CorrCreateStep ==
    ASSUME CorrInv, TypeOK, CreateCorrelation
    PROVE  CorrInv'
<1> DEFINE new == [slo |-> obj.slo, owner |-> obj.uid, at |-> spike, boot |-> boots,
                   filled |-> FALSE]
<1> USE DEF k8s, ctrl, world
<1>1. /\ corrs' = corrs \cup {new} /\ pc = "correlate" /\ pc' = "fill"
      /\ UNCHANGED <<states, boots, now, obj, spike>>
  BY DEF CreateCorrelation
<1>2. /\ spike \in Nat /\ boots \in Nat /\ Cooldown \in Nat
      /\ \A c \in corrs : c.at \in Nat
  BY <1>1, CooldownAssumption DEF TypeOK, WorkerType, WorldType, K8sType
<1>3. \A c \in corrs : (c.slo = new.slo /\ c.boot = new.boot) => new.at - c.at >= Cooldown
  BY <1>1 DEF CorrInv, DetectorBoundsCorrelations
<1>4. CorrelationsSpaced'
  BY <1>1, <1>2, <1>3 DEF CorrInv, CorrelationsSpaced
<1>5. DetectorBoundsCorrelations'
  BY <1>1, <1>2 DEF CorrInv, DetectorBoundsCorrelations
<1> QED
  BY <1>4, <1>5 DEF CorrInv

THEOREM CorrInvHolds == Spec => []CorrInv
<1>1. Init => CorrInv
  BY DEF Init, Empty, CorrInv, DetectorBoundsCorrelations, CorrelationsSpaced
<1>2. TypeOK /\ CorrInv /\ [Next]_vars => CorrInv'
  <2> SUFFICES ASSUME TypeOK, CorrInv, [Next]_vars PROVE CorrInv'
    OBVIOUS
  <2> USE DEF k8s, ctrl, worker, world
  <2>0. now \in Nat /\ now <= now
    BY DEF TypeOK, WorldType
  <2>1. ASSUME NEW s \in SLOs, UserWrite(s) PROVE CorrInv'
    BY <2>0, <2>1, CorrQuietStep DEF UserWrite, Changed, TypeOK, WorkerType
  <2>2. ASSUME NEW s \in SLOs, CollectRule(s) \/ Deliver(s) \/ TimerFires(s) \/ GetNotFound(s)
        PROVE  CorrInv'
    BY <2>0, <2>2, CorrQuietStep DEF CollectRule, Deliver, TimerFires, GetNotFound
  <2>3. ASSUME NEW s \in SLOs, Get(s) PROVE CorrInv'
    <3>1. pc' # "correlate" /\ corrs' \subseteq corrs /\ UNCHANGED <<states, boots>> /\ now' = now
      BY <2>3 DEF Get
    <3> QED
      BY <2>0, <3>1, CorrQuietStep
  <2>4. ASSUME NEW c \in corrs, CollectCorrelation(c) PROVE CorrInv'
    BY <2>0, <2>4, CorrQuietStep DEF CollectCorrelation
  <2>5. CASE Crash
    BY <2>5 DEF Crash, Empty, CorrInv, DetectorBoundsCorrelations, CorrelationsSpaced,
                TypeOK, WorldType, K8sType
  <2>6. CASE Reconcile
    <3>1. ASSUME NEW sample \in Samples, Query(sample) PROVE CorrInv'
      BY <3>1, CorrQueryStep
    <3>2. CASE CreateCorrelation
      BY <3>2, CorrCreateStep
    <3>3. CASE FillCorrelation
      <4>1. CASE UNCHANGED corrs
        BY <2>0, <3>3, <4>1, CorrQuietStep DEF FillCorrelation
      <4>2. CASE corrs' = {IF SameName(c) THEN [c EXCEPT !.filled = TRUE] ELSE c : c \in corrs}
        <5>1. \A d \in corrs' : \E c \in corrs : d.slo = c.slo /\ d.at = c.at /\ d.boot = c.boot
          <6> SUFFICES ASSUME NEW c \in corrs
                       PROVE  LET d == IF SameName(c) THEN [c EXCEPT !.filled = TRUE] ELSE c
                              IN  d.slo = c.slo /\ d.at = c.at /\ d.boot = c.boot
            BY <4>2
          <6> QED
            BY DEF TypeOK, K8sType
        <5>2. pc' = "write" /\ UNCHANGED <<states, boots, now>>
          BY <3>3 DEF FillCorrelation
        <5> QED
          BY <5>1, <5>2 DEF CorrInv, DetectorBoundsCorrelations, CorrelationsSpaced
      <4> QED
        BY <3>3, <4>1, <4>2 DEF FillCorrelation
    <3>4. CASE \/ CheckConnection \/ CheckConnectionFails \/ WriteRule \/ SkipRule
               \/ CreateCorrelationFails \/ WriteStatus \/ WriteStatusFails
      <4>1. pc' # "correlate" /\ corrs' \subseteq corrs /\ UNCHANGED <<states, boots>> /\ now' = now
        BY <3>4 DEF CheckConnection, CheckConnectionFails, WriteRule,
           SkipRule, CreateCorrelationFails, WriteStatus, WriteStatusFails, Return
      <4> QED
        BY <2>0, <4>1, CorrQuietStep
    <3> QED
      BY <2>6, <3>1, <3>2, <3>3, <3>4 DEF Reconcile
  <2>7. CASE Tick
    BY <2>0, <2>7, CorrQuietStep DEF Tick
  <2>8. CASE TurbulenceEnds
    BY <2>0, <2>8, CorrQuietStep DEF TurbulenceEnds
  <2>9. CASE UNCHANGED vars
    BY <2>0, <2>9, CorrQuietStep DEF vars
  <2> QED
    BY <2>1, <2>2, <2>3, <2>4, <2>5, <2>6, <2>7, <2>8, <2>9
       DEF Next, CreateSLO, EditSLO, DeleteSLO
<1> QED
  BY <1>1, <1>2, TypeCorrect, PTL DEF Spec

\* Within one run of the operator two correlations of an SLO are a cooldown apart.
THEOREM CorrelationsKeepDistance == Spec => []CorrelationsSpaced
BY CorrInvHolds, PTL DEF CorrInv

-----------------------------------------------------------------------------
(***************************************************************************)
(* The detector inside the controller.                                     *)
(***************************************************************************)
\* A reconcile that computes feeds the detector once: the gate of its SLO opens
\* if the spike is reported, and is left alone otherwise, also the first time
\* the SLO is seen.
LEMMA ComputesFiresOnce ==
    ASSUME TypeOK, NEW sample \in Samples, Computes(sample), now' = now, obj.slo \in SLOs,
           NEW gate, gate = [s \in SLOs |-> IF s \in DOMAIN states THEN states[s].last ELSE ZeroTime],
           NEW gatep, gatep = [s \in SLOs |-> IF s \in DOMAIN states' THEN states'[s].last ELSE ZeroTime]
    PROVE  \/ gatep = gate
           \/ now - gate[obj.slo] >= Cooldown /\ gatep = [gate EXCEPT ![obj.slo] = now]
<1> DEFINE s == obj.slo
           rate == FirstShortBurnRate(sample.burnRates)
<1>1. CASE states' = states
  BY <1>1
<1>2. CASE s \notin DOMAIN states /\ states' = Extend(states, s, NewState(rate))
  <2>1. /\ DOMAIN states' = DOMAIN states \cup {s} /\ states'[s].last = ZeroTime
        /\ \A t \in DOMAIN states : states'[t] = states[t]
    <3>1. NewState(rate).last = ZeroTime
      BY DEF NewState
    <3> QED
      BY <1>2, <3>1 DEF Extend
  <2>2. \A t \in SLOs : gatep[t] = gate[t]
    BY <1>2, <2>1
  <2> QED
    BY <2>2
<1>3. CASE /\ s \in DOMAIN states
           /\ states' = [states EXCEPT ![s] = UpdatedState(states[s], rate, now)]
  <2>1. /\ DOMAIN states' = DOMAIN states
        /\ states'[s].last = IF Detected(states[s], rate, now) THEN now ELSE states[s].last
        /\ \A t \in DOMAIN states : t # s => states'[t] = states[t]
    BY <1>3 DEF UpdatedState
  <2>2. CASE Detected(states[s], rate, now)
    <3>1. now - gate[s] >= Cooldown
      BY <1>3, <2>2, CooldownAssumption DEF Detected, InCooldown, TypeOK, WorldType
    <3>2. gatep = [gate EXCEPT ![s] = now]
      BY <1>3, <2>1, <2>2
    <3> QED
      BY <3>1, <3>2
  <2>3. CASE ~Detected(states[s], rate, now)
    <3>1. \A t \in SLOs : gatep[t] = gate[t]
      BY <1>3, <2>1, <2>3
    <3> QED
      BY <3>1
  <2> QED
    BY <2>2, <2>3
<1> QED
  BY <1>1, <1>2, <1>3 DEF Computes

\* Deletion, re-creation, failed writes and conflicts never open a gate early;
\* a crash, and only a crash, wipes the memory of the gates.
THEOREM ControllerImplementsGate == Spec => GateSpec
<1> DEFINE gate == [s \in SLOs |-> IF s \in DOMAIN states THEN states[s].last ELSE ZeroTime]
           epochs == [s \in SLOs |-> boots]
<1> USE DEF Gate!ZeroTime, ZeroTime
<1>1. Init => Gate!Init
  BY DEF Init, Empty, Gate!Init
<1>2. TypeOK /\ [Next]_vars => [Gate!Next]_<<now, gate, epochs>>
  <2> SUFFICES ASSUME TypeOK, [Next]_vars PROVE [Gate!Next]_<<now, gate, epochs>>
    OBVIOUS
  <2> USE DEF k8s, ctrl, worker, world
  <2>1. ASSUME NEW s \in SLOs,
               \/ UserWrite(s) \/ CollectRule(s) \/ Deliver(s) \/ TimerFires(s)
               \/ Get(s) \/ GetNotFound(s)
        PROVE  UNCHANGED <<now, states, boots>>
    BY <2>1 DEF UserWrite, CollectRule, Deliver, TimerFires, Get, GetNotFound
  <2>2. ASSUME NEW c \in corrs, CollectCorrelation(c) PROVE UNCHANGED <<now, states, boots>>
    BY <2>2 DEF CollectCorrelation
  <2>3. ASSUME Crash PROVE Gate!Forget(SLOs)
    BY <2>3 DEF Crash, Empty, Gate!Forget
  <2>4. ASSUME NEW sample \in Samples, Query(sample)
        PROVE  Gate!Fire(obj.slo) \/ UNCHANGED <<now, gate, epochs>>
    <3>1. now' = now /\ boots' = boots
      BY <2>4 DEF Query
    <3>2. CASE Computes(sample)
      <4>1. obj.slo \in SLOs
        BY <2>4 DEF Query, TypeOK, WorkerType
      <4>2. \/ gate' = gate
            \/ now - gate[obj.slo] >= Cooldown /\ gate' = [gate EXCEPT ![obj.slo] = now]
        BY <3>1, <3>2, <4>1, ComputesFiresOnce
      <4> QED
        BY <3>1, <4>2 DEF Gate!Fire
    <3>3. CASE QueryFails(sample) \/ CalculationFails(sample)
      BY <3>1, <3>3 DEF QueryFails, CalculationFails
    <3> QED
      BY <2>4, <3>2, <3>3 DEF Query
  <2>5. ASSUME \/ CheckConnection \/ CheckConnectionFails \/ WriteRule \/ SkipRule
               \/ CreateCorrelation \/ CreateCorrelationFails \/ FillCorrelation
               \/ WriteStatus \/ WriteStatusFails
        PROVE  UNCHANGED <<now, states, boots>>
    BY <2>5 DEF CheckConnection, CheckConnectionFails, WriteRule, SkipRule,
       CreateCorrelation, CreateCorrelationFails, FillCorrelation, WriteStatus, WriteStatusFails
  <2>6. ASSUME Tick PROVE Gate!Tick
    BY <2>6 DEF Tick, Gate!Tick
  <2>7. ASSUME TurbulenceEnds PROVE UNCHANGED <<now, states, boots>>
    BY <2>7 DEF TurbulenceEnds
  <2>8. ASSUME UNCHANGED <<now, states, boots>> PROVE UNCHANGED <<now, gate, epochs>>
    BY <2>8
  <2>9. CASE Reconcile
    <3>1. ASSUME NEW sample \in Samples, Query(sample) PROVE [Gate!Next]_<<now, gate, epochs>>
      <4>1. obj.slo \in SLOs
        BY <3>1 DEF Query, TypeOK, WorkerType
      <4>2. Gate!Fire(obj.slo) \/ UNCHANGED <<now, gate, epochs>>
        BY <2>4, <3>1
      <4> HIDE DEF gate, epochs
      <4>3. (\E s \in SLOs : Gate!Fire(s)) \/ UNCHANGED <<now, gate, epochs>>
        BY <4>1, <4>2 DEF Gate!Fire
      <4> QED
        BY <4>3 DEF Gate!Next
    <3> QED
      BY <2>5, <2>8, <2>9, <3>1 DEF Reconcile
  <2>10. CASE ~Reconcile
    BY <2>1, <2>2, <2>3, <2>6, <2>7, <2>8, <2>10
       DEF Next, vars, CreateSLO, EditSLO, DeleteSLO, Gate!Next
  <2> QED
    BY <2>9, <2>10
<1> QED
  BY <1>1, <1>2, TypeCorrect, PTL DEF Spec, GateSpec, Gate!Spec
=============================================================================
