------------------- MODULE SLOCompositionReconciler_proofs -------------------
(***************************************************************************)
(* For any number of compositions and SLOs, any specs and query results:   *)
(* the types of the controller, that it gives a composition up only for a  *)
(* missing SLO, that no status is written onto a spec it was not computed  *)
(* from, and that a stored rule composes the SLOs its spec refers to.      *)
(***************************************************************************)
EXTENDS SLOCompositionReconciler, Basics_proofs, SequenceTheorems

-----------------------------------------------------------------------------
(***************************************************************************)
(* The inductive invariant.                                                *)
(***************************************************************************)
\* Every copy of a spec, in the store, in the cache or in hand, was admitted.
AdmittedInv ==
    /\ \A c \in DOMAIN comps : Admitted(comps[c].spec)
    /\ \A c \in DOMAIN cache : Admitted(cache[c].spec)
    /\ pc # "idle" => obj.spec \in Specs /\ Admitted(obj.spec)

\* The SLOs fetched so far are those of the first objectives, in their order.
Matching(n) == \A i \in 1..n : fetched[i].slo = Refs(obj.spec)[i]

FetchInv ==
    /\ pc \in {"idle", "connect"} => fetched = <<>>
    /\ pc = "fetch" => Len(fetched) < Len(obj.spec.objectives) /\ Matching(Len(fetched))

\* A composition that lacks an SLO is unknown.
MissingIsUnknown == Missing => result.phase = "unknown"

\* What the watch cache says of a composition without an event under way is true, and
\* a copy the worker believes fresh has the stored version.
CacheCurrent ==
    \A c \in Compositions \ pending :
        /\ c \in DOMAIN comps <=> c \in DOMAIN cache
        /\ c \in DOMAIN comps => cache[c].version = comps[c].version

CopyCurrent ==
    obj.fresh => obj.comp \in DOMAIN comps /\ comps[obj.comp].version = obj.version

TypeInv == TypeOK /\ AdmittedInv /\ FetchInv

WatchInv == ForgottenOnlyIfMissing /\ MissingIsUnknown /\ CacheCurrent /\ CopyCurrent

IInv == TypeInv /\ WatchInv

-----------------------------------------------------------------------------
(***************************************************************************)
(* Facts about the operators.                                              *)
(***************************************************************************)
LEMMA PhaseType ==
    \A p, b : DetermineStatus(p, b) \in StatusPhases
BY DEF DetermineStatus, Phases, StatusPhases

LEMMA SpecType ==
    ASSUME NEW spec \in Specs
    PROVE  /\ spec.objectives \in Seq([name : STRING, ref : SLOs])
           /\ Len(spec.objectives) \in Nat /\ DOMAIN spec.objectives = 1..Len(spec.objectives)
           /\ DOMAIN Refs(spec) = 1..Len(spec.objectives)
           /\ \A i \in 1..Len(spec.objectives) :
                spec.objectives[i].ref \in SLOs /\ Refs(spec)[i] = spec.objectives[i].ref
           /\ spec.routes \in Seq([name : STRING, weight : Nat, chain : Seq(STRING)])
<1>1. /\ spec.objectives \in Seq([name : STRING, ref : SLOs])
      /\ spec.routes \in Seq([name : STRING, weight : Nat, chain : Seq(STRING)])
  BY CompositionAssumption
<1>2. /\ Len(spec.objectives) \in Nat /\ DOMAIN spec.objectives = 1..Len(spec.objectives)
  BY <1>1, LenProperties
<1>3. \A i \in 1..Len(spec.objectives) : spec.objectives[i] \in [name : STRING, ref : SLOs]
  BY <1>1, ElementOfSeq
<1> QED
  BY <1>1, <1>2, <1>3 DEF Refs

\* A spec that was admitted and passes the generator has no alias in a chain that
\* is not that of an SLO that was fetched.
LEMMA AliasesAreKnown ==
    ASSUME NEW spec \in Specs, Admitted(spec), NEW members, Generatable(spec, members),
           NEW i \in DOMAIN spec.routes, NEW j \in DOMAIN spec.routes[i].chain
    PROVE  spec.routes[i].chain[j] \in FetchedAliases(spec, members)
<1>1. CASE spec.type = "WEIGHTED_ROUTES"
  <2>1. /\ spec.routes[i] \in ToSet(spec.routes)
        /\ \A route \in ToSet(spec.routes) : ToSet(route.chain) \subseteq FetchedAliases(spec, members)
    BY <1>1 DEF Generatable, ToSet
  <2>2. spec.routes[i].chain[j] \in ToSet(spec.routes[i].chain)
    BY DEF ToSet
  <2> QED
    BY <2>1, <2>2
<1>2. CASE spec.type # "WEIGHTED_ROUTES"
  BY <1>2 DEF Admitted, ValidSchema
<1> QED
  BY <1>1, <1>2

\* An alias stands for an SLO that was fetched.
LEMMA AliasType ==
    ASSUME NEW spec \in Specs, NEW members \in Seq(Member),
           Len(members) = Len(spec.objectives), NEW alias \in FetchedAliases(spec, members)
    PROVE  aliasToSLO(spec, members)[alias] \in SLOs
<1> DEFINE n == Len(spec.objectives)
           places == {i \in DOMAIN members : spec.objectives[i].name = alias}
<1>1. n \in Nat /\ DOMAIN spec.objectives = 1..n /\ DOMAIN members = 1..n
  BY SpecType, LenProperties
<1>2. places \subseteq 1..n /\ places # {}
  BY <1>1 DEF FetchedAliases
<1>3. places \subseteq Nat /\ \A i \in places : i <= n
  BY <1>1, <1>2
<1> HIDE DEF places, n
<1>4. Max(places) \in 1..n
  BY <1>1, <1>2, <1>3, GreatestOf
<1>5. members[Max(places)] \in Member
  BY <1>1, <1>4, ElementOfSeq DEF n
<1> QED
  BY <1>5 DEF aliasToSLO, places, Member

LEMMA AggregateType ==
    ASSUME NEW spec \in Specs, Admitted(spec), NEW members \in Seq(Member),
           Generatable(spec, members), Len(members) = Len(spec.objectives)
    PROVE  CreateAggregatedPrometheusRule(spec, members) \in Aggregate
<1> DEFINE Chain(i) == [j \in DOMAIN spec.routes[i].chain |->
                            aliasToSLO(spec, members)[spec.routes[i].chain[j]]]
           routes == [i \in DOMAIN spec.routes |->
                        [weight |-> spec.routes[i].weight, slos |-> Chain(i)]]
           ids == {ObjectiveId[m.slo] : m \in ToSet(members)}
<1>1. ids \in SUBSET {ObjectiveId[s] : s \in DOMAIN ObjectiveId}
  <2>1. ASSUME NEW m \in ToSet(members) PROVE m.slo \in DOMAIN ObjectiveId
    <3>1. m \in Member
      BY <2>1, ElementOfSeq, LenProperties DEF ToSet
    <3> QED
      BY <3>1, CompositionAssumption DEF Member
  <2> QED
    BY <2>1
<1>2. /\ Len(spec.routes) \in Nat /\ DOMAIN spec.routes = 1..Len(spec.routes)
      /\ \A i \in DOMAIN spec.routes :
            spec.routes[i] \in [name : STRING, weight : Nat, chain : Seq(STRING)]
  BY SpecType, LenProperties, ElementOfSeq
<1>3. ASSUME NEW i \in DOMAIN spec.routes PROVE Chain(i) \in Seq(SLOs)
  <2>1. spec.routes[i].chain \in Seq(STRING)
    BY <1>2
  <2>2. /\ Len(spec.routes[i].chain) \in Nat
        /\ DOMAIN spec.routes[i].chain = 1..Len(spec.routes[i].chain)
    BY <2>1, LenProperties
  <2>3. \A j \in DOMAIN spec.routes[i].chain :
            aliasToSLO(spec, members)[spec.routes[i].chain[j]] \in SLOs
    BY AliasesAreKnown, AliasType
  <2>4. Chain(i) \in [1..Len(spec.routes[i].chain) -> SLOs]
    BY <2>2, <2>3
  <2> HIDE DEF Chain
  <2> QED
    BY <2>2, <2>4, SeqDef
<1> HIDE DEF Chain, ids
<1>4. routes \in [1..Len(spec.routes) -> [weight : Nat, slos : Seq(SLOs)]]
  BY <1>2, <1>3
<1>5. routes \in Seq([weight : Nat, slos : Seq(SLOs)])
  <2> DEFINE Route == [weight : Nat, slos : Seq(SLOs)]
             n == Len(spec.routes)
  <2>1. n \in Nat /\ routes \in [1..n -> Route]
    BY <1>2, <1>4
  <2> HIDE DEF routes, Route, n
  <2>2. routes \in Seq(Route)
    BY <2>1, SeqDef
  <2> QED
    BY <2>2 DEF Route
<1>6. [ids |-> ids, routes |-> routes] \in Aggregate
  <2> HIDE DEF routes
  <2> QED
    BY <1>1, <1>5 DEF Aggregate
<1> QED
  BY <1>6 DEF CreateAggregatedPrometheusRule, Chain, ids

-----------------------------------------------------------------------------
(***************************************************************************)
(* Types and admission, one lemma per group of actions.                    *)
(***************************************************************************)
\* A pass ends with the worker idle and empty-handed.
LEMMA IdleType ==
    ASSUME TypeInv, pc' = "idle", obj' = NoObj, fetched' = <<>>, result' = NoResult
    PROVE  WorkerType' /\ FetchInv' /\ (AdmittedInv' <=>
                /\ \A c \in DOMAIN comps' : Admitted(comps'[c].spec)
                /\ \A c \in DOMAIN cache' : Admitted(cache'[c].spec))
<1>1. WorkerType'
  <2>1. obj' \in [comp : Compositions \cup {NoComposition}, uid : Nat, version : Nat,
                  spec : Specs \cup {NoSpec}, fresh : BOOLEAN]
        /\ obj'.comp = NoComposition
    BY DEF NoObj
  <2>2. result' \in [phase : StatusPhases, reason : Causes, encodable : BOOLEAN]
    BY DEF NoResult, StatusPhases, Reasons, Causes
  <2>3. fetched' \in Seq(Member)
    OBVIOUS
  <2> QED
    BY <2>1, <2>2, <2>3 DEF WorkerType
<1> QED
  BY <1>1 DEF FetchInv, AdmittedInv

\* Writes to the store: what they leave in it has to have its type and to be admitted.
LEMMA UserWriteTypes ==
    ASSUME TypeInv, NEW c \in Compositions, UserWrite(c),
           DOMAIN comps' \subseteq Compositions, comps' \in [DOMAIN comps' -> Composition],
           \A d \in DOMAIN comps' : Admitted(comps'[d].spec)
    PROVE  TypeInv'
<1> USE DEF TypeInv, TypeOK, UserWrite
<1>1. /\ obj'.comp = obj.comp /\ obj'.spec = obj.spec
      /\ obj' \in [comp : Compositions \cup {NoComposition}, uid : Nat, version : Nat,
                   spec : Specs \cup {NoSpec}, fresh : BOOLEAN]
  BY DEF WorkerType
<1>2. K8sType' /\ CtrlType' /\ WorldType'
  BY DEF K8sType, CtrlType, WorldType, world
<1>3. WorkerType'
  BY <1>1 DEF WorkerType
<1>4. AdmittedInv'
  BY <1>1 DEF AdmittedInv
<1>5. FetchInv'
  BY <1>1 DEF FetchInv, Matching
<1> QED
  BY <1>2, <1>3, <1>4, <1>5

LEMMA UserTypes ==
    ASSUME TypeInv, NEW c \in Compositions,
           \/ DeleteComposition(c)
           \/ \E spec \in Specs : CreateComposition(c, spec) \/ EditComposition(c, spec)
    PROVE  TypeInv'
<1>1. /\ edits + 1 \in Nat
      /\ DOMAIN comps \subseteq Compositions /\ comps \in [DOMAIN comps -> Composition]
      /\ \A d \in DOMAIN comps : Admitted(comps[d].spec)
  BY DEF TypeInv, TypeOK, K8sType, AdmittedInv
<1>2. ASSUME NEW spec \in Specs, CreateComposition(c, spec) PROVE TypeInv'
  <2> DEFINE new == [uid |-> edits + 1, version |-> edits + 1, spec |-> spec, status |-> NoStatus]
  <2>1. new \in Composition /\ new.spec = spec
    BY <1>1 DEF Composition, NoStatus, Status, StatusPhases, Reasons, Causes
  <2>2. comps' = Extend(comps, c, new) /\ UserWrite(c) /\ Admitted(spec)
    BY <1>2 DEF CreateComposition
  <2> HIDE DEF new
  <2>3. DOMAIN comps' \subseteq Compositions /\ comps' \in [DOMAIN comps' -> Composition]
    BY <1>1, <2>1, <2>2, ExtendType
  <2>4. \A d \in DOMAIN comps' : Admitted(comps'[d].spec)
    BY <1>1, <2>1, <2>2 DEF Extend
  <2> QED
    BY <2>2, <2>3, <2>4, UserWriteTypes
<1>3. ASSUME NEW spec \in Specs, EditComposition(c, spec) PROVE TypeInv'
  <2> DEFINE new == [comps[c] EXCEPT !.version = edits + 1, !.spec = spec]
  <2>1. new \in Composition /\ new.spec = spec
    <3>1. comps[c] \in Composition
      BY <1>1, <1>3 DEF EditComposition
    <3> QED
      BY <1>1, <3>1 DEF Composition
  <2>2. comps' = [comps EXCEPT ![c] = new] /\ UserWrite(c) /\ Admitted(spec)
    BY <1>1, <1>3 DEF EditComposition
  <2> HIDE DEF new
  <2>3. DOMAIN comps' \subseteq Compositions /\ comps' \in [DOMAIN comps' -> Composition]
    BY <1>1, <2>1, <2>2, UpdateType
  <2>4. \A d \in DOMAIN comps' : Admitted(comps'[d].spec)
    BY <1>1, <2>1, <2>2
  <2> QED
    BY <2>2, <2>3, <2>4, UserWriteTypes
<1>4. CASE DeleteComposition(c)
  <2>1. /\ DOMAIN comps' \subseteq Compositions /\ comps' \in [DOMAIN comps' -> Composition]
    BY <1>1, <1>4, DropType DEF DeleteComposition
  <2>2. \A d \in DOMAIN comps' : Admitted(comps'[d].spec)
    BY <1>1, <1>4 DEF DeleteComposition, Drop
  <2> QED
    BY <1>4, <2>1, <2>2, UserWriteTypes DEF DeleteComposition
<1> QED
  BY <1>2, <1>3, <1>4

LEMMA SLOTypes ==
    ASSUME TypeInv, NEW s \in SLOs, WriteSLO(s) \/ SeeSLO(s)
    PROVE  TypeInv'
<1> USE DEF TypeInv, TypeOK, k8s, ctrl, worker, world
<1>1. DOMAIN slos \subseteq SLOs /\ slos \in [DOMAIN slos -> SLOObject] /\ sloEdits + 1 \in Nat
  BY DEF K8sType
<1>2. CASE WriteSLO(s)
  <2>1. DOMAIN slos' \subseteq SLOs /\ slos' \in [DOMAIN slos' -> SLOObject] /\ sloEdits' \in Nat
    <3> DEFINE new == [uid |-> IF s \in DOMAIN slos THEN slos[s].uid ELSE sloEdits + 1,
                       version |-> sloEdits + 1]
    <3>1. new \in SLOObject
      BY <1>1 DEF SLOObject
    <3>2. \/ slos' = Extend(slos, s, new)
          \/ slos' = Drop(slos, s)
      BY <1>2 DEF WriteSLO
    <3>3. sloEdits' \in Nat
      BY <1>1, <1>2 DEF WriteSLO
    <3> HIDE DEF new
    <3>4. CASE slos' = Extend(slos, s, new)
      BY <1>1, <3>1, <3>3, <3>4, ExtendType
    <3>5. CASE slos' = Drop(slos, s)
      BY <1>1, <3>3, <3>5, DropType
    <3> QED
      BY <3>2, <3>4, <3>5
  <2> QED
    BY <1>2, <2>1 DEF WriteSLO, K8sType, CtrlType, WorkerType, WorldType, AdmittedInv, FetchInv,
                      Matching
<1>3. CASE SeeSLO(s)
  <2>1. DOMAIN seen \subseteq SLOs /\ seen \in [DOMAIN seen -> SLOObject]
    BY DEF CtrlType
  <2>2. DOMAIN seen' \subseteq SLOs /\ seen' \in [DOMAIN seen' -> SLOObject]
    <3>1. CASE s \in DOMAIN slos
      <4>1. slos[s] \in SLOObject /\ seen' = Extend(seen, s, slos[s])
        BY <1>1, <1>3, <3>1 DEF SeeSLO
      <4> QED
        BY <2>1, <4>1, ExtendType
    <3>2. CASE s \notin DOMAIN slos
      BY <1>3, <2>1, <3>2, DropType DEF SeeSLO
    <3> QED
      BY <3>1, <3>2
  <2> QED
    BY <1>3, <2>2 DEF SeeSLO, K8sType, CtrlType, WorkerType, WorldType, AdmittedInv, FetchInv,
                      Matching
<1> QED
  BY <1>2, <1>3

LEMMA CtrlTypes ==
    ASSUME TypeInv, NEW c \in Compositions,
           CollectRule(c) \/ Deliver(c) \/ TimerFires(c) \/ Get(c) \/ GetNotFound(c)
    PROVE  TypeInv'
<1> USE DEF TypeInv, TypeOK, k8s, ctrl, worker, world
<1>1. CASE CollectRule(c)
  <2>1. DOMAIN rules' \subseteq Compositions /\ rules' \in [DOMAIN rules' -> Rule]
    BY <1>1, DropType DEF CollectRule, K8sType
  <2> QED
    BY <1>1, <2>1 DEF CollectRule, K8sType, CtrlType, WorkerType, WorldType, AdmittedInv, FetchInv,
                      Matching
<1>2. CASE Deliver(c)
  <2>1. DOMAIN cache \subseteq Compositions /\ cache \in [DOMAIN cache -> Entry]
    BY DEF CtrlType
  <2>2. /\ DOMAIN cache' \subseteq Compositions /\ cache' \in [DOMAIN cache' -> Entry]
        /\ \A d \in DOMAIN cache' : Admitted(cache'[d].spec)
    <3>1. CASE c \in DOMAIN comps
      <4>1. /\ Cached(c) \in Entry /\ Admitted(Cached(c).spec)
            /\ cache' = Extend(cache, c, Cached(c))
        BY <1>2, <3>1 DEF Deliver, Cached, Entry, Composition, K8sType, AdmittedInv
      <4>2. DOMAIN cache' \subseteq Compositions /\ cache' \in [DOMAIN cache' -> Entry]
        BY <2>1, <4>1, ExtendType
      <4> QED
        BY <4>1, <4>2 DEF Extend, AdmittedInv
    <3>2. CASE c \notin DOMAIN comps
      <4>1. cache' = Drop(cache, c)
        BY <1>2, <3>2 DEF Deliver
      <4>2. DOMAIN cache' \subseteq Compositions /\ cache' \in [DOMAIN cache' -> Entry]
        BY <2>1, <4>1, DropType
      <4> QED
        BY <4>1, <4>2 DEF Drop, AdmittedInv
    <3> QED
      BY <3>1, <3>2
  <2> QED
    BY <1>2, <2>2 DEF Deliver, K8sType, CtrlType, WorkerType, WorldType, AdmittedInv, FetchInv,
                      Matching
<1>3. CASE TimerFires(c)
  BY <1>3 DEF TimerFires, K8sType, CtrlType, WorkerType, WorldType, AdmittedInv, FetchInv, Matching
<1>4. CASE Get(c)
  <2>1. cache[c] \in Entry /\ Admitted(cache[c].spec)
    BY <1>4 DEF Get, CtrlType, AdmittedInv
  <2>2. obj'.comp = c /\ obj'.spec = cache[c].spec /\ obj'.spec \in Specs
    BY <1>4, <2>1 DEF Get, Entry
  <2>3. WorkerType'
    BY <1>4, <2>1, <2>2, CompositionAssumption DEF Get, WorkerType, Entry
  <2>4. AdmittedInv' /\ FetchInv'
    BY <1>4, <2>1, <2>2 DEF Get, AdmittedInv, FetchInv
  <2> QED
    BY <1>4, <2>3, <2>4 DEF Get, K8sType, CtrlType, WorldType
<1>5. CASE GetNotFound(c)
  BY <1>5 DEF GetNotFound, K8sType, CtrlType, WorkerType, WorldType, AdmittedInv, FetchInv, Matching
<1> QED
  BY <1>1, <1>2, <1>3, <1>4, <1>5

\* A fetch brings the next SLO of the list.
LEMMA FetchTypes ==
    ASSUME TypeInv, FetchSLO
    PROVE  TypeInv'
<1> USE DEF TypeInv, TypeOK, k8s, ctrl, world
<1> DEFINE n == Len(fetched)
           new == [slo |-> NextRef, uid |-> seen[NextRef].uid, version |-> seen[NextRef].version]
<1>1. /\ pc = "fetch" /\ obj.spec \in Specs /\ fetched \in Seq(Member) /\ n \in Nat
      /\ n < Len(obj.spec.objectives) /\ Matching(n)
  BY LenProperties DEF FetchSLO, WorkerType, AdmittedInv, FetchInv
<1>2. /\ Len(obj.spec.objectives) \in Nat
      /\ DOMAIN Refs(obj.spec) = 1..Len(obj.spec.objectives) /\ NextRef \in SLOs
  <2>1. n + 1 \in 1..Len(obj.spec.objectives)
    BY <1>1, SpecType
  <2> QED
    BY <1>1, <2>1, SpecType DEF NextRef
<1>3. new \in Member /\ new.slo = Refs(obj.spec)[n + 1]
  <2>1. seen[NextRef] \in SLOObject
    BY DEF FetchSLO, CtrlType
  <2> QED
    BY <1>2, <2>1 DEF Member, SLOObject, NextRef
<1>4. fetched' = Append(fetched, new) /\ UNCHANGED <<obj, result>> /\ pc' = AfterFetch(Len(fetched'))
  BY DEF FetchSLO
<1> HIDE DEF n, new
<1>5. /\ fetched' \in Seq(Member) /\ Len(fetched') = n + 1
      /\ fetched'[n + 1] = new /\ \A i \in 1..n : fetched'[i] = fetched[i]
  BY <1>1, <1>3, <1>4 DEF n
<1>6. ASSUME NEW i \in 1..(n + 1) PROVE fetched'[i].slo = Refs(obj.spec)[i]
  <2>1. CASE i = n + 1
    BY <1>3, <1>5, <2>1
  <2>2. CASE i # n + 1
    <3>1. i \in 1..n
      BY <1>1, <2>2
    <3> QED
      BY <1>1, <1>5, <3>1 DEF Matching
  <2> QED
    BY <2>1, <2>2
<1>7. pc' = IF n + 1 < Len(obj.spec.objectives) THEN "fetch" ELSE "rule"
  BY <1>4, <1>5 DEF AfterFetch
<1>8. pc' \in {"rule", "query"} => [i \in DOMAIN fetched' |-> fetched'[i].slo] = Refs(obj.spec)
  <2> SUFFICES ASSUME ~(n + 1 < Len(obj.spec.objectives))
               PROVE  [i \in DOMAIN fetched' |-> fetched'[i].slo] = Refs(obj.spec)
    BY <1>7
  <2>1. Len(obj.spec.objectives) = n + 1
    BY <1>1, <1>2
  <2>2. DOMAIN fetched' = 1..(n + 1)
    BY <1>5, LenProperties
  <2>3. Refs(obj.spec) = [i \in 1..(n + 1) |-> Refs(obj.spec)[i]]
    BY <1>2, <2>1 DEF Refs
  <2> QED
    BY <1>6, <2>2, <2>3
<1>9. WorkerType'
  BY <1>1, <1>4, <1>5, <1>7, <1>8 DEF WorkerType
<1>10. FetchInv'
  BY <1>4, <1>5, <1>6, <1>7 DEF FetchInv, Matching
<1>11. AdmittedInv'
  BY <1>1, <1>4 DEF FetchSLO, AdmittedInv
<1> QED
  BY <1>9, <1>10, <1>11 DEF FetchSLO, K8sType, CtrlType, WorldType

\* The rule that is stored has its type.
LEMMA RuleTypes ==
    ASSUME TypeInv, WriteRule
    PROVE  TypeInv'
<1> USE DEF TypeInv, TypeOK, ctrl, world
<1>1. /\ pc = "rule" /\ obj.comp \in Compositions /\ obj.spec \in Specs /\ Admitted(obj.spec)
      /\ Generatable(obj.spec, fetched) /\ fetched \in Seq(Member) /\ fetched # <<>> /\ obj.version \in Nat
  BY DEF WriteRule, Ownable, WorkerType, AdmittedInv
<1>2. Len(fetched) = Len(obj.spec.objectives)
  <2>1. DOMAIN fetched = DOMAIN Refs(obj.spec)
    BY <1>1 DEF WorkerType
  <2>2. DOMAIN Refs(obj.spec) = 1..Len(obj.spec.objectives) /\ Len(obj.spec.objectives) \in Nat
    BY <1>1, SpecType
  <2>3. DOMAIN fetched = 1..Len(fetched) /\ Len(fetched) \in Nat
    BY <1>1, LenProperties
  <2> QED
    BY <2>1, <2>2, <2>3
<1>3. Owner \in Member
  <2>1. Len(fetched) \in 1..Len(fetched)
    BY <1>1, EmptySeq, LenProperties
  <2> QED
    BY <1>1, <2>1, ElementOfSeq DEF Owner
<1>4. NewRule \in Rule
  <2> DEFINE owner == [slo |-> Owner.slo, uid |-> Owner.uid]
             aggregate == CreateAggregatedPrometheusRule(obj.spec, fetched)
  <2>1. owner \in [slo : SLOs, uid : Nat]
    BY <1>3 DEF Member
  <2>2. aggregate \in Aggregate
    BY <1>1, <1>2, AggregateType
  <2> HIDE DEF owner, aggregate
  <2>3. [owner |-> owner, spec |-> obj.version, members |-> fetched, source |-> obj.spec,
         aggregate |-> aggregate] \in Rule
    BY <1>1, <2>1, <2>2 DEF Rule
  <2> QED
    BY <2>3 DEF NewRule, owner, aggregate
<1>5. DOMAIN rules' \subseteq Compositions /\ rules' \in [DOMAIN rules' -> Rule]
  <2>1. /\ rules' = Extend(rules, obj.comp, NewRule)
        /\ DOMAIN rules \subseteq Compositions /\ rules \in [DOMAIN rules -> Rule]
    BY DEF WriteRule, K8sType
  <2> QED
    BY <1>1, <1>4, <2>1, ExtendType
<1>6. K8sType'
  BY <1>5 DEF WriteRule, K8sType
<1>7. AdmittedInv' /\ FetchInv'
  BY <1>1 DEF WriteRule, AdmittedInv, FetchInv
<1> QED
  BY <1>6, <1>7 DEF WriteRule, CtrlType, WorkerType, WorldType

LEMMA StatusTypes ==
    ASSUME TypeInv, WriteStatus, obj.comp \in DOMAIN comps
    PROVE  TypeInv'
<1> USE DEF TypeInv, TypeOK, world
<1> DEFINE c == obj.comp
           new == [comps[c] EXCEPT !.status = NewStatus]
<1>1. /\ DOMAIN comps \subseteq Compositions /\ comps \in [DOMAIN comps -> Composition]
      /\ comps[c] \in Composition /\ c \in Compositions
  BY DEF K8sType
<1>2. NewStatus \in Status
  <2>1. comps[c].status \in Status
    BY <1>1 DEF Composition
  <2>2. /\ result.phase \in StatusPhases /\ obj.version \in Nat
        /\ result.reason \in FetchErrors \/ result.reason \in Reasons
        /\ result.reason \in Causes
    BY DEF WorkerType, Causes
  <2> QED
    BY <2>1, <2>2 DEF NewStatus, Status
<1>3. new \in Composition /\ new.spec = comps[c].spec
  BY <1>1, <1>2 DEF Composition
<1>4. comps' = [comps EXCEPT ![c] = new]
  BY DEF WriteStatus
<1> HIDE DEF new
<1>5. DOMAIN comps' \subseteq Compositions /\ comps' \in [DOMAIN comps' -> Composition]
  BY <1>1, <1>3, <1>4, UpdateType
<1>6. \A d \in DOMAIN comps' : Admitted(comps'[d].spec)
  BY <1>1, <1>3, <1>4 DEF AdmittedInv
<1>7. K8sType' /\ CtrlType' /\ WorldType'
  BY <1>1, <1>5 DEF WriteStatus, Return, K8sType, CtrlType, WorldType
<1>8. \A d \in DOMAIN cache' : Admitted(cache'[d].spec)
  BY DEF WriteStatus, AdmittedInv
<1> QED
  BY <1>6, <1>7, <1>8, IdleType DEF WriteStatus, Return

LEMMA OutcomeType ==
    ASSUME NEW sample, NEW r \in Outcomes(sample)
    PROVE  /\ r \in [phase : StatusPhases, reason : Causes, encodable : BOOLEAN]
           /\ r.reason # "ObjectiveNotFound"
<1> DEFINE phase == DetermineStatus(PercentRemaining(sample.windowed), sample.burnRates)
           encodable == EncodableSample(sample)
<1>1. phase \in StatusPhases /\ encodable \in BOOLEAN
  BY PhaseType DEF EncodableSample
<1>2. \/ r = Unknown("QueryFailed") \/ r = Unknown("CalculationFailed")
      \/ r = [phase |-> phase, reason |-> "Reconciled", encodable |-> encodable]
  BY DEF Outcomes
<1> HIDE DEF phase, encodable
<1>3. CASE r = [phase |-> phase, reason |-> "Reconciled", encodable |-> encodable]
  BY <1>1, <1>3 DEF Reasons, Causes
<1>4. CASE r = Unknown("QueryFailed")
  BY <1>4 DEF Unknown, StatusPhases, Reasons, Causes
<1>5. CASE r = Unknown("CalculationFailed")
  BY <1>5 DEF Unknown, StatusPhases, Reasons, Causes
<1> QED
  BY <1>2, <1>3, <1>4, <1>5

\* The other calls of a pass.
LEMMA ReconcileTypes ==
    ASSUME TypeInv, CopyCurrent, Reconcile
    PROVE  TypeInv'
<1> USE DEF TypeInv, TypeOK, k8s, ctrl, world
<1>1. CASE CheckConnection
  <2>1. /\ pc = "connect" /\ obj.spec \in Specs /\ Admitted(obj.spec) /\ fetched = <<>>
        /\ UNCHANGED <<k8s, seen, ctrl, obj, fetched, result, world>>
    BY <1>1 DEF CheckConnection, AdmittedInv, FetchInv
  <2>2. pc' = IF 0 < Len(obj.spec.objectives) THEN "fetch" ELSE "rule"
    BY <1>1 DEF CheckConnection, AfterFetch
  <2>3. pc' = "rule" => [i \in DOMAIN fetched' |-> fetched'[i].slo] = Refs(obj.spec)'
    <3> SUFFICES ASSUME ~(0 < Len(obj.spec.objectives))
                 PROVE  [i \in DOMAIN fetched |-> fetched[i].slo] = Refs(obj.spec)
      BY <2>1, <2>2
    <3>1. DOMAIN obj.spec.objectives = {}
      BY <2>1, SpecType
    <3>2. DOMAIN fetched = {}
      BY <2>1
    <3>3. Refs(obj.spec) = [i \in {} |-> obj.spec.objectives[i].ref]
      BY <3>1 DEF Refs
    <3> QED
      BY <3>2, <3>3
  <2>4. FetchInv'
    BY <2>1, <2>2 DEF FetchInv, Matching
  <2>5. WorkerType'
    BY <2>1, <2>2, <2>3 DEF WorkerType
  <2> QED
    BY <2>1, <2>2, <2>4, <2>5 DEF K8sType, CtrlType, WorldType, AdmittedInv
<1>2. CASE CheckConnectionFails \/ WriteStatusFails
  <2>1. /\ pc' = "idle" /\ obj' = NoObj /\ fetched' = <<>> /\ result' = NoResult
        /\ UNCHANGED <<k8s, seen, pending, cache, queue, world>>
        /\ timers' = timers \cup {obj.comp} /\ pc # "idle"
    BY <1>2 DEF CheckConnectionFails, WriteStatusFails, Return
  <2>2. K8sType' /\ CtrlType' /\ WorldType'
    BY <2>1 DEF K8sType, CtrlType, WorkerType, WorldType
  <2> QED
    BY <2>1, <2>2, IdleType DEF AdmittedInv
<1>3. CASE FetchSLO
  BY <1>3, FetchTypes
<1>4. CASE FetchMissing \/ FetchFails
  <2>1. /\ \E reason \in FetchErrors : result' = Unknown(reason)
        /\ pc = "fetch" /\ pc' = "write"
        /\ UNCHANGED <<k8s, seen, ctrl, obj, fetched, world>>
    BY <1>4 DEF FetchMissing, FetchFails, FetchErrors
  <2>2. result' \in [phase : StatusPhases, reason : Causes, encodable : BOOLEAN]
    <3>1. PICK reason \in FetchErrors : result' = Unknown(reason)
      BY <2>1
    <3> QED
      BY <3>1 DEF Unknown, StatusPhases, Causes
  <2> QED
    BY <2>1, <2>2 DEF K8sType, CtrlType, WorkerType, WorldType, AdmittedInv, FetchInv
<1>5. CASE WriteRule
  BY <1>5, RuleTypes
<1>6. CASE SkipRule
  BY <1>6 DEF SkipRule, K8sType, CtrlType, WorkerType, WorldType, AdmittedInv, FetchInv
<1>7. ASSUME NEW sample \in Samples, Query(sample) PROVE TypeInv'
  <2>1. /\ result' \in Outcomes(sample) /\ pc = "query" /\ pc' = "write"
        /\ UNCHANGED <<k8s, seen, ctrl, obj, fetched, world>>
    BY <1>7 DEF Query
  <2>2. result' \in [phase : StatusPhases, reason : Causes, encodable : BOOLEAN]
    BY <2>1, OutcomeType
  <2> QED
    BY <2>1, <2>2 DEF K8sType, CtrlType, WorkerType, WorldType, AdmittedInv, FetchInv
<1>8. CASE WriteStatus
  BY <1>8, StatusTypes DEF WriteStatus, CopyCurrent
<1> QED
  BY <1>1, <1>2, <1>3, <1>4, <1>5, <1>6, <1>7, <1>8 DEF Reconcile

LEMMA NextTypes ==
    ASSUME TypeInv, CopyCurrent, [Next]_vars
    PROVE  TypeInv'
<1>1. ASSUME NEW c \in Compositions, NEW spec \in Specs,
             CreateComposition(c, spec) \/ EditComposition(c, spec)
      PROVE  TypeInv'
  BY <1>1, UserTypes
<1>2. ASSUME NEW c \in Compositions, DeleteComposition(c) PROVE TypeInv'
  BY <1>2, UserTypes
<1>3. ASSUME NEW c \in Compositions,
             CollectRule(c) \/ Deliver(c) \/ TimerFires(c) \/ Get(c) \/ GetNotFound(c)
      PROVE  TypeInv'
  BY <1>3, CtrlTypes
<1>4. ASSUME NEW s \in SLOs, WriteSLO(s) \/ SeeSLO(s) PROVE TypeInv'
  BY <1>4, SLOTypes
<1>5. CASE Crash
  <2>1. /\ pc' = "idle" /\ obj' = NoObj /\ fetched' = <<>> /\ result' = NoResult
        /\ UNCHANGED <<k8s, mode>> /\ seen' = slos /\ pending' = DOMAIN comps
        /\ cache' = Empty /\ queue' = {} /\ timers' = {} /\ boots' = boots + 1
    BY <1>5 DEF Crash
  <2>2. K8sType' /\ CtrlType' /\ WorldType'
    BY <2>1 DEF k8s, TypeInv, TypeOK, K8sType, CtrlType, WorldType, Empty
  <2> QED
    BY <2>1, <2>2, IdleType DEF k8s, TypeInv, TypeOK, AdmittedInv, Empty
<1>6. CASE Reconcile
  BY <1>6, ReconcileTypes
<1>7. CASE TurbulenceEnds
  BY <1>7 DEF TurbulenceEnds, k8s, ctrl, worker, TypeInv, TypeOK, K8sType, CtrlType, WorkerType,
              WorldType, AdmittedInv, FetchInv, Matching
<1>8. CASE UNCHANGED vars
  BY <1>8 DEF vars, k8s, ctrl, worker, world, TypeInv, TypeOK, K8sType, CtrlType, WorkerType,
              WorldType, AdmittedInv, FetchInv, Matching
<1> QED
  BY <1>1, <1>2, <1>3, <1>4, <1>5, <1>6, <1>7, <1>8 DEF Next

-----------------------------------------------------------------------------
(***************************************************************************)
(* What keeps a composition on its way back to the worker.                 *)
(***************************************************************************)
\* A step that leaves the stored compositions, the cache, the pending events and the
\* copy in hand alone and drops nothing from queue and timers.
LEMMA QuietStep ==
    ASSUME WatchInv, UNCHANGED <<comps, pending, cache, obj>>,
           queue \subseteq queue', timers \subseteq timers', MissingIsUnknown'
    PROVE  WatchInv'
BY DEF WatchInv, ForgottenOnlyIfMissing, Forgotten, GivenUp, CacheCurrent, CopyCurrent

\* A pass that ends with an error leaves a timer for its composition.
LEMMA ReturnStep ==
    ASSUME WatchInv, Return(TRUE), UNCHANGED <<comps, cache, queue, pending>>
    PROVE  WatchInv'
<1>1. timers' = timers \cup {obj.comp} /\ obj' = NoObj /\ result' = NoResult
  BY DEF Return
<1>2. ForgottenOnlyIfMissing'
  BY <1>1 DEF WatchInv, ForgottenOnlyIfMissing, Forgotten, GivenUp
<1> QED
  BY <1>1, <1>2 DEF WatchInv, MissingIsUnknown, Missing, NoResult, NoObj, CacheCurrent, CopyCurrent

\* A user's write is announced by an event and outdates the worker's copy.
LEMMA UserWriteStep ==
    ASSUME WatchInv, TypeInv, NEW c \in Compositions, UserWrite(c),
           \A d \in Compositions : d # c => /\ d \in DOMAIN comps <=> d \in DOMAIN comps'
                                            /\ d \in DOMAIN comps => comps'[d] = comps[d],
           DOMAIN comps' \subseteq Compositions
    PROVE  WatchInv'
<1> USE DEF UserWrite
<1>1. obj'.comp = obj.comp /\ obj'.version = obj.version
  BY DEF TypeInv, TypeOK, WorkerType
<1>2. ForgottenOnlyIfMissing'
  BY <1>1 DEF WatchInv, ForgottenOnlyIfMissing, Forgotten, GivenUp
<1>3. CacheCurrent'
  BY DEF WatchInv, CacheCurrent
<1>4. CopyCurrent'
  <2>1. DOMAIN comps \subseteq Compositions
    BY DEF TypeInv, TypeOK, K8sType
  <2>2. CASE obj.comp = c
    <3>1. obj'.fresh = FALSE
      BY <2>2 DEF TypeInv, TypeOK, WorkerType
    <3> QED
      BY <3>1 DEF CopyCurrent
  <2>3. CASE obj.comp # c
    BY <2>1, <2>3 DEF WatchInv, CopyCurrent
  <2> QED
    BY <2>2, <2>3
<1> QED
  BY <1>2, <1>3, <1>4 DEF WatchInv, MissingIsUnknown, Missing

\* The only step of the worker that writes a composition: it ends the polling if an SLO
\* was missing, and says so.
LEMMA WriteStatusStep ==
    ASSUME WatchInv, TypeInv, WriteStatus
    PROVE  WatchInv'
<1> DEFINE c == obj.comp
<1>1. /\ c \in DOMAIN comps /\ comps[c].version = obj.version /\ comps[c] \in Composition
      /\ DOMAIN comps' = DOMAIN comps
      /\ \A d \in DOMAIN comps : d # c => comps'[d] = comps[d]
      /\ comps'[c] = [comps[c] EXCEPT !.status = NewStatus]
  BY DEF WriteStatus, WatchInv, CopyCurrent, TypeInv, TypeOK, K8sType
<1>2. comps'[c].version = comps[c].version /\ comps'[c].status = NewStatus
  BY <1>1 DEF Composition
<1>3. /\ pending \subseteq pending' /\ pending' \subseteq pending \cup {c}
      /\ timers' = IF ~Missing THEN timers \cup {c} ELSE timers
      /\ obj' = NoObj /\ result' = NoResult /\ UNCHANGED <<cache, queue>>
  BY DEF WriteStatus, Return
<1>4. ASSUME NEW d \in DOMAIN comps', Forgotten(d)' PROVE GivenUp(d)'
  <2>1. CASE d = c
    <3>1. Missing
      BY <1>3, <1>4, <2>1 DEF Forgotten
    <3>2. /\ NewStatus.phase = "unknown" /\ NewStatus.fetchFailed = TRUE
          /\ NewStatus.spec = obj.version /\ NewStatus.cause = "ObjectiveNotFound"
      <4>1. result.phase = "unknown"
        BY <3>1 DEF WatchInv, MissingIsUnknown
      <4>2. comps[c].status.fetchFailed \in BOOLEAN
        BY <1>1 DEF Composition, Status
      <4> QED
        BY <3>1, <4>1, <4>2 DEF NewStatus, Missing, FetchErrors
    <3> QED
      BY <1>1, <1>2, <2>1, <3>2 DEF GivenUp
  <2>2. CASE d # c
    <3>1. d \in DOMAIN comps /\ comps'[d] = comps[d] /\ Forgotten(d)
      BY <1>1, <1>3, <1>4, <2>2 DEF Forgotten
    <3> QED
      BY <3>1 DEF WatchInv, ForgottenOnlyIfMissing, GivenUp
  <2> QED
    BY <2>1, <2>2
<1>5. CacheCurrent'
  <2>1. \A d \in DOMAIN comps : comps'[d].version = comps[d].version
    BY <1>1, <1>2
  <2> QED
    BY <1>1, <1>3, <2>1 DEF WatchInv, CacheCurrent
<1> QED
  BY <1>3, <1>4, <1>5 DEF WatchInv, ForgottenOnlyIfMissing, MissingIsUnknown, Missing, NoResult,
                          NoObj, CopyCurrent

LEMMA NextWatch ==
    ASSUME WatchInv, TypeInv, [Next]_vars
    PROVE  WatchInv'
<1> USE DEF k8s, ctrl, worker, world
<1>1. ASSUME NEW c \in Compositions, NEW spec \in Specs, CreateComposition(c, spec)
      PROVE  WatchInv'
  BY <1>1, UserWriteStep DEF CreateComposition, Extend, TypeInv, TypeOK, K8sType
<1>2. ASSUME NEW c \in Compositions, NEW spec \in Specs, EditComposition(c, spec)
      PROVE  WatchInv'
  BY <1>2, UserWriteStep DEF EditComposition, TypeInv, TypeOK, K8sType
<1>3. ASSUME NEW c \in Compositions, DeleteComposition(c) PROVE WatchInv'
  BY <1>3, UserWriteStep DEF DeleteComposition, Drop, TypeInv, TypeOK, K8sType
<1>4. ASSUME NEW s \in SLOs, WriteSLO(s) \/ SeeSLO(s) PROVE WatchInv'
  BY <1>4, QuietStep DEF WriteSLO, SeeSLO, WatchInv, MissingIsUnknown, Missing
<1>5. ASSUME NEW c \in Compositions, CollectRule(c) PROVE WatchInv'
  BY <1>5, QuietStep DEF CollectRule, WatchInv, MissingIsUnknown, Missing
<1>6. ASSUME NEW c \in Compositions, Deliver(c) PROVE WatchInv'
  <2>1. ForgottenOnlyIfMissing' /\ MissingIsUnknown' /\ CopyCurrent'
    BY <1>6 DEF Deliver, WatchInv, ForgottenOnlyIfMissing, Forgotten, GivenUp,
                MissingIsUnknown, Missing, CopyCurrent
  <2>2. CacheCurrent'
    <3>1. CASE c \in DOMAIN comps
      BY <1>6, <3>1 DEF Deliver, Extend, Cached, WatchInv, CacheCurrent
    <3>2. CASE c \notin DOMAIN comps
      BY <1>6, <3>2 DEF Deliver, Drop, WatchInv, CacheCurrent
    <3> QED
      BY <3>1, <3>2
  <2> QED
    BY <2>1, <2>2 DEF WatchInv
<1>7. ASSUME NEW c \in Compositions, TimerFires(c) PROVE WatchInv'
  BY <1>7 DEF TimerFires, WatchInv, ForgottenOnlyIfMissing, Forgotten, GivenUp,
              MissingIsUnknown, Missing, CacheCurrent, CopyCurrent
<1>8. ASSUME NEW c \in Compositions, Get(c) PROVE WatchInv'
  <2>1. /\ obj'.comp = c /\ obj'.version = cache[c].version /\ (obj'.fresh <=> c \notin pending)
        /\ pc = "idle" /\ obj.comp = NoComposition
    BY <1>8 DEF Get, TypeInv, TypeOK, WorkerType
  <2>2. ForgottenOnlyIfMissing'
    <3> SUFFICES ASSUME NEW d \in DOMAIN comps', Forgotten(d)' PROVE GivenUp(d)'
      BY DEF ForgottenOnlyIfMissing
    <3>1. comps' = comps /\ d \in Compositions /\ d # NoComposition
      BY <1>8, CompositionAssumption DEF Get, TypeInv, TypeOK, K8sType
    <3>2. d # c /\ Forgotten(d)
      BY <1>8, <2>1, <3>1 DEF Get, Forgotten
    <3> QED
      BY <3>1, <3>2 DEF WatchInv, ForgottenOnlyIfMissing, GivenUp
  <2>3. CopyCurrent'
    BY <1>8, <2>1 DEF Get, WatchInv, CacheCurrent, CopyCurrent
  <2> QED
    BY <1>8, <2>2, <2>3 DEF Get, WatchInv, CacheCurrent, MissingIsUnknown, Missing
<1>9. ASSUME NEW c \in Compositions, GetNotFound(c) PROVE WatchInv'
  <2>1. c \in DOMAIN comps => c \in pending
    BY <1>9 DEF GetNotFound, WatchInv, CacheCurrent
  <2> QED
    BY <1>9, <2>1 DEF GetNotFound, WatchInv, ForgottenOnlyIfMissing, Forgotten, GivenUp,
                      MissingIsUnknown, Missing, CacheCurrent, CopyCurrent
<1>10. CASE Crash
  BY <1>10 DEF Crash, Empty, NoObj, NoResult, WatchInv, ForgottenOnlyIfMissing, Forgotten,
               MissingIsUnknown, Missing, CacheCurrent, CopyCurrent
<1>11. CASE Reconcile
  <2>1. CASE CheckConnectionFails \/ WriteStatusFails
    BY <2>1, ReturnStep DEF CheckConnectionFails, WriteStatusFails
  <2>2. CASE WriteStatus
    BY <2>2, WriteStatusStep
  <2>3. CASE CheckConnection \/ FetchSLO \/ WriteRule \/ SkipRule
    BY <2>3, QuietStep DEF CheckConnection, FetchSLO, WriteRule, SkipRule, WatchInv,
                           MissingIsUnknown, Missing
  <2>4. CASE FetchMissing \/ FetchFails
    BY <2>4, QuietStep DEF FetchMissing, FetchFails, Unknown, MissingIsUnknown
  <2>5. ASSUME NEW sample \in Samples, Query(sample) PROVE WatchInv'
    <3>1. result'.reason # "ObjectiveNotFound"
      BY <2>5, OutcomeType DEF Query
    <3> QED
      BY <2>5, <3>1, QuietStep DEF Query, MissingIsUnknown, Missing
  <2> QED
    BY <1>11, <2>1, <2>2, <2>3, <2>4, <2>5 DEF Reconcile
<1>12. CASE TurbulenceEnds \/ UNCHANGED vars
  BY <1>12, QuietStep DEF TurbulenceEnds, vars, WatchInv, MissingIsUnknown, Missing
<1> QED
  BY <1>1, <1>2, <1>3, <1>4, <1>5, <1>6, <1>7, <1>8, <1>9, <1>10, <1>11, <1>12 DEF Next

-----------------------------------------------------------------------------
(***************************************************************************)
(* The theorems.                                                           *)
(***************************************************************************)
LEMMA Invariant == Spec => []IInv
<1>1. Init => IInv
  <2> SUFFICES ASSUME Init PROVE IInv
    OBVIOUS
  <2>1. K8sType /\ CtrlType /\ WorldType
    BY CompositionAssumption DEF Init, Empty, K8sType, CtrlType, WorldType, SLOObject
  <2>2. WorkerType
    <3>1. obj \in [comp : Compositions \cup {NoComposition}, uid : Nat, version : Nat,
                   spec : Specs \cup {NoSpec}, fresh : BOOLEAN]
          /\ obj.comp = NoComposition
      BY DEF Init, NoObj
    <3>2. result \in [phase : StatusPhases, reason : Causes, encodable : BOOLEAN]
      BY DEF Init, NoResult, StatusPhases, Reasons, Causes
    <3>3. fetched \in Seq(Member) /\ pc = "idle"
      BY DEF Init
    <3> QED
      BY <3>1, <3>2, <3>3 DEF WorkerType
  <2>3. AdmittedInv /\ FetchInv
    BY DEF Init, Empty, AdmittedInv, FetchInv
  <2>4. WatchInv
    BY DEF Init, Empty, NoObj, NoResult, WatchInv, ForgottenOnlyIfMissing, MissingIsUnknown, Missing,
           CacheCurrent, CopyCurrent
  <2> QED
    BY <2>1, <2>2, <2>3, <2>4 DEF IInv, TypeInv, TypeOK
<1>2. IInv /\ [Next]_vars => IInv'
  BY NextTypes, NextWatch DEF IInv, WatchInv
<1> QED
  BY <1>1, <1>2, PTL DEF Spec

\* Every variable of the controller keeps its shape; in particular the stored rules are
\* made of SLOs that were fetched, every alias of a chain among them.
THEOREM TypeCorrect == Spec => []TypeOK
BY Invariant, PTL DEF IInv, TypeInv

\* The controller stops polling a composition only when its last pass found an SLO it
\* refers to missing, and the status of the current spec says so, whatever fails, fetches
\* included, or is edited meanwhile.
THEOREM GivenUpOnlyIfMissing == Spec => []ForgottenOnlyIfMissing
BY Invariant, PTL DEF IInv, WatchInv

\* A successful status write is for the spec the composition has at that moment.
THEOREM StatusIsOfCurrentSpec == Spec => StatusMatchesSpec
<1> DEFINE Good == \A c \in DOMAIN comps \cap DOMAIN comps' :
                     comps'[c].status # comps[c].status => comps'[c].status.spec = comps'[c].version
<1>1. IInv /\ [Next]_vars => [Good]_vars
  <2> SUFFICES ASSUME IInv, Next PROVE Good
    OBVIOUS
  <2> USE DEF k8s, ctrl, worker, world
  <2>0. DOMAIN comps \subseteq Compositions /\ comps \in [DOMAIN comps -> Composition]
    BY DEF IInv, TypeInv, TypeOK, K8sType
  <2>1. CASE UNCHANGED comps
    BY <2>1
  <2>2. ASSUME NEW c \in Compositions, NEW spec \in Specs, CreateComposition(c, spec) PROVE Good
    BY <2>2 DEF CreateComposition, Extend
  <2>3. ASSUME NEW c \in Compositions, NEW spec \in Specs, EditComposition(c, spec) PROVE Good
    BY <2>0, <2>3 DEF EditComposition, Composition
  <2>4. ASSUME NEW c \in Compositions, DeleteComposition(c) PROVE Good
    BY <2>4 DEF DeleteComposition, Drop
  <2>5. CASE WriteStatus
    <3>1. obj.comp \in DOMAIN comps /\ comps[obj.comp].version = obj.version
      BY <2>5 DEF WriteStatus, IInv, WatchInv, CopyCurrent
    <3>2. /\ comps'[obj.comp].status.spec = obj.version
          /\ comps'[obj.comp].version = obj.version
          /\ \A d \in DOMAIN comps : d # obj.comp => comps'[d] = comps[d]
      BY <2>0, <2>5, <3>1 DEF WriteStatus, NewStatus, Composition
    <3> QED
      BY <3>1, <3>2
  <2>6. CASE Reconcile
    BY <2>1, <2>5, <2>6 DEF Reconcile, CheckConnection, CheckConnectionFails, FetchSLO, FetchMissing,
       FetchFails, WriteRule, SkipRule, Query, WriteStatusFails
  <2> QED
    BY <2>1, <2>2, <2>3, <2>4, <2>6 DEF Next, CollectRule, Deliver, TimerFires, Get,
       GetNotFound, WriteSLO, SeeSLO, Crash, TurbulenceEnds
<1> QED
  BY <1>1, Invariant, PTL DEF Spec, StatusMatchesSpec

-----------------------------------------------------------------------------
(***************************************************************************)
(* What the rules compose.                                                 *)
(***************************************************************************)
\* An alias stands for the SLO of the last objective that has it.
LastNamed(spec, k) ==
    \A j \in DOMAIN spec.objectives :
        spec.objectives[j].name = spec.objectives[k].name => j <= k

LEMMA LastOfAlias ==
    ASSUME NEW spec \in Specs, NEW members \in Seq(Member),
           Len(members) = Len(spec.objectives),
           \A i \in DOMAIN members : members[i].slo = spec.objectives[i].ref,
           NEW k \in DOMAIN spec.objectives, LastNamed(spec, k)
    PROVE  LET alias == spec.objectives[k].name
           IN  /\ alias \in FetchedAliases(spec, members)
               /\ aliasToSLO(spec, members)[alias] = spec.objectives[k].ref
<1> DEFINE n == Len(spec.objectives)
           alias == spec.objectives[k].name
           places == {i \in DOMAIN members : spec.objectives[i].name = alias}
<1>1. n \in Nat /\ DOMAIN spec.objectives = 1..n /\ DOMAIN members = 1..n
  BY SpecType, LenProperties
<1>2. alias \in FetchedAliases(spec, members)
  BY <1>1 DEF FetchedAliases
<1>3. k \in places /\ places \subseteq Nat /\ \A i \in places : i <= k
  BY <1>1 DEF LastNamed
<1>4. aliasToSLO(spec, members)[alias] = members[Max(places)].slo
  BY <1>2 DEF aliasToSLO
<1> HIDE DEF places, n
<1>5. Max(places) = k
  <2>1. k \in Nat
    BY <1>3
  <2>2. Max(places) \in places /\ \A i \in places : i <= Max(places)
    BY <1>3, <2>1, GreatestOf
  <2>3. Max(places) \in Nat /\ Max(places) <= k /\ k <= Max(places)
    BY <1>3, <2>2
  <2> QED
    BY <2>1, <2>3
<1> QED
  BY <1>1, <1>2, <1>4, <1>5

\* Every alias has a last objective.
LEMMA AliasHasLast ==
    ASSUME NEW spec \in Specs, NEW members, NEW alias \in FetchedAliases(spec, members)
    PROVE  \E k \in DOMAIN spec.objectives : spec.objectives[k].name = alias /\ LastNamed(spec, k)
<1> DEFINE n == Len(spec.objectives)
           places == {i \in DOMAIN spec.objectives : spec.objectives[i].name = alias}
<1>1. n \in Nat /\ DOMAIN spec.objectives = 1..n
  BY SpecType
<1>2. places # {}
  BY DEF FetchedAliases
<1>3. places \subseteq Nat /\ \A i \in places : i <= n
  BY <1>1
<1>4. Max(places) \in places /\ \A i \in places : i <= Max(places)
  <2> HIDE DEF places, n
  <2> QED
    BY <1>1, <1>2, <1>3, GreatestOf
<1> HIDE DEF n
<1>5. PICK k \in places : \A i \in places : i <= k
  BY <1>4
<1> QED
  BY <1>5 DEF LastNamed

\* A generated rule has the routes of the spec, and in the chain of each the SLOs that
\* its aliases stand for.
LEMMA RoutesAreKept ==
    ASSUME NEW spec \in Specs, Admitted(spec), NEW members \in Seq(Member),
           Generatable(spec, members), Len(members) = Len(spec.objectives),
           \A i \in DOMAIN members : members[i].slo = spec.objectives[i].ref
    PROVE  LET routes == CreateAggregatedPrometheusRule(spec, members).routes
           IN  /\ DOMAIN routes = DOMAIN spec.routes
               /\ \A i \in DOMAIN spec.routes :
                    /\ routes[i].weight = spec.routes[i].weight
                    /\ ToSet(routes[i].slos) = ChainOf(spec, spec.routes[i])
<1> DEFINE routes == CreateAggregatedPrometheusRule(spec, members).routes
           map == aliasToSLO(spec, members)
<1>1. /\ DOMAIN routes = DOMAIN spec.routes
      /\ \A i \in DOMAIN spec.routes :
            /\ routes[i].weight = spec.routes[i].weight
            /\ routes[i].slos = [j \in DOMAIN spec.routes[i].chain |-> map[spec.routes[i].chain[j]]]
  BY DEF CreateAggregatedPrometheusRule
<1> HIDE DEF routes
<1>2. ASSUME NEW i \in DOMAIN spec.routes
      PROVE  ToSet(routes[i].slos) = ChainOf(spec, spec.routes[i])
  <2> DEFINE chain == spec.routes[i].chain
             objectives == spec.objectives
  <2>7. routes[i].slos = [j \in DOMAIN chain |-> map[chain[j]]]
    BY <1>1
  <2>1. ToSet(routes[i].slos) = {map[chain[j]] : j \in DOMAIN chain}
    <3> HIDE DEF map, chain
    <3>1. DOMAIN routes[i].slos = DOMAIN chain /\ \A j \in DOMAIN chain : routes[i].slos[j] = map[chain[j]]
      BY <2>7
    <3> QED
      BY <3>1 DEF ToSet
  <2>2. ToSet(chain) = {chain[j] : j \in DOMAIN chain}
    BY DEF ToSet
  <2>3. ChainOf(spec, spec.routes[i]) =
            {objectives[k].ref : k \in {l \in DOMAIN objectives :
                objectives[l].name \in ToSet(chain) /\ LastNamed(spec, l)}}
    BY DEF ChainOf, LastNamed
  <2>4. \A j \in DOMAIN chain : chain[j] \in FetchedAliases(spec, members)
    BY AliasesAreKnown
  <2>5. \A k \in DOMAIN objectives : LastNamed(spec, k) => map[objectives[k].name] = objectives[k].ref
    BY LastOfAlias
  <2>6. \A j \in DOMAIN chain : \E k \in DOMAIN objectives :
            objectives[k].name = chain[j] /\ LastNamed(spec, k)
    BY <2>4, AliasHasLast
  <2> HIDE DEF map, chain, objectives
  <2> QED
    BY <2>1, <2>2, <2>3, <2>5, <2>6
<1> QED
  BY <1>1, <1>2 DEF routes

\* A stored rule selects the SLOs its spec refers to, all of them and by their ids; its
\* routes are those of the spec, in the chain of each the SLOs it stands for.
HasRoutes(r) ==
    LET routes == r.aggregate.routes
    IN  /\ routes # <<>> /\ DOMAIN routes = DOMAIN r.source.routes
        /\ \A i \in DOMAIN routes :
            /\ routes[i].weight = r.source.routes[i].weight
            /\ ToSet(routes[i].slos) = ChainOf(r.source, r.source.routes[i])

Composes(r) ==
    /\ r.source \in Specs /\ r.source.objectives # <<>>
    /\ r.aggregate.ids = {ObjectiveId[s] : s \in ToSet(Refs(r.source))}
    /\ r.source.type = "AND_MIN" => r.aggregate.routes = <<>>
    /\ r.source.type = "WEIGHTED_ROUTES" => HasRoutes(r)

StoredRules == \A c \in DOMAIN rules : Composes(rules[c])

LEMMA NewRuleComposes ==
    ASSUME TypeInv, pc = "rule", Generatable(obj.spec, fetched), Ownable
    PROVE  Composes(NewRule)
<1> DEFINE spec == obj.spec
           aggregate == CreateAggregatedPrometheusRule(spec, fetched)
<1>1. /\ spec \in Specs /\ Admitted(spec)
      /\ fetched \in Seq(Member) /\ Generatable(spec, fetched)
      /\ [i \in DOMAIN fetched |-> fetched[i].slo] = Refs(spec)
  BY DEF TypeInv, TypeOK, WorkerType, AdmittedInv
<1>2. DOMAIN fetched = DOMAIN Refs(spec) /\ \A i \in DOMAIN fetched : fetched[i].slo = Refs(spec)[i]
  <2> DEFINE picked == [i \in DOMAIN fetched |-> fetched[i].slo]
  <2>1. DOMAIN picked = DOMAIN fetched /\ \A i \in DOMAIN fetched : picked[i] = fetched[i].slo
    OBVIOUS
  <2>2. picked = Refs(spec)
    BY <1>1
  <2> HIDE DEF picked
  <2> QED
    BY <2>1, <2>2
<1> HIDE DEF spec
<1>7. spec.objectives # <<>>
  <2>1. DOMAIN fetched # {}
    BY DEF Ownable, TypeInv, TypeOK, WorkerType
  <2>2. DOMAIN Refs(spec) = DOMAIN spec.objectives
    BY DEF Refs
  <2> QED
    BY <1>2, <2>1, <2>2
<1>3. aggregate.ids = {ObjectiveId[m.slo] : m \in ToSet(fetched)}
  BY DEF CreateAggregatedPrometheusRule
<1>4. {ObjectiveId[m.slo] : m \in ToSet(fetched)} = {ObjectiveId[s] : s \in ToSet(Refs(spec))}
  BY <1>2 DEF ToSet
<1>5. ASSUME spec.type = "AND_MIN" PROVE aggregate.routes = <<>>
  <2>1. spec.routes = <<>>
    BY <1>1, <1>5 DEF Admitted, ValidSchema
  <2>2. DOMAIN spec.routes = {}
    BY <2>1
  <2>3. aggregate.routes = [i \in {} |->
            [weight |-> spec.routes[i].weight,
             slos |-> [j \in DOMAIN spec.routes[i].chain |->
                        aliasToSLO(spec, fetched)[spec.routes[i].chain[j]]]]]
    BY <2>2 DEF CreateAggregatedPrometheusRule
  <2> QED
    BY <2>3
<1>8. ASSUME spec.type = "WEIGHTED_ROUTES"
      PROVE  /\ aggregate.routes # <<>> /\ DOMAIN aggregate.routes = DOMAIN spec.routes
             /\ \A i \in DOMAIN aggregate.routes :
                  /\ aggregate.routes[i].weight = spec.routes[i].weight
                  /\ ToSet(aggregate.routes[i].slos) = ChainOf(spec, spec.routes[i])
  <2>1. /\ Len(fetched) = Len(spec.objectives)
        /\ \A i \in DOMAIN fetched : fetched[i].slo = spec.objectives[i].ref
    BY <1>1, <1>2, SpecType, LenProperties
  <2>2. spec.routes # <<>> /\ spec.routes \in Seq([name : STRING, weight : Nat, chain : Seq(STRING)])
    BY <1>1, <1>8, SpecType DEF Admitted, ValidSchema
  <2> HIDE DEF aggregate
  <2>3. DOMAIN spec.routes # {}
    <3>1. DOMAIN spec.routes = 1..Len(spec.routes) /\ Len(spec.routes) \in Nat /\ Len(spec.routes) # 0
      BY <2>2, LenProperties, EmptySeq
    <3>2. \A n \in Nat : n # 0 => 1 \in 1..n
      OBVIOUS
    <3> QED
      BY <3>1, <3>2
  <2>4. /\ DOMAIN aggregate.routes = DOMAIN spec.routes
        /\ \A i \in DOMAIN spec.routes :
              /\ aggregate.routes[i].weight = spec.routes[i].weight
              /\ ToSet(aggregate.routes[i].slos) = ChainOf(spec, spec.routes[i])
    BY <1>1, <2>1, RoutesAreKept DEF aggregate
  <2> QED
    BY <2>3, <2>4
<1> HIDE DEF aggregate
<1>6. NewRule.source = spec /\ NewRule.aggregate = aggregate
  BY DEF NewRule, spec, aggregate
<1> HIDE DEF NewRule
<1>9. spec.type = "WEIGHTED_ROUTES" => HasRoutes(NewRule)
  BY <1>6, <1>8 DEF HasRoutes
<1> QED
  BY <1>1, <1>3, <1>4, <1>5, <1>6, <1>7, <1>9 DEF Composes

LEMMA RulesStayComposed == IInv /\ StoredRules /\ [Next]_vars => StoredRules'
<1> SUFFICES ASSUME IInv, StoredRules, [Next]_vars PROVE StoredRules'
  OBVIOUS
<1> USE DEF k8s, ctrl, worker, world
<1>1. CASE WriteRule
  <2>1. Composes(NewRule) /\ rules' = Extend(rules, obj.comp, NewRule)
    BY <1>1, NewRuleComposes DEF WriteRule, IInv
  <2> HIDE DEF NewRule
  <2>2. /\ DOMAIN rules' = DOMAIN rules \cup {obj.comp} /\ rules'[obj.comp] = NewRule
        /\ \A c \in DOMAIN rules : c # obj.comp => rules'[c] = rules[c]
    BY <2>1 DEF Extend
  <2> QED
    BY <2>1, <2>2 DEF StoredRules
<1>2. ASSUME NEW c \in Compositions, CollectRule(c) PROVE StoredRules'
  <2>1. rules' = Drop(rules, c)
    BY <1>2 DEF CollectRule
  <2>2. DOMAIN rules' = DOMAIN rules \ {c} /\ \A d \in DOMAIN rules' : rules'[d] = rules[d]
    BY <2>1, DropMap
  <2> QED
    BY <2>2 DEF StoredRules
<1>3. CASE UNCHANGED rules
  BY <1>3 DEF StoredRules
<1>4. CASE Reconcile
  BY <1>1, <1>3, <1>4 DEF Reconcile, CheckConnection, CheckConnectionFails, FetchSLO, FetchMissing,
     FetchFails, SkipRule, Query, WriteStatus, WriteStatusFails
<1>5. ASSUME NEW c \in Compositions, NEW spec \in Specs, CreateComposition(c, spec) \/ EditComposition(c, spec)
      PROVE  StoredRules'
  BY <1>3, <1>5 DEF CreateComposition, EditComposition, UserWrite
<1>6. ASSUME NEW c \in Compositions,
             DeleteComposition(c) \/ Deliver(c) \/ TimerFires(c) \/ Get(c) \/ GetNotFound(c)
      PROVE  StoredRules'
  BY <1>3, <1>6 DEF DeleteComposition, UserWrite, Deliver, TimerFires, Get, GetNotFound
<1>7. CASE Crash \/ TurbulenceEnds \/ UNCHANGED vars \/ \E s \in SLOs : WriteSLO(s) \/ SeeSLO(s)
  BY <1>3, <1>7 DEF Crash, TurbulenceEnds, vars, WriteSLO, SeeSLO
<1> QED
  BY <1>2, <1>4, <1>5, <1>6, <1>7 DEF Next

\* The greatest of a larger set is no less.
LEMMA GreatestOfMore ==
    ASSUME NEW S, S \subseteq 0..Whole, NEW R, R \subseteq S, R # {}
    PROVE  Max(R) \in Int /\ Max(S) \in Int /\ Max(S) >= Max(R)
<1>1. S \subseteq Nat /\ Whole \in Nat /\ \A y \in S : y <= Whole
  BY DEF Whole
<1>2. Max(S) \in S /\ \A y \in S : y <= Max(S)
  BY <1>1, GreatestOf
<1>3. Max(R) \in R
  BY <1>1, GreatestOf
<1>4. Max(S) \in Nat /\ Max(R) \in Nat /\ Max(R) <= Max(S)
  BY <1>1, <1>2, <1>3
<1> QED
  BY <1>4

\* The error rate of an AND_MIN rule is that of the worst SLO it selects: those the spec
\* refers to, and their namesakes.
LEMMA WorstOfSelected ==
    ASSUME NEW r, Composes(r), r.source.type = "AND_MIN",
           NEW errors \in [DOMAIN ObjectiveId -> ErrorRates]
    PROVE  LET rate == ComposedErrorRate(r.aggregate, errors)
           IN  /\ rate >= WorstReferenced(r.source, errors)
               /\ Namesakes(r.source) = {} => rate = WorstReferenced(r.source, errors)
<1> DEFINE refs == ToSet(Refs(r.source))
           namesakes == {s \in DOMAIN ObjectiveId : \E x \in refs : ObjectiveId[s] = ObjectiveId[x]}
           rate == ComposedErrorRate(r.aggregate, errors)
           S == {errors[s] : s \in namesakes}
           R == {errors[s] : s \in refs}
<1>1. refs \subseteq SLOs /\ refs # {}
  <2> DEFINE n == Len(r.source.objectives)
             f == Refs(r.source)
  <2>1. n \in Nat /\ DOMAIN f = 1..n /\ \A i \in 1..n : f[i] \in SLOs
    BY SpecType DEF Composes
  <2>4. n # 0
    BY SpecType, EmptySeq DEF Composes
  <2>2. refs = {f[i] : i \in DOMAIN f}
    BY DEF ToSet
  <2> HIDE DEF n, f, refs
  <2>3. 1 \in 1..n
    BY <2>1, <2>4
  <2> QED
    BY <2>1, <2>2, <2>3
<1>2. refs \subseteq namesakes
  BY <1>1, CompositionAssumption
<1>3. S \subseteq 0..Whole /\ S # {}
  <2>1. ErrorRates \subseteq 0..Whole /\ \A s \in DOMAIN ObjectiveId : errors[s] \in ErrorRates
    BY CompositionAssumption
  <2>2. namesakes \subseteq DOMAIN ObjectiveId /\ namesakes # {}
    BY <1>1, <1>2
  <2> HIDE DEF namesakes
  <2>3. \A s \in namesakes : errors[s] \in 0..Whole
    BY <2>1, <2>2
  <2> QED
    BY <2>2, <2>3
<1>4. {s \in DOMAIN errors : ObjectiveId[s] \in r.aggregate.ids} = namesakes
  BY DEF Composes
<1>5. rate = Max(S)
  BY <1>4 DEF ComposedErrorRate, Composes
<1>6. Max(S) >= Max(R)
  <2>1. R \subseteq S /\ R # {}
    <3> HIDE DEF refs, namesakes
    <3> QED
      BY <1>1, <1>2
  <2> HIDE DEF S, R
  <2> QED
    BY <1>3, <2>1, GreatestOfMore
<1>7. Max(R) = WorstReferenced(r.source, errors)
  BY DEF WorstReferenced
<1>8. Namesakes(r.source) = {} => S = R
  <2>1. Namesakes(r.source) = {} => namesakes = refs
    BY <1>2 DEF Namesakes
  <2> HIDE DEF namesakes, refs
  <2> QED
    BY <2>1
<1> HIDE DEF S, R, rate
<1>9. /\ rate >= WorstReferenced(r.source, errors)
      /\ Namesakes(r.source) = {} => rate = WorstReferenced(r.source, errors)
  BY <1>5, <1>6, <1>7, <1>8
<1> QED
  BY <1>9 DEF rate

\* The outage of a namesake is selected, and nothing is worse.
LEMMA NamesakesAreSelected ==
    ASSUME NEW r, Composes(r), r.source.type = "AND_MIN", NEW s \in Namesakes(r.source)
    PROVE  ComposedErrorRate(r.aggregate, Outage({s})) = Whole
<1> DEFINE selected == {x \in DOMAIN ObjectiveId : ObjectiveId[x] \in r.aggregate.ids}
           e == Outage({s})
           S == {e[x] : x \in selected}
<1>1. s \in selected
  BY DEF Namesakes, Composes
<1>2. ComposedErrorRate(r.aggregate, e) = Max(S)
  BY DEF ComposedErrorRate, Composes, Outage
<1>3. /\ \A x \in selected : e[x] \in {0, Whole}
      /\ e[s] = Whole
  BY <1>1 DEF Outage
<1> HIDE DEF e, selected
<1>4. S \subseteq {0, Whole} /\ Whole \in S
  BY <1>1, <1>3
<1> HIDE DEF S
<1>5. S \subseteq Nat /\ Whole \in Nat /\ \A y \in S : y <= Whole
  BY <1>4 DEF Whole
<1>6. Max(S) \in S /\ \A y \in S : y <= Max(S)
  BY <1>4, <1>5, GreatestOf
<1>7. Max(S) \in Nat /\ Max(S) <= Whole /\ Whole <= Max(S)
  BY <1>4, <1>5, <1>6
<1>8. Max(S) = Whole
  BY <1>5, <1>7
<1> QED
  BY <1>2, <1>8 DEF e

\* With AND_MIN a rule that was stored, whenever and after whatever edits and fetches, is
\* never healthier than the worst SLO its spec refers to, and exactly as unhealthy if none
\* of them has a namesake elsewhere, whatever the error rates of the SLOs are; the outage
\* of a namesake is its own.
THEOREM RulesComposeTheWeakest == Spec => []ComposesTheWeakest
<1>1. Init => StoredRules
  BY DEF Init, Empty, StoredRules
<1>2. StoredRules => ComposesTheWeakest
  BY WorstOfSelected, NamesakesAreSelected DEF StoredRules, ComposesTheWeakest
<1> QED
  BY <1>1, <1>2, Invariant, RulesStayComposed, PTL DEF Spec

-----------------------------------------------------------------------------
(***************************************************************************)
(* What an outage does to the routes.                                      *)
(***************************************************************************)
LEMMA WholeOrNothing ==
    ASSUME NEW x \in {0, Whole}, NEW e \in {0, Whole}
    PROVE  (x * (Whole - e)) \div Whole = IF e = 0 THEN x ELSE 0
BY DEF Whole

LEMMA LastPlace ==
    ASSUME NEW n \in Nat, NEW s \in SUBSET (1..n), s # {}
    PROVE  Max(s) \in s /\ Max(s) \in 1..n /\ \A i \in s : i <= Max(s)
<1>1. s \subseteq Nat /\ \A i \in s : i <= n
  OBVIOUS
<1>2. Max(s) \in s /\ \A i \in s : i <= Max(s)
  BY <1>1, GreatestOf
<1> QED
  BY <1>2

\* A chain fails with the first of its SLOs that does: the product is 0 or the whole.
LEMMA ChainIsLost ==
    ASSUME NEW chain \in Seq(SLOs), NEW down
    PROVE  ChainErrorRate(chain, Outage(down)) = IF ToSet(chain) \cap down = {} THEN 0 ELSE Whole
<1> DEFINE n == Len(chain)
           D == DOMAIN chain
           e == Outage(down)
           Product(f) == [s \in SUBSET D |->
               IF s = {} THEN Whole
               ELSE (f[s \ {Max(s)}] * (Whole - e[chain[Max(s)]])) \div Whole]
           h == CHOOSE f : f = Product(f)
           w == [s \in SUBSET D |-> IF \E i \in s : chain[i] \in down THEN 0 ELSE Whole]
<1>1. n \in Nat /\ D = 1..n /\ \A i \in D : chain[i] \in DOMAIN ObjectiveId
  <2>1. n \in Nat /\ D = 1..n /\ \A i \in D : chain[i] \in SLOs
    BY LenProperties, ElementOfSeq
  <2> QED
    BY <2>1, CompositionAssumption
<1>2. ChainErrorRate(chain, e) = Whole - h[D]
  BY DEF ChainErrorRate, FoldLeft, MapThenFoldSet
<1>3. ASSUME NEW s \in SUBSET D
      PROVE  w[s] = IF s = {} THEN Whole
                    ELSE (w[s \ {Max(s)}] * (Whole - e[chain[Max(s)]])) \div Whole
  <2>1. CASE s = {}
    BY <2>1
  <2>2. CASE s # {}
    <3> DEFINE m == Max(s)
    <3>1. m \in s /\ m \in D
      BY <1>1, <2>2, LastPlace
    <3> HIDE DEF m
    <3>2. e[chain[m]] = IF chain[m] \in down THEN Whole ELSE 0
      BY <1>1, <3>1 DEF Outage
    <3>3. s \ {m} \in SUBSET D
      OBVIOUS
    <3>4. w[s \ {m}] \in {0, Whole} /\ e[chain[m]] \in {0, Whole}
      BY <3>2, <3>3
    <3>5. w[s] = IF e[chain[m]] = 0 THEN w[s \ {m}] ELSE 0
      BY <3>1, <3>2, <3>3 DEF Whole
    <3> HIDE DEF w, e
    <3>6. (w[s \ {m}] * (Whole - e[chain[m]])) \div Whole = IF e[chain[m]] = 0 THEN w[s \ {m}] ELSE 0
      BY <3>4, WholeOrNothing
    <3> QED
      BY <2>2, <3>5, <3>6 DEF m
  <2> QED
    BY <2>1, <2>2
<1>4. w = Product(w)
  <2>1. Product(w) = [s \in SUBSET D |-> w[s]]
    <3> HIDE DEF w, e
    <3> QED
      BY <1>3
  <2> QED
    BY <2>1
<1>5. h = Product(h)
  <2> HIDE DEF w, Product
  <2> QED
    BY <1>4
<1>6. h[D] = w[D]
  <2> DEFINE done == {k \in Nat : k <= n => h[1..k] = w[1..k]}
  <2> HIDE DEF h, w, e
  <2>1. \A s \in SUBSET D :
            h[s] = IF s = {} THEN Whole
                   ELSE (h[s \ {Max(s)}] * (Whole - e[chain[Max(s)]])) \div Whole
    BY <1>5
  <2>2. ASSUME NEW k \in Nat, \A m \in Nat : m < k => m \in done PROVE k \in done
    <3> SUFFICES ASSUME k <= n PROVE h[1..k] = w[1..k]
      OBVIOUS
    <3>1. 1..k \in SUBSET D
      BY <1>1
    <3>2. CASE k = 0
      <4>1. 1..k = {}
        BY <3>2
      <4> QED
        BY <1>3, <2>1, <3>1, <4>1
    <3>3. CASE k # 0
      <4>1. 1..k # {} /\ Max(1..k) = k
        <5>1. k \in 1..k
          BY <3>3
        <5>2. Max(1..k) \in 1..k /\ \A i \in 1..k : i <= Max(1..k)
          BY <5>1, LastPlace
        <5> QED
          BY <5>1, <5>2
      <4>2. (1..k) \ {k} = 1..(k - 1) /\ k - 1 \in Nat /\ k - 1 < k /\ k - 1 <= n
        BY <1>1, <3>3
      <4>3. h[1..(k - 1)] = w[1..(k - 1)]
        BY <2>2, <4>2
      <4>4. h[1..k] = (h[1..(k - 1)] * (Whole - e[chain[k]])) \div Whole
        BY <2>1, <3>1, <4>1, <4>2
      <4>5. w[1..k] = (w[1..(k - 1)] * (Whole - e[chain[k]])) \div Whole
        BY <1>3, <3>1, <4>1, <4>2
      <4> QED
        BY <4>3, <4>4, <4>5
    <3> QED
      BY <3>2, <3>3
  <2>3. n \in done
    <3> HIDE DEF done
    <3> QED
      BY <1>1, <2>2, EveryNumber
  <2> QED
    BY <1>1, <2>3
<1>7. w[D] = IF ToSet(chain) \cap down = {} THEN Whole ELSE 0
  BY DEF ToSet
<1> QED
  BY <1>2, <1>6, <1>7 DEF Whole

\* What the routes of a rule lose: each its weight, if its chain meets the outage.
LEMMA RoutesAreLost ==
    ASSUME NEW r, HasRoutes(r), r.aggregate \in Aggregate, NEW down
    PROVE  LET Left(route) == IF ChainOf(r.source, route) \cap down = {} THEN route.weight ELSE 0
               left == [i \in DOMAIN r.source.routes |-> [weight |-> Left(r.source.routes[i])]]
           IN  ComposedErrorRate(r.aggregate, Outage(down)) = Whole - TotalWeight(left)
<1> DEFINE Left(route) == IF ChainOf(r.source, route) \cap down = {} THEN route.weight ELSE 0
           left == [i \in DOMAIN r.source.routes |-> [weight |-> Left(r.source.routes[i])]]
           routes == r.aggregate.routes
           n == Len(routes)
           D == DOMAIN routes
           e == Outage(down)
           Served(i) == (routes[i].weight * (Whole - ChainErrorRate(routes[i].slos, e))) \div Whole
           Sum(f) == [s \in SUBSET D |-> IF s = {} THEN 0 ELSE f[s \ {Max(s)}] + Served(Max(s))]
           SumLeft(f) ==
               [s \in SUBSET D |-> IF s = {} THEN 0 ELSE f[s \ {Max(s)}] + left[Max(s)].weight]
<1>1. routes \in Seq([weight : Nat, slos : Seq(SLOs)])
  BY DEF Aggregate
<1>2. n \in Nat /\ D = 1..n
  BY <1>1, LenProperties
<1>3. /\ routes # <<>> /\ D = DOMAIN r.source.routes
      /\ \A i \in D : /\ routes[i].weight = r.source.routes[i].weight
                      /\ ToSet(routes[i].slos) = ChainOf(r.source, r.source.routes[i])
  BY DEF HasRoutes
<1>4. ASSUME NEW i \in D PROVE Served(i) = left[i].weight
  <2>1. routes[i].weight \in Nat /\ routes[i].slos \in Seq(SLOs)
    <3>1. routes[i] \in [weight : Nat, slos : Seq(SLOs)]
      BY <1>1, <1>2, ElementOfSeq
    <3> QED
      BY <3>1
  <2>2. ChainErrorRate(routes[i].slos, e) =
            IF ChainOf(r.source, r.source.routes[i]) \cap down = {} THEN 0 ELSE Whole
    BY <1>3, <2>1, ChainIsLost
  <2>3. left[i].weight =
            IF ChainOf(r.source, r.source.routes[i]) \cap down = {} THEN routes[i].weight ELSE 0
    BY <1>3
  <2>4. \A x \in Nat : (x * (Whole - 0)) \div Whole = x /\ (x * (Whole - Whole)) \div Whole = 0
    BY DEF Whole
  <2> HIDE DEF left, e, routes
  <2> QED
    BY <2>1, <2>2, <2>3, <2>4
<1>5. \A f : Sum(f) = SumLeft(f)
  <2> SUFFICES ASSUME NEW f, NEW s \in SUBSET D, s # {} PROVE Served(Max(s)) = left[Max(s)].weight
    OBVIOUS
  <2>1. Max(s) \in D
    BY <1>2, LastPlace
  <2> HIDE DEF Served, left
  <2> QED
    BY <1>4, <2>1
<1>6. (CHOOSE f : f = Sum(f)) = (CHOOSE f : f = SumLeft(f))
  <2>1. \A f : (f = Sum(f)) <=> (f = SumLeft(f))
    <3> HIDE DEF Sum, SumLeft
    <3> QED
      BY <1>5
  <2> HIDE DEF Sum, SumLeft
  <2> QED
    BY <2>1, Zenon
<1>7. ComposedErrorRate(r.aggregate, e) = Whole - (CHOOSE f : f = Sum(f))[D]
  BY <1>3 DEF ComposedErrorRate, FoldLeft, MapThenFoldSet
<1>8. TotalWeight(left) = (CHOOSE f : f = SumLeft(f))[D]
  <2>1. DOMAIN left = D
    BY <1>3
  <2> HIDE DEF left
  <2> QED
    BY <2>1 DEF TotalWeight, FoldLeft, MapThenFoldSet
<1> QED
  BY <1>6, <1>7, <1>8

\* With WEIGHTED_ROUTES, for any objectives, aliases, routes and weights that are
\* admitted, and after whatever edits and fetches, a stored rule loses with an outage of
\* any SLOs exactly the routes whose chains meet it.
THEOREM OutagesHitTheirRoutes == Spec => []OutageHitsItsRoutes
<1>1. Init => StoredRules
  BY DEF Init, Empty, StoredRules
<1>2. IInv /\ StoredRules => OutageHitsItsRoutes
  <2> SUFFICES ASSUME IInv, StoredRules, NEW c \in DOMAIN rules,
                      rules[c].source.type = "WEIGHTED_ROUTES"
               PROVE  HasRoutes(rules[c]) /\ rules[c].aggregate \in Aggregate
    BY RoutesAreLost DEF OutageHitsItsRoutes
  <2>1. rules[c] \in Rule
    BY DEF IInv, TypeInv, TypeOK, K8sType
  <2> QED
    BY <2>1 DEF StoredRules, Composes, Rule
<1> QED
  BY <1>1, <1>2, Invariant, RulesStayComposed, PTL DEF Spec
=============================================================================
