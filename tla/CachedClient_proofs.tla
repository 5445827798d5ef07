------------------------ MODULE CachedClient_proofs ------------------------
(***************************************************************************)
(* For any number of callers and queries and any TTL: a caller goes back   *)
(* in time only through somebody else, and no error brings an answer back  *)
(* that had expired.                                                       *)
(***************************************************************************)
EXTENDS CachedClient, Basics_proofs

-----------------------------------------------------------------------------
(***************************************************************************)
(* The inductive invariant.                                                *)
(***************************************************************************)
\* An entry was stamped after Prometheus had evaluated it, and nothing is from
\* the future.
NothingFromTheFuture ==
    /\ \A q \in DOMAIN entries :
        entries[q].value <= entries[q].fetchTime /\ entries[q].fetchTime <= now
    /\ \A c \in Callers : value[c] <= now
    /\ \A a \in DOMAIN answered : answered[a].value <= now

\* An answer in hand is at least as new as all its caller has seen: a caller that
\* fetches gets no other answers meanwhile.
InHandIsNewest ==
    \A c \in Callers, q \in Queries :
        (pc[c] = "store" /\ <<c, q>> \in DOMAIN answered) => answered[<<c, q>>].value <= value[c]

\* While an entry is still the caller's own, the caller has seen nothing newer: to
\* see the answer of another fetch, that one must have overwritten the entry.
OwnEntryIsNewest ==
    \A c \in Callers, q \in DOMAIN entries :
        (entries[q].by = c /\ <<c, q>> \in DOMAIN answered)
        => answered[<<c, q>>].value <= entries[q].value

\* What a caller stored is no longer good while it fetches the query again, and
\* stays so once that has failed; what it fetches after that is newer.
Expired(q) == now - entries[q].fetchTime > TTL

FailedIsExpired ==
    /\ \A c \in Callers : \A q \in DOMAIN entries :
        (/\ entries[q].by = c
         /\ (pc[c] = "fetch" /\ query[c] = q) \/ <<c, q>> \in DOMAIN failed)
        => Expired(q)
    /\ \A a \in DOMAIN failed : failed[a] <= now
    /\ \A c \in Callers :
        (pc[c] = "store" /\ <<c, query[c]>> \in DOMAIN failed)
        => failed[<<c, query[c]>>] <= value[c]

IInv ==
    /\ TypeOK
    /\ NothingFromTheFuture
    /\ InHandIsNewest
    /\ OwnEntryIsNewest
    /\ FailedIsExpired
    /\ NoRevival

-----------------------------------------------------------------------------
(***************************************************************************)
(* The steps that record an answer.                                        *)
(***************************************************************************)
LEMMA InitIsGood == Init => IInv
<1> SUFFICES ASSUME Init PROVE IInv
  OBVIOUS
<1>1. DOMAIN entries = {} /\ DOMAIN answered = {} /\ DOMAIN failed = {}
  BY DEF Init
<1>2. now \in Nat /\ \A c \in Callers : value[c] <= now /\ pc[c] = "idle"
  BY DEF Init
<1> QED
  BY <1>1, <1>2 DEF Init, IInv, TypeOK, NothingFromTheFuture, InHandIsNewest,
                    OwnEntryIsNewest, FailedIsExpired, NoRevival

\* What an answer does to the histories: one entry of the answers is replaced, and
\* the failure before it is over.
Recorded(c, q, v) ==
    /\ DOMAIN answered' = DOMAIN answered \cup {<<c, q>>}
    /\ answered'[<<c, q>>].value = v
    /\ \A a \in DOMAIN answered : a # <<c, q>> => answered'[a] = answered[a]
    /\ DOMAIN answered' \subseteq Callers \X Queries
    /\ answered' \in [DOMAIN answered' -> Answer]
    /\ \A a \in DOMAIN answered' : answered'[a].value <= now'
    /\ DOMAIN failed' = DOMAIN failed \ {<<c, q>>}
    /\ \A a \in DOMAIN failed' : failed'[a] = failed[a]
    /\ DOMAIN failed' \subseteq Callers \X Queries
    /\ failed' \in [DOMAIN failed' -> Nat]
    /\ NoRevival'

LEMMA ReturnStep ==
    ASSUME IInv, NEW c \in Callers, NEW q \in Queries, NEW v \in Nat, NEW by \in Callers,
           Return(c, q, v, by),
           now' = now, v <= now,
           by = c /\ <<c, q>> \in DOMAIN failed => failed[<<c, q>>] <= v
    PROVE  Recorded(c, q, v)
<1> DEFINE new == [value |-> v, by |-> by, failed |-> LastFailure(c, q)]
<1>1. LastFailure(c, q) \in Nat /\ (by = c => LastFailure(c, q) <= v)
  BY DEF IInv, TypeOK, LastFailure
<1>2. new \in Answer
  BY <1>1 DEF Answer
<1>3. answered' = Extend(answered, <<c, q>>, new) /\ failed' = Drop(failed, <<c, q>>)
  BY DEF Return
<1>4. new.value = v /\ new.by = by /\ new.failed = LastFailure(c, q)
  OBVIOUS
<1> HIDE DEF new
<1>5. /\ DOMAIN answered' = DOMAIN answered \cup {<<c, q>>}
      /\ answered'[<<c, q>>] = new
      /\ \A a \in DOMAIN answered : a # <<c, q>> => answered'[a] = answered[a]
  BY <1>3 DEF Extend
<1>6. DOMAIN answered' \subseteq Callers \X Queries /\ answered' \in [DOMAIN answered' -> Answer]
  BY <1>2, <1>3, ExtendType DEF IInv, TypeOK
<1>7. \A a \in DOMAIN answered' : answered'[a].value <= now'
  BY <1>4, <1>5 DEF IInv, NothingFromTheFuture
<1>8. /\ DOMAIN failed' = DOMAIN failed \ {<<c, q>>}
      /\ \A a \in DOMAIN failed' : failed'[a] = failed[a]
      /\ DOMAIN failed' \subseteq Callers \X Queries
      /\ failed' \in [DOMAIN failed' -> Nat]
  BY <1>3 DEF Drop, IInv, TypeOK
<1>9. NoRevival'
  <2> SUFFICES ASSUME NEW d \in Callers, NEW r \in Queries, <<d, r>> \in DOMAIN answered',
                      answered'[<<d, r>>].by = d
               PROVE  answered'[<<d, r>>].value >= answered'[<<d, r>>].failed
    BY DEF NoRevival
  <2>1. CASE <<d, r>> = <<c, q>>
    BY <1>1, <1>4, <1>5, <2>1
  <2>2. CASE <<d, r>> # <<c, q>>
    BY <1>5, <2>2 DEF IInv, NoRevival
  <2> QED
    BY <2>1, <2>2
<1> QED
  BY <1>4, <1>5, <1>6, <1>7, <1>8, <1>9 DEF Recorded

LEMMA LookupHitStep ==
    ASSUME IInv, NEW c \in Callers, NEW q \in Queries, LookupHit(c, q)
    PROVE  IInv'
<1> DEFINE e == entries[q]
<1>1. /\ e \in Entry /\ q \in DOMAIN entries
      /\ e.value <= e.fetchTime /\ e.fetchTime <= now
      /\ now - e.fetchTime <= TTL
      /\ now \in Nat /\ TTL \in Nat
  BY CacheAssumption DEF LookupHit, Hit, IInv, TypeOK, NothingFromTheFuture, Entry
<1>2. Return(c, q, e.value, e.by) /\ now' = now
  BY DEF LookupHit
<1>3. /\ e.value \in Nat /\ e.by \in Callers /\ e.value <= now
      /\ ~(e.by = c /\ <<c, q>> \in DOMAIN failed)
  BY <1>1 DEF Entry, IInv, FailedIsExpired, Expired
<1>12. (e.by = c /\ <<c, q>> \in DOMAIN failed) => failed[<<c, q>>] <= e.value
  BY <1>3
<1> HIDE DEF e
<1>13. Recorded(c, q, e.value)
  BY <1>2, <1>3, <1>12, ReturnStep
<1>4. /\ DOMAIN answered' = DOMAIN answered \cup {<<c, q>>}
      /\ answered'[<<c, q>>].value = e.value
      /\ \A a \in DOMAIN answered : a # <<c, q>> => answered'[a] = answered[a]
      /\ DOMAIN answered' \subseteq Callers \X Queries
      /\ answered' \in [DOMAIN answered' -> Answer]
      /\ \A a \in DOMAIN answered' : answered'[a].value <= now'
  BY <1>13 DEF Recorded
<1>10. /\ DOMAIN failed' = DOMAIN failed \ {<<c, q>>}
       /\ \A a \in DOMAIN failed' : failed'[a] = failed[a]
       /\ DOMAIN failed' \subseteq Callers \X Queries
       /\ failed' \in [DOMAIN failed' -> Nat]
       /\ NoRevival'
  BY <1>13 DEF Recorded
<1>5. UNCHANGED <<now, entries, pc, query, value>> /\ pc[c] = "idle"
  BY DEF LookupHit
<1>6. TypeOK'
  BY <1>4, <1>5, <1>10 DEF IInv, TypeOK
<1>7. NothingFromTheFuture'
  BY <1>4, <1>5 DEF IInv, NothingFromTheFuture
<1>8. InHandIsNewest'
  BY <1>4, <1>5 DEF IInv, InHandIsNewest
<1>9. OwnEntryIsNewest'
  <2> SUFFICES ASSUME NEW d \in Callers, NEW r \in DOMAIN entries,
                      entries[r].by = d, <<d, r>> \in DOMAIN answered'
               PROVE  answered'[<<d, r>>].value <= entries[r].value
    BY <1>5 DEF OwnEntryIsNewest
  <2>1. CASE <<d, r>> = <<c, q>>
    BY <1>3, <1>4, <2>1 DEF e
  <2>2. CASE <<d, r>> # <<c, q>>
    BY <1>4, <2>2 DEF IInv, OwnEntryIsNewest
  <2> QED
    BY <2>1, <2>2
<1>11. FailedIsExpired'
  BY <1>5, <1>10 DEF IInv, FailedIsExpired, Expired
<1> QED
  BY <1>6, <1>7, <1>8, <1>9, <1>10, <1>11 DEF IInv

LEMMA StoreStep ==
    ASSUME IInv, NEW c \in Callers, Store(c)
    PROVE  IInv'
<1> DEFINE q == query[c]
           new == [value |-> value[c], fetchTime |-> now, by |-> c]
<1>1. /\ q \in Queries /\ value[c] \in Nat /\ now \in Nat /\ value[c] <= now /\ TTL \in Nat
      /\ <<c, q>> \in DOMAIN failed => failed[<<c, q>>] <= value[c]
  BY CacheAssumption DEF IInv, TypeOK, NothingFromTheFuture, FailedIsExpired, Store
<1>2. Return(c, q, value[c], c) /\ now' = now
  BY DEF Store
<1>4. new \in Entry /\ new.value = value[c] /\ new.fetchTime = now /\ new.by = c
  BY <1>1 DEF Entry
<1>5. entries' = Extend(entries, q, new)
  BY DEF Store
<1>6. pc' = [pc EXCEPT ![c] = "idle"] /\ UNCHANGED <<now, query, value>>
  BY DEF Store
<1> HIDE DEF q, new
<1>16. Recorded(c, q, value[c])
  BY <1>1, <1>2, ReturnStep
<1>7. /\ DOMAIN answered' = DOMAIN answered \cup {<<c, q>>}
      /\ answered'[<<c, q>>].value = value[c]
      /\ \A a \in DOMAIN answered : a # <<c, q>> => answered'[a] = answered[a]
      /\ DOMAIN answered' \subseteq Callers \X Queries
      /\ answered' \in [DOMAIN answered' -> Answer]
      /\ \A a \in DOMAIN answered' : answered'[a].value <= now'
  BY <1>16 DEF Recorded
<1>14. /\ DOMAIN failed' = DOMAIN failed \ {<<c, q>>}
       /\ \A a \in DOMAIN failed' : failed'[a] = failed[a]
       /\ DOMAIN failed' \subseteq Callers \X Queries
       /\ failed' \in [DOMAIN failed' -> Nat]
       /\ NoRevival'
  BY <1>16 DEF Recorded
<1>8. /\ DOMAIN entries' = DOMAIN entries \cup {q}
      /\ entries'[q] = new
      /\ \A r \in DOMAIN entries : r # q => entries'[r] = entries[r]
  BY <1>5 DEF Extend
<1>9. DOMAIN entries' \subseteq Queries /\ entries' \in [DOMAIN entries' -> Entry]
  BY <1>1, <1>4, <1>5, ExtendType DEF IInv, TypeOK
<1>10. TypeOK'
  BY <1>6, <1>7, <1>9, <1>14 DEF IInv, TypeOK
<1>11. NothingFromTheFuture'
  BY <1>1, <1>4, <1>6, <1>7, <1>8 DEF IInv, NothingFromTheFuture
<1>12. InHandIsNewest'
  <2> SUFFICES ASSUME NEW d \in Callers, NEW r \in Queries,
                      pc'[d] = "store", <<d, r>> \in DOMAIN answered'
               PROVE  answered'[<<d, r>>].value <= value[d]
    BY <1>6 DEF InHandIsNewest
  <2>1. d # c /\ pc[d] = "store"
    BY <1>6 DEF IInv, TypeOK
  <2> QED
    BY <1>7, <2>1 DEF IInv, InHandIsNewest
<1>13. OwnEntryIsNewest'
  <2> SUFFICES ASSUME NEW d \in Callers, NEW r \in DOMAIN entries',
                      entries'[r].by = d, <<d, r>> \in DOMAIN answered'
               PROVE  answered'[<<d, r>>].value <= entries'[r].value
    BY DEF OwnEntryIsNewest
  <2>1. CASE r = q
    BY <1>1, <1>4, <1>7, <1>8, <2>1
  <2>2. CASE r # q
    BY <1>7, <1>8, <2>2 DEF IInv, OwnEntryIsNewest
  <2> QED
    BY <2>1, <2>2
<1>15. FailedIsExpired'
  <2>1. ASSUME NEW d \in Callers, NEW r \in DOMAIN entries', entries'[r].by = d,
               (pc'[d] = "fetch" /\ query'[d] = r) \/ <<d, r>> \in DOMAIN failed'
        PROVE  now' - entries'[r].fetchTime > TTL
    <3>1. CASE r = q
      BY <1>4, <1>6, <1>8, <1>14, <2>1, <3>1 DEF IInv, TypeOK
    <3>2. CASE r # q
      BY <1>6, <1>8, <1>14, <2>1, <3>2 DEF IInv, TypeOK, FailedIsExpired, Expired
    <3> QED
      BY <3>1, <3>2
  <2>2. \A a \in DOMAIN failed' : failed'[a] <= now'
    BY <1>6, <1>14 DEF IInv, FailedIsExpired
  <2>3. ASSUME NEW d \in Callers, pc'[d] = "store", <<d, query'[d]>> \in DOMAIN failed'
        PROVE  failed'[<<d, query'[d]>>] <= value'[d]
    <3>1. d # c /\ pc[d] = "store"
      BY <1>6, <2>3 DEF IInv, TypeOK
    <3> QED
      BY <1>6, <1>14, <2>3, <3>1 DEF IInv, FailedIsExpired
  <2> QED
    BY <2>1, <2>2, <2>3 DEF FailedIsExpired, Expired
<1> QED
  BY <1>10, <1>11, <1>12, <1>13, <1>14, <1>15 DEF IInv

\* An error: the entry it could not replace had expired when it was looked up.
LEMMA FetchFailsStep ==
    ASSUME IInv, NEW c \in Callers, FetchFails(c)
    PROVE  IInv'
<1> DEFINE q == query[c]
<1>1. q \in Queries /\ now \in Nat /\ pc[c] = "fetch"
  BY DEF IInv, TypeOK, FetchFails
<1>2. /\ pc' = [pc EXCEPT ![c] = "idle"] /\ UNCHANGED <<now, entries, query, value, answered>>
      /\ failed' = Extend(failed, <<c, q>>, now)
  BY DEF FetchFails
<1> HIDE DEF q
<1>3. /\ DOMAIN failed' = DOMAIN failed \cup {<<c, q>>}
      /\ failed'[<<c, q>>] = now
      /\ \A a \in DOMAIN failed : a # <<c, q>> => failed'[a] = failed[a]
  BY <1>2 DEF Extend
<1>4. DOMAIN failed' \subseteq Callers \X Queries /\ failed' \in [DOMAIN failed' -> Nat]
  BY <1>1, <1>2, ExtendType DEF IInv, TypeOK
<1>5. TypeOK'
  BY <1>2, <1>4 DEF IInv, TypeOK
<1>6. NothingFromTheFuture' /\ OwnEntryIsNewest' /\ NoRevival'
  BY <1>2 DEF IInv, NothingFromTheFuture, OwnEntryIsNewest, NoRevival
<1>7. InHandIsNewest'
  BY <1>2 DEF IInv, TypeOK, InHandIsNewest
<1>8. FailedIsExpired'
  <2>1. ASSUME NEW d \in Callers, NEW r \in DOMAIN entries, entries[r].by = d,
               (pc'[d] = "fetch" /\ query[d] = r) \/ <<d, r>> \in DOMAIN failed'
        PROVE  now - entries[r].fetchTime > TTL
    <3>1. CASE <<d, r>> = <<c, q>>
      BY <1>1, <2>1, <3>1 DEF IInv, FailedIsExpired, Expired, q
    <3>2. CASE <<d, r>> # <<c, q>>
      <4>1. (pc[d] = "fetch" /\ query[d] = r) \/ <<d, r>> \in DOMAIN failed
        BY <1>2, <1>3, <2>1, <3>2 DEF IInv, TypeOK
      <4> QED
        BY <2>1, <4>1 DEF IInv, FailedIsExpired, Expired
    <3> QED
      BY <3>1, <3>2
  <2>2. \A a \in DOMAIN failed' : failed'[a] <= now
    BY <1>1, <1>3 DEF IInv, FailedIsExpired
  <2>3. ASSUME NEW d \in Callers, pc'[d] = "store", <<d, query[d]>> \in DOMAIN failed'
        PROVE  failed'[<<d, query[d]>>] <= value[d]
    <3>1. d # c /\ pc[d] = "store"
      BY <1>2, <2>3 DEF IInv, TypeOK
    <3> QED
      BY <1>3, <2>3, <3>1 DEF IInv, FailedIsExpired
  <2> QED
    BY <1>2, <2>1, <2>2, <2>3 DEF FailedIsExpired, Expired
<1> QED
  BY <1>5, <1>6, <1>7, <1>8 DEF IInv

LEMMA LookupMissStep ==
    ASSUME IInv, NEW c \in Callers, NEW q \in Queries, LookupMiss(c, q)
    PROVE  IInv'
<1>1. /\ pc' = [pc EXCEPT ![c] = "fetch"] /\ query' = [query EXCEPT ![c] = q]
      /\ UNCHANGED <<now, entries, value, answered, failed>>
      /\ ~Hit(q) /\ pc[c] = "idle"
  BY DEF LookupMiss
<1>2. TypeOK' /\ NothingFromTheFuture' /\ OwnEntryIsNewest' /\ NoRevival' /\ InHandIsNewest'
  BY <1>1 DEF IInv, TypeOK, NothingFromTheFuture, OwnEntryIsNewest, NoRevival, InHandIsNewest
<1>3. \A d \in Callers : d # c => pc'[d] = pc[d] /\ query'[d] = query[d]
  BY <1>1 DEF IInv, TypeOK
<1>4. pc'[c] = "fetch" /\ query'[c] = q
  BY <1>1 DEF IInv, TypeOK
<1>5. FailedIsExpired'
  BY <1>1, <1>3, <1>4 DEF IInv, FailedIsExpired, Expired, Hit
<1> QED
  BY <1>2, <1>5 DEF IInv

LEMMA FetchStep ==
    ASSUME IInv, NEW c \in Callers, Fetch(c)
    PROVE  IInv'
<1>1. /\ pc' = [pc EXCEPT ![c] = "store"] /\ value' = [value EXCEPT ![c] = now]
      /\ UNCHANGED <<now, entries, query, answered, failed>>
      /\ pc[c] = "fetch" /\ now \in Nat
  BY DEF Fetch, IInv, TypeOK
<1>2. \A d \in Callers : d # c => pc'[d] = pc[d] /\ value'[d] = value[d]
  BY <1>1 DEF IInv, TypeOK
<1>3. pc'[c] = "store" /\ value'[c] = now
  BY <1>1 DEF IInv, TypeOK
<1>4. TypeOK' /\ OwnEntryIsNewest' /\ NoRevival'
  BY <1>1 DEF IInv, TypeOK, OwnEntryIsNewest, NoRevival
<1>5. NothingFromTheFuture'
  BY <1>1, <1>2, <1>3 DEF IInv, NothingFromTheFuture
<1>6. InHandIsNewest'
  BY <1>1, <1>2, <1>3 DEF IInv, InHandIsNewest, NothingFromTheFuture
<1>7. FailedIsExpired'
  BY <1>1, <1>2, <1>3 DEF IInv, FailedIsExpired, Expired
<1> QED
  BY <1>4, <1>5, <1>6, <1>7 DEF IInv

LEMMA TickStep ==
    ASSUME IInv, Tick
    PROVE  IInv'
<1>1. now' = now + 1 /\ now \in Nat /\ UNCHANGED <<entries, pc, query, value, answered, failed>>
  BY DEF Tick, IInv, TypeOK
<1>2. TypeOK' /\ InHandIsNewest' /\ OwnEntryIsNewest' /\ NoRevival'
  BY <1>1 DEF IInv, TypeOK, InHandIsNewest, OwnEntryIsNewest, NoRevival
<1>3. NothingFromTheFuture'
  BY <1>1 DEF IInv, TypeOK, NothingFromTheFuture, Entry, Answer
<1>4. FailedIsExpired'
  BY <1>1, CacheAssumption DEF IInv, TypeOK, FailedIsExpired, Expired, Entry
<1> QED
  BY <1>2, <1>3, <1>4 DEF IInv

LEMMA Inductive == Spec => []IInv
<1>1. IInv /\ [Next]_vars => IInv'
  <2>1. IInv /\ UNCHANGED vars => IInv'
    BY DEF vars, IInv, TypeOK, NothingFromTheFuture, InHandIsNewest, OwnEntryIsNewest,
           FailedIsExpired, Expired, NoRevival
  <2> QED
    BY <2>1, LookupHitStep, LookupMissStep, FetchStep, FetchFailsStep, StoreStep, TickStep
       DEF Next
<1> QED
  BY <1>1, InitIsGood, PTL DEF Spec

-----------------------------------------------------------------------------
(***************************************************************************)
(* The theorems.                                                           *)
(***************************************************************************)
\* Every variable of the client keeps its shape; in particular no fetch takes less
\* than no time, whatever the callers do in between.
THEOREM TypeCorrect == Spec => []TypeOK
<1>1. IInv => TypeOK
  BY DEF IInv
<1> QED
  BY <1>1, Inductive, PTL

\* A failed query never brings back what its caller had stored before: the error is
\* returned, and the entry it could not replace stays expired (cache.go:51-62).
THEOREM ErrorsReviveNothing == Spec => []NoRevival
<1>1. IInv => NoRevival
  BY DEF IInv
<1> QED
  BY <1>1, Inductive, PTL

\* A caller whose answers all come from its own fetches never goes back in time.
THEOREM OwnAnswersNeverGoBack == Spec => OnlyOthersGoBack
<1> DEFINE A(c, q) ==
        (/\ <<c, q>> \in DOMAIN answered
         /\ answered'[<<c, q>>].value < answered[<<c, q>>].value)
        => answered'[<<c, q>>].by # c
<1>1. ASSUME IInv, [Next]_vars, NEW c \in Callers, NEW q \in Queries PROVE A(c, q)
  <2>0. SUFFICES ASSUME <<c, q>> \in DOMAIN answered,
                        answered'[<<c, q>>].value < answered[<<c, q>>].value
                 PROVE  answered'[<<c, q>>].by # c
    OBVIOUS
  <2>1. answered[<<c, q>>].value \in Nat /\ ~(answered[<<c, q>>].value < answered[<<c, q>>].value)
    BY <1>1, <2>0 DEF IInv, TypeOK, Answer
  <2>2. answered' # answered
    BY <2>0, <2>1
  <2>3. PICK d, r, v, by :
            /\ d \in Callers /\ r \in Queries
            /\ Return(d, r, v, by)
            /\ \/ LookupHit(d, r) /\ v = entries[r].value /\ by = entries[r].by
               \/ Store(d) /\ r = query[d] /\ v = value[d]
    BY <1>1, <2>2 DEF Next, vars, LookupHit, LookupMiss, Fetch, FetchFails, Store, Tick,
                      IInv, TypeOK
  <2>4. <<d, r>> = <<c, q>> /\ answered'[<<c, q>>].value = v /\ answered'[<<c, q>>].by = by
    BY <2>0, <2>1, <2>3 DEF Return, Extend
  <2>5. CASE LookupHit(d, r) /\ v = entries[r].value /\ by = entries[r].by
    BY <1>1, <2>0, <2>4, <2>5 DEF LookupHit, Hit, IInv, TypeOK, OwnEntryIsNewest, Entry, Answer
  <2>6. CASE Store(d) /\ r = query[d] /\ v = value[d]
    BY <1>1, <2>0, <2>4, <2>6 DEF Store, IInv, TypeOK, InHandIsNewest, Answer
  <2> QED
    BY <2>3, <2>5, <2>6
<1>2. IInv /\ [Next]_vars => [\A c \in Callers, q \in Queries : A(c, q)]_vars
  BY <1>1
<1> QED
  BY <1>2, Inductive, PTL DEF Spec, OnlyOthersGoBack
=============================================================================
