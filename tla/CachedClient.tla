---------------------------- MODULE CachedClient ----------------------------
(***************************************************************************)
(* internal/prometheus/cache.go: a read-through cache of query results     *)
(* that several goroutines may call.  A call looks the query up under the  *)
(* read lock, asks Prometheus without any lock, and stores the answer      *)
(* under the write lock: three steps other callers and the clock get       *)
(* between.  QuerySLI and QuerySLINotNormalized are the same code over the *)
(* same cache.                                                             *)
(*                                                                         *)
(* The value of a query is the instant Prometheus evaluated it at, so that *)
(* which of two answers is newer can be told.                              *)
(***************************************************************************)
EXTENDS Integers, Maps

CONSTANTS
    Callers,    \* goroutines that share the client
    Queries,
    TTL,        \* in clock ticks
    MaxTime     \* bound: ticks of the clock

ASSUME CacheAssumption == TTL \in Nat /\ MaxTime \in Nat

VARIABLES
    now,
    entries,    \* map[string]CacheEntry; by is history: the caller that stored it
    pc,         \* caller -> "idle", "fetch" (miss, asking), "store" (answer in hand)
    query,      \* caller -> query of the call in progress
    value,      \* caller -> answer in hand
    answered,   \* history: <<caller, query>> -> last answer returned
    failed      \* history: <<caller, query>> -> when the query last failed, if it
                \* was not answered since

vars == <<now, entries, pc, query, value, answered, failed>>

Entry  == [value : Nat, fetchTime : Nat, by : Callers]
Answer == [value : Nat, by : Callers, failed : Nat]

TypeOK ==
    /\ now \in Nat
    /\ DOMAIN entries \subseteq Queries
    /\ entries \in [DOMAIN entries -> Entry]
    /\ pc \in [Callers -> {"idle", "fetch", "store"}]
    /\ query \in [Callers -> Queries]
    /\ value \in [Callers -> Nat]
    /\ DOMAIN answered \subseteq Callers \X Queries
    /\ answered \in [DOMAIN answered -> Answer]
    /\ DOMAIN failed \subseteq Callers \X Queries
    /\ failed \in [DOMAIN failed -> Nat]

Init ==
    /\ now = 0
    /\ entries = [q \in {} |-> 0]
    /\ pc = [c \in Callers |-> "idle"]
    /\ query \in [Callers -> Queries]
    /\ value = [c \in Callers |-> 0]
    /\ answered = [a \in {} |-> 0]
    /\ failed = [a \in {} |-> 0]

\* getCache: an entry exactly TTL old is still good.
Hit(q) == q \in DOMAIN entries /\ ~(now - entries[q].fetchTime > TTL)

\* What the caller gets: the value and whose fetch it was; as history, when the
\* query last failed before, if it did since its last answer.
LastFailure(c, q) == IF <<c, q>> \in DOMAIN failed THEN failed[<<c, q>>] ELSE 0

Return(c, q, v, by) ==
    /\ answered' = Extend(answered, <<c, q>>,
                          [value |-> v, by |-> by, failed |-> LastFailure(c, q)])
    /\ failed' = Drop(failed, <<c, q>>)

LookupHit(c, q) ==
    /\ pc[c] = "idle"
    /\ Hit(q)
    /\ Return(c, q, entries[q].value, entries[q].by)
    /\ UNCHANGED <<now, entries, pc, query, value>>

LookupMiss(c, q) ==
    /\ pc[c] = "idle"
    /\ ~Hit(q)
    /\ pc' = [pc EXCEPT ![c] = "fetch"]
    /\ query' = [query EXCEPT ![c] = q]
    /\ UNCHANGED <<now, entries, value, answered, failed>>

\* Prometheus evaluates the query; the answer may take any time to come back.
Fetch(c) ==
    /\ pc[c] = "fetch"
    /\ value' = [value EXCEPT ![c] = now]
    /\ pc' = [pc EXCEPT ![c] = "store"]
    /\ UNCHANGED <<now, entries, query, answered, failed>>

\* Mutant: the zero value that comes with an error is treated as an answer.
FetchFailsUnnoticed(c) ==
    /\ pc[c] = "fetch"
    /\ value' = [value EXCEPT ![c] = -1]
    /\ pc' = [pc EXCEPT ![c] = "store"]
    /\ UNCHANGED <<now, entries, query, answered, failed>>

\* Mutant: after an error the old entry is good for another TTL, so as not to ask
\* a Prometheus in trouble again and again.
FetchFailsRenews(c) ==
    LET q == query[c] IN
    /\ pc[c] = "fetch"
    /\ pc' = [pc EXCEPT ![c] = "idle"]
    /\ entries' = IF q \in DOMAIN entries THEN [entries EXCEPT ![q].fetchTime = now]
                  ELSE entries
    /\ failed' = Extend(failed, <<c, q>>, now)
    /\ UNCHANGED <<now, query, value, answered>>

\* An error is returned and not remembered: the old entry stays as it is.
FetchFails(c) ==
    /\ pc[c] = "fetch"
    /\ pc' = [pc EXCEPT ![c] = "idle"]
    /\ failed' = Extend(failed, <<c, query[c]>>, now)
    /\ UNCHANGED <<now, entries, query, value, answered>>

\* Mutant: an existing entry gets a new stamp but keeps its value.
StoreKeepsValue(c) ==
    LET q == query[c]
        kept == IF q \in DOMAIN entries THEN entries[q].value ELSE value[c]
    IN  /\ pc[c] = "store"
        /\ entries' = Extend(entries, q, [value |-> kept, fetchTime |-> now, by |-> c])
        /\ Return(c, q, value[c], c)
        /\ pc' = [pc EXCEPT ![c] = "idle"]
        /\ UNCHANGED <<now, query, value>>

\* setCache: overwrites whatever is there, and stamps it with the current time.
Store(c) ==
    /\ pc[c] = "store"
    /\ entries' = Extend(entries, query[c], [value |-> value[c], fetchTime |-> now, by |-> c])
    /\ Return(c, query[c], value[c], c)
    /\ pc' = [pc EXCEPT ![c] = "idle"]
    /\ UNCHANGED <<now, query, value>>

Tick ==
    /\ now < MaxTime
    /\ now' = now + 1
    /\ UNCHANGED <<entries, pc, query, value, answered, failed>>

Next ==
    \/ \E c \in Callers, q \in Queries : LookupHit(c, q) \/ LookupMiss(c, q)
    \/ \E c \in Callers : Fetch(c) \/ FetchFails(c) \/ Store(c)
    \/ Tick

Spec == Init /\ [][Next]_vars

-----------------------------------------------------------------------------
(***************************************************************************)
(* Properties                                                              *)
(***************************************************************************)

\* What a caller has stored before its query failed never comes back: after an
\* error (cache.go:57-59) its next answer is from a fetch of its own that began
\* later, or was stored by another caller.  The expired entry is still in the
\* map all the while, and other callers look at it, too.
NoRevival ==
    \A c \in Callers, q \in Queries :
        <<c, q>> \in DOMAIN answered =>
            LET a == answered[<<c, q>>] IN a.by = c => a.value >= a.failed

\* A caller sees a query go back in time only through an answer another caller
\* stored, never through its own fetches.  The operator gives the cached client
\* to one controller with one worker (cmd/manager/main.go:210-214), so there a
\* series of answers never goes back.
OnlyOthersGoBack ==
    [][\A c \in Callers, q \in Queries :
        (/\ <<c, q>> \in DOMAIN answered
         /\ answered'[<<c, q>>].value < answered[<<c, q>>].value)
        => answered'[<<c, q>>].by # c]_vars
=============================================================================
