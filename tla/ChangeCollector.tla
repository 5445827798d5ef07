--------------------------- MODULE ChangeCollector ---------------------------
(***************************************************************************)
(* internal/correlation/collector.go: the ring buffer of cluster changes.  *)
(* Each watched kind has its own informer goroutine, which stamps a record *)
(* with the time first and adds it under the mutex afterwards, so records  *)
(* of different kinds can enter the buffer in another order than they were *)
(* stamped.                                                                *)
(***************************************************************************)
EXTENDS Integers, SequencesExt

CONSTANTS
    Size,       \* bufferSize
    Retention,  \* retentionDuration, in clock ticks
    SystemNamespaces,
    Deliveries, \* what the watches deliver, as far as handlers and readers look at
                \* it: [kind, namespace, labels, systemName, significant, crash];
                \* systemName: a kube- name, or a service account token;
                \* crash: the event's text tells of a crash
    Unused,     \* the zero ChangeRecord of a slot never written
    MaxTime,    \* bound: ticks of the clock
    MaxChanges  \* bound: records stamped

ASSUME SizeAssumption == Size \in Nat \ {0}
ASSUME LimitAssumption == Retention \in Nat /\ MaxTime \in Nat /\ MaxChanges \in Nat

Kinds == {o.kind : o \in Deliveries}
Slots == 0..(Size - 1)

\* There is one handler per kind.
ASSUME KindsAssumption == Kinds \subseteq {"Deployment", "ConfigMap", "Secret", "Event"}

\* A ChangeRecord: its timestamp, the object it was made of, and a number that
\* tells it from all others (its name, diff and actor).  Labels are a function on
\* all keys in use, "" where an object has none, which is what a Go map returns.
Record == [timestamp : Nat, object : Deliveries, id : Nat]

ASSUME UnusedAssumption == Unused \notin Record

VARIABLES
    now,
    buffer,     \* slot -> ChangeRecord
    head,       \* next write position
    count,      \* number of valid entries
    stamped,    \* kind -> record its handler has built but not added yet
    log,        \* history: every record this process has added, oldest first
    stamps      \* history: how many records were stamped

collector == <<now, buffer, head, count, stamped, log, stamps>>

TypeOK ==
    /\ now \in Nat
    /\ buffer \in [Slots -> Record \cup {Unused}]
    /\ head \in Slots
    /\ count \in 0..Size
    /\ stamped \in [Kinds -> Record \cup {Unused}]
    /\ log \in Seq(Record)
    /\ stamps \in Nat

Init ==
    /\ now = 0 /\ stamps = 0
    /\ buffer = [i \in Slots |-> Unused]
    /\ head = 0 /\ count = 0
    /\ stamped = [k \in Kinds |-> Unused]
    /\ log = <<>>

\* What the handler of a kind passes over.  Events are kept wherever they
\* happen, if their reason is on the list.
Skipped(o) ==
    CASE o.kind = "Deployment" -> o.namespace \in SystemNamespaces
      [] o.kind \in {"ConfigMap", "Secret"} ->
            o.namespace \in SystemNamespaces \/ o.systemName
      [] o.kind = "Event" -> ~o.significant

\* A handler is called with an object: with the new one for a create or delete,
\* with the old and then the new one for an update, whatever the update changed
\* (no predicate filters the watches), and with every object there is when the
\* informers list the cluster after a start.
Handle(o) ==
    /\ ~Skipped(o)
    /\ stamped[o.kind] = Unused
    /\ stamps < MaxChanges
    /\ stamps' = stamps + 1
    /\ stamped' = [stamped EXCEPT ![o.kind] =
                     [timestamp |-> now, object |-> o, id |-> stamps + 1]]
    /\ UNCHANGED <<now, buffer, head, count, log>>

\* Mutant: the write position stays at the last slot instead of wrapping.
addRecordSticky(record) ==
    /\ buffer' = [buffer EXCEPT ![head] = record]
    /\ head' = IF head + 1 < Size THEN head + 1 ELSE head
    /\ count' = IF count < Size THEN count + 1 ELSE count
    /\ log' = Append(log, record)

\* Mutant: count grows past the size of the buffer.
addRecordUncapped(record) ==
    /\ buffer' = [buffer EXCEPT ![head] = record]
    /\ head' = (head + 1) % Size
    /\ count' = count + 1
    /\ log' = Append(log, record)

\* addRecord, under the mutex.
addRecord(record) ==
    /\ buffer' = [buffer EXCEPT ![head] = record]
    /\ head' = (head + 1) % Size
    /\ count' = IF count < Size THEN count + 1 ELSE count
    /\ log' = Append(log, record)

Add(k) ==
    /\ stamped[k] # Unused
    /\ addRecord(stamped[k])
    /\ stamped' = [stamped EXCEPT ![k] = Unused]
    /\ UNCHANGED <<now, stamps>>

Tick ==
    /\ now < MaxTime
    /\ now' = now + 1
    /\ UNCHANGED <<buffer, head, count, stamped, log, stamps>>

\* The operator restarts: everything the collector holds is lost.
Restart ==
    /\ log # <<>> \/ \E k \in Kinds : stamped[k] # Unused
    /\ buffer' = [i \in Slots |-> Unused]
    /\ head' = 0 /\ count' = 0
    /\ stamped' = [k \in Kinds |-> Unused]
    /\ log' = <<>>
    /\ UNCHANGED <<now, stamps>>

Work ==
    \/ \E o \in Deliveries : Handle(o)
    \/ \E k \in Kinds : Add(k)
    \/ Tick

Collect == Work \/ Restart

CollectorSpec == Init /\ [][Collect]_collector

-----------------------------------------------------------------------------
(***************************************************************************)
(* Reading                                                                 *)
(***************************************************************************)
\* Mutant: the ring is read from its first slot on.
ContentsFromStart == [i \in 1..count |-> buffer[i - 1]]

\* The valid entries in the order GetChangesInWindow visits them.
Contents == [i \in 1..count |-> buffer[(head - i + Size) % Size]]

\* Mutant: a record exactly at the cutoff is dropped.
InWindowStrictCutoff(record, start, end) ==
    /\ record.timestamp > now - Retention
    /\ start < record.timestamp /\ record.timestamp < end

\* Before and After are strict: a record exactly at the cutoff is kept, one
\* exactly at either end of the window is not returned.
InWindow(record, start, end) ==
    /\ ~(record.timestamp < now - Retention)
    /\ start < record.timestamp /\ record.timestamp < end

\* The places of the changes returned.  They are returned in that order, which the
\* engine, their only reader, does not keep.
GetChangesInWindow(start, end) == {i \in 1..count : InWindow(Contents[i], start, end)}

\* A key an object does not have reads as "": a selector that asks for "" matches it.
matchLabels(labels, selector) == \A k \in DOMAIN selector : labels[k] = selector[k]

-----------------------------------------------------------------------------
(***************************************************************************)
(* Properties                                                              *)
(***************************************************************************)
\* The ring implements the log of the last Size changes.
Log == INSTANCE ChangeLog WITH Records <- Record, recent <- Contents

LogSpec == Log!Spec

\* A change inside the analysis window is missed only if Size later ones pushed
\* it out or it outlived the retention (collector.go:256-279), nothing else is
\* returned, and nothing twice.
Windows == {w \in (-1..MaxTime) \X (0..(MaxTime + 1)) : w[1] < w[2]}

WindowIsComplete ==
    \A w \in Windows :
        LET found == GetChangesInWindow(w[1], w[2])
            wanted == {i \in 1..Len(log) :
                        /\ Len(log) - i < Size
                        /\ log[i].timestamp \in (w[1] + 1)..(w[2] - 1)
                        /\ now - log[i].timestamp <= Retention}
        IN  /\ {Contents[i] : i \in found} = {log[i] : i \in wanted}
            /\ \A i, j \in found : Contents[i] = Contents[j] => i = j

\* The changes of one kind are read back newest first; only records of different
\* kinds can be out of order, and only while their handlers overlapped.
KindsInOrder ==
    \A i, j \in 1..count :
        (i < j /\ Contents[i].object.kind = Contents[j].object.kind)
        => Contents[i].timestamp >= Contents[j].timestamp
=============================================================================
