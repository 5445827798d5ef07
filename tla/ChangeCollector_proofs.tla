----------------------- MODULE ChangeCollector_proofs -----------------------
(***************************************************************************)
(* For any size of the buffer, any retention and any number of kinds: the  *)
(* ring implements the log of the last Size changes, its readers miss      *)
(* nothing and return nothing twice, and one kind is read in order.        *)
(***************************************************************************)
EXTENDS ChangeCollector, Basics_proofs, SequenceTheorems

-----------------------------------------------------------------------------
(***************************************************************************)
(* The inductive invariant.                                                *)
(***************************************************************************)
\* The slot the i-th newest entry is in: (head - i + Size) % Size by cases.
Place(i) == IF i <= head THEN head - i ELSE head - i + Size

\* Behind the write position lie the last entries of the log.
RingInv ==
    /\ count = IF Len(log) < Size THEN Len(log) ELSE Size
    /\ \A i \in 1..count : buffer[Place(i)] = log[Len(log) + 1 - i]

Waiting(k) == stamped[k] # Unused

\* A handler stamps objects of its own kind only, and no record is from the future.
StampInv ==
    /\ \A k \in Kinds : Waiting(k) =>
        /\ stamped[k].object.kind = k
        /\ stamped[k].timestamp <= now /\ stamped[k].id <= stamps
    /\ \A i \in 1..Len(log) : log[i].timestamp <= now /\ log[i].id <= stamps

\* No two records are the same.
DistinctInv ==
    /\ \A i, j \in 1..Len(log) : log[i].id = log[j].id => i = j
    /\ \A k \in Kinds, i \in 1..Len(log) : Waiting(k) => stamped[k].id # log[i].id
    /\ \A k, l \in Kinds : (Waiting(k) /\ Waiting(l) /\ stamped[k].id = stamped[l].id) => k = l

\* The records of one kind are in order, the one that waits to be added included.
OrderInv ==
    /\ \A i, j \in 1..Len(log) :
        (i < j /\ log[i].object.kind = log[j].object.kind) => log[i].timestamp <= log[j].timestamp
    /\ \A k \in Kinds, i \in 1..Len(log) :
        (Waiting(k) /\ log[i].object.kind = k) => log[i].timestamp <= stamped[k].timestamp

IInv == TypeOK /\ RingInv /\ StampInv /\ DistinctInv /\ OrderInv

-----------------------------------------------------------------------------
(***************************************************************************)
(* Arithmetic of the ring.                                                 *)
(***************************************************************************)
LEMMA Modulo ==
    ASSUME NEW n \in Nat, n < 2 * Size
    PROVE  n % Size = IF n < Size THEN n ELSE n - Size
<1> Size \in Nat /\ Size > 0
  BY SizeAssumption
<1> QED
  OBVIOUS

LEMMA PlaceIsSlot ==
    ASSUME TypeOK, NEW i \in 1..Size
    PROVE  (head - i + Size) % Size = Place(i) /\ Place(i) \in Slots
<1> DEFINE n == head - i + Size
<1>1. n \in Nat /\ n < 2 * Size /\ Size \in Nat /\ head \in 0..(Size - 1)
  BY SizeAssumption DEF TypeOK, Slots
<1>2. n % Size = IF n < Size THEN n ELSE n - Size
  <2> HIDE DEF n
  <2> QED
    BY <1>1, Modulo
<1> QED
  BY <1>1, <1>2 DEF Place, Slots

\* The write position moves on by one slot, and with it what is behind it by one place.
LEMMA Advance ==
    ASSUME TypeOK, head' = (head + 1) % Size
    PROVE  /\ head' \in Slots
           /\ Place(1)' = head
           /\ \A i \in 1..(Size - 1) : Place(i + 1)' = Place(i) /\ Place(i) # head
<1>1. Size \in Nat \ {0} /\ head \in 0..(Size - 1)
  BY SizeAssumption DEF TypeOK, Slots
<1>2. head' = IF head + 1 < Size THEN head + 1 ELSE 0
  BY <1>1, Modulo
<1> QED
  BY <1>1, <1>2 DEF Place, Slots

-----------------------------------------------------------------------------
(***************************************************************************)
(* What the readers see.                                                   *)
(***************************************************************************)
\* Contents is the end of the log, backwards.
LEMMA ContentsIsLog ==
    ASSUME TypeOK, RingInv
    PROVE  /\ count \in Nat /\ count <= Len(log) /\ count <= Size
           /\ Contents \in Seq(Record) /\ Len(Contents) = count
           /\ \A i \in 1..count : Contents[i] = log[Len(log) + 1 - i]
<1>1. count \in Nat /\ count <= Len(log) /\ count <= Size /\ Len(log) \in Nat
  BY SizeAssumption DEF TypeOK, RingInv
<1>2. ASSUME NEW i \in 1..count
      PROVE  buffer[(head - i + Size) % Size] = log[Len(log) + 1 - i]
             /\ log[Len(log) + 1 - i] \in Record
  <2>1. i \in 1..Size /\ Len(log) + 1 - i \in 1..Len(log)
    BY <1>1, SizeAssumption
  <2>2. (head - i + Size) % Size = Place(i)
    BY <2>1, PlaceIsSlot
  <2> QED
    BY <2>1, <2>2 DEF RingInv, TypeOK
<1>3. \A i \in 1..count : Contents[i] = log[Len(log) + 1 - i] /\ Contents[i] \in Record
  BY <1>2 DEF Contents
<1>4. Contents \in [1..count -> Record]
  BY <1>3 DEF Contents
<1>5. Contents \in Seq(Record) /\ Len(Contents) = count
  BY <1>1, <1>4, SeqDef, LenProperties
<1> QED
  BY <1>1, <1>3, <1>5

-----------------------------------------------------------------------------
(***************************************************************************)
(* The invariant is inductive, one lemma per action.                       *)
(***************************************************************************)
LEMMA InitIsGood == Init => IInv
<1> SUFFICES ASSUME Init PROVE IInv
  OBVIOUS
<1>1. Len(log) = 0 /\ log \in Seq(Record)
  BY DEF Init
<1>2. \A k \in Kinds : ~Waiting(k)
  BY DEF Init, Waiting
<1>3. TypeOK
  BY <1>1, SizeAssumption DEF Init, TypeOK, Slots
<1> QED
  BY <1>1, <1>2, <1>3, SizeAssumption DEF Init, IInv, RingInv, StampInv, DistinctInv, OrderInv

LEMMA HandleStep ==
    ASSUME IInv, NEW o \in Deliveries, Handle(o)
    PROVE  IInv'
<1> DEFINE new == [timestamp |-> now, object |-> o, id |-> stamps + 1]
<1>1. UNCHANGED <<now, buffer, head, count, log>> /\ stamps' = stamps + 1
      /\ stamped' = [stamped EXCEPT ![o.kind] = new]
  BY DEF Handle
<1>2. /\ new \in Record /\ new # Unused
      /\ new.object.kind = o.kind /\ new.timestamp = now /\ new.id = stamps + 1
      /\ o.kind \in Kinds /\ now \in Nat /\ stamps \in Nat
      /\ log \in Seq(Record) /\ Len(log) \in Nat /\ \A i \in 1..Len(log) : log[i] \in Record
  <2>1. now \in Nat /\ stamps \in Nat /\ log \in Seq(Record)
    BY DEF IInv, TypeOK
  <2>2. new \in Record /\ new.object = o /\ new.timestamp = now /\ new.id = stamps + 1
    BY <2>1 DEF Record
  <2>3. new # Unused
    BY <2>2, UnusedAssumption
  <2>4. Len(log) \in Nat /\ \A i \in 1..Len(log) : log[i] \in Record
    BY <2>1, ElementOfSeq, LenProperties
  <2>5. o.kind \in Kinds
    BY DEF Kinds
  <2> HIDE DEF new
  <2> QED
    BY <2>1, <2>2, <2>3, <2>4, <2>5
<1> HIDE DEF new
<1>3. /\ Waiting(o.kind)' /\ stamped'[o.kind] = new
      /\ \A k \in Kinds : k # o.kind => stamped'[k] = stamped[k] /\ Waiting(k)' = Waiting(k)
  BY <1>1, <1>2 DEF Waiting, IInv, TypeOK
<1>4. TypeOK'
  BY <1>1, <1>2 DEF IInv, TypeOK
<1>5. RingInv'
  BY <1>1 DEF IInv, RingInv, Place
<1>6. StampInv'
  <2>1. ASSUME NEW k \in Kinds, Waiting(k)'
        PROVE  /\ stamped'[k].object.kind = k
               /\ stamped'[k].timestamp <= now' /\ stamped'[k].id <= stamps'
    <3>1. CASE k = o.kind
      BY <1>1, <1>2, <1>3, <3>1
    <3>2. CASE k # o.kind
      <4>1. Waiting(k) /\ stamped'[k] = stamped[k] /\ stamped[k] \in Record
        BY <1>3, <2>1, <3>2 DEF IInv, TypeOK, Waiting
      <4> QED
        BY <1>1, <1>2, <4>1 DEF IInv, StampInv, Record
    <3> QED
      BY <3>1, <3>2
  <2>2. \A i \in 1..Len(log) : log[i].timestamp <= now /\ log[i].id <= stamps + 1
    BY <1>2 DEF IInv, StampInv, Record
  <2> QED
    BY <1>1, <2>1, <2>2 DEF StampInv
<1>7. DistinctInv'
  <2>1. ASSUME NEW k \in Kinds, NEW i \in 1..Len(log), Waiting(k)'
        PROVE  stamped'[k].id # log[i].id
    <3>1. CASE k = o.kind
      BY <1>2, <1>3, <3>1 DEF IInv, StampInv, Record
    <3>2. CASE k # o.kind
      BY <1>3, <2>1, <3>2 DEF IInv, DistinctInv
    <3> QED
      BY <3>1, <3>2
  <2>2. ASSUME NEW k \in Kinds, NEW l \in Kinds,
               Waiting(k)', Waiting(l)', stamped'[k].id = stamped'[l].id
        PROVE  k = l
    <3>1. \A m \in Kinds : m # o.kind /\ Waiting(m)' => Waiting(m) /\ stamped'[m].id <= stamps
                                                        /\ stamped'[m].id \in Nat
      BY <1>3 DEF IInv, TypeOK, StampInv, Waiting, Record
    <3>2. stamped'[o.kind].id = stamps + 1
      BY <1>2, <1>3
    <3> QED
      BY <1>2, <1>3, <2>2, <3>1, <3>2 DEF IInv, DistinctInv
  <2> QED
    BY <1>1, <2>1, <2>2 DEF IInv, DistinctInv
<1>8. OrderInv'
  <2>1. ASSUME NEW k \in Kinds, NEW i \in 1..Len(log), Waiting(k)', log[i].object.kind = k
        PROVE  log[i].timestamp <= stamped'[k].timestamp
    <3>1. CASE k = o.kind
      BY <1>2, <1>3, <3>1 DEF IInv, StampInv
    <3>2. CASE k # o.kind
      BY <1>3, <2>1, <3>2 DEF IInv, OrderInv
    <3> QED
      BY <3>1, <3>2
  <2> QED
    BY <1>1, <2>1 DEF IInv, OrderInv
<1> QED
  BY <1>4, <1>5, <1>6, <1>7, <1>8 DEF IInv

LEMMA AddStep ==
    ASSUME IInv, NEW k \in Kinds, Add(k)
    PROVE  IInv'
<1> DEFINE record == stamped[k]
           n == Len(log)
<1>1. /\ record \in Record /\ Waiting(k)
      /\ log \in Seq(Record) /\ n \in Nat /\ \A i \in 1..n : log[i] \in Record
      /\ now \in Nat /\ stamps \in Nat /\ count \in Nat /\ Size \in Nat \ {0} /\ head \in Slots
  BY SizeAssumption, ElementOfSeq, LenProperties DEF Add, Waiting, IInv, TypeOK
<1>2. /\ buffer' = [buffer EXCEPT ![head] = record]
      /\ head' = (head + 1) % Size
      /\ count' = IF count < Size THEN count + 1 ELSE count
      /\ log' = Append(log, record)
      /\ stamped' = [stamped EXCEPT ![k] = Unused]
      /\ UNCHANGED <<now, stamps>>
  BY DEF Add, addRecord
<1>3. /\ log' \in Seq(Record) /\ Len(log') = n + 1
      /\ log'[n + 1] = record /\ \A i \in 1..n : log'[i] = log[i]
  BY <1>1, <1>2
<1>4. /\ ~Waiting(k)'
      /\ \A l \in Kinds : l # k => stamped'[l] = stamped[l] /\ Waiting(l)' = Waiting(l)
  BY <1>2 DEF Waiting, IInv, TypeOK
<1>5. head' \in Slots /\ Place(1)' = head
      /\ \A i \in 1..(Size - 1) : Place(i + 1)' = Place(i) /\ Place(i) # head /\ Place(i) \in Slots
  BY <1>1, <1>2, Advance, PlaceIsSlot DEF IInv
<1>6. TypeOK'
  BY <1>1, <1>2, <1>3, <1>5 DEF IInv, TypeOK
<1> HIDE DEF record, n
<1>7. RingInv'
  <2>1. count' = IF n + 1 < Size THEN n + 1 ELSE Size
    BY <1>1, <1>2 DEF IInv, RingInv, n
  <2>2. ASSUME NEW i \in 1..count' PROVE buffer'[Place(i)'] = log'[(n + 1) + 1 - i]
    <3>1. CASE i = 1
      BY <1>1, <1>2, <1>3, <1>5, <3>1 DEF IInv, TypeOK
    <3>2. CASE i # 1
      <4> DEFINE j == i - 1
      <4>1. j \in 1..(Size - 1) /\ j \in 1..count /\ i = j + 1 /\ j <= n
        BY <1>1, <1>2, <2>1, <3>2 DEF IInv, RingInv, n
      <4>2. Place(i)' = Place(j) /\ Place(j) # head /\ Place(j) \in Slots
        BY <1>5, <4>1
      <4>3. buffer'[Place(j)] = log[n + 1 - j]
        BY <1>2, <4>1, <4>2 DEF IInv, TypeOK, RingInv, n
      <4>4. n + 1 - j \in 1..n /\ (n + 1) + 1 - i = n + 1 - j
        BY <1>1, <4>1
      <4> QED
        BY <1>3, <4>2, <4>3, <4>4
    <3> QED
      BY <3>1, <3>2
  <2> QED
    BY <1>3, <2>1, <2>2 DEF RingInv
<1>8. StampInv'
  <2>1. record.timestamp <= now /\ record.id <= stamps
    BY <1>1 DEF IInv, StampInv, record
  <2> QED
    BY <1>1, <1>2, <1>3, <1>4, <2>1 DEF IInv, StampInv, n
<1>9. DistinctInv'
  <2>1. \A i \in 1..n : record.id # log[i].id
    BY <1>1 DEF IInv, DistinctInv, record, n
  <2>2. \A l \in Kinds : l # k /\ Waiting(l) => stamped[l].id # record.id
    BY <1>1 DEF IInv, DistinctInv, record
  <2>3. \A i \in 1..(n + 1) : i \in 1..n \/ i = n + 1
    BY <1>1
  <2>4. \A i, j \in 1..(n + 1) : log'[i].id = log'[j].id => i = j
    BY <1>3, <2>1, <2>3 DEF IInv, DistinctInv, n
  <2>5. \A l \in Kinds, i \in 1..(n + 1) : Waiting(l)' => stamped'[l].id # log'[i].id
    BY <1>3, <1>4, <2>2, <2>3 DEF IInv, DistinctInv, n
  <2>6. \A l, m \in Kinds : (Waiting(l)' /\ Waiting(m)' /\ stamped'[l].id = stamped'[m].id) => l = m
    BY <1>4 DEF IInv, DistinctInv
  <2> QED
    BY <1>3, <2>4, <2>5, <2>6 DEF DistinctInv
<1>10. OrderInv'
  <2>1. record.object.kind = k
    BY <1>1 DEF IInv, StampInv, record
  <2>2. \A i \in 1..n : log[i].object.kind = k => log[i].timestamp <= record.timestamp
    BY <1>1 DEF IInv, OrderInv, record, n
  <2>3. \A i, j \in 1..(n + 1) : i < j => i \in 1..n /\ (j \in 1..n \/ j = n + 1)
    BY <1>1
  <2>4. \A i, j \in 1..(n + 1) :
            (i < j /\ log'[i].object.kind = log'[j].object.kind)
            => log'[i].timestamp <= log'[j].timestamp
    BY <1>3, <2>1, <2>2, <2>3 DEF IInv, OrderInv, n
  <2>5. \A l \in Kinds, i \in 1..(n + 1) :
            (Waiting(l)' /\ log'[i].object.kind = l) => log'[i].timestamp <= stamped'[l].timestamp
    <3>1. \A i \in 1..(n + 1) : i \in 1..n \/ i = n + 1
      BY <1>1
    <3> QED
      BY <1>3, <1>4, <2>1, <3>1 DEF IInv, OrderInv, n
  <2> QED
    BY <1>3, <2>4, <2>5 DEF OrderInv
<1> QED
  BY <1>6, <1>7, <1>8, <1>9, <1>10 DEF IInv

LEMMA RestartStep ==
    ASSUME IInv, Restart
    PROVE  IInv'
<1>1. Len(log') = 0 /\ log' \in Seq(Record) /\ count' = 0
  BY DEF Restart
<1>2. \A k \in Kinds : ~Waiting(k)'
  BY DEF Restart, Waiting
<1>3. TypeOK'
  BY <1>1, SizeAssumption DEF IInv, TypeOK, Restart, Slots
<1> QED
  BY <1>1, <1>2, <1>3, SizeAssumption DEF IInv, RingInv, StampInv, DistinctInv, OrderInv

LEMMA TickStep ==
    ASSUME IInv, Tick
    PROVE  IInv'
<1>1. UNCHANGED <<buffer, head, count, stamped, log, stamps>>
      /\ now' = now + 1 /\ now \in Nat
  BY DEF Tick, IInv, TypeOK
<1>2. TypeOK' /\ RingInv' /\ DistinctInv' /\ OrderInv'
  <2>1. TypeOK'
    BY <1>1 DEF IInv, TypeOK
  <2>2. RingInv'
    BY <1>1 DEF IInv, RingInv, Place
  <2>3. DistinctInv'
    BY <1>1 DEF IInv, DistinctInv, Waiting
  <2>4. OrderInv'
    BY <1>1 DEF IInv, OrderInv, Waiting
  <2> QED
    BY <2>1, <2>2, <2>3, <2>4
<1>3. /\ \A k \in Kinds : Waiting(k) => stamped[k] \in Record
      /\ \A i \in 1..Len(log) : log[i] \in Record
  BY ElementOfSeq DEF IInv, TypeOK, Waiting
<1>4. StampInv'
  BY <1>1, <1>3 DEF IInv, StampInv, Waiting, Record
<1> QED
  BY <1>2, <1>4 DEF IInv

LEMMA Inductive == IInv /\ [Collect]_collector => IInv'
<1> SUFFICES ASSUME IInv, [Collect]_collector PROVE IInv'
  OBVIOUS
<1>1. CASE UNCHANGED collector
  BY <1>1 DEF collector, IInv, TypeOK, RingInv, StampInv, DistinctInv, OrderInv, Waiting, Place
<1> QED
  BY <1>1, HandleStep, AddStep, RestartStep, TickStep DEF Collect, Work

LEMMA Invariant == CollectorSpec => []IInv
BY InitIsGood, Inductive, PTL DEF CollectorSpec

-----------------------------------------------------------------------------
(***************************************************************************)
(* What the invariant gives the readers.                                   *)
(***************************************************************************)
\* Everything logged is a record made by now.
LEMMA LogIsPast ==
    IInv => /\ Len(log) \in Nat /\ now \in Nat
            /\ \A k \in 1..Len(log) :
                /\ log[k] \in Record /\ log[k].timestamp \in Nat /\ log[k].id \in Nat
                /\ log[k].timestamp <= now
<1> SUFFICES ASSUME IInv
             PROVE  /\ Len(log) \in Nat /\ now \in Nat
                    /\ \A k \in 1..Len(log) :
                        /\ log[k] \in Record /\ log[k].timestamp \in Nat /\ log[k].id \in Nat
                        /\ log[k].timestamp <= now
  OBVIOUS
<1>1. log \in Seq(Record) /\ now \in Nat
  BY DEF IInv, TypeOK
<1>2. Len(log) \in Nat /\ \A k \in 1..Len(log) : log[k] \in Record
  BY <1>1, ElementOfSeq, LenProperties
<1>3. \A k \in 1..Len(log) : log[k].timestamp \in Nat /\ log[k].id \in Nat
  BY <1>2 DEF Record
<1> QED
  BY <1>1, <1>2, <1>3 DEF IInv, StampInv

\* Contents is the end of the log, backwards.
ContentsFromLog ==
    /\ Len(Contents) = count
    /\ \A i \in 1..count : Contents[i] = log[Len(log) + 1 - i]

LEMMA ContentsAreFromLog == IInv => ContentsFromLog
BY ContentsIsLog DEF IInv, ContentsFromLog

\* A window, whichever it is, returns the changes of the log that lie in it, that
\* Size later ones have not pushed out and that have not outlived the retention.
LEMMA WindowIsExact ==
    ASSUME IInv, NEW start \in Int, NEW end \in Int
    PROVE  {Contents[i] : i \in GetChangesInWindow(start, end)} =
            {log[k] : k \in {k \in 1..Len(log) :
                /\ Len(log) - k < Size
                /\ start < log[k].timestamp /\ log[k].timestamp < end
                /\ now - log[k].timestamp <= Retention}}
<1> DEFINE n == Len(log)
           found == GetChangesInWindow(start, end)
           wanted == {k \in 1..n : /\ n - k < Size
                                   /\ start < log[k].timestamp /\ log[k].timestamp < end
                                   /\ now - log[k].timestamp <= Retention}
<1>1. /\ n \in Nat /\ now \in Nat /\ Retention \in Nat /\ Size \in Nat \ {0}
      /\ count = IF n < Size THEN n ELSE Size
      /\ \A i \in 1..count : Contents[i] = log[n + 1 - i]
  BY ContentsIsLog, LenProperties, SizeAssumption, LimitAssumption DEF IInv, TypeOK, RingInv
<1>2. \A k \in 1..n : log[k].timestamp \in Nat /\ log[k].id \in Nat
  BY LogIsPast
<1>3. ASSUME NEW i \in found PROVE n + 1 - i \in wanted /\ Contents[i] = log[n + 1 - i]
  <2>1. i \in 1..count /\ InWindow(Contents[i], start, end)
    BY DEF GetChangesInWindow
  <2>2. n + 1 - i \in 1..n /\ n - (n + 1 - i) < Size /\ Contents[i] = log[n + 1 - i]
    BY <1>1, <2>1
  <2> QED
    BY <1>1, <1>2, <2>1, <2>2 DEF InWindow
<1>4. ASSUME NEW k \in wanted PROVE n + 1 - k \in found /\ Contents[n + 1 - k] = log[k]
  <2>1. n + 1 - k \in 1..count /\ n + 1 - (n + 1 - k) = k
    BY <1>1
  <2>2. Contents[n + 1 - k] = log[k]
    BY <1>1, <2>1
  <2>3. InWindow(Contents[n + 1 - k], start, end)
    BY <1>1, <1>2, <2>2 DEF InWindow
  <2> QED
    BY <2>1, <2>2, <2>3 DEF GetChangesInWindow
<1> HIDE DEF found, wanted
<1>5. {Contents[i] : i \in found} = {log[k] : k \in wanted}
  BY <1>3, <1>4
<1> QED
  BY <1>5 DEF found, wanted

\* The ring holds no record twice.
LEMMA EntriesDiffer ==
    ASSUME IInv, NEW i \in 1..count, NEW j \in 1..count, Contents[i] = Contents[j]
    PROVE  i = j
<1> DEFINE n == Len(log)
<1>1. /\ n \in Nat /\ count \in Nat /\ count <= n
      /\ Contents[i] = log[n + 1 - i] /\ Contents[j] = log[n + 1 - j]
  BY ContentsIsLog, LogIsPast DEF IInv
<1>2. n + 1 - i \in 1..n /\ n + 1 - j \in 1..n
  BY <1>1
<1> HIDE DEF n
<1>3. n + 1 - i = n + 1 - j
  BY <1>1, <1>2 DEF IInv, DistinctInv, n
<1> QED
  BY <1>1, <1>3

-----------------------------------------------------------------------------
(***************************************************************************)
(* The theorems.                                                           *)
(***************************************************************************)
\* The write position and the count never leave the buffer, however many changes come.
THEOREM TypeCorrect == CollectorSpec => []TypeOK
BY Invariant, PTL DEF IInv

\* For every window the readers get all the changes the ring can still have, and
\* none twice, whatever order the handlers add their records in.
THEOREM NothingIsMissed == CollectorSpec => []WindowIsComplete
<1>1. IInv => WindowIsComplete
  <2> SUFFICES ASSUME IInv, NEW w \in Windows
               PROVE  LET found == GetChangesInWindow(w[1], w[2])
                          wanted == {i \in 1..Len(log) :
                                      /\ Len(log) - i < Size
                                      /\ log[i].timestamp \in (w[1] + 1)..(w[2] - 1)
                                      /\ now - log[i].timestamp <= Retention}
                      IN  /\ {Contents[i] : i \in found} = {log[i] : i \in wanted}
                          /\ \A i, j \in found : Contents[i] = Contents[j] => i = j
    BY DEF WindowIsComplete
  <2>1. w[1] \in Int /\ w[2] \in Int
    BY LimitAssumption DEF Windows
  <2>2. \A i \in 1..Len(log) :
            log[i].timestamp \in (w[1] + 1)..(w[2] - 1)
            <=> w[1] < log[i].timestamp /\ log[i].timestamp < w[2]
    BY <2>1, LogIsPast
  <2>3. GetChangesInWindow(w[1], w[2]) \subseteq 1..count
    BY DEF GetChangesInWindow
  <2>4. {k \in 1..Len(log) :
            /\ Len(log) - k < Size
            /\ log[k].timestamp \in (w[1] + 1)..(w[2] - 1)
            /\ now - log[k].timestamp <= Retention}
        = {k \in 1..Len(log) :
            /\ Len(log) - k < Size
            /\ w[1] < log[k].timestamp /\ log[k].timestamp < w[2]
            /\ now - log[k].timestamp <= Retention}
    BY <2>2
  <2> QED
    BY <2>1, <2>3, <2>4, WindowIsExact, EntriesDiffer
<1> QED
  BY <1>1, Invariant, PTL

\* One kind of change is always read back newest first.
THEOREM OneKindIsInOrder == CollectorSpec => []KindsInOrder
<1>1. IInv => KindsInOrder
  <2> SUFFICES ASSUME IInv, NEW i \in 1..count, NEW j \in 1..count,
                      i < j, Contents[i].object.kind = Contents[j].object.kind
               PROVE  Contents[i].timestamp >= Contents[j].timestamp
    BY DEF KindsInOrder
  <2> DEFINE n == Len(log)
  <2>1. /\ n \in Nat /\ count \in Nat /\ count <= n
        /\ Contents[i] = log[n + 1 - i] /\ Contents[j] = log[n + 1 - j]
    BY ContentsIsLog, LenProperties DEF IInv, TypeOK
  <2>2. n + 1 - i \in 1..n /\ n + 1 - j \in 1..n /\ n + 1 - j < n + 1 - i
    BY <2>1
  <2>3. log[n + 1 - j].timestamp <= log[n + 1 - i].timestamp
    BY <2>1, <2>2 DEF IInv, OrderInv
  <2>4. log[n + 1 - j].timestamp \in Nat /\ log[n + 1 - i].timestamp \in Nat
    BY <2>2, LogIsPast
  <2> QED
    BY <2>1, <2>3, <2>4
<1> QED
  BY <1>1, Invariant, PTL

\* The ring, with its wrapping write position, implements the list of the last
\* Size changes, newest first: a step adds one in front, forgets all or changes nothing.
THEOREM RingImplementsLog == CollectorSpec => LogSpec
<1>1. Init => Log!Init
  BY DEF Init, Log!Init, Contents
<1>2. IInv' => ContentsFromLog'
  BY ContentsAreFromLog, PTL
<1>3. IInv /\ IInv' /\ [Collect]_collector => [Log!Add \/ Log!Forget]_Contents
  <2> SUFFICES ASSUME IInv, IInv', [Collect]_collector
               PROVE  Log!Add \/ Log!Forget \/ Contents' = Contents
    OBVIOUS
  <2>1. ASSUME UNCHANGED <<buffer, head, count>> PROVE Contents' = Contents
    BY <2>1 DEF Contents
  <2>2. ASSUME NEW k \in Kinds, Add(k) PROVE Log!Add
    <3> DEFINE n == Len(log)
    <3>1. /\ Len(Contents) = count /\ \A i \in 1..count : Contents[i] = log[n + 1 - i]
          /\ n \in Nat /\ count \in Nat /\ count <= n /\ count <= Size /\ Size \in Nat \ {0}
      BY ContentsIsLog, LenProperties, SizeAssumption DEF IInv, TypeOK
    <3>2. /\ Len(Contents') = count'
          /\ \A i \in 1..count' : Contents'[i] = log'[Len(log') + 1 - i]
      BY <1>2 DEF ContentsFromLog
    <3>3. stamped[k] \in Record /\ log \in Seq(Record)
      BY <2>2 DEF Add, IInv, TypeOK
    <3>4. /\ count' = IF count < Size THEN count + 1 ELSE count
          /\ Len(log') = n + 1 /\ log'[n + 1] = stamped[k]
          /\ \A i \in 1..n : log'[i] = log[i]
      BY <2>2, <3>3 DEF Add, addRecord
    <3>5. Len(Contents') = IF Len(Contents) < Size THEN Len(Contents) + 1 ELSE Size
      BY <3>1, <3>2, <3>4
    <3>6. Contents'[1] \in Record
      BY <3>1, <3>2, <3>3, <3>4
    <3>7. ASSUME NEW i \in 2..Len(Contents') PROVE Contents'[i] = Contents[i - 1]
      <4>1. /\ i \in 1..count' /\ i - 1 \in 1..count
            /\ n + 2 - i \in 1..n /\ (n + 1) + 1 - i = n + 2 - i /\ n + 1 - (i - 1) = n + 2 - i
        BY <3>1, <3>2, <3>4
      <4> QED
        BY <3>1, <3>2, <3>4, <4>1
    <3> QED
      BY <3>5, <3>6, <3>7 DEF Log!Add
  <2>3. ASSUME Restart PROVE Log!Forget
    BY <2>3 DEF Restart, Log!Forget, Contents
  <2> QED
    BY <2>1, <2>2, <2>3 DEF Collect, Work, Handle, Tick, collector
<1> QED
  BY <1>1, <1>3, Invariant, PTL DEF CollectorSpec, LogSpec, Log!Spec
=============================================================================
