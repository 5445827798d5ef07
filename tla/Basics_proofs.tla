---------------------------- MODULE Basics_proofs ----------------------------
(***************************************************************************)
(* The facts the proofs about every component rest on: what adding,        *)
(* replacing and deleting an entry does to a map (a store, a cache, a Go   *)
(* map), and that Min and Max are what their names say.                    *)
(***************************************************************************)
EXTENDS Maps, Integers, FiniteSetsExt, FiniteSetTheorems, TLAPS, WellFoundedInduction

-----------------------------------------------------------------------------
\* Adding or overwriting one entry of a map.
LEMMA ExtendMap ==
    ASSUME NEW f, NEW s, NEW v
    PROVE  /\ DOMAIN Extend(f, s, v) = DOMAIN f \cup {s}
           /\ Extend(f, s, v)[s] = v
           /\ \A t \in DOMAIN f : t # s => Extend(f, s, v)[t] = f[t]
BY DEF Extend

LEMMA ExtendType ==
    ASSUME NEW S, NEW V, NEW f, DOMAIN f \subseteq S, f \in [DOMAIN f -> V],
           NEW s \in S, NEW v \in V
    PROVE  /\ DOMAIN Extend(f, s, v) \subseteq S
           /\ Extend(f, s, v) \in [DOMAIN Extend(f, s, v) -> V]
BY DEF Extend

\* Deleting one entry of a map.
LEMMA DropMap ==
    ASSUME NEW f, NEW s
    PROVE  /\ DOMAIN Drop(f, s) = DOMAIN f \ {s}
           /\ \A t \in DOMAIN f \ {s} : Drop(f, s)[t] = f[t]
BY DEF Drop

LEMMA DropType ==
    ASSUME NEW S, NEW V, NEW f, DOMAIN f \subseteq S, f \in [DOMAIN f -> V], NEW s
    PROVE  /\ DOMAIN Drop(f, s) \subseteq S
           /\ Drop(f, s) \in [DOMAIN Drop(f, s) -> V]
BY DEF Drop

\* Replacing the value of an entry, if it is there.
LEMMA UpdateType ==
    ASSUME NEW S, NEW V, NEW f, DOMAIN f \subseteq S, f \in [DOMAIN f -> V],
           NEW s, NEW v, s \in DOMAIN f => v \in V
    PROVE  LET g == [f EXCEPT ![s] = v]
           IN  DOMAIN g \subseteq S /\ g \in [DOMAIN g -> V]
OBVIOUS

-----------------------------------------------------------------------------
\* The least element of a set of numbers, and the greatest of a bounded one.
LEMMA LeastOf ==
    ASSUME NEW S, S \subseteq Nat, S # {}
    PROVE  Min(S) \in S /\ \A y \in S : Min(S) <= y
<1> DEFINE less == {ss \in Nat \X Nat : ss[1] < ss[2]}
<1>1. IsWellFoundedOn(less, Nat)
  BY NatLessThanWellFounded DEF OpToRel
<1> HIDE DEF less
<1>2. PICK x \in S : \A y \in S : ~(<<y, x>> \in less)
  BY <1>1, WFMin
<1>3. ASSUME NEW y \in S PROVE x <= y
  <2>1. x \in Nat /\ y \in Nat /\ ~(<<y, x>> \in less)
    BY <1>2
  <2>2. ~(y < x)
    <3>1. <<y, x>> \in Nat \X Nat /\ <<y, x>>[1] = y /\ <<y, x>>[2] = x
      BY <2>1
    <3> QED
      BY <2>1, <3>1, Zenon DEF less
  <2> QED
    BY <2>1, <2>2
<1> QED
  BY <1>3 DEF Min

LEMMA GreatestOf ==
    ASSUME NEW S, S \subseteq Nat, S # {}, NEW bound \in Nat, \A y \in S : y <= bound
    PROVE  Max(S) \in S /\ \A y \in S : y <= Max(S)
<1> DEFINE T == {bound - y : y \in S}
<1>1. T \subseteq Nat /\ T # {}
  <2>1. \A y \in S : bound - y \in Nat
    OBVIOUS
  <2> QED
    BY <2>1
<1> HIDE DEF T
<1>2. Min(T) \in T /\ \A z \in T : Min(T) <= z
  BY <1>1, LeastOf
<1>3. PICK x \in S : Min(T) = bound - x
  BY <1>2 DEF T
<1>4. ASSUME NEW y \in S PROVE y <= x
  <2>1. bound - y \in T
    BY DEF T
  <2>2. bound - x <= bound - y
    BY <1>2, <1>3, <2>1
  <2> QED
    BY <2>2
<1> QED
  BY <1>4 DEF Max

-----------------------------------------------------------------------------
\* Induction over the numbers, for a set: a set that has a number whenever it has all
\* smaller ones has every number.
LEMMA EveryNumber ==
    ASSUME NEW S, \A n \in Nat : (\A m \in Nat : m < n => m \in S) => n \in S
    PROVE  Nat \subseteq S
<1> DEFINE rest == Nat \ S
<1> SUFFICES ASSUME rest # {} PROVE FALSE
  OBVIOUS
<1>1. Min(rest) \in rest /\ \A y \in rest : Min(rest) <= y
  BY LeastOf
<1> QED
  BY <1>1

\* The recursion of the folds of the community modules, for a sum: one element is chosen
\* and set apart, the rest is summed first.  Over a finite set there is such a function,
\* and each of its values is a number.
Summed(h, g, s) == IF s = {} THEN 0 ELSE LET x == CHOOSE y \in s : TRUE IN g[x] + h[s \ {x}]
Sums(h, g, S) == h = [s \in SUBSET S |-> Summed(h, g, s)]

LEMMA SmallerRest ==
    ASSUME NEW S, IsFiniteSet(S), NEW s \in SUBSET S, s # {}
    PROVE  LET x == CHOOSE y \in s : TRUE
           IN  /\ x \in s /\ x \in S /\ s \ {x} \in SUBSET S
               /\ Cardinality(s) \in Nat /\ Cardinality(s \ {x}) \in Nat
               /\ Cardinality(s \ {x}) < Cardinality(s)
<1> DEFINE x == CHOOSE y \in s : TRUE
<1>1. x \in s /\ IsFiniteSet(s)
  BY FS_Subset
<1> HIDE DEF x
<1>2. IsFiniteSet(s \ {x}) /\ Cardinality(s \ {x}) = Cardinality(s) - 1
  BY <1>1, FS_RemoveElement
<1>3. Cardinality(s) \in Nat /\ Cardinality(s \ {x}) \in Nat
  BY <1>1, <1>2, FS_CardinalityType
<1> QED
  BY <1>1, <1>2, <1>3 DEF x

LEMMA SumExists ==
    ASSUME NEW S, IsFiniteSet(S), NEW g \in [S -> Nat]
    PROVE  \E h : Sums(h, g, S)
<1> DEFINE Small(n) == {s \in SUBSET S : Cardinality(s) <= n}
           done == {n \in Nat : \E h \in [Small(n) -> Nat] : \A s \in Small(n) : h[s] = Summed(h, g, s)}
<1>1. ASSUME NEW n \in Nat, \A m \in Nat : m < n => m \in done PROVE n \in done
  <2>1. PICK below \in [{s \in SUBSET S : Cardinality(s) < n} -> Nat] :
            \A s \in SUBSET S : Cardinality(s) < n => below[s] = Summed(below, g, s)
    <3>1. CASE n = 0
      <4>1. \A s \in SUBSET S : ~(Cardinality(s) < n)
        BY <3>1, FS_Subset, FS_CardinalityType
      <4>2. [s \in {} |-> 0] \in [{s \in SUBSET S : Cardinality(s) < n} -> Nat]
        BY <4>1
      <4> QED
        BY <4>1, <4>2
    <3>2. CASE n # 0
      <4>1. n - 1 \in done
        <5> HIDE DEF done
        <5> QED
          BY <1>1, <3>2
      <4>2. PICK h \in [Small(n - 1) -> Nat] : \A s \in Small(n - 1) : h[s] = Summed(h, g, s)
        BY <4>1
      <4>3. \A s \in SUBSET S : Cardinality(s) < n <=> Cardinality(s) <= n - 1
        BY FS_Subset, FS_CardinalityType
      <4>4. {s \in SUBSET S : Cardinality(s) < n} = Small(n - 1)
        BY <4>3
      <4> QED
        BY <4>2, <4>3, <4>4
    <3> QED
      BY <3>1, <3>2
  <2> DEFINE h == [s \in Small(n) |-> Summed(below, g, s)]
  <2>2. \A s \in SUBSET S : Cardinality(s) < n => s \in Small(n) /\ h[s] = below[s]
    BY <2>1, FS_Subset, FS_CardinalityType
  <2>3. ASSUME NEW s \in Small(n) PROVE h[s] \in Nat /\ h[s] = Summed(h, g, s)
    <3>1. CASE s = {}
      BY <3>1 DEF Summed
    <3>2. CASE s # {}
      <4> DEFINE x == CHOOSE y \in s : TRUE
      <4>1. x \in S /\ s \ {x} \in SUBSET S /\ Cardinality(s \ {x}) < n
        <5>1. /\ x \in S /\ s \ {x} \in SUBSET S /\ Cardinality(s) \in Nat
              /\ Cardinality(s \ {x}) \in Nat /\ Cardinality(s \ {x}) < Cardinality(s)
          BY <3>2, SmallerRest
        <5>2. Cardinality(s) <= n
          OBVIOUS
        <5> HIDE DEF x
        <5> QED
          BY <5>1, <5>2
      <4>2. Summed(below, g, s) = g[x] + below[s \ {x}] /\ Summed(h, g, s) = g[x] + h[s \ {x}]
        BY <3>2 DEF Summed
      <4>3. h[s] = Summed(below, g, s)
        OBVIOUS
      <4> HIDE DEF x, h
      <4>4. g[x] \in Nat /\ below[s \ {x}] \in Nat /\ h[s \ {x}] = below[s \ {x}]
        BY <2>1, <2>2, <4>1
      <4> QED
        BY <4>2, <4>3, <4>4
    <3> QED
      BY <3>1, <3>2
  <2>4. h \in [Small(n) -> Nat]
    BY <2>3
  <2> QED
    BY <2>3, <2>4
<1>2. Nat \subseteq done
  <2> HIDE DEF done
  <2> QED
    BY <1>1, EveryNumber
<1>3. Cardinality(S) \in done
  BY <1>2, FS_CardinalityType
<1>4. Small(Cardinality(S)) = SUBSET S
  BY FS_Subset
<1>5. PICK h \in [SUBSET S -> Nat] : \A s \in SUBSET S : h[s] = Summed(h, g, s)
  BY <1>3, <1>4
<1>6. Sums(h, g, S)
  BY <1>5 DEF Sums
<1> QED
  BY <1>6

\* Every such function has numbers for values, whichever one CHOOSE picks.
LEMMA SumType ==
    ASSUME NEW S, IsFiniteSet(S), NEW g \in [S -> Nat],
           NEW h, Sums(h, g, S)
    PROVE  h[S] \in Nat
<1> DEFINE done == {n \in Nat : \A s \in SUBSET S : Cardinality(s) = n => h[s] \in Nat}
<1>1. ASSUME NEW n \in Nat, \A m \in Nat : m < n => m \in done PROVE n \in done
  <2> SUFFICES ASSUME NEW s \in SUBSET S, Cardinality(s) = n PROVE h[s] \in Nat
    OBVIOUS
  <2>1. h[s] = Summed(h, g, s)
    BY DEF Sums
  <2>2. CASE s = {}
    BY <2>1, <2>2 DEF Summed
  <2>3. CASE s # {}
    <3> DEFINE x == CHOOSE y \in s : TRUE
    <3>1. /\ x \in S /\ s \ {x} \in SUBSET S
          /\ Cardinality(s \ {x}) \in Nat /\ Cardinality(s \ {x}) < n
      BY <2>3, SmallerRest
    <3>2. h[s] = g[x] + h[s \ {x}]
      BY <2>1, <2>3 DEF Summed
    <3> HIDE DEF x
    <3>3. h[s \ {x}] \in Nat
      BY <1>1, <3>1
    <3> QED
      BY <3>1, <3>2, <3>3
  <2> QED
    BY <2>2, <2>3
<1>2. Nat \subseteq done
  <2> HIDE DEF done
  <2> QED
    BY <1>1, EveryNumber
<1> QED
  BY <1>2, FS_CardinalityType
=============================================================================
