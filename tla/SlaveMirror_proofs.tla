-------------------------- MODULE SlaveMirror_proofs --------------------------
(***************************************************************************)
(* Theorems of SlaveMirror: its invariants, and that it implements         *)
(* InOrderMirror.                                                          *)
(*                                                                         *)
(* The inductive invariant has five parts. TypeInv: what the variables     *)
(* are. NumbersInv: where each number of an open event is - once in the    *)
(* queue, or with the command in flight - which needs of the queue that    *)
(* its buckets share no number (QueueOK). OrderInv: what the page was      *)
(* given last is behind everything that may still be given to it; fillers  *)
(* a navigation left out of place are not among that, hence Live; what was *)
(* added to a scroll (RideInv) waits no more: it is given with that scroll *)
(* or not at all.                                                          *)
(* CounterInv: as long as no filler is out of place, the counter, together *)
(* with the skip an armed watchdog owes, is behind every open number, and  *)
(* a numbered command in flight is before all that waits. The fifth part,  *)
(* OnlyFullIsStranded, is inductive as it stands.                          *)
(*                                                                         *)
(* What the operations of the queue do to the numbers that wait comes      *)
(* first, for a queue of any length. A queue is sound (QueueOK) if no      *)
(* number is in it twice, navigations are in their own bucket, the slow    *)
(* buckets hold one entry at most, and in the discrete bucket no entry is  *)
(* before an event with a lower number. Each operation is shown to keep a  *)
(* sound queue sound, and what becomes of Waiting, its numbers, and Live,  *)
(* the numbers of its events: Inserting, InsertingNavigation,              *)
(* PurgingAggregated, PurgingForNavigation and Dequeueing. Sorting and     *)
(* selecting are enumerations of a finite set of positions                 *)
(* (OrderIsAnEnumeration): in place of induction over sequences there is   *)
(* the bijection between a linearly ordered finite set and 1..N.           *)
(***************************************************************************)
EXTENDS SlaveMirror, FiniteSetTheorems, SequenceTheorems, WellFoundedInduction,
        TLAPS

-----------------------------------------------------------------------------
(* The queue.                                                              *)
(* before[i] are the members of I that come before i, in a linear order.   *)
IsOrder(I, before) ==
    /\ before \in [I -> SUBSET I]
    /\ \A i \in I : i \notin before[i]
    /\ \A i, j \in I : i = j \/ i \in before[j] \/ j \in before[i]
    /\ \A i, j \in I : i \in before[j] => before[i] \subseteq before[j]

(* p lists the members of I, each once.                                    *)
Enumerates(p, I) ==
    /\ p \in [1..Cardinality(I) -> I]
    /\ \A i \in I : \E n \in 1..Cardinality(I) : p[n] = i
    /\ \A m, n \in 1..Cardinality(I) : p[m] = p[n] => m = n

Position(before, n) ==
    CHOOSE i \in DOMAIN before : Cardinality(before[i]) = n - 1

(* Counting what comes before numbers the members from 1, without a gap.   *)
LEMMA OrderIsAnEnumeration ==
    ASSUME NEW I, IsFiniteSet(I), NEW before, IsOrder(I, before)
    PROVE  LET p == [n \in 1..Cardinality(I) |-> Position(before, n)]
           IN  /\ Enumerates(p, I)
               /\ \A m, n \in 1..Cardinality(I) : m < n => p[m] \in before[p[n]]
<1> DEFINE N == Cardinality(I)
           p == [n \in 1..N |-> Position(before, n)]
           rank == [i \in I |-> Cardinality(before[i]) + 1]
<1> N \in Nat
  BY FS_CardinalityType
<1>1. \A i \in I : IsFiniteSet(before[i]) /\ Cardinality(before[i]) \in 0..(N - 1)
  <2> TAKE i \in I
  <2>1. before[i] \subseteq I \ {i}
    BY DEF IsOrder
  <2>2. IsFiniteSet(I \ {i}) /\ Cardinality(I \ {i}) = N - 1
    BY FS_RemoveElement
  <2>3. IsFiniteSet(before[i]) /\ Cardinality(before[i]) <= N - 1
    BY <2>1, <2>2, FS_Subset
  <2> QED
    BY <2>2, <2>3, FS_CardinalityType
<1>2. \A i, j \in I : j \in before[i] => Cardinality(before[j]) < Cardinality(before[i])
  <2> TAKE i, j \in I
  <2> HAVE j \in before[i]
  <2>1. before[j] \in SUBSET before[i] /\ before[j] # before[i]
    BY DEF IsOrder
  <2> QED
    BY <1>1, <2>1, FS_Subset
<1>3. rank \in Injection(I, 1..N)
  <2>1. rank \in [I -> 1..N]
    BY <1>1
  <2>2. ASSUME NEW i \in I, NEW j \in I, rank[i] = rank[j]
        PROVE  i = j
    <3>1. Cardinality(before[i]) = Cardinality(before[j])
      BY <1>1, <2>2
    <3> QED
      BY <1>1, <1>2, <3>1 DEF IsOrder
  <2> QED
    BY <2>1, <2>2 DEF Injection, IsInjective
<1>4. rank \in Surjection(I, 1..N)
  <2>1. IsFiniteSet(1..N) /\ Cardinality(1..N) = N
    BY FS_Interval
  <2> QED
    BY <1>3, <2>1, FS_Injection
<1>5. \A n \in 1..N : p[n] \in I /\ Cardinality(before[p[n]]) = n - 1
  <2> TAKE n \in 1..N
  <2>1. PICK i \in I : rank[i] = n
    BY <1>4 DEF Surjection
  <2>2. Cardinality(before[i]) = n - 1 /\ i \in DOMAIN before
    BY <1>1, <2>1 DEF IsOrder
  <2> QED
    BY <2>2 DEF Position, IsOrder
<1>6. \A i \in I : rank[i] \in 1..N /\ p[rank[i]] = i
  <2> TAKE i \in I
  <2>1. rank[i] \in 1..N
    BY <1>1
  <2>2. rank[p[rank[i]]] = rank[i]
    BY <1>1, <1>5, <2>1
  <2> QED
    BY <1>3, <1>5, <2>1, <2>2 DEF Injection, IsInjective
<1>7. Enumerates(p, I)
  <2>1. p \in [1..N -> I]
    BY <1>5
  <2>2. \A i \in I : \E n \in 1..N : p[n] = i
    BY <1>6
  <2>3. \A m, n \in 1..N : p[m] = p[n] => m = n
    BY <1>5
  <2> QED
    BY <2>1, <2>2, <2>3 DEF Enumerates
<1>8. \A m, n \in 1..N : m < n => p[m] \in before[p[n]]
  <2> TAKE m, n \in 1..N
  <2> HAVE m < n
  <2>1. p[m] \in I /\ p[n] \in I /\ Cardinality(before[p[m]]) < Cardinality(before[p[n]])
    BY <1>5
  <2>2. p[n] \notin before[p[m]] /\ p[m] # p[n]
    BY <1>1, <1>2, <2>1
  <2> QED
    BY <2>1, <2>2 DEF IsOrder
<1> QED
  BY <1>7, <1>8

-----------------------------------------------------------------------------
(* Sequences of entries.                                                   *)
Entry(K) == [ges : Nat, kind : K]

Nums(s) == {s[i].ges : i \in DOMAIN s}

Distinct(s) == \A i, j \in DOMAIN s : s[i].ges = s[j].ges => i = j

Sorted(s) == \A i, j \in DOMAIN s : i < j => s[i].ges < s[j].ges

(* Where the events are, all that is no filler, and their numbers.         *)
Reals(s) == {i \in DOMAIN s : s[i].kind # "noop"}

RealNums(s) == {e.ges : e \in {d \in ToSet(s) : d.kind # "noop"}}

(* Out of place are fillers only.                                          *)
RealsRise(s) == \A i, j \in DOMAIN s : i < j /\ j \in Reals(s) => s[i].ges < s[j].ges

LEMMA SequenceDomain ==
    ASSUME NEW S, NEW s \in Seq(S)
    PROVE  /\ DOMAIN s = 1..Len(s) /\ Len(s) \in Nat
           /\ IsFiniteSet(DOMAIN s) /\ Cardinality(DOMAIN s) = Len(s)
           /\ s \in [1..Len(s) -> S]
BY LenProperties, FS_Interval

(* Without repetitions, there are as many numbers as entries.              *)
LEMMA NumsAreAsMany ==
    ASSUME NEW K, NEW s \in Seq(Entry(K)), Distinct(s)
    PROVE  IsFiniteSet(Nums(s)) /\ Cardinality(Nums(s)) = Len(s)
<1> DEFINE f == [i \in DOMAIN s |-> s[i].ges]
<1>1. f \in Surjection(DOMAIN s, Nums(s))
  BY DEF Surjection, Nums
<1>2. f \in Injection(DOMAIN s, Nums(s))
  BY <1>1 DEF Injection, IsInjective, Distinct, Surjection
<1> QED
  BY <1>1, <1>2, SequenceDomain, FS_Surjection

LEMMA RealsAreFinite ==
    ASSUME NEW S, NEW s \in Seq(S)
    PROVE  /\ IsFiniteSet(Reals(s)) /\ Cardinality(Reals(s)) \in Nat
           /\ Cardinality(Reals(s)) <= Len(s)
BY SequenceDomain, FS_Subset, FS_CardinalityType DEF Reals

(* Two sequences with the same entries, in whatever order.                 *)
LEMMA SameImage ==
    ASSUME NEW N, NEW I, NEW p, NEW s,
           \A n \in N : p[n] \in I, \A i \in I : \E n \in N : p[n] = i
    PROVE  /\ {s[p[n]] : n \in N} = {s[i] : i \in I}
           /\ {s[p[n]].ges : n \in N} = {s[i].ges : i \in I}
<1>1. {s[i] : i \in I} \subseteq {s[p[n]] : n \in N}
  <2> SUFFICES ASSUME NEW i \in I PROVE s[i] \in {s[p[n]] : n \in N}
    OBVIOUS
  <2>1. PICK n \in N : p[n] = i
    OBVIOUS
  <2> QED
    BY <2>1
<1>2. {s[i].ges : i \in I} \subseteq {s[p[n]].ges : n \in N}
  <2> SUFFICES ASSUME NEW i \in I PROVE s[i].ges \in {s[p[n]].ges : n \in N}
    OBVIOUS
  <2>1. PICK n \in N : p[n] = i
    OBVIOUS
  <2> QED
    BY <2>1
<1> QED
  BY <1>1, <1>2

(* ByGes sorts, and neither loses nor repeats an entry.                    *)
LEMMA Sorting ==
    ASSUME NEW K, NEW s \in Seq(Entry(K)), Distinct(s)
    PROVE  /\ ByGes(s) \in Seq(Entry(K)) /\ Len(ByGes(s)) = Len(s)
           /\ ToSet(ByGes(s)) = ToSet(s) /\ Nums(ByGes(s)) = Nums(s)
           /\ Distinct(ByGes(s)) /\ Sorted(ByGes(s))
           /\ Cardinality(Reals(ByGes(s))) = Cardinality(Reals(s))
<1> DEFINE I == DOMAIN s
           Precedes(j, i) == \/ s[j].ges < s[i].ges
                             \/ s[j].ges = s[i].ges /\ j < i
           before == [i \in I |-> {j \in I : Precedes(j, i)}]
           p == [n \in 1..Cardinality(I) |-> Position(before, n)]
           t == ByGes(s)
<1>1. /\ I = 1..Len(s) /\ Len(s) \in Nat /\ IsFiniteSet(I) /\ Cardinality(I) = Len(s)
      /\ \A i \in I : s[i] \in Entry(K) /\ s[i].ges \in Nat
  <2>1. /\ I = 1..Len(s) /\ Len(s) \in Nat /\ IsFiniteSet(I) /\ Cardinality(I) = Len(s)
        /\ s \in [1..Len(s) -> Entry(K)]
    BY SequenceDomain
  <2> QED
    BY <2>1 DEF Entry
<1>2. IsOrder(I, before)
  BY <1>1 DEF IsOrder
<1>3. /\ Enumerates(p, I)
      /\ \A m, n \in 1..Len(s) : m < n => p[m] \in before[p[n]]
  <2> HIDE DEF before, I
  <2> QED
    BY <1>1, <1>2, OrderIsAnEnumeration
<1>4. t = [n \in 1..Len(s) |-> s[p[n]]]
  BY <1>1 DEF ByGes, Arranged, Position
<1>5. p \in [1..Len(s) -> 1..Len(s)] /\ \A i \in 1..Len(s) : \E n \in 1..Len(s) : p[n] = i
  BY <1>1, <1>3 DEF Enumerates
<1>6. /\ t \in [1..Len(s) -> Entry(K)] /\ DOMAIN t = 1..Len(s)
      /\ \A n \in 1..Len(s) : p[n] \in 1..Len(s) /\ t[n] = s[p[n]]
  <2> HIDE DEF p, t
  <2> QED
    BY <1>1, <1>4, <1>5
<1>7. t \in Seq(Entry(K)) /\ Len(t) = Len(s)
  <2> HIDE DEF t
  <2> QED
    BY <1>1, <1>6, SeqDef
<1>8. Sorted(t)
  <2> SUFFICES ASSUME NEW m \in 1..Len(s), NEW n \in 1..Len(s), m < n
               PROVE  s[p[m]].ges < s[p[n]].ges
    <3> HIDE DEF t, p
    <3> QED
      BY <1>6 DEF Sorted
  <2>1. p[m] \in before[p[n]] /\ p[m] # p[n]
    BY <1>1, <1>2, <1>3, <1>6 DEF IsOrder
  <2>2. s[p[m]].ges # s[p[n]].ges
    BY <1>1, <1>6, <2>1 DEF Distinct
  <2> QED
    BY <1>1, <1>6, <2>1, <2>2
<1>9. ToSet(t) = ToSet(s) /\ Nums(t) = Nums(s)
  <2> HIDE DEF t, p
  <2>1. ToSet(t) = {s[p[n]] : n \in 1..Len(s)}
    BY <1>6 DEF ToSet
  <2>2. Nums(t) = {s[p[n]].ges : n \in 1..Len(s)}
    BY <1>6, SMTT(30) DEF Nums
  <2>3. ToSet(s) = {s[i] : i \in 1..Len(s)} /\ Nums(s) = {s[i].ges : i \in 1..Len(s)}
    BY <1>1 DEF ToSet, Nums
  <2>4. \A n \in 1..Len(s) : p[n] \in 1..Len(s)
    BY <1>6
  <2>5. \A i \in 1..Len(s) : \E n \in 1..Len(s) : p[n] = i
    BY <1>5
  <2>6. /\ {s[p[n]] : n \in 1..Len(s)} = {s[i] : i \in 1..Len(s)}
        /\ {s[p[n]].ges : n \in 1..Len(s)} = {s[i].ges : i \in 1..Len(s)}
    BY <2>4, <2>5, SameImage
  <2> QED
    BY <2>1, <2>2, <2>3, <2>6
<1>10. Distinct(t)
  <2> HIDE DEF t, p
  <2> QED
    BY <1>1, <1>6, <1>8 DEF Sorted, Distinct
<1>11. Cardinality(Reals(t)) = Cardinality(Reals(s))
  <2> DEFINE f == [n \in Reals(t) |-> p[n]]
  <2>1. f \in Surjection(Reals(t), Reals(s))
    <3>1. Reals(s) \subseteq 1..Len(s) /\ Reals(t) \subseteq 1..Len(s)
      BY <1>1, <1>6 DEF Reals
    <3>2. ASSUME NEW n \in 1..Len(s) PROVE n \in Reals(t) <=> p[n] \in Reals(s)
      <4>1. n \in DOMAIN t /\ p[n] \in DOMAIN s /\ t[n] = s[p[n]]
        BY <1>1, <1>6
      <4> HIDE DEF t, p
      <4> QED
        BY <4>1 DEF Reals
    <3>3. \A i \in Reals(s) : \E n \in Reals(t) : p[n] = i
      BY <1>5, <3>1, <3>2
    <3>4. \A n \in Reals(t) : p[n] \in Reals(s)
      BY <3>1, <3>2
    <3> HIDE DEF t, p
    <3> QED
      BY <3>3, <3>4 DEF Surjection
  <2>2. f \in Injection(Reals(t), Reals(s))
    <3>1. Reals(t) \subseteq 1..Len(s)
      BY <1>6 DEF Reals
    <3> HIDE DEF t, p
    <3> QED
      BY <1>1, <1>3, <2>1, <3>1 DEF Injection, IsInjective, Surjection, Enumerates
  <2> HIDE DEF f, t
  <2> QED
    BY <1>7, <2>1, <2>2, RealsAreFinite, FS_Surjection
<1> QED
  BY <1>7, <1>8, <1>9, <1>10, <1>11

(* Picked takes a subsequence.                                             *)
LEMMA Picking ==
    ASSUME NEW K, NEW s \in Seq(Entry(K)), NEW I \in SUBSET DOMAIN s
    PROVE  /\ Picked(s, I) \in Seq(Entry(K)) /\ Len(Picked(s, I)) = Cardinality(I)
           /\ ToSet(Picked(s, I)) = {s[i] : i \in I}
           /\ Nums(Picked(s, I)) = {s[i].ges : i \in I}
           /\ Distinct(s) => Distinct(Picked(s, I))
           /\ RealsRise(s) => RealsRise(Picked(s, I))
<1> DEFINE before == [i \in I |-> {j \in I : j < i}]
           N == Cardinality(I)
           p == [n \in 1..N |-> Position(before, n)]
           t == Picked(s, I)
<1>1. /\ DOMAIN s = 1..Len(s) /\ Len(s) \in Nat /\ s \in [1..Len(s) -> Entry(K)]
      /\ IsFiniteSet(I) /\ N \in Nat /\ I \subseteq 1..Len(s)
  BY SequenceDomain, FS_Subset, FS_CardinalityType
<1>2. IsOrder(I, before)
  BY <1>1 DEF IsOrder
<1>3. Enumerates(p, I) /\ \A m, n \in 1..N : m < n => p[m] \in before[p[n]]
  <2> HIDE DEF before
  <2> QED
    BY <1>1, <1>2, OrderIsAnEnumeration
<1>4. t = [n \in 1..N |-> s[p[n]]]
  BY <1>1 DEF Picked, Arranged, Position
<1>5. /\ \A n \in 1..N : p[n] \in I /\ p[n] \in 1..Len(s)
      /\ \A i \in I : \E n \in 1..N : p[n] = i
      /\ \A m, n \in 1..N : p[m] = p[n] => m = n
      /\ \A m, n \in 1..N : m < n => p[m] < p[n]
  <2>1. \A n \in 1..N : p[n] \in I
    BY <1>3 DEF Enumerates
  <2>2. \A m, n \in 1..N : m < n => p[m] < p[n]
    <3> HIDE DEF p, N
    <3> QED
      BY <1>3, <2>1
  <2> QED
    BY <1>1, <1>3, <2>1, <2>2 DEF Enumerates
<1>6. /\ t \in [1..N -> Entry(K)] /\ DOMAIN t = 1..N
      /\ \A n \in 1..N : t[n] = s[p[n]]
  <2> HIDE DEF p, t
  <2> QED
    BY <1>1, <1>4, <1>5
<1>7. t \in Seq(Entry(K)) /\ Len(t) = N
  <2> HIDE DEF t
  <2> QED
    BY <1>1, <1>6, SeqDef
<1> HIDE DEF t, p, N, before
<1>8. ToSet(t) = {s[i] : i \in I} /\ Nums(t) = {s[i].ges : i \in I}
  <2>1. ToSet(t) = {s[p[n]] : n \in 1..N}
    BY <1>6 DEF ToSet
  <2>2. Nums(t) = {s[p[n]].ges : n \in 1..N}
    BY <1>6 DEF Nums
  <2>3. /\ {s[p[n]] : n \in 1..N} = {s[i] : i \in I}
        /\ {s[p[n]].ges : n \in 1..N} = {s[i].ges : i \in I}
    BY <1>5, SameImage
  <2> QED
    BY <2>1, <2>2, <2>3
<1>9. Distinct(s) => Distinct(t)
  BY <1>1, <1>5, <1>6 DEF Distinct
<1>10. RealsRise(s) => RealsRise(t)
  BY <1>1, <1>5, <1>6, SMTT(30) DEF RealsRise, Reals
<1> QED
  BY <1>7, <1>8, <1>9, <1>10 DEF t, N

(* Fillers have the numbers of what they stand for, and are no events.     *)
LEMMA Filling ==
    ASSUME NEW K, "noop" \in K, NEW s \in Seq(Entry(K))
    PROVE  /\ Fillers(s) \in Seq(Entry(K)) /\ Len(Fillers(s)) = Len(s)
           /\ Nums(Fillers(s)) = Nums(s) /\ Reals(Fillers(s)) = {}
           /\ Distinct(s) => Distinct(Fillers(s))
<1>1. DOMAIN s = 1..Len(s) /\ Len(s) \in Nat /\ \A i \in 1..Len(s) : s[i].ges \in Nat
  <2>1. DOMAIN s = 1..Len(s) /\ Len(s) \in Nat /\ s \in [1..Len(s) -> Entry(K)]
    BY SequenceDomain
  <2> QED
    BY <2>1 DEF Entry
<1>2. Fillers(s) \in [1..Len(s) -> Entry(K)]
  BY <1>1 DEF Fillers, Entry
<1>3. Fillers(s) \in Seq(Entry(K)) /\ Len(Fillers(s)) = Len(s) /\ DOMAIN Fillers(s) = 1..Len(s)
  <2> HIDE DEF Fillers
  <2> QED
    BY <1>1, <1>2, SeqDef
<1>4. \A i \in 1..Len(s) : Fillers(s)[i].ges = s[i].ges /\ Fillers(s)[i].kind = "noop"
  BY <1>1 DEF Fillers
<1>5. Nums(Fillers(s)) = Nums(s)
  BY <1>1, <1>3, <1>4 DEF Nums
<1>6. Reals(Fillers(s)) = {}
  BY <1>3, <1>4 DEF Reals
<1>7. Distinct(s) => Distinct(Fillers(s))
  BY <1>1, <1>3, <1>4 DEF Distinct
<1> QED
  BY <1>3, <1>5, <1>6, <1>7

(* Two sequences, one behind the other.                                    *)
LEMMA Joining ==
    ASSUME NEW K, NEW s \in Seq(Entry(K)), NEW r \in Seq(Entry(K))
    PROVE  /\ s \o r \in Seq(Entry(K)) /\ Len(s \o r) = Len(s) + Len(r)
           /\ Nums(s \o r) = Nums(s) \cup Nums(r)
           /\ ToSet(s \o r) = ToSet(s) \cup ToSet(r)
           /\ Distinct(s) /\ Distinct(r) /\ Nums(s) \cap Nums(r) = {} => Distinct(s \o r)
           /\ Reals(r) = {} => Reals(s \o r) = Reals(s)
           /\ Reals(r) = {} /\ RealsRise(s) => RealsRise(s \o r)
<1> DEFINE t == s \o r
<1>1. /\ DOMAIN s = 1..Len(s) /\ Len(s) \in Nat
      /\ DOMAIN r = 1..Len(r) /\ Len(r) \in Nat
      /\ t \in Seq(Entry(K)) /\ Len(t) = Len(s) + Len(r) /\ DOMAIN t = 1..(Len(s) + Len(r))
  BY SequenceDomain, ConcatProperties
<1>2. /\ \A i \in 1..Len(s) : i \in DOMAIN t /\ t[i] = s[i]
      /\ \A i \in 1..Len(r) : i + Len(s) \in DOMAIN t /\ t[i + Len(s)] = r[i]
  BY <1>1, ConcatProperties
<1>3. \A k \in DOMAIN t : \/ k \in 1..Len(s) /\ t[k] = s[k]
                          \/ /\ k > Len(s) /\ k - Len(s) \in 1..Len(r)
                             /\ t[k] = r[k - Len(s)]
  <2> TAKE k \in DOMAIN t
  <2>1. CASE k <= Len(s)
    BY <1>1, <1>2, <2>1
  <2>2. CASE k > Len(s)
    <3>1. k - Len(s) \in 1..Len(r) /\ k = (k - Len(s)) + Len(s)
      BY <1>1, <2>2
    <3>2. t[(k - Len(s)) + Len(s)] = r[k - Len(s)]
      BY <1>2, <3>1
    <3> QED
      BY <2>2, <3>1, <3>2
  <2> QED
    BY <1>1, <2>1, <2>2
<1> HIDE DEF t
<1>4. Nums(t) = Nums(s) \cup Nums(r)
  <2>1. Nums(t) \subseteq Nums(s) \cup Nums(r)
    <3> SUFFICES ASSUME NEW k \in DOMAIN t PROVE t[k].ges \in Nums(s) \cup Nums(r)
      BY DEF Nums
    <3> QED
      BY <1>1, <1>3 DEF Nums
  <2>2. Nums(s) \subseteq Nums(t)
    BY <1>1, <1>2 DEF Nums
  <2>3. Nums(r) \subseteq Nums(t)
    <3> SUFFICES ASSUME NEW i \in 1..Len(r) PROVE r[i].ges \in Nums(t)
      BY <1>1 DEF Nums
    <3> QED
      BY <1>2 DEF Nums
  <2> QED
    BY <2>1, <2>2, <2>3
<1>5. ToSet(t) = ToSet(s) \cup ToSet(r)
  <2>1. ToSet(t) \subseteq ToSet(s) \cup ToSet(r)
    <3> SUFFICES ASSUME NEW k \in DOMAIN t PROVE t[k] \in ToSet(s) \cup ToSet(r)
      BY DEF ToSet
    <3> QED
      BY <1>1, <1>3 DEF ToSet
  <2>2. ToSet(s) \subseteq ToSet(t)
    BY <1>1, <1>2 DEF ToSet
  <2>3. ToSet(r) \subseteq ToSet(t)
    <3> SUFFICES ASSUME NEW i \in 1..Len(r) PROVE r[i] \in ToSet(t)
      BY <1>1 DEF ToSet
    <3> QED
      BY <1>2 DEF ToSet
  <2> QED
    BY <2>1, <2>2, <2>3
<1>6. ASSUME Distinct(s), Distinct(r), Nums(s) \cap Nums(r) = {}
      PROVE  Distinct(t)
  <2> SUFFICES ASSUME NEW i \in DOMAIN t, NEW j \in DOMAIN t, t[i].ges = t[j].ges
               PROVE  i = j
    BY DEF Distinct
  <2>1. \A k \in DOMAIN t : \/ k \in 1..Len(s) /\ t[k] = s[k] /\ s[k].ges \in Nums(s)
                            \/ /\ k > Len(s) /\ k - Len(s) \in 1..Len(r)
                               /\ t[k] = r[k - Len(s)] /\ r[k - Len(s)].ges \in Nums(r)
    BY <1>1, <1>3 DEF Nums
  <2>2. CASE i \in 1..Len(s) /\ j \in 1..Len(s)
    BY <1>1, <1>2, <1>6, <2>2 DEF Distinct
  <2>3. CASE i > Len(s) /\ j > Len(s)
    <3>1. /\ i - Len(s) \in DOMAIN r /\ j - Len(s) \in DOMAIN r
          /\ r[i - Len(s)].ges = r[j - Len(s)].ges
      BY <1>1, <2>1, <2>3
    <3>2. i - Len(s) = j - Len(s)
      BY <1>6, <3>1 DEF Distinct
    <3> QED
      BY <1>1, <3>2
  <2> QED
    BY <1>1, <1>6, <2>1, <2>2, <2>3
<1>7. ASSUME Reals(r) = {} PROVE Reals(t) = Reals(s)
  <2>1. \A i \in 1..Len(r) : r[i].kind = "noop"
    BY <1>1, <1>7 DEF Reals
  <2>2. ASSUME NEW k \in Reals(t) PROVE k \in Reals(s)
    BY <1>1, <1>3, <2>1 DEF Reals
  <2>3. ASSUME NEW k \in Reals(s) PROVE k \in Reals(t)
    BY <1>1, <1>2 DEF Reals
  <2> QED
    BY <2>2, <2>3
<1>8. ASSUME Reals(r) = {}, RealsRise(s) PROVE RealsRise(t)
  <2> SUFFICES ASSUME NEW i \in DOMAIN t, NEW j \in DOMAIN t, i < j, j \in Reals(t)
               PROVE  t[i].ges < t[j].ges
    BY DEF RealsRise
  <2>1. j \in Reals(s) /\ i \in DOMAIN s /\ j \in DOMAIN s
    BY <1>1, <1>7, <1>8 DEF Reals
  <2> QED
    BY <1>1, <1>2, <1>8, <2>1 DEF RealsRise
<1> QED
  BY <1>1, <1>4, <1>5, <1>6, <1>7, <1>8 DEF t

LEMMA Appending ==
    ASSUME NEW K, NEW s \in Seq(Entry(K)), NEW e \in Entry(K)
    PROVE  /\ Append(s, e) \in Seq(Entry(K)) /\ Len(Append(s, e)) = Len(s) + 1
           /\ Nums(Append(s, e)) = Nums(s) \cup {e.ges}
           /\ RealNums(Append(s, e)) \subseteq RealNums(s) \cup {e.ges}
           /\ Cardinality(Reals(Append(s, e))) <= Cardinality(Reals(s)) + 1
           /\ (\A n \in Nums(s) : n < e.ges) =>
                  /\ Distinct(s) => Distinct(Append(s, e))
                  /\ Sorted(s) => Sorted(Append(s, e))
                  /\ RealsRise(s) => RealsRise(Append(s, e))
<1> DEFINE t == Append(s, e)
<1>1. /\ DOMAIN s = 1..Len(s) /\ Len(s) \in Nat
      /\ t \in Seq(Entry(K)) /\ Len(t) = Len(s) + 1 /\ DOMAIN t = 1..(Len(s) + 1)
      /\ \A i \in 1..Len(s) : t[i] = s[i]
      /\ t[Len(s) + 1] = e
  BY SequenceDomain, AppendProperties
<1>2. /\ \A i \in 1..Len(s) : s[i].ges \in Nat /\ s[i].ges \in Nums(s)
      /\ e.ges \in Nat
  <2>1. s \in [1..Len(s) -> Entry(K)]
    BY SequenceDomain
  <2> QED
    BY <1>1, <2>1 DEF Entry, Nums
<1> HIDE DEF t
<1>3. \A i \in DOMAIN t : \/ i \in 1..Len(s) /\ t[i] = s[i]
                          \/ i = Len(s) + 1 /\ t[i] = e
  BY <1>1
<1>4. Nums(t) = Nums(s) \cup {e.ges}
  <2>1. Nums(t) \subseteq Nums(s) \cup {e.ges}
    BY <1>1, <1>3 DEF Nums
  <2>2. Nums(s) \subseteq Nums(t)
    BY <1>1 DEF Nums
  <2>3. e.ges \in Nums(t)
    <3>1. Len(s) + 1 \in DOMAIN t
      BY <1>1
    <3> QED
      BY <1>1, <3>1 DEF Nums
  <2> QED
    BY <2>1, <2>2, <2>3
<1>5. RealNums(t) \subseteq RealNums(s) \cup {e.ges}
  <2>1. ToSet(t) \subseteq ToSet(s) \cup {e}
    BY <1>1, <1>3 DEF ToSet
  <2> QED
    BY <2>1 DEF RealNums
<1>6. Cardinality(Reals(t)) <= Cardinality(Reals(s)) + 1
  <2>1. Reals(t) \subseteq Reals(s) \cup {Len(s) + 1}
    BY <1>1, <1>3 DEF Reals
  <2>2. /\ IsFiniteSet(Reals(s)) /\ Cardinality(Reals(s)) \in Nat
        /\ IsFiniteSet(Reals(t)) /\ Cardinality(Reals(t)) \in Nat
    BY <1>1, RealsAreFinite
  <2> DEFINE R == Reals(s)
             n == Len(s) + 1
  <2> HIDE DEF R, n
  <2>3. /\ IsFiniteSet(R \cup {n})
        /\ Cardinality(R \cup {n}) <= Cardinality(R) + 1
    <3>1. IsFiniteSet(R) /\ Cardinality(R) \in Nat
      BY <2>2 DEF R
    <3>2. /\ IsFiniteSet(R \cup {n})
          /\ Cardinality(R \cup {n}) = IF n \in R THEN Cardinality(R) ELSE Cardinality(R) + 1
      BY <3>1, FS_AddElement, Zenon
    <3> QED
      BY <3>1, <3>2
  <2> QED
    BY <2>1, <2>2, <2>3, FS_Subset, FS_CardinalityType DEF R, n
<1>7. ASSUME \A n \in Nums(s) : n < e.ges
      PROVE  /\ Distinct(s) => Distinct(t)
             /\ Sorted(s) => Sorted(t)
             /\ RealsRise(s) => RealsRise(t)
  <2>1. \A i \in 1..Len(s) : s[i].ges < e.ges /\ s[i].ges \in Nat
    BY <1>2, <1>7
  <2>2. Distinct(s) => Distinct(t)
    BY <1>1, <1>2, <1>3, <2>1 DEF Distinct
  <2>3. Sorted(s) => Sorted(t)
    BY <1>1, <1>3, <2>1 DEF Sorted
  <2>4. RealsRise(s) => RealsRise(t)
    BY <1>1, <1>3, <2>1 DEF RealsRise, Reals
  <2> QED
    BY <2>2, <2>3, <2>4
<1> QED
  BY <1>1, <1>4, <1>5, <1>6, <1>7 DEF t

(* The head is taken.                                                      *)
LEMMA Tailing ==
    ASSUME NEW K, NEW s \in Seq(Entry(K)), s # <<>>
    PROVE  /\ Head(s) \in Entry(K) /\ Head(s) \in ToSet(s) /\ Head(s).ges \in Nums(s)
           /\ Tail(s) \in Seq(Entry(K)) /\ Len(s) = Len(Tail(s)) + 1
           /\ ToSet(Tail(s)) \subseteq ToSet(s)
           /\ Nums(s) = Nums(Tail(s)) \cup {Head(s).ges}
           /\ RealNums(s) \subseteq RealNums(Tail(s)) \cup {Head(s).ges}
           /\ RealNums(Tail(s)) \subseteq RealNums(s)
           /\ Cardinality(Reals(Tail(s))) <= Cardinality(Reals(s))
           /\ Distinct(s) => Distinct(Tail(s)) /\ Head(s).ges \notin Nums(Tail(s))
           /\ Sorted(s) => /\ Sorted(Tail(s))
                           /\ \A n \in Nums(Tail(s)) : Head(s).ges < n
           /\ RealsRise(s) => /\ RealsRise(Tail(s))
                              /\ \A n \in RealNums(Tail(s)) : Head(s).ges < n
<1> DEFINE t == Tail(s)
           h == Head(s)
<1>1. /\ DOMAIN s = 1..Len(s) /\ Len(s) \in Nat /\ 1 \in 1..Len(s)
      /\ t \in Seq(Entry(K)) /\ Len(s) = Len(t) + 1 /\ Len(t) \in Nat
      /\ DOMAIN t = 1..Len(t)
      /\ \A i \in 1..Len(t) : i + 1 \in 1..Len(s) /\ t[i] = s[i + 1]
      /\ h = s[1] /\ h \in Entry(K)
  BY SequenceDomain, EmptySeq, HeadTailProperties
<1>2. \A i \in 1..Len(s) : s[i].ges \in Nat
  <2>1. s \in [1..Len(s) -> Entry(K)]
    BY SequenceDomain
  <2> QED
    BY <1>1, <2>1 DEF Entry
<1> HIDE DEF t, h
<1>3. \A i \in 1..Len(s) : \/ s[i] = h
                           \/ i - 1 \in 1..Len(t) /\ t[i - 1] = s[i]
  <2> TAKE i \in 1..Len(s)
  <2>1. CASE i = 1
    BY <1>1, <2>1
  <2>2. CASE i > 1
    <3>1. i - 1 \in 1..Len(t) /\ (i - 1) + 1 = i
      BY <1>1, <2>2
    <3> QED
      BY <1>1, <2>2, <3>1
  <2> QED
    BY <1>1, <2>1, <2>2
<1>4. h \in ToSet(s) /\ h.ges \in Nums(s) /\ ToSet(t) \subseteq ToSet(s)
  BY <1>1 DEF ToSet, Nums
<1>5. ToSet(s) \subseteq ToSet(t) \cup {h}
  <2> SUFFICES ASSUME NEW i \in 1..Len(s) PROVE s[i] \in ToSet(t) \cup {h}
    BY <1>1 DEF ToSet
  <2> QED
    BY <1>1, <1>3 DEF ToSet
<1>6. Nums(s) = Nums(t) \cup {h.ges}
  <2>1. Nums(t) \subseteq Nums(s)
    BY <1>1 DEF Nums
  <2>2. ASSUME NEW i \in 1..Len(s) PROVE s[i].ges \in Nums(t) \cup {h.ges}
    BY <1>1, <1>3 DEF Nums
  <2> QED
    BY <1>1, <1>4, <2>1, <2>2 DEF Nums
<1>7. /\ RealNums(s) \subseteq RealNums(t) \cup {h.ges}
      /\ RealNums(t) \subseteq RealNums(s)
  BY <1>4, <1>5 DEF RealNums
<1>8. Cardinality(Reals(t)) <= Cardinality(Reals(s))
  <2> DEFINE f == [i \in Reals(t) |-> i + 1]
  <2>1. f \in Injection(Reals(t), Reals(s))
    BY <1>1 DEF Injection, IsInjective, Reals
  <2> HIDE DEF f
  <2> QED
    BY <1>1, <2>1, RealsAreFinite, FS_Injection
<1>9. ASSUME Distinct(s) PROVE Distinct(t) /\ h.ges \notin Nums(t)
  <2>1. Distinct(t)
    <3> SUFFICES ASSUME NEW i \in 1..Len(t), NEW j \in 1..Len(t), t[i].ges = t[j].ges
                 PROVE  i = j
      BY <1>1 DEF Distinct
    <3>1. i + 1 = j + 1
      BY <1>1, <1>9, SMTT(30) DEF Distinct
    <3> QED
      BY <3>1
  <2>2. ASSUME NEW i \in 1..Len(t), t[i].ges = h.ges PROVE FALSE
    <3>1. i + 1 = 1
      BY <1>1, <1>9, <2>2 DEF Distinct
    <3> QED
      BY <3>1
  <2> QED
    BY <1>1, <2>1, <2>2 DEF Nums
<1>10. ASSUME Sorted(s) PROVE Sorted(t) /\ \A n \in Nums(t) : h.ges < n
  <2>1. Sorted(t)
    <3> SUFFICES ASSUME NEW i \in 1..Len(t), NEW j \in 1..Len(t), i < j
                 PROVE  t[i].ges < t[j].ges
      BY <1>1 DEF Sorted
    <3>1. /\ i + 1 \in DOMAIN s /\ j + 1 \in DOMAIN s /\ i + 1 < j + 1
          /\ t[i] = s[i + 1] /\ t[j] = s[j + 1]
      BY <1>1
    <3> QED
      BY <1>10, <3>1 DEF Sorted
  <2>2. \A i \in 1..Len(t) : h.ges < t[i].ges
    BY <1>1, <1>10 DEF Sorted
  <2> QED
    BY <1>1, <2>1, <2>2 DEF Nums
<1>11. ASSUME RealsRise(s) PROVE RealsRise(t) /\ \A n \in RealNums(t) : h.ges < n
  <2>1. RealsRise(t)
    <3> SUFFICES ASSUME NEW i \in 1..Len(t), NEW j \in 1..Len(t), i < j, j \in Reals(t)
                 PROVE  t[i].ges < t[j].ges
      BY <1>1 DEF RealsRise
    <3>1. /\ i + 1 \in 1..Len(s) /\ j + 1 \in 1..Len(s) /\ i + 1 < j + 1
          /\ t[i] = s[i + 1] /\ t[j] = s[j + 1] /\ s[j + 1].kind # "noop"
      BY <1>1 DEF Reals
    <3> QED
      BY <1>1, <1>11, <3>1 DEF RealsRise, Reals
  <2>2. \A i \in 1..Len(t) : t[i].kind # "noop" => h.ges < t[i].ges
    BY <1>1, <1>11 DEF RealsRise, Reals
  <2> QED
    BY <1>1, <2>1, <2>2 DEF RealNums, ToSet
<1> QED
  BY <1>1, <1>4, <1>6, <1>7, <1>8, <1>9, <1>10, <1>11 DEF t, h

LEMMA RealsAmongAll ==
    ASSUME NEW K, NEW s \in Seq(Entry(K))
    PROVE  /\ RealNums(s) \subseteq Nums(s) /\ Nums(s) \subseteq Nat
           /\ \A e \in ToSet(s) : e.ges \in Nums(s)
           /\ Reals(s) = {} => RealNums(s) = {}
<1>1. DOMAIN s = 1..Len(s) /\ \A i \in 1..Len(s) : s[i].ges \in Nat
  <2>1. DOMAIN s = 1..Len(s) /\ s \in [1..Len(s) -> Entry(K)]
    BY SequenceDomain
  <2> QED
    BY <2>1 DEF Entry
<1> QED
  BY <1>1 DEF RealNums, Nums, ToSet, Reals

(* Sequences of no entry and of one.                                       *)
LEMMA Short ==
    ASSUME NEW K
    PROVE  /\ <<>> \in Seq(Entry(K)) /\ Len(<<>>) = 0
           /\ Nums(<<>>) = {} /\ RealNums(<<>>) = {} /\ Reals(<<>>) = {}
           /\ Distinct(<<>>) /\ RealsRise(<<>>) /\ Sorted(<<>>)
           /\ \A e \in Entry(K) : /\ <<e>> \in Seq(Entry(K)) /\ Len(<<e>>) = 1
                                  /\ Nums(<<e>>) = {e.ges} /\ Distinct(<<e>>)
           /\ \A s \in Seq(Entry(K)) : Len(s) <= 1 => Distinct(s)
<1>1. /\ <<>> \in Seq(Entry(K)) /\ Len(<<>>) = 0
      /\ Nums(<<>>) = {} /\ RealNums(<<>>) = {} /\ Reals(<<>>) = {}
      /\ Distinct(<<>>) /\ RealsRise(<<>>) /\ Sorted(<<>>)
  BY EmptySeq DEF Nums, RealNums, Reals, Distinct, RealsRise, Sorted, ToSet
<1>2. ASSUME NEW e \in Entry(K)
      PROVE  /\ <<e>> \in Seq(Entry(K)) /\ Len(<<e>>) = 1
             /\ Nums(<<e>>) = {e.ges} /\ Distinct(<<e>>)
  BY DEF Nums, Distinct
<1>3. ASSUME NEW s \in Seq(Entry(K)), Len(s) <= 1 PROVE Distinct(s)
  BY <1>3, SequenceDomain DEF Distinct
<1> QED
  BY <1>1, <1>2, <1>3

(* What the scheduler does when it drops entries in favour of their NOOPs. *)
LEMMA FillingIn ==
    ASSUME NEW K, "noop" \in K, NEW s \in Seq(Entry(K)), NEW d \in Seq(Entry(K)),
           Distinct(s), Distinct(d), Nums(s) \cap Nums(d) = {}
    PROVE  LET t == ByGes(s \o Fillers(d))
           IN  /\ t \in Seq(Entry(K)) /\ Nums(t) = Nums(s) \cup Nums(d)
               /\ Distinct(t) /\ Sorted(t) /\ RealsRise(t)
               /\ RealNums(t) = RealNums(s)
               /\ Cardinality(Reals(t)) = Cardinality(Reals(s))
<1> DEFINE f == Fillers(d)
           u == s \o f
           t == ByGes(u)
<1>1. f \in Seq(Entry(K)) /\ Nums(f) = Nums(d) /\ Reals(f) = {} /\ Distinct(f)
  BY Filling
<1>2. RealNums(f) = {}
  BY <1>1, RealsAmongAll
<1> HIDE DEF f
<1>3. /\ u \in Seq(Entry(K)) /\ Nums(u) = Nums(s) \cup Nums(d)
      /\ ToSet(u) = ToSet(s) \cup ToSet(f) /\ Distinct(u) /\ Reals(u) = Reals(s)
  BY <1>1, Joining
<1> HIDE DEF u
<1>4. /\ t \in Seq(Entry(K)) /\ ToSet(t) = ToSet(u) /\ Nums(t) = Nums(u)
      /\ Distinct(t) /\ Sorted(t)
      /\ Cardinality(Reals(t)) = Cardinality(Reals(u))
  BY <1>3, Sorting
<1> HIDE DEF t
<1>5. RealNums(t) = RealNums(s)
  BY <1>2, <1>3, <1>4 DEF RealNums
<1>6. RealsRise(t)
  BY <1>4 DEF Sorted, RealsRise
<1> QED
  BY <1>3, <1>4, <1>5, <1>6 DEF t, u, f

-----------------------------------------------------------------------------
(* The queue. A number waits in one place only; a navigation has none.     *)
(* The numbers in the queue.                                               *)
Waiting(q) == Nums(q.Discrete) \cup Nums(q.Aggregated) \cup Nums(q.Continuous)

(* The numbers of what is not a filler.                                    *)
Live(q) == RealNums(q.Discrete) \cup Nums(q.Aggregated) \cup Nums(q.Continuous)

(* A sound queue of entries of kinds K.                                    *)
QueueOK(q, K) ==
    /\ q \in [Buckets -> Seq(Entry(K))]
    /\ ToSet(q.Critical) \subseteq {Navigation}
    /\ Len(q.Aggregated) <= 1 /\ Len(q.Continuous) <= 1
    /\ Distinct(q.Discrete) /\ RealsRise(q.Discrete)
    /\ Nums(q.Discrete) \cap Nums(q.Aggregated) = {}
    /\ Nums(q.Discrete) \cap Nums(q.Continuous) = {}
    /\ Nums(q.Aggregated) \cap Nums(q.Continuous) = {}
    /\ 0 \notin Waiting(q)

LEMMA LiveWaits ==
    ASSUME NEW K, NEW q, QueueOK(q, K)
    PROVE  Live(q) \subseteq Waiting(q) /\ Waiting(q) \subseteq Nat \ {0}
BY RealsAmongAll DEF QueueOK, Live, Waiting, Buckets

LEMMA DisjointUnion ==
    ASSUME NEW S, NEW T, IsFiniteSet(S), IsFiniteSet(T), S \cap T = {}
    PROVE  /\ IsFiniteSet(S \cup T)
           /\ Cardinality(S \cup T) = Cardinality(S) + Cardinality(T)
<1>1. Cardinality(S \cap T) = 0
  BY FS_EmptySet
<1>2. Cardinality(S) \in Nat /\ Cardinality(T) \in Nat
  BY FS_CardinalityType
<1>3. /\ IsFiniteSet(S \cup T)
      /\ Cardinality(S \cup T) = Cardinality(S) + Cardinality(T) - Cardinality(S \cap T)
  BY FS_Union, Zenon
<1> QED
  BY <1>1, <1>2, <1>3

(* There are as many numbers as entries.                                   *)
LEMMA WaitingCounted ==
    ASSUME NEW K, NEW q, QueueOK(q, K)
    PROVE  /\ IsFiniteSet(Waiting(q))
           /\ Cardinality(Waiting(q))
                = Len(q.Discrete) + Len(q.Aggregated) + Len(q.Continuous)
<1> DEFINE D == q.Discrete
           A == q.Aggregated
           C == q.Continuous
<1>1. D \in Seq(Entry(K)) /\ A \in Seq(Entry(K)) /\ C \in Seq(Entry(K))
  BY DEF QueueOK, Buckets
<1>2. /\ Distinct(D) /\ Distinct(A) /\ Distinct(C)
      /\ Nums(D) \cap Nums(A) = {} /\ (Nums(D) \cup Nums(A)) \cap Nums(C) = {}
      /\ Waiting(q) = (Nums(D) \cup Nums(A)) \cup Nums(C)
  BY <1>1, Short DEF QueueOK, Waiting
<1> HIDE DEF D, A, C
<1>3. /\ IsFiniteSet(Nums(D)) /\ Cardinality(Nums(D)) = Len(D)
      /\ IsFiniteSet(Nums(A)) /\ Cardinality(Nums(A)) = Len(A)
      /\ IsFiniteSet(Nums(C)) /\ Cardinality(Nums(C)) = Len(C)
  BY <1>1, <1>2, NumsAreAsMany
<1>4. /\ IsFiniteSet(Nums(D) \cup Nums(A))
      /\ Cardinality(Nums(D) \cup Nums(A)) = Len(D) + Len(A)
  <2> DEFINE S == Nums(D)
             T == Nums(A)
  <2>1. IsFiniteSet(S) /\ IsFiniteSet(T) /\ S \cap T = {}
    BY <1>2, <1>3
  <2>2. Cardinality(S) = Len(D) /\ Cardinality(T) = Len(A)
    BY <1>3
  <2> HIDE DEF S, T
  <2>3. /\ IsFiniteSet(S \cup T)
        /\ Cardinality(S \cup T) = Cardinality(S) + Cardinality(T)
    BY <2>1, DisjointUnion
  <2> QED
    BY <2>2, <2>3 DEF S, T
<1>5. /\ IsFiniteSet(Waiting(q))
      /\ Cardinality(Waiting(q)) = Len(D) + Len(A) + Len(C)
  <2> DEFINE S == Nums(D) \cup Nums(A)
             T == Nums(C)
  <2>1. IsFiniteSet(S) /\ IsFiniteSet(T) /\ S \cap T = {}
    BY <1>2, <1>3, <1>4
  <2>2. Cardinality(S) = Len(D) + Len(A) /\ Cardinality(T) = Len(C)
    BY <1>3, <1>4
  <2>3. Waiting(q) = S \cup T
    BY <1>2
  <2> HIDE DEF S, T
  <2>4. /\ IsFiniteSet(S \cup T)
        /\ Cardinality(S \cup T) = Cardinality(S) + Cardinality(T)
    BY <2>1, DisjointUnion
  <2> QED
    BY <2>2, <2>3, <2>4
<1> QED
  BY <1>5 DEF D, A, C

-----------------------------------------------------------------------------
(* An entry appended to the discrete bucket.                               *)
LEMMA Placing ==
    ASSUME NEW K, NEW q, QueueOK(q, K), NEW r \in [Buckets -> Seq(Entry(K))],
           NEW n \in Nat \ {0}, n \notin Waiting(q),
           NEW b \in {"Aggregated", "Continuous"}, Len(r[b]) <= 1,
           \A c \in Buckets \ {"Discrete", b} : r[c] = q[c],
           Distinct(r.Discrete), RealsRise(r.Discrete),
           RealNums(r.Discrete) \subseteq RealNums(q.Discrete),
           Nums(r.Discrete) \cap Nums(r[b]) = {},
           Nums(r[b]) \subseteq Nums(q[b]) \cup {n},
           Nums(r.Discrete) \cup Nums(r[b]) = Nums(q.Discrete) \cup Nums(q[b]) \cup {n}
    PROVE  /\ QueueOK(r, K) /\ Waiting(r) = Waiting(q) \cup {n}
           /\ Live(r) \subseteq Live(q) \cup {n}
<1>1. CASE b = "Aggregated"
  <2>1. r.Critical = q.Critical /\ r.Continuous = q.Continuous /\ n \notin Nums(q.Continuous)
    BY <1>1 DEF Buckets, Waiting
  <2> QED
    BY <1>1, <2>1 DEF QueueOK, Waiting, Live
<1>2. CASE b = "Continuous"
  <2>1. r.Critical = q.Critical /\ r.Aggregated = q.Aggregated /\ n \notin Nums(q.Aggregated)
    BY <1>2 DEF Buckets, Waiting
  <2> QED
    BY <1>2, <2>1 DEF QueueOK, Waiting, Live
<1> QED
  BY <1>1, <1>2

(* A number larger than all that wait is added, by insert: whatever the    *)
(* class of its event, it waits, and every other number still does.        *)
LEMMA Inserting ==
    ASSUME NEW K, "noop" \in K, NEW q, QueueOK(q, K), NEW e \in Entry(K),
           Class(e.kind) # "Critical", e.ges # 0, \A n \in Waiting(q) : n < e.ges
    PROVE  LET r == Insert(q, e)
           IN  /\ QueueOK(r, K) /\ Waiting(r) = Waiting(q) \cup {e.ges}
               /\ Live(r) \subseteq Live(q) \cup {e.ges}
               /\ Sorted(q.Discrete) => Sorted(r.Discrete)
               /\ Cardinality(Reals(r.Discrete)) <=
                    Cardinality(Reals(q.Discrete))
                        + IF Class(e.kind) = "Discrete" THEN 1 ELSE 0
<1> DEFINE r == Insert(q, e)
           b == Class(e.kind)
           d == Dropped(q, e)
<1>1. /\ q \in [Buckets -> Seq(Entry(K))]
      /\ q.Discrete \in Seq(Entry(K)) /\ q.Aggregated \in Seq(Entry(K))
      /\ q.Continuous \in Seq(Entry(K)) /\ e.ges \in Nat
      /\ Cardinality(Reals(q.Discrete)) \in Nat
  BY RealsAreFinite DEF QueueOK, Buckets, Entry
<1>2. b \in {"Discrete", "Aggregated", "Continuous"}
  BY DEF Class
<1>3. CASE b = "Discrete"
  <2> DEFINE t == Append(q.Discrete, e)
  <2>1. r = [q EXCEPT !.Discrete = t]
    BY <1>3 DEF Insert, Dropped
  <2>2. /\ t \in Seq(Entry(K)) /\ Nums(t) = Nums(q.Discrete) \cup {e.ges}
        /\ RealNums(t) \subseteq RealNums(q.Discrete) \cup {e.ges}
        /\ Cardinality(Reals(t)) <= Cardinality(Reals(q.Discrete)) + 1
        /\ Distinct(t) /\ RealsRise(t)
        /\ Sorted(q.Discrete) => Sorted(t)
    <3>1. \A n \in Nums(q.Discrete) : n < e.ges
      BY DEF Waiting
    <3> QED
      BY <1>1, <3>1, Appending DEF QueueOK
  <2> HIDE DEF t
  <2>3. /\ r \in [Buckets -> Seq(Entry(K))] /\ r.Critical = q.Critical
        /\ r.Discrete = t
        /\ r.Aggregated = q.Aggregated /\ r.Continuous = q.Continuous
    BY <1>1, <2>1, <2>2 DEF Buckets
  <2>4. e.ges \notin Waiting(q)
    BY <1>1
  <2> HIDE DEF r, d
  <2>5. QueueOK(r, K)
    BY <1>1, <2>2, <2>3, <2>4 DEF QueueOK, Waiting
  <2>6. Waiting(r) = Waiting(q) \cup {e.ges} /\ Live(r) \subseteq Live(q) \cup {e.ges}
    BY <2>2, <2>3 DEF Waiting, Live
  <2> QED
    BY <1>1, <1>3, <2>2, <2>3, <2>5, <2>6 DEF r
<1>4. CASE b \in {"Aggregated", "Continuous"} /\ q[b] = <<>>
  <2>1. r = [q EXCEPT ![b] = <<e>>]
    BY <1>4 DEF Insert, Dropped
  <2>2. b \in Buckets /\ Nums(q[b]) = {}
    BY <1>4, Short DEF Buckets
  <2> HIDE DEF r, b
  <2>3. <<e>> \in Seq(Entry(K)) /\ Nums(<<e>>) = {e.ges} /\ Len(<<e>>) = 1
    BY Short
  <2>4. /\ r \in [Buckets -> Seq(Entry(K))] /\ r[b] = <<e>>
        /\ \A c \in Buckets \ {b} : r[c] = q[c]
    BY <1>1, <2>1, <2>2, <2>3
  <2>5. r.Discrete = q.Discrete /\ Distinct(q.Discrete) /\ RealsRise(q.Discrete)
    BY <1>4, <2>4 DEF Buckets, QueueOK
  <2>6. e.ges \notin Waiting(q) /\ e.ges \notin Nums(q.Discrete)
    BY <1>1 DEF Waiting
  <2>7. /\ r \in [Buckets -> Seq(Entry(K))] /\ Len(r[b]) <= 1
        /\ e.ges \in Nat \ {0} /\ e.ges \notin Waiting(q)
        /\ b \in {"Aggregated", "Continuous"}
        /\ \A c \in Buckets \ {"Discrete", b} : r[c] = q[c]
        /\ Distinct(r.Discrete) /\ RealsRise(r.Discrete)
        /\ RealNums(r.Discrete) \subseteq RealNums(q.Discrete)
        /\ Nums(r.Discrete) \cap Nums(r[b]) = {}
        /\ Nums(r[b]) \subseteq Nums(q[b]) \cup {e.ges}
        /\ Nums(r.Discrete) \cup Nums(r[b])
             = Nums(q.Discrete) \cup Nums(q[b]) \cup {e.ges}
    <3>1. Nums(r[b]) = {e.ges} /\ Nums(q[b]) = {} /\ Len(r[b]) <= 1
      BY <2>2, <2>3, <2>4
    <3>2. /\ r \in [Buckets -> Seq(Entry(K))]
          /\ e.ges \in Nat \ {0} /\ e.ges \notin Waiting(q)
          /\ b \in {"Aggregated", "Continuous"}
      BY <1>1, <1>4, <2>4, <2>6
    <3>3. \A c \in Buckets \ {"Discrete", b} : r[c] = q[c]
      BY <2>4
    <3>4. RealNums(r.Discrete) \subseteq RealNums(q.Discrete)
      BY <2>5
    <3>5. Nums(r.Discrete) \cap Nums(r[b]) = {}
      BY <2>5, <2>6, <3>1
    <3>6. /\ Nums(r[b]) \subseteq Nums(q[b]) \cup {e.ges}
          /\ Nums(r.Discrete) \cup Nums(r[b])
               = Nums(q.Discrete) \cup Nums(q[b]) \cup {e.ges}
      BY <2>5, <3>1
    <3> QED
      BY <2>5, <3>1, <3>2, <3>3, <3>4, <3>5, <3>6
  <2>8. /\ QueueOK(r, K) /\ Waiting(r) = Waiting(q) \cup {e.ges}
        /\ Live(r) \subseteq Live(q) \cup {e.ges}
    BY <2>7, Placing
  <2> QED
    BY <1>1, <1>4, <2>5, <2>8 DEF r, b
<1>5. CASE b \in {"Aggregated", "Continuous"} /\ q[b] # <<>>
  <2> DEFINE kept == IF d = <<e>> THEN q[b] ELSE <<e>>
             t == ByGes(q.Discrete \o Fillers(d))
  <2>1. r = [q EXCEPT ![b] = kept, !.Discrete = t]
    BY <1>1, <1>5 DEF Insert, Dropped, Buckets
  <2>2. q[b] \in Seq(Entry(K)) /\ Len(q[b]) <= 1 /\ Nums(q[b]) \subseteq Waiting(q)
    BY <1>1, <1>5 DEF QueueOK, Waiting
  <2>3. \/ d = <<e>> /\ kept = q[b]
        \/ d = q[b] /\ kept = <<e>>
    BY <1>5 DEF Dropped
  <2>4. e.ges \notin Nums(q[b]) /\ e.ges \notin Nums(q.Discrete) /\ e.ges \notin Waiting(q)
    BY <1>1, <2>2 DEF Waiting
  <2>5. Nums(q.Discrete) \cap Nums(q[b]) = {}
    BY <1>5 DEF QueueOK
  <2> HIDE DEF d, kept, b, r
  <2>6. /\ <<e>> \in Seq(Entry(K)) /\ Nums(<<e>>) = {e.ges} /\ Len(<<e>>) = 1
        /\ Distinct(<<e>>) /\ Distinct(q[b])
    BY <2>2, Short
  <2>7. /\ d \in Seq(Entry(K)) /\ kept \in Seq(Entry(K)) /\ Len(kept) <= 1
        /\ Distinct(d) /\ Nums(d) \cup Nums(kept) = Nums(q[b]) \cup {e.ges}
        /\ Nums(d) \cap Nums(kept) = {} /\ Nums(kept) \subseteq Nums(q[b]) \cup {e.ges}
        /\ Nums(q.Discrete) \cap Nums(d) = {} /\ Nums(q.Discrete) \cap Nums(kept) = {}
    <3> DEFINE one == <<e>>
               old == q[b]
    <3>1. /\ one \in Seq(Entry(K)) /\ Nums(one) = {e.ges} /\ Len(one) = 1
          /\ Distinct(one) /\ Distinct(old)
          /\ old \in Seq(Entry(K)) /\ Len(old) <= 1
          /\ e.ges \notin Nums(old) /\ e.ges \notin Nums(q.Discrete)
          /\ Nums(q.Discrete) \cap Nums(old) = {}
          /\ \/ d = one /\ kept = old
             \/ d = old /\ kept = one
      BY <2>2, <2>3, <2>4, <2>5, <2>6
    <3> HIDE DEF one, old, t
    <3>2. /\ d \in Seq(Entry(K)) /\ kept \in Seq(Entry(K)) /\ Len(kept) <= 1 /\ Distinct(d)
      <4>1. Len(one) <= 1
        BY <3>1
      <4> QED
        BY <3>1, <4>1, Zenon
    <3>3. /\ Nums(d) \cup Nums(kept) = Nums(old) \cup {e.ges}
          /\ Nums(d) \cap Nums(kept) = {} /\ Nums(kept) \subseteq Nums(old) \cup {e.ges}
          /\ Nums(q.Discrete) \cap Nums(d) = {} /\ Nums(q.Discrete) \cap Nums(kept) = {}
      BY <3>1
    <3> QED
      BY <3>2, <3>3 DEF old
  <2>8. /\ t \in Seq(Entry(K)) /\ Nums(t) = Nums(q.Discrete) \cup Nums(d)
        /\ Distinct(t) /\ Sorted(t) /\ RealsRise(t)
        /\ RealNums(t) = RealNums(q.Discrete)
        /\ Cardinality(Reals(t)) = Cardinality(Reals(q.Discrete))
    BY <1>1, <2>7, FillingIn DEF QueueOK
  <2> HIDE DEF t
  <2>9. /\ r \in [Buckets -> Seq(Entry(K))] /\ r[b] = kept /\ r.Discrete = t
        /\ \A c \in Buckets \ {"Discrete", b} : r[c] = q[c]
    BY <1>1, <1>5, <2>1, <2>7, <2>8 DEF Buckets
  <2>10. /\ r \in [Buckets -> Seq(Entry(K))] /\ Len(r[b]) <= 1
         /\ e.ges \in Nat \ {0} /\ e.ges \notin Waiting(q)
         /\ b \in {"Aggregated", "Continuous"}
         /\ \A c \in Buckets \ {"Discrete", b} : r[c] = q[c]
         /\ Distinct(r.Discrete) /\ RealsRise(r.Discrete)
         /\ RealNums(r.Discrete) \subseteq RealNums(q.Discrete)
         /\ Nums(r.Discrete) \cap Nums(r[b]) = {}
         /\ Nums(r[b]) \subseteq Nums(q[b]) \cup {e.ges}
         /\ Nums(r.Discrete) \cup Nums(r[b])
              = Nums(q.Discrete) \cup Nums(q[b]) \cup {e.ges}
    BY <1>1, <1>5, <2>4, <2>7, <2>8, <2>9
  <2>11. /\ QueueOK(r, K) /\ Waiting(r) = Waiting(q) \cup {e.ges}
         /\ Live(r) \subseteq Live(q) \cup {e.ges}
    BY <2>10, Placing
  <2> QED
    BY <1>1, <1>5, <2>8, <2>9, <2>11 DEF r, b
<1> QED
  BY <1>2, <1>3, <1>4, <1>5

(* A navigation has a bucket of its own, and takes no number.              *)
LEMMA InsertingNavigation ==
    ASSUME NEW K, "navigate" \in K, NEW q, QueueOK(q, K)
    PROVE  LET r == Insert(q, Navigation)
           IN  /\ QueueOK(r, K) /\ Waiting(r) = Waiting(q) /\ Live(r) = Live(q)
               /\ r.Discrete = q.Discrete
<1> DEFINE r == Insert(q, Navigation)
           t == Append(q.Critical, Navigation)
<1>1. r = [q EXCEPT !.Critical = t]
  BY DEF Insert, Dropped, Class, Navigation
<1>2. /\ q \in [Buckets -> Seq(Entry(K))] /\ q.Critical \in Seq(Entry(K))
      /\ Navigation \in Entry(K)
  BY DEF QueueOK, Buckets, Navigation, Entry
<1>3. t \in Seq(Entry(K)) /\ ToSet(t) \subseteq ToSet(q.Critical) \cup {Navigation}
  <2>1. /\ DOMAIN q.Critical = 1..Len(q.Critical) /\ Len(q.Critical) \in Nat
        /\ t \in Seq(Entry(K)) /\ DOMAIN t = 1..(Len(q.Critical) + 1)
        /\ \A i \in 1..Len(q.Critical) : t[i] = q.Critical[i]
        /\ t[Len(q.Critical) + 1] = Navigation
    BY <1>2, SequenceDomain, AppendProperties
  <2> HIDE DEF t
  <2> QED
    BY <2>1 DEF ToSet
<1> HIDE DEF t
<1>4. /\ r \in [Buckets -> Seq(Entry(K))] /\ r.Critical = t
      /\ r.Discrete = q.Discrete
      /\ r.Aggregated = q.Aggregated /\ r.Continuous = q.Continuous
  BY <1>1, <1>2, <1>3 DEF Buckets
<1> QED
  BY <1>3, <1>4 DEF QueueOK, Waiting, Live

(* purgeAggregated loses no number and makes no event of a filler.         *)
LEMMA PurgingAggregated ==
    ASSUME NEW K, "noop" \in K, NEW q, QueueOK(q, K)
    PROVE  LET r == PurgeAggregated(q)
           IN  /\ QueueOK(r, K) /\ Waiting(r) = Waiting(q)
               /\ Live(r) \subseteq Live(q)
               /\ Sorted(q.Discrete) => Sorted(r.Discrete)
               /\ Cardinality(Reals(r.Discrete)) = Cardinality(Reals(q.Discrete))
<1> DEFINE r == PurgeAggregated(q)
           t == ByGes(q.Discrete \o Fillers(q.Aggregated))
<1>1. /\ q \in [Buckets -> Seq(Entry(K))]
      /\ q.Discrete \in Seq(Entry(K)) /\ q.Aggregated \in Seq(Entry(K))
      /\ Distinct(q.Discrete) /\ Distinct(q.Aggregated)
      /\ Nums(q.Discrete) \cap Nums(q.Aggregated) = {}
  BY Short DEF QueueOK, Buckets
<1>2. CASE q.Aggregated = <<>>
  BY <1>2 DEF PurgeAggregated
<1>3. CASE q.Aggregated # <<>>
  <2>1. r = [q EXCEPT !.Aggregated = <<>>, !.Discrete = t]
    BY <1>3 DEF PurgeAggregated
  <2>2. /\ t \in Seq(Entry(K)) /\ Nums(t) = Nums(q.Discrete) \cup Nums(q.Aggregated)
        /\ Distinct(t) /\ Sorted(t) /\ RealsRise(t)
        /\ RealNums(t) = RealNums(q.Discrete)
        /\ Cardinality(Reals(t)) = Cardinality(Reals(q.Discrete))
    BY <1>1, FillingIn
  <2> HIDE DEF t
  <2>3. <<>> \in Seq(Entry(K)) /\ Nums(<<>>) = {} /\ Len(<<>>) = 0
    BY Short
  <2>4. /\ r \in [Buckets -> Seq(Entry(K))] /\ r.Critical = q.Critical
        /\ r.Discrete = t /\ r.Aggregated = <<>> /\ r.Continuous = q.Continuous
    BY <1>1, <2>1, <2>2, <2>3 DEF Buckets
  <2> HIDE DEF r
  <2>5. Nums(r.Aggregated) = {} /\ Len(r.Aggregated) = 0
    BY <2>3, <2>4
  <2>6. QueueOK(r, K)
    BY <2>2, <2>4, <2>5 DEF QueueOK, Waiting
  <2>7. Waiting(r) = Waiting(q) /\ Live(r) \subseteq Live(q)
    BY <2>2, <2>4, <2>5 DEF Waiting, Live
  <2> QED
    BY <2>2, <2>4, <2>6, <2>7 DEF r
<1> QED
  BY <1>2, <1>3

(* handleNavigation loses no number either. It may leave fillers behind    *)
(* entries with larger numbers, never an event behind a larger one.        *)
LEMMA PurgingForNavigation ==
    ASSUME NEW K, "noop" \in K, NEW q, QueueOK(q, K)
    PROVE  LET r == PurgeForNavigation(q)
           IN  /\ QueueOK(r, K) /\ Waiting(r) = Waiting(q)
               /\ Live(r) \subseteq Live(q)
               /\ Cardinality(Reals(r.Discrete)) <= Cardinality(Reals(q.Discrete))
               /\ r.Critical = q.Critical
<1> DEFINE r == PurgeForNavigation(q)
           D == q.Discrete
           stay == {i \in DOMAIN D : D[i].kind = "click"}
           left == Picked(D, stay)
           taken == Picked(D, DOMAIN D \ stay)
           coarse == q.Continuous \o q.Aggregated
           gone == coarse \o taken
           f == Fillers(gone)
           t == left \o f
<1>1. /\ q \in [Buckets -> Seq(Entry(K))]
      /\ D \in Seq(Entry(K)) /\ Distinct(D) /\ RealsRise(D)
      /\ q.Aggregated \in Seq(Entry(K)) /\ Distinct(q.Aggregated)
      /\ q.Continuous \in Seq(Entry(K)) /\ Distinct(q.Continuous)
      /\ Nums(D) \cap Nums(q.Aggregated) = {} /\ Nums(D) \cap Nums(q.Continuous) = {}
      /\ Nums(q.Continuous) \cap Nums(q.Aggregated) = {}
  BY Short DEF QueueOK, Buckets
<1>2. r = [q EXCEPT !.Continuous = <<>>, !.Aggregated = <<>>, !.Discrete = t]
  BY DEF PurgeForNavigation
<1>3. stay \in SUBSET DOMAIN D /\ stay \subseteq Reals(D)
  BY DEF Reals
<1> HIDE DEF r, stay, D
<1>4. /\ left \in Seq(Entry(K)) /\ Len(left) = Cardinality(stay)
      /\ ToSet(left) = {D[i] : i \in stay} /\ Nums(left) = {D[i].ges : i \in stay}
      /\ Distinct(left) /\ RealsRise(left)
  BY <1>1, <1>3, Picking
<1>5. /\ taken \in Seq(Entry(K)) /\ Distinct(taken)
      /\ Nums(taken) = {D[i].ges : i \in DOMAIN D \ stay}
  BY <1>1, <1>3, Picking
<1> HIDE DEF left, taken
<1>6. Nums(left) \cup Nums(taken) = Nums(D) /\ Nums(left) \cap Nums(taken) = {}
  <2>1. ASSUME NEW i \in DOMAIN D PROVE D[i].ges \in Nums(left) \cup Nums(taken)
    BY <1>4, <1>5
  <2>2. Nums(left) \cup Nums(taken) \subseteq Nums(D)
    BY <1>3, <1>4, <1>5 DEF Nums
  <2>3. ASSUME NEW i \in stay, NEW j \in DOMAIN D \ stay PROVE D[i].ges # D[j].ges
    BY <1>1, <1>3 DEF Distinct
  <2>4. Nums(D) \subseteq Nums(left) \cup Nums(taken)
    BY <2>1 DEF Nums
  <2>5. Nums(left) \cap Nums(taken) = {}
    BY <1>4, <1>5, <2>3
  <2> QED
    BY <2>2, <2>4, <2>5
<1>7. /\ coarse \in Seq(Entry(K)) /\ Distinct(coarse)
      /\ Nums(coarse) = Nums(q.Continuous) \cup Nums(q.Aggregated)
  BY <1>1, Joining
<1> HIDE DEF coarse
<1>8. /\ gone \in Seq(Entry(K)) /\ Distinct(gone)
      /\ Nums(gone) = Nums(coarse) \cup Nums(taken)
  <2>1. Nums(coarse) \cap Nums(taken) = {}
    BY <1>1, <1>6, <1>7
  <2> QED
    BY <1>5, <1>7, <2>1, Joining
<1> HIDE DEF gone
<1>9. /\ f \in Seq(Entry(K)) /\ Nums(f) = Nums(gone) /\ Reals(f) = {}
      /\ Distinct(f) /\ RealNums(f) = {}
  BY <1>8, Filling, RealsAmongAll
<1> HIDE DEF f
<1>10. /\ t \in Seq(Entry(K)) /\ Nums(t) = Nums(left) \cup Nums(f)
       /\ ToSet(t) = ToSet(left) \cup ToSet(f)
       /\ Distinct(t) /\ RealsRise(t) /\ Reals(t) = Reals(left)
  <2>1. Nums(left) \cap Nums(f) = {}
    BY <1>1, <1>6, <1>7, <1>8, <1>9
  <2> QED
    BY <1>4, <1>9, <2>1, Joining
<1> HIDE DEF t
<1>11. RealNums(t) \subseteq RealNums(D)
  <2>1. ToSet(left) \subseteq ToSet(D)
    BY <1>3, <1>4 DEF ToSet
  <2> QED
    BY <1>9, <1>10, <2>1 DEF RealNums
<1>12. Cardinality(Reals(t)) <= Cardinality(Reals(D))
  <2>1. /\ Cardinality(Reals(left)) <= Len(left) /\ Cardinality(Reals(left)) \in Nat
        /\ IsFiniteSet(Reals(D)) /\ Cardinality(Reals(D)) \in Nat
    BY <1>1, <1>4, RealsAreFinite
  <2>2. Cardinality(stay) <= Cardinality(Reals(D)) /\ Cardinality(stay) \in Nat
    BY <1>3, <2>1, FS_Subset, FS_CardinalityType
  <2> QED
    BY <1>4, <1>10, <2>1, <2>2
<1>13. <<>> \in Seq(Entry(K)) /\ Nums(<<>>) = {} /\ Len(<<>>) = 0
  BY Short
<1>14. /\ r \in [Buckets -> Seq(Entry(K))] /\ r.Critical = q.Critical
       /\ r.Discrete = t /\ r.Aggregated = <<>> /\ r.Continuous = <<>>
  BY <1>1, <1>2, <1>10, <1>13 DEF Buckets
<1>15. /\ Nums(r.Aggregated) = {} /\ Len(r.Aggregated) = 0
       /\ Nums(r.Continuous) = {} /\ Len(r.Continuous) = 0
  BY <1>13, <1>14
<1>16. Nums(t) = Nums(D) \cup Nums(q.Aggregated) \cup Nums(q.Continuous)
  BY <1>6, <1>7, <1>8, <1>9, <1>10
<1>17. Waiting(r) = Waiting(q) /\ Live(r) \subseteq Live(q)
  BY <1>11, <1>14, <1>15, <1>16 DEF Waiting, Live, D
<1>18. QueueOK(r, K)
  BY <1>10, <1>14, <1>15, <1>17 DEF QueueOK
<1> QED
  BY <1>12, <1>14, <1>17, <1>18 DEF r, D

(* Every set of numbers has a least one.                                   *)
LEMMA LeastNumber ==
    ASSUME NEW S \in SUBSET Nat, S # {}
    PROVE  \E n \in S : \A m \in S : n <= m
<1> DEFINE R == OpToRel(<, Nat)
<1>1. IsWellFoundedOn(R, Nat)
  BY NatLessThanWellFounded
<1>2. PICK n \in S : \A m \in S : <<m, n>> \notin R
  <2> HIDE DEF R
  <2> QED
    BY <1>1, WFMin
<1>3. \A m \in S : ~(m < n)
  BY <1>2 DEF OpToRel
<1> QED
  BY <1>3

(* dequeueNext takes a navigation if there is one, else the event or the   *)
(* filler whose number is less than those of all events that wait.         *)
LEMMA Dequeueing ==
    ASSUME NEW K, NEW q, QueueOK(q, K), ~IsEmpty(q)
    PROVE  LET e == NextEntry(q)
               r == Dequeue(q)
           IN  /\ e \in Entry(K) /\ QueueOK(r, K)
               /\ Cardinality(Reals(r.Discrete)) <= Cardinality(Reals(q.Discrete))
               /\ Sorted(q.Discrete) => Sorted(r.Discrete)
               /\ Live(r) \subseteq Live(q)
               /\ q.Critical # <<>> => e = Navigation
               /\ e.ges = 0 => /\ e = Navigation /\ q.Critical # <<>>
                               /\ Waiting(r) = Waiting(q)
                               /\ r.Discrete = q.Discrete
               /\ e.ges # 0 => /\ e.ges \in Waiting(q)
                               /\ Waiting(r) = Waiting(q) \ {e.ges}
                               /\ \A n \in Live(r) : e.ges < n
                               /\ e.kind # "noop" => e.ges \in Live(q)
                               /\ Sorted(q.Discrete) => \A n \in Waiting(r) : e.ges < n
<1> DEFINE e == NextEntry(q)
           r == Dequeue(q)
           b == NextBucket(q)
<1>1. /\ q \in [Buckets -> Seq(Entry(K))]
      /\ \A c \in Buckets : q[c] \in Seq(Entry(K))
  BY DEF QueueOK
<1>2. \A c \in Buckets : q[c] # <<>> => Head(q[c]).ges \in Nat
  <2> SUFFICES ASSUME NEW c \in Buckets, q[c] # <<>> PROVE Head(q[c]).ges \in Nat
    OBVIOUS
  <2>1. Head(q[c]) \in Entry(K)
    BY <1>1, Tailing
  <2> QED
    BY <2>1 DEF Entry
<1>3. /\ b \in Buckets /\ q[b] # <<>>
      /\ \A c \in Buckets : q[c] # <<>> => Head(q[b]).ges <= Head(q[c]).ges
  <2> DEFINE heads == {Head(q[c]).ges : c \in {d \in Buckets : q[d] # <<>>}}
  <2>1. heads \in SUBSET Nat /\ heads # {}
    BY <1>2 DEF IsEmpty
  <2>2. PICK n \in heads : \A m \in heads : n <= m
    BY <2>1, LeastNumber
  <2>3. PICK c \in Buckets : q[c] # <<>> /\ n = Head(q[c]).ges
    BY <2>2
  <2>4. \A d \in Buckets : q[d] # <<>> => Head(q[c]).ges <= Head(q[d]).ges
    BY <2>2, <2>3
  <2> QED
    BY <2>3, <2>4 DEF NextBucket
<1>4. e = Head(q[b]) /\ r = [q EXCEPT ![b] = Tail(q[b])]
  BY DEF NextEntry, Dequeue
<1> HIDE DEF b, e, r
<1> DEFINE s == q[b]
           t == Tail(s)
<1>5. /\ e \in Entry(K) /\ e \in ToSet(s) /\ e.ges \in Nums(s)
      /\ t \in Seq(Entry(K)) /\ Len(s) = Len(t) + 1
      /\ ToSet(t) \subseteq ToSet(s) /\ Nums(s) = Nums(t) \cup {e.ges}
      /\ RealNums(t) \subseteq RealNums(s)
      /\ Cardinality(Reals(t)) <= Cardinality(Reals(s))
      /\ Distinct(s) => Distinct(t) /\ e.ges \notin Nums(t)
      /\ Sorted(s) => Sorted(t) /\ \A n \in Nums(t) : e.ges < n
      /\ RealsRise(s) => RealsRise(t) /\ \A n \in RealNums(t) : e.ges < n
  BY <1>1, <1>3, <1>4, Tailing
<1>6. e.ges \in Nat
  BY <1>5 DEF Entry
<1>7. /\ r \in [Buckets -> Seq(Entry(K))] /\ r[b] = t
      /\ \A c \in Buckets \ {b} : r[c] = q[c]
  BY <1>1, <1>3, <1>4, <1>5
<1> HIDE DEF t
<1>8. Len(t) \in Nat
  BY <1>5, SequenceDomain
<1>9. q.Critical # <<>> => e.ges = 0
  <2> SUFFICES ASSUME q.Critical # <<>> PROVE e.ges = 0
    OBVIOUS
  <2>1. Head(q.Critical) \in ToSet(q.Critical)
    BY <1>1, Tailing DEF Buckets
  <2>2. Head(q.Critical).ges = 0
    BY <2>1 DEF QueueOK, Navigation
  <2>3. e.ges <= 0
    BY <1>3, <1>4, <2>2 DEF Buckets
  <2> QED
    BY <1>6, <2>3
<1>10. CASE b = "Critical"
  <2>1. /\ r.Critical = t /\ r.Discrete = q.Discrete
        /\ r.Aggregated = q.Aggregated /\ r.Continuous = q.Continuous
        /\ s = q.Critical
    BY <1>7, <1>10 DEF Buckets
  <2> HIDE DEF s
  <2>2. e = Navigation /\ ToSet(t) \subseteq {Navigation}
    BY <1>5, <2>1 DEF QueueOK
  <2>3. Waiting(r) = Waiting(q) /\ Live(r) = Live(q)
    BY <2>1 DEF Waiting, Live
  <2>4. QueueOK(r, K)
    BY <1>7, <2>1, <2>2, <2>3 DEF QueueOK
  <2>5. e.ges = 0 /\ q.Critical # <<>>
    BY <1>3, <1>10, <2>2 DEF Navigation
  <2>6. Cardinality(Reals(r.Discrete)) <= Cardinality(Reals(q.Discrete))
    BY <1>1, <2>1, RealsAreFinite DEF Buckets
  <2> QED
    BY <1>5, <2>1, <2>2, <2>3, <2>4, <2>5, <2>6 DEF e, r
<1>11. CASE b # "Critical"
  <2>1. b \in {"Discrete", "Aggregated", "Continuous"}
    BY <1>3, <1>11 DEF Buckets
  <2>2. e.ges \in Waiting(q) /\ e.ges # 0 /\ q.Critical = <<>>
    BY <1>5, <1>9, <2>1 DEF Waiting, QueueOK
  <2>3. r.Critical = q.Critical
    BY <1>7, <1>11 DEF Buckets
  <2>4. \A c \in {"Discrete", "Aggregated", "Continuous"} \ {b} :
            /\ e.ges \notin Nums(q[c]) /\ r[c] = q[c]
            /\ \A n \in RealNums(q[c]) : e.ges < n
            /\ Sorted(q[c]) => \A n \in Nums(q[c]) : e.ges < n
    <3> SUFFICES ASSUME NEW c \in {"Discrete", "Aggregated", "Continuous"} \ {b}
                 PROVE  /\ e.ges \notin Nums(q[c]) /\ r[c] = q[c]
                        /\ \A n \in RealNums(q[c]) : e.ges < n
                        /\ Sorted(q[c]) => \A n \in Nums(q[c]) : e.ges < n
      OBVIOUS
    <3>1. e.ges \notin Nums(q[c]) /\ r[c] = q[c] /\ c \in Buckets
      BY <1>5, <1>7, <2>1 DEF QueueOK, Buckets
    <3>2. CASE q[c] = <<>>
      BY <3>1, <3>2, Short
    <3>3. CASE q[c] # <<>>
      <4> DEFINE u == q[c]
                 h == Head(u)
                 v == Tail(u)
      <4>1. /\ Nums(u) = Nums(v) \cup {h.ges}
            /\ RealNums(u) \subseteq RealNums(v) \cup {h.ges}
            /\ Sorted(u) => \A n \in Nums(v) : h.ges < n
            /\ RealsRise(u) => \A n \in RealNums(v) : h.ges < n
            /\ v \in Seq(Entry(K))
        BY <1>1, <3>1, <3>3, Tailing
      <4>2. e.ges <= h.ges /\ h.ges \in Nat
        BY <1>2, <1>3, <1>4, <3>1, <3>3
      <4>3. e.ges < h.ges
        BY <1>6, <3>1, <4>1, <4>2
      <4>4. RealsRise(u)
        <5>1. CASE c = "Discrete"
          BY <5>1 DEF QueueOK
        <5>2. CASE c # "Discrete"
          <6>1. Len(u) <= 1 /\ DOMAIN u = 1..Len(u) /\ Len(u) \in Nat
            BY <1>1, <3>1, <5>2, SequenceDomain DEF QueueOK
          <6> QED
            BY <6>1 DEF RealsRise
        <5> QED
          BY <5>1, <5>2
      <4>5. Nums(v) \subseteq Nat /\ RealNums(v) \subseteq Nat
        BY <4>1, RealsAmongAll
      <4> HIDE DEF u, h, v
      <4>6. \A n \in RealNums(u) : e.ges < n
        BY <1>6, <4>1, <4>2, <4>3, <4>4, <4>5
      <4>7. Sorted(u) => \A n \in Nums(u) : e.ges < n
        BY <1>6, <4>1, <4>2, <4>3, <4>5
      <4> QED
        BY <3>1, <4>6, <4>7 DEF u
    <3> QED
      BY <3>2, <3>3
  <2>5. \A c \in {"Aggregated", "Continuous"} :
            /\ Sorted(q[c]) /\ RealsRise(q[c]) /\ Distinct(q[c])
            /\ c = b => Nums(t) = {} /\ Len(t) <= 1
    <3> SUFFICES ASSUME NEW c \in {"Aggregated", "Continuous"}
                 PROVE  /\ Sorted(q[c]) /\ RealsRise(q[c]) /\ Distinct(q[c])
                        /\ c = b => Nums(t) = {} /\ Len(t) <= 1
      OBVIOUS
    <3>1. /\ Len(q[c]) <= 1 /\ DOMAIN q[c] = 1..Len(q[c]) /\ Len(q[c]) \in Nat
          /\ q[c] \in Seq(Entry(K))
      BY <1>1, SequenceDomain DEF QueueOK, Buckets
    <3>2. Sorted(q[c]) /\ RealsRise(q[c]) /\ Distinct(q[c])
      BY <3>1 DEF Sorted, RealsRise, Distinct
    <3>3. ASSUME c = b PROVE Nums(t) = {} /\ Len(t) <= 1
      <4>1. Len(t) = 0
        BY <1>5, <1>8, <3>1, <3>3
      <4>2. DOMAIN t = 1..Len(t)
        BY <1>5, SequenceDomain
      <4> QED
        BY <4>1, <4>2 DEF Nums
    <3> QED
      BY <3>2, <3>3
  <2>6. Distinct(q.Discrete) /\ RealsRise(q.Discrete)
    BY DEF QueueOK
  <2> HIDE DEF s
  <2>7. /\ e.ges \notin Nums(t) /\ Distinct(t) /\ RealsRise(t)
        /\ \A n \in RealNums(t) : e.ges < n
        /\ Sorted(s) => Sorted(t) /\ \A n \in Nums(t) : e.ges < n
    <3>1. Distinct(s) /\ RealsRise(s)
      BY <2>1, <2>5, <2>6 DEF s
    <3> QED
      BY <1>5, <3>1
  <2>8. Cardinality(Reals(q.Discrete)) \in Nat /\ RealNums(t) \subseteq Nums(t)
    BY <1>1, <1>5, RealsAreFinite, RealsAmongAll DEF Buckets
  <2> DEFINE Goal ==
        /\ QueueOK(r, K)
        /\ Cardinality(Reals(r.Discrete)) <= Cardinality(Reals(q.Discrete))
        /\ Sorted(q.Discrete) => Sorted(r.Discrete)
        /\ Live(r) \subseteq Live(q)
        /\ Waiting(r) = Waiting(q) \ {e.ges}
        /\ \A n \in Live(r) : e.ges < n
        /\ e.kind # "noop" => e.ges \in Live(q)
        /\ Sorted(q.Discrete) => \A n \in Waiting(r) : e.ges < n
  <2>9. ASSUME b = "Discrete" PROVE Goal
    <3>1. /\ r.Discrete = t /\ s = q.Discrete
          /\ r.Aggregated = q.Aggregated /\ r.Continuous = q.Continuous
          /\ e.ges \notin Nums(q.Aggregated) /\ e.ges \notin Nums(q.Continuous)
          /\ \A n \in Nums(q.Aggregated) \cup Nums(q.Continuous) : e.ges < n
      BY <1>7, <2>4, <2>5, <2>9 DEF s
    <3>2. Waiting(r) = Waiting(q) \ {e.ges} /\ Live(r) \subseteq Live(q)
      BY <1>5, <2>7, <3>1 DEF Waiting, Live
    <3>3. QueueOK(r, K)
      BY <1>5, <1>7, <2>3, <2>7, <3>1, <3>2 DEF QueueOK
    <3>4. e.kind # "noop" => e.ges \in Live(q)
      BY <1>5, <3>1 DEF Live, RealNums
    <3>5. \A n \in Live(r) : e.ges < n
      BY <2>7, <3>1 DEF Live
    <3>6. Sorted(q.Discrete) => \A n \in Waiting(r) : e.ges < n
      BY <2>7, <3>1 DEF Waiting
    <3> QED
      BY <1>5, <2>7, <3>1, <3>2, <3>3, <3>4, <3>5, <3>6
  <2>10. ASSUME NEW c \in {"Aggregated", "Continuous"}, b \in {"Aggregated", "Continuous"},
                c # b
         PROVE  /\ r.Discrete = q.Discrete /\ r[b] = t /\ s = q[b] /\ r[c] = q[c]
                /\ e.ges \notin Nums(q[c]) /\ e.ges \notin Nums(q.Discrete)
                /\ Nums(t) = {} /\ Len(t) <= 1 /\ Nums(s) = {e.ges}
                /\ \A n \in Nums(q[c]) \cup RealNums(q.Discrete) : e.ges < n
                /\ Sorted(q.Discrete) => \A n \in Nums(q.Discrete) : e.ges < n
    BY <1>5, <1>7, <2>4, <2>5, <2>10 DEF s
  <2>11. ASSUME b = "Aggregated" PROVE Goal
    <3>1. /\ r.Discrete = q.Discrete /\ r.Aggregated = t /\ s = q.Aggregated
          /\ r.Continuous = q.Continuous
          /\ e.ges \notin Nums(q.Continuous) /\ e.ges \notin Nums(q.Discrete)
          /\ Nums(t) = {} /\ Len(t) <= 1 /\ Nums(s) = {e.ges}
          /\ \A n \in Nums(q.Continuous) \cup RealNums(q.Discrete) : e.ges < n
          /\ Sorted(q.Discrete) => \A n \in Nums(q.Discrete) : e.ges < n
      BY <2>10, <2>11
    <3>2. Waiting(r) = Waiting(q) \ {e.ges} /\ Live(r) \subseteq Live(q)
      BY <3>1 DEF Waiting, Live
    <3>3. QueueOK(r, K)
      BY <1>7, <2>3, <3>1, <3>2 DEF QueueOK
    <3>4. e.ges \in Live(q) /\ \A n \in Live(r) : e.ges < n
      BY <3>1 DEF Live
    <3>5. Sorted(q.Discrete) => \A n \in Waiting(r) : e.ges < n
      BY <3>1 DEF Waiting
    <3> QED
      BY <2>8, <3>1, <3>2, <3>3, <3>4, <3>5
  <2>12. ASSUME b = "Continuous" PROVE Goal
    <3>1. /\ r.Discrete = q.Discrete /\ r.Continuous = t /\ s = q.Continuous
          /\ r.Aggregated = q.Aggregated
          /\ e.ges \notin Nums(q.Aggregated) /\ e.ges \notin Nums(q.Discrete)
          /\ Nums(t) = {} /\ Len(t) <= 1 /\ Nums(s) = {e.ges}
          /\ \A n \in Nums(q.Aggregated) \cup RealNums(q.Discrete) : e.ges < n
          /\ Sorted(q.Discrete) => \A n \in Nums(q.Discrete) : e.ges < n
      BY <2>10, <2>12
    <3>2. Waiting(r) = Waiting(q) \ {e.ges} /\ Live(r) \subseteq Live(q)
      BY <3>1 DEF Waiting, Live
    <3>3. QueueOK(r, K)
      BY <1>7, <2>3, <3>1, <3>2 DEF QueueOK
    <3>4. e.ges \in Live(q) /\ \A n \in Live(r) : e.ges < n
      BY <3>1 DEF Live
    <3>5. Sorted(q.Discrete) => \A n \in Waiting(r) : e.ges < n
      BY <3>1 DEF Waiting
    <3> QED
      BY <2>8, <3>1, <3>2, <3>3, <3>4, <3>5
  <2>13. Goal
    BY <2>1, <2>9, <2>11, <2>12
  <2> QED
    BY <1>5, <2>2, <2>13 DEF e, r
<1> QED
  BY <1>10, <1>11 DEF e, r

(* The entry that takes a movement along is the one scroll that waits, and *)
(* no entry is added then but a filler.                                    *)
LEMMA Carrying ==
    ASSUME NEW K, "noop" \in K, NEW q, QueueOK(q, K), NEW e \in Entry(K),
           \A n \in Waiting(q) : n < e.ges
    PROVE  /\ Carriers(q, e) \subseteq Live(q)
           /\ \A g, h \in Carriers(q, e) : g = h
           /\ Carriers(q, e) # {} => Live(Insert(q, e)) \subseteq Live(q)
<1>1. /\ q \in [Buckets -> Seq(Entry(K))] /\ q.Aggregated \in Seq(Entry(K))
      /\ q.Discrete \in Seq(Entry(K)) /\ Len(q.Aggregated) <= 1
      /\ Distinct(q.Discrete) /\ e.ges \in Nat
  BY DEF QueueOK, Buckets, Entry
<1>2. Carriers(q, e) \subseteq Nums(q.Aggregated)
  BY DEF Carriers, Nums
<1>3. \A i, j \in DOMAIN q.Aggregated : i = j
  BY <1>1, SequenceDomain
<1>4. ASSUME Carriers(q, e) # {}
      PROVE  Live(Insert(q, e)) \subseteq Live(q)
  <2> DEFINE d == <<e>>
             t == ByGes(q.Discrete \o Fillers(d))
  <2>1. e.kind = "wheel" /\ q.Aggregated # <<>>
    BY <1>4, EmptySeq DEF Carriers
  <2>2. Class(e.kind) = "Aggregated"
    BY <2>1 DEF Class
  <2>4. Insert(q, e) = [q EXCEPT !.Aggregated = q.Aggregated, !.Discrete = t]
    BY <1>1, <2>1, <2>2 DEF Insert, Dropped, Buckets
  <2>5. RealNums(t) = RealNums(q.Discrete)
    <3>1. d \in Seq(Entry(K)) /\ Nums(d) = {e.ges} /\ Distinct(d)
      BY Short
    <3>2. e.ges \notin Nums(q.Discrete)
      BY <1>1 DEF Waiting
    <3> HIDE DEF d
    <3> QED
      BY <1>1, <3>1, <3>2, FillingIn
  <2> HIDE DEF t
  <2>6. /\ Insert(q, e).Discrete = t /\ Insert(q, e).Aggregated = q.Aggregated
        /\ Insert(q, e).Continuous = q.Continuous
    BY <1>1, <2>4 DEF Buckets
  <2> QED
    BY <2>5, <2>6 DEF Live
<1> QED
  BY <1>2, <1>3, <1>4 DEF Carriers, Live

-----------------------------------------------------------------------------
(* The inductive invariant.                                                *)
CommandKinds == Kinds \union {"navigate", "noop"}

Models == [model : {"absent", "ghost", "live"}, state : {"Out", "Ready"},
           crashed : BOOLEAN, ges : Nat, gaps : 0..MaxGaps,
           attempts : 0..(ReloadAt + 1)]

Heals == [1..MaxHeals ->
             [phase : {"unused", "closing", "spawning", "login", "verify", "over"},
              known : BOOLEAN]]

(* What the variables are, whatever the queue holds.                       *)
TypeInv ==
    /\ issued \in 0..MaxEvents /\ aged \in 0..issued
    /\ slave \in Models
    /\ drain \in [at : {"idle", "loop", "barrier", "execute"},
                  cmd : Commands, tries : 0..MaxTries]
    /\ armed \in BOOLEAN /\ shuffled \in BOOLEAN
    /\ heals \in Heals
    /\ navs \in 0..MaxNavs /\ expecting \in BOOLEAN
    /\ applied \in Nat

(* A command has been taken from the queue and is not settled.             *)
InFlightAt == drain.at \in {"barrier", "execute"}

(* Where every number is.                                                  *)
NumbersInv ==
    /\ QueueOK(queue, CommandKinds)
    /\ \A n \in Waiting(queue) : n <= issued
    /\ InFlightAt => /\ drain.cmd.ges <= issued
                     /\ drain.cmd.ges \notin Waiting(queue)
                     /\ drain.cmd.ges = 0 => drain.cmd = Navigation
    /\ open = Waiting(queue) \union InFlight
    /\ Cardinality(Reals(queue.Discrete)) <= DiscreteLimit

(* The events that are part of the command of an earlier one.              *)
Riders == {p[2] : p \in carried}

(* Such an event never comes to the page as itself, no other command has   *)
(* it, too, and it was given with its command or not at all.               *)
RideInv ==
    /\ given \subseteq 1..issued
    /\ carried \subseteq (1..issued) \X (1..issued)
    /\ \A p, q \in carried : p[2] = q[2] => p = q
    /\ Live(queue) \intersect Riders = {}
    /\ drain.at = "barrier" /\ drain.cmd.ges # 0 => drain.cmd.ges \notin Riders
    /\ \A n \in given : n \in Riders \/ n <= applied
    /\ \A p \in carried : p[2] \in given => p[1] <= applied

(* What the page was given, and may still be given.                        *)
OrderInv ==
    /\ RideInv
    /\ applied <= issued
    /\ \A n \in Live(queue) : applied < n
    /\ drain.at = "barrier" /\ drain.cmd.ges # 0 =>
           /\ applied < drain.cmd.ges
           /\ \A n \in Live(queue) : drain.cmd.ges < n

(* The counter, with the skip the watchdog owes.                           *)
Owed == slave.ges + IF armed THEN 1 ELSE 0

(* The counter is behind every number that is open.                        *)
CounterInv ==
    ~shuffled =>
        /\ Sorted(queue.Discrete)
        /\ Owed <= issued
        /\ \A n \in open : Owed < n
        /\ InFlightAt /\ drain.cmd.ges # 0 =>
               ~armed /\ \A n \in Waiting(queue) : drain.cmd.ges < n

-----------------------------------------------------------------------------
(* The constants, and the operators on a model, a heal and an empty queue. *)
LEMMA KindFacts ==
    /\ Commands = Entry(CommandKinds)
    /\ "noop" \in CommandKinds /\ "navigate" \in CommandKinds
    /\ \A kind \in Kinds : kind \in CommandKinds /\ Class(kind) # "Critical"
BY KindsAssumption DEF Commands, Entry, CommandKinds, Class

LEMMA BoundFacts ==
    /\ MaxGaps \in Nat /\ MaxTries \in Nat /\ MaxEvents \in Nat /\ MaxNavs \in Nat
    /\ MaxHeals \in Nat /\ ReloadAt \in Nat \ {0} /\ DiscreteLimit \in Nat \ {0}
BY BoundAssumption, EscalationAssumption, DiscreteLimitAssumption

LEMMA LeastOf ==
    ASSUME NEW S \in SUBSET Nat, S # {}
    PROVE  Min(S) \in S /\ \A n \in S : Min(S) <= n
<1>1. \E n \in S : \A m \in S : n <= m
  BY LeastNumber
<1> QED
  BY <1>1 DEF Min

(* What the registry does to a model it is asked for.                      *)
LEMMA ModelFacts ==
    ASSUME NEW s \in Models
    PROVE  /\ Touched(s) \in Models /\ Touched(s).ges = s.ges
           /\ Counted(s) \in Models /\ Counted(s).ges = s.ges + 1
           /\ Skipped(s) \in Models /\ Skipped(s).ges = s.ges + 1
           /\ Escalated(s) \in Models /\ Escalated(s).ges = s.ges
           /\ \A cmd : /\ SkippedIfNumbered(s, cmd) \in Models
                       /\ SkippedIfNumbered(s, cmd).ges =
                            s.ges + IF cmd.ges = 0 THEN 0 ELSE 1
<1>1. Touched(s) \in Models /\ Touched(s).ges = s.ges
  BY DEF Touched, Models
<1>2. Touched(s).gaps = s.gaps /\ Touched(s).attempts = s.attempts
  BY DEF Touched, Models
<1> DEFINE t == Touched(s)
<1>3. Counted(s) \in Models /\ Counted(s).ges = s.ges + 1
  <2> DEFINE n == t.ges + 1
  <2>1. Counted(s) = [t EXCEPT !.ges = n, !.gaps = 0]
    BY DEF Counted
  <2> HIDE DEF t
  <2>2. t \in Models /\ n = s.ges + 1 /\ n \in Nat /\ 0 \in 0..MaxGaps
    BY <1>1, BoundFacts DEF t, Models
  <2> HIDE DEF n
  <2> QED
    BY <2>1, <2>2 DEF Models
<1>4. Skipped(s) \in Models /\ Skipped(s).ges = s.ges + 1
  <2> DEFINE gaps == IF t.gaps = MaxGaps THEN 0 ELSE t.gaps + 1
             n == t.ges + 1
  <2>1. Skipped(s) = [t EXCEPT !.ges = n, !.gaps = gaps]
    BY DEF Skipped
  <2> HIDE DEF t
  <2>2. t \in Models /\ n = s.ges + 1 /\ n \in Nat
    BY <1>1 DEF t, Models
  <2>3. gaps \in 0..MaxGaps
    BY <2>2, BoundFacts DEF Models
  <2> HIDE DEF gaps, n
  <2> QED
    BY <2>1, <2>2, <2>3 DEF Models
<1>5. Escalated(s) \in Models /\ Escalated(s).ges = s.ges
  <2> DEFINE m == Min({Touched(s).attempts + 1, ReloadAt + 1})
  <2>1. m \in 0..(ReloadAt + 1)
    <3>1. {Touched(s).attempts + 1, ReloadAt + 1} \in SUBSET Nat
      BY <1>1, BoundFacts DEF Models
    <3>2. m \in {Touched(s).attempts + 1, ReloadAt + 1} /\ m <= ReloadAt + 1
      BY <3>1, LeastOf
    <3> QED
      BY <3>1, <3>2, BoundFacts
  <2>2. Escalated(s) = [Touched(s) EXCEPT !.attempts = m]
    BY DEF Escalated
  <2> HIDE DEF m
  <2> QED
    BY <1>1, <2>1, <2>2 DEF Models
<1> QED
  BY <1>1, <1>3, <1>4, <1>5 DEF SkippedIfNumbered, Models

LEMMA HealFacts ==
    ASSUME heals \in Heals, NEW s, StartHeal(s)
    PROVE  heals' \in Heals
<1> DEFINE unused == {h \in 1..MaxHeals : heals[h].phase = "unused"}
<1>1. CASE s.model = "absent" \/ unused = {}
  BY <1>1 DEF StartHeal
<1>2. CASE ~(s.model = "absent" \/ unused = {})
  <2>1. Min(unused) \in 1..MaxHeals
    BY <1>2, LeastOf
  <2>2. heals' = [heals EXCEPT ![Min(unused)] =
                      [phase |-> "closing", known |-> s.model = "live"]]
    BY <1>2 DEF StartHeal
  <2> QED
    BY <2>1, <2>2 DEF Heals
<1> QED
  BY <1>1, <1>2

LEMMA EmptyFacts ==
    /\ QueueOK(EmptyQueue, CommandKinds) /\ IsEmpty(EmptyQueue)
    /\ Waiting(EmptyQueue) = {} /\ Live(EmptyQueue) = {}
    /\ Cardinality(Reals(EmptyQueue.Discrete)) = 0 /\ Sorted(EmptyQueue.Discrete)
<1>1. \A b \in Buckets : EmptyQueue[b] = <<>>
  BY DEF EmptyQueue
<1>2. /\ EmptyQueue.Discrete = <<>> /\ EmptyQueue.Aggregated = <<>>
      /\ EmptyQueue.Continuous = <<>> /\ EmptyQueue.Critical = <<>>
  BY <1>1 DEF Buckets
<1>3. /\ <<>> \in Seq(Entry(CommandKinds)) /\ Len(<<>>) = 0
      /\ Nums(<<>>) = {} /\ RealNums(<<>>) = {} /\ Reals(<<>>) = {}
      /\ Distinct(<<>>) /\ RealsRise(<<>>) /\ Sorted(<<>>)
  BY Short
<1>4. EmptyQueue \in [Buckets -> Seq(Entry(CommandKinds))]
  BY <1>3 DEF EmptyQueue
<1>5. ToSet(<<>>) = {}
  BY DEF ToSet
<1>6. Waiting(EmptyQueue) = {} /\ Live(EmptyQueue) = {}
  BY <1>2, <1>3 DEF Waiting, Live
<1>7. QueueOK(EmptyQueue, CommandKinds)
  BY <1>2, <1>3, <1>4, <1>5, <1>6 DEF QueueOK
<1>8. Cardinality(Reals(EmptyQueue.Discrete)) = 0
  BY <1>2, <1>3, FS_EmptySet
<1> QED
  BY <1>1, <1>2, <1>3, <1>6, <1>7, <1>8 DEF IsEmpty

(* The numbers that waited are those that are cleared.                     *)
LEMMA NumbersAreWaiting ==
    ASSUME NEW q, QueueOK(q, CommandKinds)
    PROVE  Numbers(q) \ {0} = Waiting(q)
<1>1. Numbers(q) = {e.ges : e \in ToSet(q.Critical)} \cup Waiting(q)
  <2>1. Entries(q) = ToSet(q.Critical) \cup ToSet(q.Discrete)
                        \cup ToSet(q.Aggregated) \cup ToSet(q.Continuous)
    BY DEF Entries, Buckets
  <2>2. \A s : Nums(s) = {e.ges : e \in ToSet(s)}
    BY DEF Nums, ToSet
  <2> QED
    BY <2>1, <2>2 DEF Numbers, Waiting
<1>2. \A e \in ToSet(q.Critical) : e.ges = 0
  BY DEF QueueOK, Navigation
<1> QED
  BY <1>1, <1>2 DEF QueueOK

-----------------------------------------------------------------------------
(* What the ends of a command, and of an entry, have in common.            *)
CommandEnds == FailBarrier \/ ResetAtBarrier \/ Throw \/ Succeed \/ Refuse

LEMMA CommandEndFacts ==
    ASSUME TypeInv, NumbersInv, CommandEnds
    PROVE  /\ InFlightAt /\ drain' = Back
           /\ UNCHANGED <<issued, aged, applied, given, carried, convergence, shuffled>>
           /\ \/ queue' = queue /\ open' = open \ {drain.cmd.ges}
              \/ /\ queue' = EmptyQueue
                 /\ open' = open \ ({drain.cmd.ges} \cup Numbers(queue))
           /\ slave' \in Models /\ heals' \in Heals
           /\ slave'.ges = slave.ges + IF drain.cmd.ges = 0 THEN 0 ELSE 1
           /\ armed' \in BOOLEAN /\ (armed' => armed)
<1> USE DEF TypeInv
<1>1. ASSUME NEW s \in Models, s.ges = slave.ges, SkipCommand(s)
      PROVE  /\ drain' = Back /\ slave' \in Models
             /\ slave'.ges = slave.ges + IF drain.cmd.ges = 0 THEN 0 ELSE 1
             /\ armed' \in BOOLEAN /\ (armed' => armed)
  BY <1>1, ModelFacts DEF SkipCommand, ArmedAfterSkip
<1>2. ASSUME NEW strategy, CarryOut(strategy, Escalated(slave))
      PROVE  /\ drain' = Back /\ slave' \in Models /\ heals' \in Heals
             /\ slave'.ges = slave.ges + IF drain.cmd.ges = 0 THEN 0 ELSE 1
             /\ armed' \in BOOLEAN /\ (armed' => armed)
             /\ \/ queue' = queue /\ open' = open \ {drain.cmd.ges}
                \/ /\ queue' = EmptyQueue
                   /\ open' = open \ ({drain.cmd.ges} \cup Numbers(queue))
  <2> DEFINE s == Escalated(slave)
  <2>1. s \in Models /\ s.ges = slave.ges
    BY ModelFacts
  <2> HIDE DEF s
  <2>2. heals' \in Heals
    BY <1>2, HealFacts DEF CarryOut
  <2>3. PICK t \in {s, [s EXCEPT !.state = "Ready"]} : SkipCommand(t)
    BY <1>2 DEF CarryOut, s
  <2>4. t \in Models /\ t.ges = slave.ges
    BY <2>1, <2>3 DEF Models
  <2>5. \/ queue' = queue /\ open' = open \ {drain.cmd.ges}
        \/ /\ queue' = EmptyQueue
           /\ open' = open \ ({drain.cmd.ges} \cup Numbers(queue))
    BY <1>2 DEF CarryOut
  <2> QED
    BY <1>1, <2>2, <2>3, <2>4, <2>5
<1>3. CASE FailBarrier
  <2>1. Touched(slave) \in Models /\ Touched(slave).ges = slave.ges
    BY ModelFacts
  <2> QED
    BY <1>1, <1>3, <2>1 DEF FailBarrier, Settled, InFlightAt
<1>4. CASE ResetAtBarrier
  BY <1>2, <1>4 DEF ResetAtBarrier, InFlightAt
<1>5. CASE Throw
  BY <1>2, <1>5 DEF Throw, InFlightAt
<1>6. CASE Succeed
  <2>1. InFlightAt /\ (drain.cmd.ges = 0 <=> drain.cmd = Navigation)
    BY <1>6 DEF Succeed, InFlightAt, NumbersInv, Navigation
  <2>2. /\ slave' \in Models
        /\ slave'.ges = slave.ges + IF drain.cmd.ges = 0 THEN 0 ELSE 1
    <3>1. Counted(slave) \in Models /\ Counted(slave).ges = slave.ges + 1
      BY ModelFacts
    <3>2. slave.ges = slave.ges + 0
      BY DEF Models
    <3>3. slave' = IF drain.cmd.ges = 0 THEN slave ELSE Counted(slave)
      BY <1>6, <2>1 DEF Succeed
    <3> QED
      BY <3>1, <3>2, <3>3
  <2>3. armed' = armed
    BY <1>6 DEF Succeed
  <2>4. armed' \in BOOLEAN /\ (armed' => armed)
    BY <2>3, Zenon
  <2>5. /\ drain' = Back /\ open' = open \ {drain.cmd.ges} /\ heals' = heals
        /\ queue' = queue
        /\ UNCHANGED <<issued, aged, applied, given, carried, convergence, shuffled>>
    BY <1>6 DEF Succeed, Settled
  <2>6. heals' \in Heals
    BY <2>5
  <2> QED
    BY <2>1, <2>2, <2>4, <2>5, <2>6
<1>7. CASE Refuse
  BY <1>1, <1>7 DEF Refuse, Settled, InFlightAt
<1> QED
  BY <1>3, <1>4, <1>5, <1>6, <1>7 DEF CommandEnds
EntryEnds == Expire \/ RejectStale \/ PassFiller

LEMMA EntryEndFacts ==
    ASSUME TypeInv, EntryEnds
    PROVE  /\ drain.at = "loop" /\ ~IsEmpty(queue) /\ drain' = drain
           /\ queue' = Dequeue(queue) /\ open' = open \ {NextEntry(queue).ges}
           /\ UNCHANGED <<issued, aged, applied, given, carried, heals, convergence, shuffled>>
           /\ slave' \in Models
           /\ slave'.ges \in slave.ges..(slave.ges + 1)
           /\ NextEntry(queue).ges = 0 => slave'.ges = slave.ges
           /\ armed' \in BOOLEAN /\ (armed' => armed)
<1> DEFINE e == NextEntry(queue)
<1> HIDE DEF e
<1>1. slave \in Models /\ slave.ges \in Nat /\ armed \in BOOLEAN
  BY DEF TypeInv, Models
<1>2. CASE Expire
  <2>1. /\ SkippedIfNumbered(slave, e) \in Models
        /\ SkippedIfNumbered(slave, e).ges = slave.ges + IF e.ges = 0 THEN 0 ELSE 1
    BY <1>1, ModelFacts
  <2>2. /\ slave' \in Models
        /\ slave'.ges \in slave.ges..(slave.ges + 1)
        /\ e.ges = 0 => slave'.ges = slave.ges
    BY <1>1, <1>2, <2>1 DEF Expire, e
  <2>3. armed' \in BOOLEAN /\ (armed' => armed)
    BY <1>1, <1>2 DEF Expire, ArmedAfterSkip
  <2>4. /\ drain.at = "loop" /\ ~IsEmpty(queue) /\ drain' = drain
        /\ queue' = Dequeue(queue) /\ open' = open \ {NextEntry(queue).ges}
        /\ UNCHANGED <<issued, aged, applied, given, carried, heals, convergence, shuffled>>
    BY <1>2 DEF Expire, Looping
  <2> QED
    BY <2>2, <2>3, <2>4 DEF e
<1>3. CASE RejectStale
  <2>1. /\ drain.at = "loop" /\ ~IsEmpty(queue) /\ drain' = drain
        /\ queue' = Dequeue(queue) /\ open' = open \ {NextEntry(queue).ges}
        /\ UNCHANGED <<issued, aged, applied, given, carried, heals, convergence, shuffled>>
        /\ slave' = slave /\ armed' = armed
    BY <1>3 DEF RejectStale, Numbered, Dispatchable, Looping
  <2>2. armed' \in BOOLEAN /\ (armed' => armed)
    BY <1>1, <2>1, Zenon
  <2>3. slave' \in Models /\ slave'.ges \in slave.ges..(slave.ges + 1)
    BY <1>1, <2>1
  <2> QED
    BY <2>1, <2>2, <2>3
<1>4. CASE PassFiller
  <2>1. /\ drain.at = "loop" /\ ~IsEmpty(queue) /\ drain' = drain
        /\ queue' = Dequeue(queue) /\ open' = open \ {NextEntry(queue).ges}
        /\ UNCHANGED <<issued, aged, applied, given, carried, heals, convergence, shuffled>>
        /\ slave' = Counted(slave) /\ armed' = FALSE /\ NextEntry(queue).ges # 0
    BY <1>4 DEF PassFiller, Aligned, Numbered, Dispatchable, Looping
  <2>2. slave' \in Models /\ slave'.ges = slave.ges + 1
    BY <1>1, <2>1, ModelFacts
  <2>3. slave'.ges \in slave.ges..(slave.ges + 1)
    BY <1>1, <2>2
  <2> QED
    BY <2>1, <2>2, <2>3
<1> QED
  BY <1>2, <1>3, <1>4 DEF EntryEnds

-----------------------------------------------------------------------------
LEMMA TypeInit == Init => TypeInv /\ NumbersInv
<1> SUFFICES ASSUME Init PROVE TypeInv /\ NumbersInv
  OBVIOUS
<1>1. slave \in Models
  <2>1. slave = [model |-> "live", state |-> "Ready", crashed |-> FALSE,
                 ges |-> 0, gaps |-> 0, attempts |-> 0]
    BY DEF Init, Absent
  <2> QED
    BY <2>1, BoundFacts DEF Models
<1>2. drain \in [at : {"idle", "loop", "barrier", "execute"},
                 cmd : Commands, tries : 0..MaxTries]
  BY BoundFacts DEF Init, Idle, Navigation, Commands
<1>3. heals \in Heals
  BY DEF Init, Heals
<1>4. TypeInv
  <2>1. armed \in BOOLEAN /\ shuffled \in BOOLEAN /\ expecting \in BOOLEAN
    BY DEF Init
  <2>2. issued \in 0..MaxEvents /\ aged \in 0..issued /\ navs \in 0..MaxNavs
    BY BoundFacts DEF Init
  <2>3. applied \in Nat
    BY DEF Init
  <2> QED
    BY <1>1, <1>2, <1>3, <2>1, <2>2, <2>3 DEF TypeInv
<1>5. ~InFlightAt /\ InFlight = {}
  BY DEF Init, Idle, InFlightAt, InFlight
<1>6. NumbersInv
  BY <1>5, EmptyFacts, BoundFacts DEF Init, NumbersInv
<1> QED
  BY <1>4, <1>6

LEMMA BackType ==
    ASSUME TypeInv
    PROVE  /\ Back \in [at : {"idle", "loop", "barrier", "execute"},
                        cmd : Commands, tries : 0..MaxTries]
           /\ Back.at = "loop"
<1> DEFINE Drains == [at : {"idle", "loop", "barrier", "execute"},
                      cmd : Commands, tries : 0..MaxTries]
<1>1. drain \in Drains
  BY DEF TypeInv
<1>2. 0 \in 0..MaxTries
  BY BoundFacts
<1>3. Navigation \in Commands
  BY DEF Navigation, Commands
<1> QED
  BY <1>1, <1>2, <1>3 DEF Back

LEMMA WokenType ==
    ASSUME TypeInv, drain' = Woken
    PROVE  drain' \in [at : {"idle", "loop", "barrier", "execute"},
                       cmd : Commands, tries : 0..MaxTries]
BY DEF TypeInv, Woken

LEMMA TypeNext == TypeInv /\ NumbersInv /\ [Next]_vars => TypeInv'
<1> SUFFICES ASSUME TypeInv, NumbersInv, [Next]_vars
             PROVE  TypeInv'
    OBVIOUS
<1> USE BoundFacts
<1> DEFINE Drains == [at : {"idle", "loop", "barrier", "execute"},
                      cmd : Commands, tries : 0..MaxTries]
<1>a. /\ slave \in Models /\ drain \in Drains /\ heals \in Heals
      /\ issued \in 0..MaxEvents /\ aged \in 0..issued
      /\ armed \in BOOLEAN /\ shuffled \in BOOLEAN
      /\ navs \in 0..MaxNavs /\ expecting \in BOOLEAN
      /\ applied \in Nat
  BY DEF TypeInv
<1>b. Navigation \in Commands
  BY DEF Navigation, Commands
<1>c. Back \in Drains /\ Idle \in Drains
      /\ \A cmd \in Commands : Awaiting(cmd) \in Drains
  <2>2. 0 \in 0..MaxTries
    OBVIOUS
  <2>1. Back \in Drains
    BY BackType
  <2>3. Idle \in Drains
    BY <1>b, <2>2 DEF Idle
  <2>4. ASSUME NEW cmd \in Commands PROVE Awaiting(cmd) \in Drains
    BY <2>2 DEF Awaiting
  <2> QED
    BY <2>1, <2>3, <2>4
<1>d. drain' = Woken => drain' \in Drains
  BY WokenType
<1>e. ~IsEmpty(queue) => NextEntry(queue) \in Commands
  BY Dequeueing, KindFacts DEF NumbersInv
<1>f. UNCHANGED <<issued, aged>> => issued' \in 0..MaxEvents /\ aged' \in 0..issued'
  BY <1>a
<1>g. /\ UNCHANGED armed => armed' \in BOOLEAN
      /\ UNCHANGED shuffled => shuffled' \in BOOLEAN
      /\ UNCHANGED expecting => expecting' \in BOOLEAN
  BY <1>a, Zenon
<1>h. /\ UNCHANGED mirror => UNCHANGED <<issued, aged, applied, given, carried, open>>
      /\ UNCHANGED convergence => UNCHANGED <<navs, expecting>>
  BY DEF mirror, convergence
<1> HIDE DEF Drains
<1>1. CASE Miss
  BY <1>1, <1>a, <1>g, <1>h DEF Miss, TypeInv, Drains
<1>2. ASSUME NEW kind \in Kinds, Overflow(kind) PROVE TypeInv'
  <2>1. armed' \in BOOLEAN
    BY <1>2 DEF Overflow
  <2> QED
    BY <1>2, <1>a, <1>g, <1>h, <2>1 DEF Overflow, TypeInv, Drains
<1>3. ASSUME NEW kind \in Kinds, Enqueue(kind) PROVE TypeInv'
  BY <1>3, <1>a, <1>d, <1>g, <1>h DEF Enqueue, TypeInv, Drains
<1>4. CASE ScrollConverges
  BY <1>4, <1>a, <1>f, <1>g, <1>h DEF ScrollConverges, TypeInv, Drains
<1>5. CASE Age
  <2> DEFINE fresh == {n \in Numbers(queue) : n > aged}
  <2>1. aged' = Min(fresh) /\ fresh # {} /\ issued' = issued
    BY <1>5 DEF Age
  <2>2. \A n \in fresh : n \in Nat /\ n <= issued
    <3>1. /\ Waiting(queue) = Numbers(queue) \ {0}
          /\ \A n \in Waiting(queue) : n \in Nat /\ n <= issued
      BY NumbersAreWaiting, LiveWaits DEF NumbersInv
    <3> QED
      BY <1>a, <3>1
  <2>3. Min(fresh) \in fresh
    BY <2>1, <2>2, LeastOf
  <2>4. aged' \in 0..issued
    BY <1>a, <2>1, <2>2, <2>3
  <2> HIDE DEF fresh
  <2> QED
    BY <1>5, <1>a, <1>g, <1>h, <2>1, <2>4 DEF Age, TypeInv, Drains
<1>6. CASE DrainEnds
  BY <1>6, <1>a, <1>c, <1>f, <1>g, <1>h DEF DrainEnds, TypeInv, Drains
<1>7. CASE EntryEnds
  <2>1. /\ drain' = drain
        /\ UNCHANGED <<issued, aged, applied, given, carried, heals, convergence, shuffled>>
        /\ slave' \in Models /\ armed' \in BOOLEAN
    BY <1>7, EntryEndFacts
  <2> QED
    BY <2>1, <1>a, <1>f, <1>g, <1>h DEF TypeInv, Drains
<1>8. CASE StartNavigation
  <2>1. shuffled' \in BOOLEAN
    BY <1>8, <1>a DEF StartNavigation
  <2> QED
    BY <1>8, <1>a, <1>b, <1>c, <1>f, <1>g, <1>h, <2>1 DEF StartNavigation, TypeInv, Drains
<1>9. CASE AwaitPredecessor
  BY <1>9, <1>a, <1>c, <1>f, <1>g, <1>h DEF AwaitPredecessor, TypeInv, Drains
<1>10. CASE Start
  <2>1. NextEntry(queue) \in Commands
    BY <1>10, <1>e DEF Start, Aligned, Numbered, Dispatchable, Looping
  <2> QED
    BY <1>10, <1>a, <1>c, <1>f, <1>g, <1>h, <2>1 DEF Start, TypeInv, Drains
<1>11. CASE PassBarrier
  <2>1. slave' \in Models
    <3>1. Touched(slave) \in Models
      BY <1>a, ModelFacts
    <3> QED
      BY <1>11, <3>1 DEF PassBarrier, Models
  <2>2. drain' \in Drains
    BY <1>11, <1>a DEF PassBarrier, Drains
  <2>3. applied' \in Nat
    BY <1>11, <1>a DEF PassBarrier, Drains, Commands
  <2> QED
    BY <1>11, <1>a, <1>f, <1>g, <1>h, <2>1, <2>2, <2>3 DEF PassBarrier, TypeInv, Drains
<1>12. CASE CommandEnds
  <2>1. /\ drain' = Back
        /\ UNCHANGED <<issued, aged, applied, given, carried, convergence, shuffled>>
        /\ slave' \in Models /\ heals' \in Heals /\ armed' \in BOOLEAN
    BY <1>12, CommandEndFacts
  <2> QED
    BY <2>1, <1>a, <1>c, <1>f, <1>g, <1>h DEF TypeInv, Drains
<1>13. ASSUME NEW scroll \in BOOLEAN, RetryBarrier(scroll) PROVE TypeInv'
  <2>1. slave' \in Models
    BY <1>13, <1>a, ModelFacts DEF RetryBarrier
  <2>2. drain' \in Drains
    BY <1>13, <1>a DEF RetryBarrier, Drains
  <2> QED
    BY <1>13, <1>a, <1>f, <1>g, <1>h, <2>1, <2>2 DEF RetryBarrier, TypeInv, Drains
<1>14. CASE WatchdogFires
  <2>1. slave' \in Models
    BY <1>14, <1>a, ModelFacts DEF WatchdogFires
  <2> QED
    BY <1>14, <1>a, <1>d, <1>f, <1>g, <1>h, <2>1 DEF WatchdogFires, TypeInv, Drains
<1>15. CASE Crash
  <2>1. slave' \in Models
    BY <1>15, <1>a DEF Crash, Models
  <2> QED
    BY <1>15, <1>a, <1>f, <1>g, <1>h, <2>1 DEF Crash, TypeInv, Drains
<1>16. CASE DetectCrash
  <2>1. slave' \in Models
    BY <1>16, <1>a DEF DetectCrash, Models
  <2>2. heals' \in Heals
    BY <1>16, <1>a, HealFacts DEF DetectCrash
  <2> QED
    BY <1>16, <1>a, <1>f, <1>g, <1>h, <2>1, <2>2 DEF DetectCrash, TypeInv, Drains
<1>17. ASSUME NEW h \in 1..MaxHeals, HealStep(h) PROVE TypeInv'
  <2>1. /\ heals' \in Heals
        /\ UNCHANGED <<issued, aged, applied, given, carried, armed, shuffled>>
    <3>1. PICK from, to : /\ Heal(h, from, to)
                          /\ to \in {"spawning", "login", "verify", "over"}
      BY <1>17 DEF HealStep, Unregister, Respawn, LogIn, FinishHeal, FailAttempt, GiveUp
    <3>2. heals' = [heals EXCEPT ![h].phase = to]
      BY <3>1 DEF Heal
    <3>3. heals' \in Heals
      BY <1>a, <3>1, <3>2 DEF Heals
    <3> QED
      BY <3>1, <3>3 DEF Heal
  <2>2. slave' \in Models
    <3>1. Absent \in Models
      BY DEF Absent, Models
    <3>2. /\ [slave EXCEPT !.model = "live", !.state = "Out"] \in Models
          /\ [slave EXCEPT !.state = "Ready"] \in Models
          /\ [slave EXCEPT !.ges = MasterGes] \in Models
      BY <1>a DEF Models, MasterGes
    <3> QED
      BY <1>17, <3>1, <3>2
         DEF HealStep, Unregister, Respawn, LogIn, FinishHeal, FailAttempt, GiveUp
  <2>3. drain' \in Drains
    BY <1>17, <1>a, <1>d
       DEF HealStep, Unregister, Respawn, LogIn, FinishHeal, FailAttempt, GiveUp
  <2>4. navs' \in 0..MaxNavs /\ expecting' \in BOOLEAN
    <3>1. CASE FinishHeal(h)
      BY <1>a, <3>1 DEF FinishHeal
    <3>2. CASE ~FinishHeal(h)
      <4>1. UNCHANGED convergence
        BY <1>17, <3>2 DEF HealStep, Unregister, Respawn, LogIn, FailAttempt, GiveUp
      <4> QED
        BY <1>a, <1>g, <1>h, <4>1
    <3> QED
      BY <3>1, <3>2
  <2> QED
    BY <1>a, <1>f, <1>g, <2>1, <2>2, <2>3, <2>4 DEF TypeInv, Drains
<1>18. CASE Converge
  BY <1>18, <1>a, <1>f, <1>g, <1>h DEF Converge, TypeInv, Drains
<1>19. ASSUME Correct
       PROVE  navs' \in 0..MaxNavs /\ drain' \in Drains
  BY <1>19, <1>a, <1>d DEF Correct, Correctable
<1>20. CASE ObserveDivergence
  <2>1. expecting' \in BOOLEAN
    BY <1>20 DEF ObserveDivergence, Correctable
  <2> QED
    BY <1>20, <1>19, <1>a, <1>f, <1>g, <1>h, <2>1 DEF ObserveDivergence, TypeInv, Drains
<1>21. CASE ConvergenceTimeout
  BY <1>21, <1>19, <1>a, <1>f, <1>g, <1>h DEF ConvergenceTimeout, TypeInv, Drains
<1>22. CASE UNCHANGED vars
  BY <1>22, <1>a, <1>f, <1>g, <1>h DEF vars, TypeInv, Drains
<1> QED
  BY <1>1, <1>2, <1>3, <1>4, <1>5, <1>6, <1>7, <1>8, <1>9, <1>10, <1>11, <1>12, <1>13,
     <1>14, <1>15, <1>16, <1>17, <1>18, <1>20, <1>21, <1>22
     DEF Next, MasterStep, DrainStep, CommandStep, ConvergenceStep, EntryEnds, CommandEnds

-----------------------------------------------------------------------------
LEMMA InFlightFacts ==
    /\ InFlightAt => InFlight = {drain.cmd.ges} \ {0}
    /\ ~InFlightAt => InFlight = {}
BY DEF InFlightAt, InFlight

(* Whatever wakes the drain leaves the command in flight as it is.         *)
LEMMA WokenInFlight ==
    ASSUME TypeInv, drain' = Woken \/ drain' = drain
    PROVE  /\ InFlight' = InFlight /\ InFlightAt' = InFlightAt
           /\ drain'.cmd = drain.cmd
           /\ drain'.at \in {"barrier", "execute"} => drain'.at = drain.at
<1>1. \/ drain' = drain
      \/ drain.at = "idle" /\ drain' = [drain EXCEPT !.at = "loop"]
  BY DEF Woken
<1>2. \/ drain' = drain
      \/ drain.at = "idle" /\ drain'.at = "loop" /\ drain'.cmd = drain.cmd
  BY <1>1 DEF TypeInv
<1> QED
  BY <1>2 DEF InFlight, InFlightAt

(* Clearing the queue and settling the command leaves nothing open.        *)
LEMMA OpenFacts ==
    ASSUME NumbersInv
    PROVE  /\ open \ Numbers(queue) = InFlight
           /\ InFlightAt =>
                /\ open \ {drain.cmd.ges} = Waiting(queue)
                /\ open \ ({drain.cmd.ges} \cup Numbers(queue)) = {}
<1>1. /\ Waiting(queue) = Numbers(queue) \ {0} /\ 0 \notin Waiting(queue)
      /\ open = Waiting(queue) \cup InFlight
  BY NumbersAreWaiting DEF NumbersInv, QueueOK
<1>2. InFlight \cap Waiting(queue) = {} /\ 0 \notin InFlight
  BY InFlightFacts DEF NumbersInv, InFlight
<1>3. InFlightAt => /\ InFlight = {drain.cmd.ges} \ {0}
                    /\ drain.cmd.ges \notin Waiting(queue)
  BY InFlightFacts DEF NumbersInv
<1> QED
  BY <1>1, <1>2, <1>3

LEMMA SameNumbers ==
    ASSUME TypeInv, NumbersInv, queue' = queue, open' = open, InFlight' = InFlight,
           InFlightAt' => InFlightAt /\ drain'.cmd = drain.cmd,
           issued \in Nat, issued' \in Nat, issued <= issued'
    PROVE  NumbersInv'
<1>1. \A n \in Waiting(queue) : n \in Nat /\ n <= issued'
  BY LiveWaits DEF NumbersInv
<1>2. InFlightAt' => /\ drain.cmd.ges <= issued'
                     /\ drain.cmd.ges \notin Waiting(queue)
                     /\ drain.cmd.ges = 0 => drain.cmd = Navigation
  <2> SUFFICES ASSUME InFlightAt' PROVE /\ drain.cmd.ges <= issued'
                                        /\ drain.cmd.ges \notin Waiting(queue)
                                        /\ drain.cmd.ges = 0 => drain.cmd = Navigation
    OBVIOUS
  <2>1. InFlightAt
    OBVIOUS
  <2> QED
    BY <2>1 DEF NumbersInv, TypeInv, Commands
<1> QED
  BY <1>1, <1>2 DEF NumbersInv

(* An entry taken from the queue, by whatever name the queue had before.   *)
LEMMA DequeueNumbers ==
    ASSUME NumbersInv, ~IsEmpty(queue)
    PROVE  LET e == NextEntry(queue)
               r == Dequeue(queue)
           IN  /\ e \in Commands /\ QueueOK(r, CommandKinds)
               /\ Waiting(r) = Waiting(queue) \ {e.ges}
               /\ Cardinality(Reals(r.Discrete)) <= DiscreteLimit
               /\ e.ges # 0 => e.ges \in Waiting(queue) /\ e.ges <= issued
               /\ e.ges = 0 => e = Navigation
<1> DEFINE e == NextEntry(queue)
           r == Dequeue(queue)
<1>1. QueueOK(queue, CommandKinds)
  BY DEF NumbersInv
<1>2. /\ e \in Entry(CommandKinds) /\ QueueOK(r, CommandKinds)
      /\ Cardinality(Reals(r.Discrete)) <= Cardinality(Reals(queue.Discrete))
      /\ e.ges = 0 => e = Navigation /\ Waiting(r) = Waiting(queue)
      /\ e.ges # 0 => /\ e.ges \in Waiting(queue)
                      /\ Waiting(r) = Waiting(queue) \ {e.ges}
  BY <1>1, Dequeueing
<1> HIDE DEF e, r
<1>3. 0 \notin Waiting(queue)
  BY <1>1 DEF QueueOK
<1>4. Waiting(r) = Waiting(queue) \ {e.ges}
  BY <1>2, <1>3
<1>5. Cardinality(Reals(r.Discrete)) <= DiscreteLimit
  <2>1. /\ queue.Discrete \in Seq(Entry(CommandKinds))
        /\ r.Discrete \in Seq(Entry(CommandKinds))
    BY <1>1, <1>2 DEF QueueOK, Buckets
  <2>2. /\ Cardinality(Reals(r.Discrete)) \in Nat
        /\ Cardinality(Reals(queue.Discrete)) \in Nat
    BY <2>1, RealsAreFinite
  <2> QED
    BY <1>2, <2>2, BoundFacts DEF NumbersInv
<1> QED
  BY <1>2, <1>4, <1>5, KindFacts DEF e, r, NumbersInv

(* The event the master makes next, put in the queue.                      *)
LEMMA EnqueueNumbers ==
    ASSUME TypeInv, NumbersInv, NEW kind \in Kinds, Enqueue(kind)
    PROVE  /\ QueueOK(queue', CommandKinds) /\ issued' = issued + 1
           /\ Waiting(queue') = Waiting(queue) \cup {issued'}
           /\ Live(queue') \subseteq Live(queue) \cup {issued'}
           /\ Sorted(queue.Discrete) => Sorted(queue'.Discrete)
           /\ Cardinality(Reals(queue'.Discrete)) <= DiscreteLimit
<1> DEFINE e == [ges |-> issued', kind |-> kind]
           r == Insert(queue, e)
<1>1. /\ issued' = issued + 1 /\ queue' = r
      /\ ~(Class(kind) = "Discrete" /\ Full(queue))
  BY DEF Enqueue
<1>2. issued \in Nat /\ issued' \in Nat /\ issued' # 0
  BY <1>1, BoundFacts DEF TypeInv
<1>3. e \in Entry(CommandKinds) /\ e.ges = issued' /\ e.kind = kind
  BY <1>2, KindFacts DEF Entry
<1>4. Class(e.kind) # "Critical" /\ \A n \in Waiting(queue) : n < e.ges
  BY <1>1, <1>2, <1>3, KindFacts, LiveWaits DEF NumbersInv
<1> HIDE DEF e
<1>5. /\ QueueOK(r, CommandKinds) /\ Waiting(r) = Waiting(queue) \cup {e.ges}
      /\ Live(r) \subseteq Live(queue) \cup {e.ges}
      /\ Sorted(queue.Discrete) => Sorted(r.Discrete)
      /\ Cardinality(Reals(r.Discrete)) <=
           Cardinality(Reals(queue.Discrete))
               + IF Class(e.kind) = "Discrete" THEN 1 ELSE 0
  BY <1>2, <1>3, <1>4, KindFacts, Inserting DEF NumbersInv
<1> HIDE DEF r
<1>6. Cardinality(Reals(r.Discrete)) <= DiscreteLimit
  <2>1. /\ queue.Discrete \in Seq(Entry(CommandKinds))
        /\ r.Discrete \in Seq(Entry(CommandKinds))
    BY <1>5 DEF NumbersInv, QueueOK, Buckets
  <2>2. /\ Cardinality(Reals(r.Discrete)) \in Nat
        /\ Cardinality(Reals(queue.Discrete)) \in Nat
    BY <2>1, RealsAreFinite
  <2>3. Cardinality(Reals(queue.Discrete)) <= DiscreteLimit
    BY DEF NumbersInv
  <2>4. CASE Class(e.kind) = "Discrete"
    <3>1. ~(Cardinality(Reals(queue.Discrete)) >= DiscreteLimit)
      BY <1>1, <1>3, <2>4 DEF Full, Reals
    <3> QED
      BY <1>5, <2>2, <2>4, <3>1, BoundFacts
  <2>5. CASE Class(e.kind) # "Discrete"
    BY <1>5, <2>2, <2>3, <2>5, BoundFacts
  <2> QED
    BY <2>4, <2>5
<1> QED
  BY <1>1, <1>3, <1>5, <1>6

(* A navigation is put in the queue, or it is not.                         *)
LEMMA NavigationNumbers ==
    ASSUME NumbersInv, queue' = Insert(queue, Navigation) \/ queue' = queue
    PROVE  /\ QueueOK(queue', CommandKinds) /\ Waiting(queue') = Waiting(queue)
           /\ Live(queue') = Live(queue) /\ queue'.Discrete = queue.Discrete
           /\ Cardinality(Reals(queue'.Discrete)) <= DiscreteLimit
<1>1. /\ QueueOK(queue, CommandKinds)
      /\ Cardinality(Reals(queue.Discrete)) <= DiscreteLimit
  BY DEF NumbersInv
<1>2. CASE queue' = queue
  BY <1>1, <1>2
<1>3. CASE queue' = Insert(queue, Navigation)
  BY <1>1, <1>3, KindFacts, InsertingNavigation
<1> QED
  BY <1>2, <1>3

(* The purge before a navigation, and the navigation taken.                *)
LEMMA StartNavigationNumbers ==
    ASSUME TypeInv, NumbersInv, StartNavigation
    PROVE  /\ QueueOK(queue', CommandKinds) /\ Waiting(queue') = Waiting(queue)
           /\ Live(queue') \subseteq Live(queue)
           /\ Cardinality(Reals(queue'.Discrete)) <= DiscreteLimit
           /\ drain.at = "loop" /\ ~IsEmpty(queue) /\ drain'.at = "barrier"
           /\ drain'.cmd = Navigation
<1> DEFINE p == PurgeForNavigation(queue)
<1>1. /\ queue' = Dequeue(p) /\ drain' = Awaiting(Navigation)
      /\ drain.at = "loop" /\ ~IsEmpty(queue) /\ NextEntry(queue) = Navigation
  BY DEF StartNavigation, Dispatchable, Looping
<1>2. /\ QueueOK(p, CommandKinds) /\ Waiting(p) = Waiting(queue)
      /\ Live(p) \subseteq Live(queue) /\ p.Critical = queue.Critical
      /\ Cardinality(Reals(p.Discrete)) <= Cardinality(Reals(queue.Discrete))
  BY KindFacts, PurgingForNavigation DEF NumbersInv
<1> HIDE DEF p
<1>3. queue.Critical # <<>>
  <2>1. NextEntry(queue).ges = 0
    BY <1>1 DEF Navigation
  <2> QED
    BY <1>1, <2>1, Dequeueing DEF NumbersInv
<1>4. ~IsEmpty(p)
  BY <1>2, <1>3 DEF IsEmpty, Buckets
<1>5. NextEntry(p).ges = 0
  <2>1. NextEntry(p) = Navigation
    BY <1>2, <1>3, <1>4, Dequeueing
  <2> QED
    BY <2>1 DEF Navigation
<1>6. /\ QueueOK(queue', CommandKinds) /\ Waiting(queue') = Waiting(p)
      /\ Live(queue') \subseteq Live(p) /\ queue'.Discrete = p.Discrete
  BY <1>1, <1>2, <1>4, <1>5, Dequeueing
<1>7. Cardinality(Reals(queue'.Discrete)) <= DiscreteLimit
  <2>1. /\ queue.Discrete \in Seq(Entry(CommandKinds))
        /\ p.Discrete \in Seq(Entry(CommandKinds))
    BY <1>2 DEF NumbersInv, QueueOK, Buckets
  <2>2. /\ Cardinality(Reals(p.Discrete)) \in Nat
        /\ Cardinality(Reals(queue.Discrete)) \in Nat
    BY <2>1, RealsAreFinite
  <2> QED
    BY <1>2, <1>6, <2>2, BoundFacts DEF NumbersInv
<1> QED
  BY <1>1, <1>2, <1>6, <1>7 DEF Awaiting

(* The scrolls that waited are NOOPs now.                                  *)
LEMMA ScrollNumbers ==
    ASSUME NumbersInv, ScrollConverges
    PROVE  /\ QueueOK(queue', CommandKinds) /\ Waiting(queue') = Waiting(queue)
           /\ Live(queue') \subseteq Live(queue)
           /\ Sorted(queue.Discrete) => Sorted(queue'.Discrete)
           /\ Cardinality(Reals(queue'.Discrete)) = Cardinality(Reals(queue.Discrete))
<1>1. queue' = PurgeAggregated(queue)
  BY DEF ScrollConverges
<1> QED
  BY <1>1, KindFacts, PurgingAggregated DEF NumbersInv

LEMMA NumbersNext == TypeInv /\ NumbersInv /\ [Next]_vars => NumbersInv'
<1> SUFFICES ASSUME TypeInv, NumbersInv, [Next]_vars
             PROVE  NumbersInv'
    OBVIOUS
<1>a. issued \in Nat
  BY BoundFacts DEF TypeInv
<1>b. /\ UNCHANGED mirror => UNCHANGED <<issued, open>>
      /\ UNCHANGED drain => /\ InFlight' = InFlight /\ InFlightAt' = InFlightAt
                            /\ drain'.cmd = drain.cmd
      /\ drain' = Woken => /\ InFlight' = InFlight /\ InFlightAt' = InFlightAt
                           /\ drain'.cmd = drain.cmd
  BY WokenInFlight DEF mirror
<1>c. /\ QueueOK(queue, CommandKinds) /\ \A n \in Waiting(queue) : n <= issued
      /\ Cardinality(Reals(queue.Discrete)) <= DiscreteLimit
      /\ open = Waiting(queue) \cup InFlight
      /\ InFlightAt => /\ drain.cmd.ges <= issued
                       /\ drain.cmd.ges \notin Waiting(queue)
                       /\ drain.cmd.ges = 0 => drain.cmd = Navigation
  BY DEF NumbersInv
(* The queue and the command in flight stay as they are.                   *)
<1>d. ASSUME queue' = queue, open' = open, issued' \in {issued, issued + 1},
             drain' = drain \/ drain' = Woken
      PROVE  NumbersInv'
  <2>1. InFlight' = InFlight /\ InFlightAt' = InFlightAt /\ drain'.cmd = drain.cmd
    BY <1>d, <1>b
  <2>2. issued' \in Nat /\ issued <= issued'
    BY <1>a, <1>d
  <2> QED
    BY <1>a, <1>d, <2>1, <2>2, SameNumbers
(* The queue is rearranged, or emptied, and no command is.                 *)
<1>e. ASSUME QueueOK(queue', CommandKinds), Waiting(queue') \subseteq Waiting(queue),
             Cardinality(Reals(queue'.Discrete)) <= DiscreteLimit,
             open' = Waiting(queue') \cup InFlight, issued' = issued,
             drain' = drain \/ drain' = Woken
      PROVE  NumbersInv'
  <2>1. InFlight' = InFlight /\ InFlightAt' = InFlightAt /\ drain'.cmd = drain.cmd
    BY <1>e, <1>b
  <2> QED
    BY <1>c, <1>e, <2>1 DEF NumbersInv
<1>f. ASSUME Clear, issued' = issued, drain' = drain
      PROVE  NumbersInv'
  <2>1. queue' = EmptyQueue /\ open' = InFlight
    BY <1>f, OpenFacts DEF Clear
  <2>2. Cardinality(Reals(queue'.Discrete)) <= DiscreteLimit
    BY <2>1, EmptyFacts, BoundFacts
  <2> QED
    BY <1>e, <1>f, <2>1, <2>2, EmptyFacts
<1>1. CASE Miss
  BY <1>1, <1>d DEF Miss
<1>2. ASSUME NEW kind \in Kinds, Overflow(kind) PROVE NumbersInv'
  BY <1>2, <1>d DEF Overflow
<1>3. ASSUME NEW kind \in Kinds, Enqueue(kind) PROVE NumbersInv'
  <2>1. /\ QueueOK(queue', CommandKinds) /\ issued' = issued + 1
        /\ Waiting(queue') = Waiting(queue) \cup {issued'}
        /\ Cardinality(Reals(queue'.Discrete)) <= DiscreteLimit
    BY <1>3, EnqueueNumbers
  <2>2. open' = open \cup {issued'} /\ drain' = Woken
    BY <1>3 DEF Enqueue
  <2>3. InFlight' = InFlight /\ InFlightAt' = InFlightAt /\ drain'.cmd = drain.cmd
    BY <2>2, <1>b
  <2>4. \A n \in Waiting(queue') : n <= issued'
    BY <1>a, <1>c, <2>1, LiveWaits
  <2>5. InFlightAt => drain.cmd.ges <= issued' /\ drain.cmd.ges \notin Waiting(queue')
    BY <1>a, <1>c, <2>1 DEF TypeInv, Commands
  <2>6. open' = Waiting(queue') \cup InFlight'
    BY <1>c, <2>1, <2>2, <2>3
  <2> QED
    BY <1>c, <2>1, <2>3, <2>4, <2>5, <2>6 DEF NumbersInv
<1>4. CASE ScrollConverges
  BY <1>4, <1>b, <1>c, <1>e, ScrollNumbers DEF ScrollConverges
<1>5. CASE Age
  BY <1>5, <1>d DEF Age
<1>6. CASE DrainEnds
  <2>1. /\ queue' = queue /\ open' = open /\ issued' = issued
        /\ drain.at = "loop" /\ drain'.at = "idle"
    BY <1>6, <1>b DEF DrainEnds, Idle
  <2>2. InFlight' = InFlight /\ ~InFlightAt'
    BY <2>1 DEF InFlight, InFlightAt
  <2> QED
    BY <1>a, <2>1, <2>2, SameNumbers
<1>7. CASE EntryEnds
  <2> DEFINE e == NextEntry(queue)
  <2>1. /\ drain.at = "loop" /\ ~IsEmpty(queue) /\ drain' = drain
        /\ queue' = Dequeue(queue) /\ open' = open \ {e.ges} /\ issued' = issued
    BY <1>7, EntryEndFacts
  <2>2. /\ QueueOK(queue', CommandKinds)
        /\ Waiting(queue') = Waiting(queue) \ {e.ges}
        /\ Cardinality(Reals(queue'.Discrete)) <= DiscreteLimit
    BY <2>1, DequeueNumbers
  <2>3. InFlight = {}
    BY <2>1 DEF InFlight
  <2> HIDE DEF e
  <2> QED
    BY <1>c, <1>e, <2>1, <2>2, <2>3
<1>8. CASE StartNavigation
  <2>1. /\ QueueOK(queue', CommandKinds) /\ Waiting(queue') = Waiting(queue)
        /\ Cardinality(Reals(queue'.Discrete)) <= DiscreteLimit
        /\ drain.at = "loop" /\ drain'.at = "barrier" /\ drain'.cmd = Navigation
    BY <1>8, StartNavigationNumbers
  <2>2. issued' = issued /\ open' = open
    BY <1>8, <1>b DEF StartNavigation
  <2>3. InFlight = {} /\ InFlight' = {} /\ drain'.cmd.ges = 0
    BY <2>1 DEF InFlight, Navigation
  <2>4. 0 \notin Waiting(queue')
    BY <2>1 DEF QueueOK
  <2> QED
    BY <1>a, <1>c, <2>1, <2>2, <2>3, <2>4 DEF NumbersInv
<1>9. CASE AwaitPredecessor
  <2>1. /\ queue' = queue /\ open' = open /\ issued' = issued
        /\ drain.at = "loop" /\ drain'.at = "idle"
    BY <1>9, <1>b DEF AwaitPredecessor, Idle, Numbered, Dispatchable, Looping
  <2>2. InFlight' = InFlight /\ ~InFlightAt'
    BY <2>1 DEF InFlight, InFlightAt
  <2> QED
    BY <1>a, <2>1, <2>2, SameNumbers
<1>10. CASE Start
  <2> DEFINE e == NextEntry(queue)
  <2>1. /\ drain.at = "loop" /\ ~IsEmpty(queue) /\ e.ges # 0
        /\ queue' = Dequeue(queue) /\ drain' = Awaiting(e)
        /\ issued' = issued /\ open' = open
    BY <1>10, <1>b DEF Start, Aligned, Numbered, Dispatchable, Looping
  <2>2. /\ QueueOK(queue', CommandKinds)
        /\ Waiting(queue') = Waiting(queue) \ {e.ges}
        /\ Cardinality(Reals(queue'.Discrete)) <= DiscreteLimit
        /\ e.ges \in Waiting(queue) /\ e.ges <= issued
    BY <2>1, DequeueNumbers
  <2> HIDE DEF e
  <2>3. drain'.at = "barrier" /\ drain'.cmd = e
    BY <2>1 DEF Awaiting
  <2>4. InFlight = {} /\ InFlight' = {e.ges}
    BY <2>1, <2>3 DEF InFlight
  <2> QED
    BY <1>c, <2>1, <2>2, <2>3, <2>4 DEF NumbersInv
<1>11. CASE PassBarrier
  <2>1. /\ queue' = queue /\ open' = open /\ issued' = issued
        /\ drain.at = "barrier" /\ drain'.at = "execute" /\ drain'.cmd = drain.cmd
    BY <1>11 DEF PassBarrier, TypeInv
  <2>2. InFlight' = InFlight /\ InFlightAt
    BY <2>1 DEF InFlight, InFlightAt
  <2> QED
    BY <1>a, <2>1, <2>2, SameNumbers
<1>12. CASE CommandEnds
  <2>1. /\ InFlightAt /\ drain' = Back /\ issued' = issued
        /\ \/ queue' = queue /\ open' = open \ {drain.cmd.ges}
           \/ /\ queue' = EmptyQueue
              /\ open' = open \ ({drain.cmd.ges} \cup Numbers(queue))
    BY <1>12, CommandEndFacts
  <2>2. InFlight' = {} /\ ~InFlightAt'
    <3>1. drain'.at = "loop"
      BY <2>1, BackType
    <3> QED
      BY <3>1 DEF InFlight, InFlightAt
  <2>3. CASE queue' = queue /\ open' = open \ {drain.cmd.ges}
    <3>1. open' = Waiting(queue)
      BY <2>1, <2>3, OpenFacts
    <3> QED
      BY <1>c, <2>1, <2>2, <2>3, <3>1 DEF NumbersInv
  <2>4. CASE queue' = EmptyQueue /\ open' = open \ ({drain.cmd.ges} \cup Numbers(queue))
    <3>1. open' = {}
      BY <2>1, <2>4, OpenFacts
    <3>2. Cardinality(Reals(queue'.Discrete)) <= DiscreteLimit
      BY <2>4, EmptyFacts, BoundFacts
    <3> QED
      BY <2>1, <2>2, <2>4, <3>1, <3>2, EmptyFacts DEF NumbersInv
  <2> QED
    BY <2>1, <2>3, <2>4
<1>13. ASSUME NEW scroll \in BOOLEAN, RetryBarrier(scroll) PROVE NumbersInv'
  <2>1. /\ queue' = queue /\ open' = open /\ issued' = issued
        /\ drain.at = "barrier" /\ drain'.at = "barrier" /\ drain'.cmd = drain.cmd
    BY <1>13, <1>b DEF RetryBarrier, TypeInv
  <2>2. InFlight' = InFlight /\ InFlightAt
    BY <2>1 DEF InFlight, InFlightAt
  <2> QED
    BY <1>a, <2>1, <2>2, SameNumbers
<1>14. CASE WatchdogFires
  BY <1>14, <1>b, <1>d DEF WatchdogFires
<1>15. CASE Crash
  BY <1>15, <1>b, <1>d DEF Crash
<1>16. CASE DetectCrash
  BY <1>16, <1>f DEF DetectCrash
<1>17. ASSUME NEW h \in 1..MaxHeals, HealStep(h) PROVE NumbersInv'
  <2>1. issued' = issued
    BY <1>17 DEF HealStep, Unregister, Respawn, LogIn, FinishHeal, FailAttempt, GiveUp, Heal
  <2>2. CASE Unregister(h) \/ Respawn(h) \/ LogIn(h) \/ FailAttempt(h)
    BY <1>d, <2>1, <2>2 DEF Unregister, Respawn, LogIn, FailAttempt
  <2>3. CASE FinishHeal(h)
    <3>1. queue' = Insert(queue, Navigation) /\ drain' = Woken /\ open' = open
      BY <2>3 DEF FinishHeal
    <3> QED
      BY <1>c, <1>e, <2>1, <3>1, NavigationNumbers
  <2>4. CASE GiveUp(h)
    BY <1>f, <2>1, <2>4 DEF GiveUp
  <2> QED
    BY <1>17, <2>2, <2>3, <2>4 DEF HealStep
<1>18. CASE Converge
  BY <1>18, <1>b, <1>d DEF Converge
<1>19. ASSUME Correct, UNCHANGED mirror
       PROVE  NumbersInv'
  <2>1. /\ queue' = Insert(queue, Navigation) \/ queue' = queue
        /\ drain' = Woken \/ drain' = drain
        /\ issued' = issued /\ open' = open
    BY <1>19, <1>b DEF Correct
  <2> QED
    BY <1>c, <1>e, <2>1, NavigationNumbers
<1>20. CASE ObserveDivergence
  BY <1>20, <1>19 DEF ObserveDivergence
<1>21. CASE ConvergenceTimeout
  BY <1>21, <1>19 DEF ConvergenceTimeout
<1>22. CASE UNCHANGED vars
  BY <1>22, <1>b, <1>d DEF vars
<1> QED
  BY <1>1, <1>2, <1>3, <1>4, <1>5, <1>6, <1>7, <1>8, <1>9, <1>10, <1>11, <1>12, <1>13,
     <1>14, <1>15, <1>16, <1>17, <1>18, <1>20, <1>21, <1>22
     DEF Next, MasterStep, DrainStep, CommandStep, ConvergenceStep, EntryEnds, CommandEnds

-----------------------------------------------------------------------------
(* The order in which the page is given events.                            *)
LEMMA OrderInit == Init => OrderInv
<1> SUFFICES ASSUME Init PROVE OrderInv
  OBVIOUS
<1>1. Live(queue) = {}
  BY EmptyFacts DEF Init
<1>2. drain.at = "idle"
  BY DEF Init, Idle
<1>3. RideInv
  BY <1>1, <1>2 DEF Init, RideInv, Riders
<1> QED
  BY <1>1, <1>2, <1>3 DEF Init, OrderInv

(* Nothing is given or added to a command, and what may be given to the    *)
(* page was not added to another command.                                  *)
LEMMA RideStays ==
    ASSUME RideInv, issued \in Nat, issued' \in {issued, issued + 1},
           UNCHANGED <<applied, given, carried>>, Live(queue') \subseteq Live(queue),
           drain'.at = "barrier" /\ drain'.cmd.ges # 0 => drain'.cmd.ges \notin Riders
    PROVE  RideInv'
<1>1. Riders' = Riders
  BY DEF Riders
<1>2. 1..issued \subseteq 1..issued'
  OBVIOUS
<1>3. given' \subseteq 1..issued' /\ carried' \subseteq (1..issued') \X (1..issued')
  BY <1>2 DEF RideInv
<1>4. Live(queue') \intersect Riders = {}
  BY DEF RideInv
<1> QED
  BY <1>1, <1>3, <1>4 DEF RideInv

(* The scroll that takes a movement along is one event, numbered before.   *)
LEMMA CarriersFacts ==
    ASSUME TypeInv, NumbersInv, NEW kind \in Kinds
    PROVE  LET e == [ges |-> issued + 1, kind |-> kind]
               C == Carriers(queue, e)
           IN  /\ C \subseteq 1..issued
               /\ \A g, h \in C : g = h
               /\ C # {} => Live(Insert(queue, e)) \subseteq Live(queue)
<1> DEFINE e == [ges |-> issued + 1, kind |-> kind]
           C == Carriers(queue, e)
<1>0. issued \in Nat
  BY BoundFacts DEF TypeInv
<1>1. e \in Entry(CommandKinds) /\ e.ges = issued + 1
  BY <1>0, KindFacts DEF Entry
<1>3. \A n \in Waiting(queue) : n \in Nat \ {0} /\ n <= issued
  BY LiveWaits DEF NumbersInv
<1>4. Live(queue) \subseteq 1..issued
  BY <1>0, <1>3, LiveWaits DEF NumbersInv
<1>5. QueueOK(queue, CommandKinds) /\ \A n \in Waiting(queue) : n < e.ges
  BY <1>0, <1>1, <1>3 DEF NumbersInv
<1> HIDE DEF e
<1>6. /\ C \subseteq Live(queue) /\ \A g, h \in C : g = h
      /\ C # {} => Live(Insert(queue, e)) \subseteq Live(queue)
  BY <1>1, <1>5, KindFacts, Carrying
<1> QED
  BY <1>4, <1>6 DEF e

(* A movement is added to the command of the scroll that waits.            *)
LEMMA RideEnqueued ==
    ASSUME TypeInv, NumbersInv, OrderInv, NEW kind \in Kinds, Enqueue(kind)
    PROVE  RideInv'
<1> DEFINE e == [ges |-> issued + 1, kind |-> kind]
           C == Carriers(queue, e)
<1>1. /\ carried' = carried \union (C \X {issued + 1}) /\ issued' = issued + 1
      /\ applied' = applied /\ given' = given /\ drain' = Woken
  BY DEF Enqueue
<1>2. issued \in Nat /\ applied \in Nat /\ issued' \in Nat
  BY <1>1, BoundFacts DEF TypeInv
<1>3. /\ C \subseteq 1..issued
      /\ \A g, h \in C : g = h
      /\ C # {} => Live(queue') \subseteq Live(queue)
  <2>1. queue' = Insert(queue, e)
    BY DEF Enqueue
  <2>2. /\ C \subseteq 1..issued /\ \A g, h \in C : g = h
        /\ C # {} => Live(Insert(queue, e)) \subseteq Live(queue)
    BY CarriersFacts
  <2> QED
    BY <2>1, <2>2
<1> HIDE DEF C
<1>4. Riders' = Riders \union (IF C = {} THEN {} ELSE {issued + 1})
  <2>1. Riders' = Riders \union {p[2] : p \in C \X {issued + 1}}
    BY <1>1 DEF Riders
  <2>2. \A p \in C \X {issued + 1} : p[2] = issued + 1
    OBVIOUS
  <2>3. \A g \in C : <<g, issued + 1>> \in C \X {issued + 1}
    OBVIOUS
  <2>4. {p[2] : p \in C \X {issued + 1}} = IF C = {} THEN {} ELSE {issued + 1}
    BY <2>2, <2>3
  <2> QED
    BY <2>1, <2>4
<1>5. RideInv
  BY DEF OrderInv
<1>6. issued + 1 \notin Riders /\ issued + 1 \notin given
  BY <1>2, <1>5 DEF RideInv, Riders
<1>7. 1..issued \subseteq 1..issued' /\ issued + 1 \in 1..issued'
  BY <1>1, <1>2
<1>8. given' \subseteq 1..issued' /\ carried' \subseteq (1..issued') \X (1..issued')
  BY <1>1, <1>3, <1>5, <1>7 DEF RideInv
<1>9. ASSUME NEW p \in carried', NEW q \in carried', p[2] = q[2]
      PROVE  p = q
  <2>1. ASSUME NEW x \in carried, NEW y \in C \X {issued + 1}
        PROVE  x[2] # y[2]
    <3>1. x[2] \in Riders
      BY DEF Riders
    <3>2. y[2] = issued + 1
      OBVIOUS
    <3> QED
      BY <1>6, <3>1, <3>2
  <2>2. ASSUME NEW x \in C \X {issued + 1}, NEW y \in C \X {issued + 1}
        PROVE  x = y
    <3>1. PICK g \in C : x = <<g, issued + 1>>
      OBVIOUS
    <3>2. PICK h \in C : y = <<h, issued + 1>>
      OBVIOUS
    <3> QED
      BY <1>3, <3>1, <3>2
  <2> QED
    BY <1>1, <1>5, <1>9, <2>1, <2>2 DEF RideInv
<1>10. Live(queue') \intersect Riders' = {}
  <2>1. Live(queue') \subseteq Live(queue) \cup {issued + 1}
    BY <1>1, EnqueueNumbers
  <2>2. Live(queue) \subseteq 1..issued
    BY <1>2, LiveWaits DEF NumbersInv
  <2> QED
    BY <1>2, <1>3, <1>4, <1>5, <1>6, <2>1, <2>2 DEF RideInv
<1>11. drain'.at = "barrier" /\ drain'.cmd.ges # 0 => drain'.cmd.ges \notin Riders'
  <2> SUFFICES ASSUME drain'.at = "barrier", drain'.cmd.ges # 0
               PROVE  drain'.cmd.ges \notin Riders'
    OBVIOUS
  <2>1. drain.at = "barrier" /\ drain'.cmd = drain.cmd
    BY <1>1, WokenInFlight
  <2>2. drain.cmd.ges <= issued /\ drain.cmd.ges \in Nat
    BY <2>1 DEF NumbersInv, InFlightAt, TypeInv, Commands
  <2> QED
    BY <1>2, <1>4, <1>5, <2>1, <2>2 DEF RideInv
<1>12. \A n \in given' : n \in Riders' \/ n <= applied'
  BY <1>1, <1>4, <1>5 DEF RideInv
<1>13. \A p \in carried' : p[2] \in given' => p[1] <= applied'
  BY <1>1, <1>5, <1>6 DEF RideInv
<1> QED
  BY <1>8, <1>9, <1>10, <1>11, <1>12, <1>13 DEF RideInv

(* The page is given a command and what it has taken along.                *)
LEMMA RideGiven ==
    ASSUME TypeInv, NumbersInv, OrderInv, PassBarrier, drain.cmd # Navigation
    PROVE  RideInv'
<1> DEFINE c == drain.cmd.ges
<1>1. /\ drain.at = "barrier" /\ drain'.at = "execute" /\ applied' = c
      /\ given' = given \union {c} \union {n \in 1..issued : <<c, n>> \in carried}
      /\ issued' = issued /\ carried' = carried /\ queue' = queue
  BY DEF PassBarrier, Having, TypeInv
<1>2. /\ c \in Nat /\ c # 0 /\ c <= issued /\ issued \in Nat
      /\ applied \in Nat /\ applied < c /\ c \notin Riders /\ RideInv
  <2>1. c \in Nat /\ issued \in Nat /\ applied \in Nat
    BY BoundFacts DEF TypeInv, Commands
  <2>2. c # 0 /\ c <= issued
    BY <1>1 DEF NumbersInv, InFlightAt
  <2> QED
    BY <1>1, <2>1, <2>2 DEF OrderInv, RideInv
<1> HIDE DEF c
<1>3. Riders' = Riders
  BY <1>1 DEF Riders
<1>4. given' \subseteq 1..issued
  BY <1>1, <1>2 DEF RideInv
<1>5. ASSUME NEW n \in given'
      PROVE  n \in Riders \/ n <= applied'
  <2>1. CASE n \in given
    <3>1. n \in Riders \/ n <= applied
      BY <1>2, <2>1 DEF RideInv
    <3> QED
      BY <1>1, <1>2, <1>4, <3>1
  <2>2. CASE n = c
    BY <1>1, <1>2, <2>2
  <2>3. CASE <<c, n>> \in carried
    BY <2>3 DEF Riders
  <2> QED
    BY <1>1, <2>1, <2>2, <2>3
<1>6. ASSUME NEW p \in carried, p[2] \in given'
      PROVE  p[1] <= applied'
  <2>1. p \in (1..issued) \X (1..issued) /\ p[1] \in Nat
    BY <1>2 DEF RideInv
  <2>2. CASE p[2] \in given
    <3>1. p[1] <= applied
      BY <1>2, <2>2 DEF RideInv
    <3> QED
      BY <1>1, <1>2, <2>1, <3>1
  <2>3. CASE p[2] = c
    BY <1>2, <2>3 DEF Riders
  <2>4. CASE <<c, p[2]>> \in carried
    <3>1. <<c, p[2]>>[2] = p[2]
      OBVIOUS
    <3>2. p = <<c, p[2]>>
      BY <1>2, <2>4, <3>1 DEF RideInv
    <3> QED
      BY <1>1, <1>2, <3>2
  <2> QED
    BY <1>1, <1>6, <2>2, <2>3, <2>4
<1> QED
  BY <1>1, <1>2, <1>3, <1>4, <1>5, <1>6 DEF RideInv

LEMMA OrderNext == TypeInv /\ NumbersInv /\ OrderInv /\ [Next]_vars => OrderInv'
<1> SUFFICES ASSUME TypeInv, NumbersInv, OrderInv, [Next]_vars
             PROVE  OrderInv'
    OBVIOUS
<1>a. /\ issued \in Nat /\ applied \in Nat
      /\ drain.cmd.ges \in Nat
      /\ \A n \in Waiting(queue) : n \in Nat /\ n <= issued
      /\ Live(queue) \subseteq Waiting(queue) /\ QueueOK(queue, CommandKinds)
  BY BoundFacts, LiveWaits DEF TypeInv, NumbersInv, Commands
<1>b. /\ UNCHANGED mirror => UNCHANGED <<issued, applied, given, carried>>
      /\ drain' = Woken => \/ drain'.at # "barrier"
                           \/ drain'.at = drain.at /\ drain'.cmd = drain.cmd
  BY WokenInFlight DEF mirror
<1>c. /\ RideInv /\ applied <= issued
      /\ \A n \in Live(queue) : applied < n
      /\ drain.at = "barrier" /\ drain.cmd.ges # 0 =>
             /\ applied < drain.cmd.ges
             /\ \A n \in Live(queue) : drain.cmd.ges < n
  BY DEF OrderInv
(* No event is given, and none that was not there comes to the queue.      *)
<1>d. ASSUME Live(queue') \subseteq Live(queue),
             UNCHANGED <<applied, given, carried>>, issued' \in {issued, issued + 1},
             drain'.at # "barrier" \/ drain' = drain \/ drain' = Woken
      PROVE  OrderInv'
  <2>1. \/ drain'.at # "barrier"
        \/ drain'.at = drain.at /\ drain'.cmd = drain.cmd
    BY <1>b, <1>d
  <2>2. applied' <= issued'
    BY <1>a, <1>c, <1>d
  <2>3. drain'.at = "barrier" /\ drain'.cmd.ges # 0 => drain'.cmd.ges \notin Riders
    BY <1>c, <2>1 DEF RideInv
  <2>4. RideInv'
    BY <1>a, <1>c, <1>d, <2>3, RideStays
  <2> QED
    BY <1>c, <1>d, <2>1, <2>2, <2>4 DEF OrderInv
<1>1. CASE Miss
  BY <1>1, <1>d DEF Miss
<1>2. ASSUME NEW kind \in Kinds, Overflow(kind) PROVE OrderInv'
  BY <1>2, <1>d DEF Overflow
<1>3. ASSUME NEW kind \in Kinds, Enqueue(kind) PROVE OrderInv'
  <2>1. /\ issued' = issued + 1
        /\ Live(queue') \subseteq Live(queue) \cup {issued'}
    BY <1>3, EnqueueNumbers
  <2>2. applied' = applied /\ drain' = Woken
    BY <1>3 DEF Enqueue
  <2>3. \A n \in Live(queue') : applied' < n
    BY <1>a, <1>c, <2>1, <2>2
  <2>4. ASSUME drain'.at = "barrier", drain'.cmd.ges # 0
        PROVE  /\ applied' < drain'.cmd.ges
               /\ \A n \in Live(queue') : drain'.cmd.ges < n
    <3>1. drain.at = "barrier" /\ drain'.cmd = drain.cmd
      BY <1>b, <2>2, <2>4
    <3>2. drain.cmd.ges <= issued
      BY <3>1 DEF NumbersInv, InFlightAt
    <3> QED
      BY <1>a, <1>c, <2>1, <2>2, <2>4, <3>1, <3>2
  <2>5. RideInv'
    BY <1>3, RideEnqueued
  <2> QED
    BY <1>a, <1>c, <2>1, <2>2, <2>3, <2>4, <2>5 DEF OrderInv
<1>4. CASE ScrollConverges
  BY <1>4, <1>b, <1>d, ScrollNumbers DEF ScrollConverges
<1>5. CASE Age
  BY <1>5, <1>d DEF Age
<1>6. CASE DrainEnds
  BY <1>6, <1>b, <1>d DEF DrainEnds, Idle
<1>7. CASE EntryEnds
  <2>1. /\ drain' = drain /\ queue' = Dequeue(queue) /\ ~IsEmpty(queue)
        /\ UNCHANGED <<issued, applied, given, carried>>
    BY <1>7, EntryEndFacts
  <2>2. Live(queue') \subseteq Live(queue)
    BY <1>a, <2>1, Dequeueing
  <2> QED
    BY <1>d, <2>1, <2>2
<1>8. CASE StartNavigation
  <2>1. /\ Live(queue') \subseteq Live(queue)
        /\ drain'.at = "barrier" /\ drain'.cmd.ges = 0
    BY <1>8, StartNavigationNumbers DEF Navigation
  <2>2. UNCHANGED <<issued, applied, given, carried>>
    BY <1>8, <1>b DEF StartNavigation
  <2>3. RideInv'
    BY <1>a, <1>c, <2>1, <2>2, RideStays
  <2> QED
    BY <1>c, <2>1, <2>2, <2>3 DEF OrderInv
<1>9. CASE AwaitPredecessor
  BY <1>9, <1>b, <1>d DEF AwaitPredecessor, Idle
<1>10. CASE Start
  <2> DEFINE e == NextEntry(queue)
  <2>1. /\ ~IsEmpty(queue) /\ e.ges # 0 /\ e.kind # "noop"
        /\ queue' = Dequeue(queue) /\ drain' = Awaiting(e)
        /\ UNCHANGED <<issued, applied, given, carried>>
    BY <1>10, <1>b DEF Start, Aligned, Numbered, Dispatchable, Looping
  <2>2. /\ Live(queue') \subseteq Live(queue) /\ e.ges \in Live(queue)
        /\ \A n \in Live(queue') : e.ges < n
    BY <1>a, <2>1, Dequeueing
  <2> HIDE DEF e
  <2>3. drain'.at = "barrier" /\ drain'.cmd = e
    BY <2>1 DEF Awaiting
  <2>4. e.ges \notin Riders
    BY <1>c, <2>2 DEF RideInv
  <2>5. RideInv'
    BY <1>a, <1>c, <2>1, <2>2, <2>3, <2>4, RideStays
  <2> QED
    BY <1>c, <2>1, <2>2, <2>3, <2>5 DEF OrderInv
<1>11. CASE PassBarrier
  <2>1. /\ queue' = queue /\ issued' = issued
        /\ drain.at = "barrier" /\ drain'.at = "execute"
    BY <1>11 DEF PassBarrier, TypeInv
  <2>2. CASE drain.cmd = Navigation
    BY <1>11, <1>d, <2>1, <2>2 DEF PassBarrier
  <2>3. CASE drain.cmd # Navigation
    <3>1. applied' = drain.cmd.ges
      BY <1>11, <2>3 DEF PassBarrier
    <3>2. drain.cmd.ges # 0 /\ drain.cmd.ges <= issued
      BY <2>1, <2>3 DEF NumbersInv, InFlightAt
    <3>3. RideInv'
      BY <1>11, <2>3, RideGiven
    <3> QED
      BY <1>a, <1>c, <2>1, <3>1, <3>2, <3>3 DEF OrderInv
  <2> QED
    BY <2>2, <2>3
<1>12. CASE CommandEnds
  <2>1. /\ drain' = Back /\ UNCHANGED <<issued, applied, given, carried>>
        /\ queue' = queue \/ queue' = EmptyQueue
    BY <1>12, CommandEndFacts
  <2>2. drain'.at = "loop"
    BY <2>1, BackType
  <2>3. Live(queue') \subseteq Live(queue)
    BY <2>1, EmptyFacts
  <2> QED
    BY <1>d, <2>1, <2>2, <2>3
<1>13. ASSUME NEW scroll \in BOOLEAN, RetryBarrier(scroll) PROVE OrderInv'
  <2>1. /\ queue' = queue /\ UNCHANGED <<issued, applied, given, carried>>
        /\ drain'.at = drain.at /\ drain'.cmd = drain.cmd
    BY <1>13, <1>b DEF RetryBarrier, TypeInv
  <2>2. drain'.at = "barrier" /\ drain'.cmd.ges # 0 => drain'.cmd.ges \notin Riders
    BY <1>c, <2>1 DEF RideInv
  <2>3. RideInv'
    BY <1>a, <1>c, <2>1, <2>2, RideStays
  <2> QED
    BY <1>c, <2>1, <2>3 DEF OrderInv
<1>14. CASE WatchdogFires
  BY <1>14, <1>b, <1>d DEF WatchdogFires
<1>15. CASE Crash
  BY <1>15, <1>b, <1>d DEF Crash
<1>e. Clear => Live(queue') \subseteq Live(queue)
  BY EmptyFacts DEF Clear
<1>16. CASE DetectCrash
  BY <1>16, <1>d, <1>e DEF DetectCrash
<1>17. ASSUME NEW h \in 1..MaxHeals, HealStep(h) PROVE OrderInv'
  <2>1. UNCHANGED <<issued, applied, given, carried>>
    BY <1>17 DEF HealStep, Unregister, Respawn, LogIn, FinishHeal, FailAttempt, GiveUp, Heal
  <2>2. CASE Unregister(h) \/ Respawn(h) \/ LogIn(h) \/ FailAttempt(h)
    BY <1>d, <2>1, <2>2 DEF Unregister, Respawn, LogIn, FailAttempt
  <2>3. CASE FinishHeal(h)
    <3>1. queue' = Insert(queue, Navigation) /\ drain' = Woken
      BY <2>3 DEF FinishHeal
    <3>2. Live(queue') = Live(queue)
      BY <3>1, NavigationNumbers
    <3> QED
      BY <1>d, <2>1, <3>1, <3>2
  <2>4. CASE GiveUp(h)
    BY <1>d, <1>e, <2>1, <2>4 DEF GiveUp
  <2> QED
    BY <1>17, <2>2, <2>3, <2>4 DEF HealStep
<1>18. CASE Converge
  BY <1>18, <1>b, <1>d DEF Converge
<1>19. ASSUME Correct, UNCHANGED mirror
       PROVE  OrderInv'
  <2>1. /\ queue' = Insert(queue, Navigation) \/ queue' = queue
        /\ drain' = Woken \/ drain' = drain
    BY <1>19 DEF Correct
  <2>2. Live(queue') = Live(queue)
    BY <2>1, NavigationNumbers
  <2> QED
    BY <1>19, <1>b, <1>d, <2>1, <2>2
<1>20. CASE ObserveDivergence
  BY <1>20, <1>19 DEF ObserveDivergence
<1>21. CASE ConvergenceTimeout
  BY <1>21, <1>19 DEF ConvergenceTimeout
<1>22. CASE UNCHANGED vars
  BY <1>22, <1>b, <1>d DEF vars
<1> QED
  BY <1>1, <1>2, <1>3, <1>4, <1>5, <1>6, <1>7, <1>8, <1>9, <1>10, <1>11, <1>12, <1>13,
     <1>14, <1>15, <1>16, <1>17, <1>18, <1>20, <1>21, <1>22
     DEF Next, MasterStep, DrainStep, CommandStep, ConvergenceStep, EntryEnds, CommandEnds

-----------------------------------------------------------------------------
(* The slave's counter.                                                    *)
LEMMA CounterInit == Init => CounterInv
<1> SUFFICES ASSUME Init PROVE CounterInv
  OBVIOUS
<1>1. Sorted(queue.Discrete)
  BY EmptyFacts DEF Init
<1>2. slave.ges = 0 /\ ~armed /\ issued = 0 /\ open = {} /\ ~InFlightAt
  BY DEF Init, Absent, Idle, InFlightAt
<1> QED
  BY <1>1, <1>2 DEF CounterInv, Owed

LEMMA CounterNext == TypeInv /\ NumbersInv /\ CounterInv /\ [Next]_vars => CounterInv'
<1> SUFFICES ASSUME TypeInv, NumbersInv, CounterInv, [Next]_vars, ~shuffled'
             PROVE  CounterInv'
  BY DEF CounterInv
<1>a. /\ issued \in Nat /\ slave.ges \in Nat /\ drain.cmd.ges \in Nat
      /\ Owed \in Nat /\ Owed = slave.ges + IF armed THEN 1 ELSE 0
      /\ \A n \in Waiting(queue) : n \in Nat /\ n # 0 /\ n <= issued
      /\ QueueOK(queue, CommandKinds) /\ open = Waiting(queue) \cup InFlight
      /\ InFlight \subseteq Nat /\ (InFlightAt => drain.cmd.ges <= issued)
      /\ \A n \in open : n \in Nat
  <2>1. drain.cmd.ges \in Nat /\ slave.ges \in Nat /\ issued \in Nat
    BY BoundFacts DEF TypeInv, Commands, Models
  <2>2. InFlight \subseteq Nat
    BY <2>1 DEF InFlight
  <2>3. /\ \A n \in Waiting(queue) : n \in Nat /\ n # 0 /\ n <= issued
        /\ QueueOK(queue, CommandKinds) /\ open = Waiting(queue) \cup InFlight
        /\ (InFlightAt => drain.cmd.ges <= issued)
    BY LiveWaits DEF NumbersInv
  <2>4. \A n \in open : n \in Nat
    BY <2>2, <2>3
  <2>5. Owed \in Nat /\ Owed = slave.ges + IF armed THEN 1 ELSE 0
    BY <2>1 DEF Owed
  <2> QED
    BY <2>1, <2>2, <2>3, <2>4, <2>5
<1>b. /\ UNCHANGED mirror => UNCHANGED <<issued, open>>
      /\ drain' = drain \/ drain' = Woken =>
             /\ InFlight' = InFlight /\ InFlightAt' = InFlightAt
             /\ drain'.cmd = drain.cmd
  BY WokenInFlight DEF mirror
<1>c. ASSUME ~shuffled
      PROVE  /\ Sorted(queue.Discrete) /\ Owed <= issued
             /\ \A n \in open : Owed < n
             /\ InFlightAt /\ drain.cmd.ges # 0 =>
                    ~armed /\ \A n \in Waiting(queue) : drain.cmd.ges < n
  BY <1>c DEF CounterInv
(* Nothing new waits, and the counter is not moved.                        *)
<1>d. ASSUME ~shuffled, Sorted(queue.Discrete) => Sorted(queue'.Discrete),
             Waiting(queue') \subseteq Waiting(queue), open' \subseteq open,
             slave'.ges \in Nat, slave'.ges <= slave.ges, armed' => armed,
             issued' \in {issued, issued + 1},
             InFlightAt' => InFlightAt /\ drain'.cmd = drain.cmd
      PROVE  CounterInv'
  <2>1. Owed' <= Owed /\ Owed' \in Nat
    BY <1>a, <1>d DEF Owed
  <2>2. Owed' <= issued'
    BY <1>a, <1>c, <1>d, <2>1
  <2>4. \A n \in open' : Owed' < n
    <3>1. \A n \in open : Owed < n
      BY <1>c, <1>d
    <3> QED
      BY <1>a, <1>d, <2>1, <3>1
  <2>3. InFlightAt' /\ drain'.cmd.ges # 0 =>
            ~armed' /\ \A n \in Waiting(queue') : drain'.cmd.ges < n
    BY <1>c, <1>d
  <2> QED
    BY <1>c, <1>d, <2>2, <2>3, <2>4 DEF CounterInv
<1>1. CASE Miss
  BY <1>1, <1>a, <1>b, <1>d DEF Miss
<1>2. ASSUME NEW kind \in Kinds, Overflow(kind) PROVE CounterInv'
  BY <1>2, <1>a, <1>b, <1>d DEF Overflow
<1>3. ASSUME NEW kind \in Kinds, Enqueue(kind) PROVE CounterInv'
  <2>1. /\ issued' = issued + 1 /\ Waiting(queue') = Waiting(queue) \cup {issued'}
        /\ Sorted(queue.Discrete) => Sorted(queue'.Discrete)
    BY <1>3, EnqueueNumbers
  <2>2. /\ open' = open \cup {issued'} /\ drain' = Woken /\ slave' = slave
        /\ armed' = armed /\ shuffled' = shuffled
    BY <1>3 DEF Enqueue
  <2>3. Owed' = Owed
    BY <2>2 DEF Owed
  <2>4. Owed' <= issued' /\ \A n \in open' : Owed' < n
    BY <1>a, <1>c, <2>1, <2>2, <2>3
  <2>5. InFlightAt' /\ drain'.cmd.ges # 0 =>
            ~armed' /\ \A n \in Waiting(queue') : drain'.cmd.ges < n
    <3> SUFFICES ASSUME InFlightAt', drain'.cmd.ges # 0
                 PROVE  ~armed' /\ \A n \in Waiting(queue') : drain'.cmd.ges < n
      OBVIOUS
    <3>1. InFlightAt /\ drain'.cmd = drain.cmd
      BY <1>b, <2>2
    <3>2. ~armed /\ \A n \in Waiting(queue) : drain.cmd.ges < n
      BY <1>c, <2>2, <3>1
    <3>3. drain.cmd.ges < issued'
      BY <1>a, <2>1, <3>1
    <3> QED
      BY <2>1, <2>2, <3>1, <3>2, <3>3
  <2> QED
    BY <1>c, <2>1, <2>2, <2>4, <2>5 DEF CounterInv
<1>4. CASE ScrollConverges
  <2>1. /\ drain' = drain /\ slave' = slave /\ armed' = armed /\ shuffled' = shuffled
        /\ issued' = issued /\ open' = open
    BY <1>4, <1>b DEF ScrollConverges
  <2> QED
    BY <1>4, <1>a, <1>b, <1>d, <2>1, ScrollNumbers
<1>5. CASE Age
  BY <1>5, <1>a, <1>b, <1>d DEF Age
<1>6. CASE DrainEnds
  <2>1. ~InFlightAt'
    BY <1>6 DEF DrainEnds, Idle, InFlightAt
  <2> QED
    BY <1>6, <1>a, <1>b, <1>d, <2>1 DEF DrainEnds
<1>7. CASE EntryEnds
  <2> DEFINE e == NextEntry(queue)
  <2>1. /\ drain.at = "loop" /\ ~IsEmpty(queue) /\ drain' = drain
        /\ queue' = Dequeue(queue) /\ open' = open \ {e.ges}
        /\ issued' = issued /\ shuffled' = shuffled
        /\ slave'.ges \in slave.ges..(slave.ges + 1)
        /\ e.ges = 0 => slave'.ges = slave.ges
        /\ armed' => armed
    BY <1>7, EntryEndFacts
  <2>2. /\ Sorted(queue.Discrete) => Sorted(queue'.Discrete)
        /\ e.ges = 0 => Waiting(queue') = Waiting(queue)
        /\ e.ges # 0 => /\ e.ges \in Waiting(queue)
                        /\ Waiting(queue') = Waiting(queue) \ {e.ges}
                        /\ Sorted(queue.Discrete) =>
                               \A n \in Waiting(queue') : e.ges < n
    BY <1>a, <2>1, Dequeueing
  <2>3. ~InFlightAt /\ InFlight = {} /\ ~InFlightAt'
    BY <2>1 DEF InFlightAt, InFlight
  <2> HIDE DEF e
  <2>4. CASE e.ges = 0
    <3>1. slave'.ges \in Nat /\ slave'.ges <= slave.ges /\ open' \subseteq open
      BY <1>a, <2>1, <2>4
    <3> QED
      BY <1>d, <2>1, <2>2, <2>3, <2>4, <3>1
  <2>5. CASE e.ges # 0
    <3>1. Owed < e.ges /\ e.ges \in Nat /\ e.ges <= issued
      BY <1>a, <1>c, <2>1, <2>2, <2>5
    <3>2. Owed' <= Owed + 1 /\ Owed' \in Nat
      BY <1>a, <2>1 DEF Owed
    <3>3. open' = Waiting(queue')
      BY <1>a, <2>1, <2>2, <2>3, <2>5
    <3>4. \A n \in Waiting(queue') : e.ges < n /\ n \in Nat
      BY <1>a, <1>c, <2>1, <2>2, <2>5
    <3>5. Owed' <= issued' /\ \A n \in open' : Owed' < n
      BY <1>a, <2>1, <3>1, <3>2, <3>3, <3>4
    <3> QED
      BY <1>c, <2>1, <2>2, <2>3, <3>5 DEF CounterInv
  <2> QED
    BY <2>4, <2>5
<1>8. CASE StartNavigation
  <2>1. /\ Waiting(queue') = Waiting(queue)
        /\ drain'.at = "barrier" /\ drain'.cmd.ges = 0
    BY <1>8, StartNavigationNumbers DEF Navigation
  <2>2. /\ ~shuffled /\ Sorted(queue'.Discrete)
        /\ issued' = issued /\ open' = open /\ slave' = slave /\ armed' = armed
    BY <1>8, <1>b DEF StartNavigation, InOrder, Sorted
  <2>3. Owed' = Owed
    BY <2>2 DEF Owed
  <2> QED
    BY <1>c, <2>1, <2>2, <2>3 DEF CounterInv
<1>9. CASE AwaitPredecessor
  <2> DEFINE e == NextEntry(queue)
  <2>1. /\ ~IsEmpty(queue) /\ e.ges > slave.ges + 1 /\ armed' = TRUE
        /\ queue' = queue /\ slave' = slave /\ shuffled' = shuffled
        /\ issued' = issued /\ open' = open
        /\ drain.at = "loop" /\ drain' = Idle /\ e.ges # 0
    BY <1>9, <1>b DEF AwaitPredecessor, Numbered, Dispatchable, Looping
  <2>2. /\ e.ges \in Waiting(queue)
        /\ Waiting(Dequeue(queue)) = Waiting(queue) \ {e.ges}
        /\ Sorted(queue.Discrete) => \A n \in Waiting(Dequeue(queue)) : e.ges < n
    BY <1>a, <2>1, Dequeueing
  <2> HIDE DEF e
  <2>3. \A n \in Waiting(queue) : e.ges <= n
    BY <1>a, <1>c, <2>1, <2>2
  <2>4. InFlight = {} /\ ~InFlightAt'
    BY <2>1 DEF InFlight, InFlightAt, Idle
  <2>5. Owed' = slave.ges + 1
    BY <2>1 DEF Owed
  <2>6. Owed' <= issued' /\ \A n \in open' : Owed' < n
    BY <1>a, <2>1, <2>2, <2>3, <2>4, <2>5
  <2> QED
    BY <1>c, <2>1, <2>4, <2>6 DEF CounterInv
<1>10. CASE Start
  <2> DEFINE e == NextEntry(queue)
  <2>1. /\ ~IsEmpty(queue) /\ e.ges = slave.ges + 1 /\ e.ges # 0
        /\ armed' = FALSE /\ slave' = slave /\ shuffled' = shuffled
        /\ queue' = Dequeue(queue) /\ drain' = Awaiting(e)
        /\ drain.at = "loop" /\ issued' = issued /\ open' = open
    BY <1>10, <1>b DEF Start, Aligned, Numbered, Dispatchable, Looping
  <2>2. /\ e.ges \in Waiting(queue)
        /\ Waiting(queue') = Waiting(queue) \ {e.ges}
        /\ Sorted(queue.Discrete) =>
               Sorted(queue'.Discrete) /\ \A n \in Waiting(queue') : e.ges < n
    BY <1>a, <2>1, Dequeueing
  <2> HIDE DEF e
  <2>3. drain'.cmd = e
    BY <2>1 DEF Awaiting
  <2>4. Owed' <= Owed /\ Owed' \in Nat
    BY <1>a, <2>1 DEF Owed
  <2>5. Owed' <= issued' /\ \A n \in open' : Owed' < n
    <3>1. \A n \in open : n \in Nat
      BY <1>a
    <3> QED
      BY <1>a, <1>c, <2>1, <2>4, <3>1
  <2> QED
    BY <1>c, <2>1, <2>2, <2>3, <2>5 DEF CounterInv
<1>11. CASE PassBarrier
  <2>1. /\ queue' = queue /\ open' = open /\ issued' = issued /\ armed' = armed
        /\ shuffled' = shuffled
        /\ drain.at = "barrier" /\ drain'.at = "execute" /\ drain'.cmd = drain.cmd
    BY <1>11 DEF PassBarrier, TypeInv
  <2>2. slave'.ges = slave.ges
    <3>1. Touched(slave) \in Models /\ Touched(slave).ges = slave.ges
      BY ModelFacts DEF TypeInv
    <3> QED
      BY <1>11, <3>1 DEF PassBarrier, Models
  <2>3. InFlightAt
    BY <2>1 DEF InFlightAt
  <2> QED
    BY <1>a, <1>d, <2>1, <2>2, <2>3
<1>12. CASE CommandEnds
  <2>1. /\ InFlightAt /\ drain' = Back /\ issued' = issued /\ shuffled' = shuffled
        /\ \/ queue' = queue /\ open' = open \ {drain.cmd.ges}
           \/ /\ queue' = EmptyQueue
              /\ open' = open \ ({drain.cmd.ges} \cup Numbers(queue))
        /\ slave'.ges = slave.ges + IF drain.cmd.ges = 0 THEN 0 ELSE 1
        /\ armed' => armed
    BY <1>12, CommandEndFacts
  <2>2. ~InFlightAt'
    <3>1. drain'.at = "loop"
      BY <2>1, BackType
    <3> QED
      BY <3>1 DEF InFlightAt
  <2>3. /\ Sorted(queue.Discrete) => Sorted(queue'.Discrete)
        /\ Waiting(queue') \subseteq Waiting(queue)
        /\ open' \subseteq Waiting(queue) /\ open' \subseteq open
    BY <2>1, EmptyFacts, OpenFacts
  <2>4. CASE drain.cmd.ges = 0
    <3>1. slave'.ges = slave.ges
      BY <1>a, <2>1, <2>4
    <3> QED
      BY <1>a, <1>d, <2>1, <2>2, <2>3, <3>1
  <2>5. CASE drain.cmd.ges # 0
    <3>1. ~armed /\ slave.ges < drain.cmd.ges /\ \A n \in Waiting(queue) : drain.cmd.ges < n
      <4>1. drain.cmd.ges \in open
        BY <1>a, <2>1, <2>5, InFlightFacts
      <4> QED
        BY <1>a, <1>c, <2>1, <2>5, <4>1
    <3>2. Owed' = slave.ges + 1
      BY <1>a, <2>1, <2>5, <3>1 DEF Owed
    <3>3. Owed' <= issued' /\ \A n \in open' : Owed' < n
      BY <1>a, <2>1, <2>3, <3>1, <3>2
    <3> QED
      BY <1>c, <2>1, <2>2, <2>3, <3>3 DEF CounterInv
  <2> QED
    BY <2>4, <2>5
<1>13. ASSUME NEW scroll \in BOOLEAN, RetryBarrier(scroll) PROVE CounterInv'
  <2>1. /\ queue' = queue /\ open' = open /\ issued' = issued /\ armed' = armed
        /\ shuffled' = shuffled
        /\ drain.at = "barrier" /\ drain'.cmd = drain.cmd
        /\ slave' = Escalated(slave)
    BY <1>13, <1>b DEF RetryBarrier, TypeInv
  <2>2. slave'.ges = slave.ges
    BY <2>1, ModelFacts DEF TypeInv
  <2>3. InFlightAt
    BY <2>1 DEF InFlightAt
  <2> QED
    BY <1>a, <1>d, <2>1, <2>2, <2>3
<1>14. CASE WatchdogFires
  <2>1. /\ armed /\ armed' = FALSE /\ slave' = Skipped(slave) /\ drain' = Woken
        /\ queue' = queue /\ open' = open /\ issued' = issued /\ shuffled' = shuffled
    BY <1>14, <1>b DEF WatchdogFires
  <2>2. slave'.ges = slave.ges + 1
    BY <2>1, ModelFacts DEF TypeInv
  <2>3. Owed' = Owed
    BY <1>a, <2>1, <2>2 DEF Owed
  <2> QED
    BY <1>b, <1>c, <2>1, <2>3 DEF CounterInv
<1>15. CASE Crash
  <2>1. slave'.ges = slave.ges
    BY <1>15 DEF Crash, TypeInv, Models
  <2> QED
    BY <1>15, <1>a, <1>b, <1>d, <2>1 DEF Crash
<1>e. ASSUME Clear, slave'.ges \in Nat, slave'.ges <= slave.ges, armed' = armed,
             drain' = drain, issued' = issued, shuffled' = shuffled
      PROVE  CounterInv'
  <2>1. queue' = EmptyQueue /\ open' \subseteq open
    BY <1>e DEF Clear
  <2> QED
    BY <1>b, <1>d, <1>e, <2>1, EmptyFacts
<1>16. CASE DetectCrash
  <2>1. slave'.ges = slave.ges
    BY <1>16 DEF DetectCrash, TypeInv, Models
  <2> QED
    BY <1>16, <1>a, <1>e, <2>1 DEF DetectCrash
<1>17. ASSUME NEW h \in 1..MaxHeals, HealStep(h) PROVE CounterInv'
  <2>1. UNCHANGED <<issued, armed, shuffled>>
    BY <1>17 DEF HealStep, Unregister, Respawn, LogIn, FinishHeal, FailAttempt, GiveUp, Heal
  <2>2. slave'.ges \in Nat /\ slave'.ges <= slave.ges
    <3>1. slave' \in {Absent, [slave EXCEPT !.model = "live", !.state = "Out"],
                      [slave EXCEPT !.state = "Ready"], [slave EXCEPT !.ges = MasterGes]}
      BY <1>17 DEF HealStep, Unregister, Respawn, LogIn, FinishHeal, FailAttempt, GiveUp
    <3>2. CASE slave' = Absent
      BY <1>a, <3>2 DEF Absent
    <3>3. CASE slave' = [slave EXCEPT !.model = "live", !.state = "Out"]
      BY <1>a, <3>3 DEF TypeInv, Models
    <3>4. CASE slave' = [slave EXCEPT !.state = "Ready"]
      BY <1>a, <3>4 DEF TypeInv, Models
    <3>5. CASE slave' = [slave EXCEPT !.ges = MasterGes]
      BY <1>a, <3>5 DEF TypeInv, Models, MasterGes
    <3> QED
      BY <3>1, <3>2, <3>3, <3>4, <3>5
  <2>3. CASE Unregister(h) \/ Respawn(h) \/ LogIn(h) \/ FailAttempt(h)
    BY <1>b, <1>d, <2>1, <2>2, <2>3 DEF Unregister, Respawn, LogIn, FailAttempt
  <2>4. CASE FinishHeal(h)
    <3>1. queue' = Insert(queue, Navigation) /\ drain' = Woken /\ open' = open
      BY <2>4 DEF FinishHeal
    <3>2. Waiting(queue') = Waiting(queue) /\ queue'.Discrete = queue.Discrete
      BY <3>1, NavigationNumbers
    <3> QED
      BY <1>b, <1>d, <2>1, <2>2, <3>1, <3>2
  <2>5. CASE GiveUp(h)
    BY <1>e, <2>1, <2>2, <2>5 DEF GiveUp
  <2> QED
    BY <1>17, <2>3, <2>4, <2>5 DEF HealStep
<1>18. CASE Converge
  BY <1>18, <1>a, <1>b, <1>d DEF Converge
<1>19. ASSUME Correct, UNCHANGED <<mirror, slave, armed, shuffled>>
       PROVE  CounterInv'
  <2>1. /\ queue' = Insert(queue, Navigation) \/ queue' = queue
        /\ drain' = Woken \/ drain' = drain
        /\ issued' = issued /\ open' = open
    BY <1>19, <1>b DEF Correct
  <2>2. Waiting(queue') = Waiting(queue) /\ queue'.Discrete = queue.Discrete
    BY <2>1, NavigationNumbers
  <2> QED
    BY <1>19, <1>a, <1>b, <1>d, <2>1, <2>2
<1>20. CASE ObserveDivergence
  BY <1>20, <1>19 DEF ObserveDivergence
<1>21. CASE ConvergenceTimeout
  BY <1>21, <1>19 DEF ConvergenceTimeout
<1>22. CASE UNCHANGED vars
  BY <1>22, <1>a, <1>b, <1>d DEF vars
<1> QED
  BY <1>1, <1>2, <1>3, <1>4, <1>5, <1>6, <1>7, <1>8, <1>9, <1>10, <1>11, <1>12, <1>13,
     <1>14, <1>15, <1>16, <1>17, <1>18, <1>20, <1>21, <1>22
     DEF Next, MasterStep, DrainStep, CommandStep, ConvergenceStep, EntryEnds, CommandEnds

-----------------------------------------------------------------------------
(* Who looks at the queue again.                                           *)
LEMMA FullFacts ==
    ASSUME NumbersInv, QueueOK(queue', CommandKinds),
           Cardinality(Reals(queue'.Discrete)) = Cardinality(Reals(queue.Discrete))
    PROVE  Full(queue) => Full(queue')
BY DEF Full, Reals

LEMMA WokenIsAwake ==
    ASSUME TypeInv, drain' = Woken
    PROVE  drain'.at # "idle"
<1>1. CASE drain.at = "idle"
  BY <1>1 DEF Woken, TypeInv
<1>2. CASE drain.at # "idle"
  BY <1>2 DEF Woken
<1> QED
  BY <1>1, <1>2

LEMMA StrandedInit == Init => OnlyFullIsStranded
BY EmptyFacts DEF Init, OnlyFullIsStranded, Stranded

LEMMA StrandedNext ==
    TypeInv /\ NumbersInv /\ OnlyFullIsStranded /\ [Next]_vars => OnlyFullIsStranded'
<1> SUFFICES ASSUME TypeInv, NumbersInv, OnlyFullIsStranded, [Next]_vars
             PROVE  OnlyFullIsStranded'
    OBVIOUS
<1>a. ASSUME drain'.at # "idle" PROVE OnlyFullIsStranded'
  BY <1>a DEF OnlyFullIsStranded, Stranded
<1>b. ASSUME drain' = Woken PROVE OnlyFullIsStranded'
  BY <1>a, <1>b, WokenIsAwake
<1>c. ASSUME queue' = queue, drain' = drain, armed' = armed PROVE OnlyFullIsStranded'
  BY <1>c DEF OnlyFullIsStranded, Stranded
<1>d. ASSUME IsEmpty(queue') PROVE OnlyFullIsStranded'
  BY <1>d DEF OnlyFullIsStranded, Stranded
<1>1. CASE Miss
  BY <1>1, <1>c DEF Miss
<1>2. ASSUME NEW kind \in Kinds, Overflow(kind) PROVE OnlyFullIsStranded'
  BY <1>2 DEF Overflow, OnlyFullIsStranded
<1>3. ASSUME NEW kind \in Kinds, Enqueue(kind) PROVE OnlyFullIsStranded'
  BY <1>3, <1>b DEF Enqueue
<1>4. CASE ScrollConverges
  <2>1. queue.Aggregated # <<>> /\ drain' = drain /\ armed' = armed
    BY <1>4 DEF ScrollConverges
  <2>2. ~IsEmpty(queue)
    BY <2>1 DEF IsEmpty, Buckets
  <2>3. Full(queue) => Full(queue')
    BY <1>4, ScrollNumbers, FullFacts
  <2> QED
    BY <2>1, <2>2, <2>3 DEF OnlyFullIsStranded, Stranded
<1>5. CASE Age
  BY <1>5, <1>c DEF Age
<1>6. CASE DrainEnds
  BY <1>6, <1>d DEF DrainEnds
<1>7. CASE EntryEnds
  <2>1. drain.at = "loop" /\ drain' = drain
    BY <1>7, EntryEndFacts
  <2> QED
    BY <1>a, <2>1
<1>8. CASE StartNavigation
  <2>1. drain'.at = "barrier"
    BY <1>8, StartNavigationNumbers
  <2> QED
    BY <1>a, <2>1
<1>9. CASE AwaitPredecessor
  BY <1>9 DEF AwaitPredecessor, OnlyFullIsStranded, Stranded
<1>10. CASE Start
  BY <1>10, <1>a DEF Start, Awaiting
<1>11. CASE PassBarrier
  <2>1. drain'.at = "execute"
    BY <1>11 DEF PassBarrier, TypeInv
  <2> QED
    BY <1>a, <2>1
<1>12. CASE CommandEnds
  <2>1. drain'.at = "loop"
    BY <1>12, CommandEndFacts, BackType
  <2> QED
    BY <1>a, <2>1
<1>13. ASSUME NEW scroll \in BOOLEAN, RetryBarrier(scroll) PROVE OnlyFullIsStranded'
  <2>1. drain'.at = "barrier"
    BY <1>13 DEF RetryBarrier, TypeInv
  <2> QED
    BY <1>a, <2>1
<1>14. CASE WatchdogFires
  BY <1>14, <1>b DEF WatchdogFires
<1>15. CASE Crash
  BY <1>15, <1>c DEF Crash
<1>e. Clear => IsEmpty(queue')
  BY EmptyFacts DEF Clear
<1>16. CASE DetectCrash
  BY <1>16, <1>d, <1>e DEF DetectCrash
<1>17. ASSUME NEW h \in 1..MaxHeals, HealStep(h) PROVE OnlyFullIsStranded'
  <2>1. armed' = armed
    BY <1>17 DEF HealStep, Unregister, Respawn, LogIn, FinishHeal, FailAttempt, GiveUp, Heal
  <2>2. CASE Unregister(h) \/ Respawn(h) \/ LogIn(h) \/ FailAttempt(h)
    BY <1>c, <2>1, <2>2 DEF Unregister, Respawn, LogIn, FailAttempt
  <2>3. CASE FinishHeal(h)
    BY <1>b, <2>3 DEF FinishHeal
  <2>4. CASE GiveUp(h)
    BY <1>d, <1>e, <2>4 DEF GiveUp
  <2> QED
    BY <1>17, <2>2, <2>3, <2>4 DEF HealStep
<1>18. CASE Converge
  BY <1>18, <1>c DEF Converge
<1>19. CASE ObserveDivergence \/ ConvergenceTimeout
  <2>1. \/ drain' = Woken
        \/ drain' = drain /\ queue' = queue
    BY <1>19 DEF ObserveDivergence, ConvergenceTimeout, Correct
  <2>2. armed' = armed
    BY <1>19 DEF ObserveDivergence, ConvergenceTimeout
  <2> QED
    BY <1>b, <1>c, <2>1, <2>2
<1>20. CASE UNCHANGED vars
  BY <1>20, <1>c DEF vars
<1> QED
  BY <1>1, <1>2, <1>3, <1>4, <1>5, <1>6, <1>7, <1>8, <1>9, <1>10, <1>11, <1>12, <1>13,
     <1>14, <1>15, <1>16, <1>17, <1>18, <1>19, <1>20
     DEF Next, MasterStep, DrainStep, CommandStep, ConvergenceStep, EntryEnds, CommandEnds

-----------------------------------------------------------------------------
(* What holds in every state that can be reached.                          *)
IInv ==
    /\ TypeInv /\ NumbersInv /\ OrderInv /\ CounterInv
    /\ OnlyFullIsStranded

LEMMA IInvHolds == Spec => []IInv
<1>1. Init => IInv
  BY TypeInit, OrderInit, CounterInit, StrandedInit DEF IInv
<1>2. IInv /\ [Next]_vars => IInv'
  BY TypeNext, NumbersNext, OrderNext, CounterNext, StrandedNext DEF IInv
<1> QED
  BY <1>1, <1>2, PTL DEF Spec

(* The slave's record, its queue, the command it executes and the heals    *)
(* stay well formed; no number in the queue is one the master has not      *)
(* given yet; no slow bucket holds two entries, the discrete one no more   *)
(* than its limit.                                                         *)
THEOREM TypeCorrect == Spec => []TypeOK
<1>1. IInv => TypeOK
  <2> SUFFICES ASSUME IInv
               PROVE  TypeOK
      OBVIOUS
  <2> USE DEF IInv
  <2>1. /\ issued \in Nat /\ QueueOK(queue, CommandKinds)
        /\ \A n \in Waiting(queue) : n \in Nat /\ n # 0 /\ n <= issued
    BY BoundFacts, LiveWaits DEF TypeInv, NumbersInv
  <2>2. /\ applied \in 0..issued /\ given \subseteq 1..issued
        /\ carried \subseteq (1..issued) \X (1..issued)
    BY <2>1 DEF TypeInv, OrderInv, RideInv
  <2>3. open \subseteq 1..issued
    <3>1. drain.cmd.ges \in Nat
      BY DEF TypeInv, Commands
    <3>2. InFlight \subseteq 1..issued
      BY <2>1, <3>1, InFlightFacts DEF NumbersInv
    <3>3. Waiting(queue) \subseteq 1..issued
      BY <2>1
    <3> QED
      BY <3>2, <3>3 DEF NumbersInv
  <2>4. /\ \A b \in Buckets : queue[b] \in Seq(Commands)
        /\ \A b \in {"Aggregated", "Continuous"} : Len(queue[b]) <= 1
    BY <2>1, KindFacts DEF QueueOK
  <2>5. ~\E e \in Entries(queue) : e.ges > issued
    <3> SUFFICES ASSUME NEW e \in Entries(queue)
                 PROVE  ~(e.ges > issued)
        OBVIOUS
    <3>1. e.ges \in Numbers(queue)
      BY DEF Numbers
    <3>2. e.ges = 0 \/ e.ges \in Waiting(queue)
      BY <2>1, <3>1, NumbersAreWaiting
    <3> QED
      BY <2>1, <3>2
  <2>6. Cardinality({i \in DOMAIN queue.Discrete :
                        queue.Discrete[i].kind # "noop"}) <= DiscreteLimit
    BY DEF NumbersInv, Reals
  <2> QED
    BY <2>2, <2>3, <2>4, <2>5, <2>6 DEF TypeOK, TypeInv, Models, Heals
<1> QED
  BY <1>1, IInvHolds, PTL

(* Overwriting, coalescing, the purges, recoveries and heals lose no event *)
(* that was taken for the slave and settle none twice: what is open is     *)
(* what waits, once, and what executes.                                    *)
THEOREM NothingLostOrRepeated == Spec => []NumbersKept
<1>1. IInv => NumbersKept
  <2> SUFFICES ASSUME IInv
               PROVE  NumbersKept
      OBVIOUS
  <2> USE DEF IInv
  <2>1. QueueOK(queue, CommandKinds) /\ open = Waiting(queue) \cup InFlight
    BY DEF NumbersInv
  <2>2. Waiting(queue) = Numbers(queue) \ {0}
    BY <2>1, NumbersAreWaiting
  <2>3. /\ IsFiniteSet(Waiting(queue))
        /\ Cardinality(Waiting(queue)) = Length(queue)
    BY <2>1, WaitingCounted DEF Length
  <2>4. IsFiniteSet(InFlight) /\ Waiting(queue) \cap InFlight = {}
    <3>1. IsFiniteSet({drain.cmd.ges} \ {0}) /\ IsFiniteSet({})
      <4>1. IsFiniteSet({drain.cmd.ges}) /\ IsFiniteSet({})
        BY FS_Singleton, FS_EmptySet
      <4> QED
        BY <4>1, FS_Difference
    <3> QED
      BY <3>1, InFlightFacts DEF NumbersInv
  <2>5. Cardinality(open) = Length(queue) + Cardinality(InFlight)
    BY <2>1, <2>3, <2>4, DisjointUnion
  <2> QED
    BY <2>1, <2>2, <2>5 DEF NumbersKept
<1> QED
  BY <1>1, IInvHolds, PTL

(* While no navigation has left the queue out of order, the slave's        *)
(* counter leaves room for everything it has yet to pass, so that no event *)
(* to come is taken for an old one.                                        *)
THEOREM CounterStaysBehind == Spec => []CounterWithinIssued
<1>1. IInv => CounterWithinIssued
  <2> SUFFICES ASSUME IInv, ~shuffled
               PROVE  slave.ges + Cardinality(open) + (IF armed THEN 1 ELSE 0) <= issued
      BY DEF CounterWithinIssued
  <2> USE DEF IInv
  <2>1. issued \in Nat /\ slave.ges \in Nat /\ drain.cmd.ges \in Nat
    BY BoundFacts DEF TypeInv, Models, Commands
  <2>2. Owed <= issued /\ \A n \in open : Owed < n
    BY DEF CounterInv
  <2>3. Owed \in Nat /\ Owed = slave.ges + IF armed THEN 1 ELSE 0
    BY <2>1 DEF Owed
  <2> DEFINE room == (Owed + 1)..issued
  <2>4. open \subseteq room
    <3>1. \A n \in Waiting(queue) : n \in Nat /\ n <= issued
      BY LiveWaits DEF NumbersInv
    <3>2. \A n \in InFlight : n \in Nat /\ n <= issued
      BY <2>1, InFlightFacts DEF NumbersInv
    <3>3. \A n \in open : n \in Nat /\ n <= issued
      BY <3>1, <3>2 DEF NumbersInv
    <3> QED
      BY <2>1, <2>2, <2>3, <3>3
  <2>5. IsFiniteSet(room) /\ Cardinality(room) = issued - Owed
    <3>1. Owed + 1 \in Int /\ issued \in Int
      BY <2>1, <2>3
    <3>2. /\ IsFiniteSet(room)
          /\ Cardinality(room) = IF Owed + 1 > issued THEN 0 ELSE issued - (Owed + 1) + 1
      BY <3>1, FS_Interval
    <3> QED
      BY <2>1, <2>2, <2>3, <3>2
  <2>6. Cardinality(open) \in Nat /\ Cardinality(open) <= issued - Owed
    <3>1. IsFiniteSet(open) /\ Cardinality(open) <= Cardinality(room)
      BY <2>4, <2>5, FS_Subset
    <3> HIDE DEF room
    <3> QED
      BY <2>5, <3>1, FS_CardinalityType
  <2> QED
    BY <2>1, <2>3, <2>6
<1> QED
  BY <1>1, IInvHolds, PTL

(* ... and none that waits is thrown away as stale.                        *)
THEOREM NoneIsStale == Spec => []NothingGoesStale
<1>1. IInv => NothingGoesStale
  <2> SUFFICES ASSUME IInv, ~shuffled, NEW e \in Entries(queue), e.ges # 0
               PROVE  e.ges > slave.ges
      BY DEF NothingGoesStale
  <2> USE DEF IInv
  <2>1. slave.ges \in Nat /\ Owed \in Nat /\ slave.ges <= Owed
    <3>1. slave.ges \in Nat
      BY DEF TypeInv, Models
    <3> QED
      BY <3>1 DEF Owed
  <2>2. e.ges \in Waiting(queue)
    <3>1. e.ges \in Numbers(queue)
      BY DEF Numbers
    <3> QED
      BY <3>1, NumbersAreWaiting DEF NumbersInv
  <2>3. e.ges \in Nat /\ Owed < e.ges
    BY <2>2, LiveWaits DEF CounterInv, NumbersInv
  <2> QED
    BY <2>1, <2>3
<1> QED
  BY <1>1, IInvHolds, PTL

(* A queue nobody will look at again is one that overflowed.               *)
THEOREM OnlyFullQueuesStrand == Spec => []OnlyFullIsStranded
<1>1. IInv => OnlyFullIsStranded
  BY DEF IInv
<1> QED
  BY <1>1, IInvHolds, PTL
-----------------------------------------------------------------------------
(* A new event is numbered; at most one command takes it along.            *)
LEMMA EnqueueMirrored ==
    ASSUME IInv, NEW kind \in Kinds, Enqueue(kind)
    PROVE  Mirror!Sequence
<1> DEFINE C == Carriers(queue, [ges |-> issued + 1, kind |-> kind])
<1>1. /\ carried' = carried \union (C \X {issued'}) /\ issued' = issued + 1
      /\ applied' = applied /\ given' = given
  BY DEF Enqueue
<1>2. C \subseteq 1..issued /\ \A g, h \in C : g = h
  BY CarriersFacts DEF IInv
<1> HIDE DEF C
<1>3. CASE C = {}
  BY <1>1, <1>3 DEF Mirror!Sequence
<1>4. CASE C # {}
  <2>1. PICK g \in 1..issued : C = {g}
    BY <1>2, <1>4
  <2>2. carried' = carried \union {<<g, issued'>>}
    BY <1>1, <2>1
  <2> QED
    BY <1>1, <2>2 DEF Mirror!Sequence
<1> QED
  BY <1>3, <1>4

(* The page is given a command that is part of no other, with what it took *)
(* along, nothing of which it has been given.                              *)
LEMMA PassMirrored ==
    ASSUME IInv, PassBarrier, drain.cmd # Navigation
    PROVE  Mirror!Apply
<1> DEFINE c == drain.cmd.ges
<1> USE DEF IInv
<1>1. /\ drain.at = "barrier" /\ issued' = issued /\ carried' = carried
      /\ applied' = c /\ given' = given \union Having(c)
  BY DEF PassBarrier
<1>2. /\ c # 0 /\ c <= issued /\ applied < c /\ c \notin Riders /\ RideInv
  <2>1. c # 0 /\ c <= issued
    BY <1>1 DEF NumbersInv, InFlightAt
  <2> QED
    BY <1>1, <2>1 DEF OrderInv, RideInv
<1>3. issued \in Nat /\ applied \in Nat /\ c \in Nat
  BY BoundFacts DEF TypeInv, Commands
<1> HIDE DEF c
<1>4. applied' \in (applied + 1)..issued
  BY <1>1, <1>2, <1>3
<1>5. applied' \notin Mirror!Parts
  <2>1. ASSUME NEW g, <<g, c>> \in carried PROVE c \in Riders
    <3>1. <<g, c>>[2] = c
      OBVIOUS
    <3> QED
      BY <2>1, <3>1 DEF Riders
  <2> QED
    BY <1>1, <1>2, <2>1 DEF Mirror!Parts
<1>6. Mirror!With(applied') = Having(c)
  BY <1>1 DEF Mirror!With, Having
<1>7. ASSUME NEW n \in Having(c) PROVE n \notin given
  <2>1. CASE n = c
    BY <1>2, <1>3, <2>1 DEF RideInv
  <2>2. CASE <<c, n>> \in carried
    BY <1>2, <1>3, <2>2 DEF RideInv
  <2> QED
    BY <2>1, <2>2 DEF Having
<1> QED
  BY <1>1, <1>4, <1>5, <1>6, <1>7 DEF Mirror!Apply

(* What the master and the slave's page see of a step: an event gets its   *)
(* number, the page is given the command that passed the barrier, or       *)
(* nothing.                                                                *)
LEMMA StepIsMirrored == IInv /\ [Next]_vars => [Mirror!Next]_(Mirror!vars)
<1> SUFFICES ASSUME IInv, [Next]_vars
             PROVE  Mirror!Next \/ UNCHANGED <<issued, carried, applied, given>>
    BY DEF Mirror!vars
<1> USE DEF IInv
<1>a. UNCHANGED mirror => UNCHANGED <<issued, carried, applied, given>>
  BY DEF mirror
<1>1. CASE Miss
  BY <1>1 DEF Miss, Mirror!Next, Mirror!Sequence
<1>2. ASSUME NEW kind \in Kinds, Overflow(kind) \/ Enqueue(kind) PROVE Mirror!Next
  <2>1. CASE Overflow(kind)
    BY <2>1 DEF Overflow, Mirror!Next, Mirror!Sequence
  <2>2. CASE Enqueue(kind)
    BY <2>2, EnqueueMirrored DEF Mirror!Next
  <2> QED
    BY <1>2, <2>1, <2>2
<1>3. CASE ScrollConverges \/ Age
  BY <1>a, <1>3 DEF ScrollConverges, Age
<1>4. CASE DrainStep
  <2>1. EntryEnds => UNCHANGED <<issued, carried, applied, given>>
    BY EntryEndFacts
  <2> QED
    BY <1>a, <1>4, <2>1
       DEF DrainStep, EntryEnds, DrainEnds, StartNavigation, AwaitPredecessor, Start
<1>5. CASE PassBarrier
  <2>1. CASE drain.cmd = Navigation
    BY <1>5, <2>1 DEF PassBarrier
  <2>2. CASE drain.cmd # Navigation
    BY <1>5, <2>2, PassMirrored DEF Mirror!Next
  <2> QED
    BY <2>1, <2>2
<1>6. CASE CommandEnds
  BY <1>6, CommandEndFacts
<1>7. ASSUME NEW scroll \in BOOLEAN, RetryBarrier(scroll)
      PROVE  UNCHANGED <<issued, carried, applied, given>>
  BY <1>a, <1>7 DEF RetryBarrier
<1>8. CASE WatchdogFires \/ Crash \/ DetectCrash
  BY <1>a, <1>8 DEF WatchdogFires, Crash, DetectCrash
<1>9. ASSUME NEW h \in 1..MaxHeals, HealStep(h)
      PROVE  UNCHANGED <<issued, carried, applied, given>>
  BY <1>9 DEF HealStep, Unregister, Respawn, LogIn, FinishHeal, FailAttempt, GiveUp, Heal
<1>10. CASE ConvergenceStep
  BY <1>a, <1>10 DEF ConvergenceStep, Converge, ObserveDivergence, ConvergenceTimeout
<1>11. CASE UNCHANGED vars
  BY <1>a, <1>11 DEF vars
<1> QED
  BY <1>1, <1>2, <1>3, <1>4, <1>5, <1>6, <1>7, <1>8, <1>9, <1>10, <1>11
     DEF Next, MasterStep, CommandStep, CommandEnds

(* The slave implements InOrderMirror: its page is given numbered events   *)
(* only, each once, and those that are not part of another one's command   *)
(* in the master's order, whatever gaps, purges, recoveries and heals      *)
(* there are in between.                                                   *)
THEOREM MirrorsInOrder == Spec => KeepsOrder
<1>1. Init => Mirror!Init
  BY DEF Init, Mirror!Init
<1> QED
  BY <1>1, IInvHolds, StepIsMirrored, PTL DEF Spec, KeepsOrder, Mirror!Spec

(* A slave's page is given nothing twice, neither as the event itself nor  *)
(* as what the command of an earlier scroll has taken along.               *)
THEOREM GivenOnce == Spec => Mirror!NothingTwice
<1>1. [Mirror!Next]_(Mirror!vars) =>
          [applied' # applied => Mirror!With(applied') \intersect given = {}]_(Mirror!vars)
  BY DEF Mirror!Next, Mirror!Sequence, Mirror!Apply, Mirror!vars
<1> QED
  BY <1>1, IInvHolds, StepIsMirrored, PTL DEF Spec, Mirror!NothingTwice

(* What it is given comes later in the master's order than all before, but *)
(* for the movements that an earlier scroll has taken along.               *)
THEOREM GivenInOrder == Spec => Mirror!NeverBack
<1>1. IInv /\ [Next]_vars =>
          [\A n \in given' \ given :
               n \in Mirror!Parts \/ \A m \in given : m \in Mirror!Parts \/ m < n]_(Mirror!vars)
  <2> SUFFICES ASSUME IInv, [Next]_vars, NEW n \in given' \ given,
                      n \notin Mirror!Parts, NEW m \in given, m \notin Mirror!Parts
               PROVE  m < n
      BY DEF Mirror!vars
  <2>1. /\ issued \in Nat /\ applied \in Nat /\ given \subseteq 1..issued
        /\ carried \subseteq (1..issued) \X (1..issued)
        /\ \A k \in given : k \in Riders \/ k <= applied
    BY BoundFacts DEF IInv, TypeInv, OrderInv, RideInv
  <2>2. Mirror!Apply
    BY StepIsMirrored DEF Mirror!vars, Mirror!Next, Mirror!Sequence
  <2>3. /\ applied' \in (applied + 1)..issued
        /\ n = applied' \/ n \in {k \in 1..issued : <<applied', k>> \in carried}
    BY <2>2 DEF Mirror!Apply, Mirror!With
  <2>4. n = applied'
    BY <2>1, <2>3 DEF Mirror!Parts
  <2>5. m <= applied
    <3>1. Riders \subseteq Mirror!Parts
      BY <2>1 DEF Riders, Mirror!Parts
    <3> QED
      BY <2>1, <3>1
  <2>6. m \in Nat
    BY <2>1
  <2> QED
    BY <2>1, <2>3, <2>4, <2>5, <2>6
<1> QED
  BY <1>1, IInvHolds, PTL DEF Spec, Mirror!NeverBack

=============================================================================
