------------------------ MODULE InOrderSequence_proofs ------------------------
(***************************************************************************)
(* Theorems of InOrderSequence, for any events. MasterCapture implements   *)
(* it (ImplementsSequence, in MasterCapture_proofs).                       *)
(*                                                                         *)
(* The inductive invariant: nothing that waits is older than the last that *)
(* was let through, and what is taken waits or has been let through.       *)
(***************************************************************************)
EXTENDS InOrderSequence, TLAPS

LastIsOldest ==
    sequenced # <<>> =>
        \A e \in waiting : ~Earlier(e.hlc, sequenced[Len(sequenced)].hlc)

WaitingIsTaken == \A e \in waiting : e.id \in taken

SequencedIsTaken == \A i \in DOMAIN sequenced : sequenced[i].id \in taken

WaitingIsNotSequenced ==
    \A e \in waiting : \A i \in DOMAIN sequenced : sequenced[i].id # e.id

WaitingIsOnce == \A e, f \in waiting : e.id = f.id => e = f

OrderInv == TypeOK /\ CausalOrder /\ LastIsOldest

OnceInv ==
    /\ TypeOK /\ OneNumberEach
    /\ WaitingIsTaken /\ SequencedIsTaken
    /\ WaitingIsNotSequenced /\ WaitingIsOnce

(* Clocks are ordered totally, up to equality.                             *)
LEMMA NotEarlierIsTransitive ==
    ASSUME NEW a \in Clocks, NEW b \in Clocks, NEW c \in Clocks,
           ~Earlier(b, a), ~Earlier(c, b)
    PROVE  ~Earlier(c, a)
BY DEF Clocks, Earlier

LEMMA NotEarlierThanItself ==
    ASSUME NEW a \in Clocks
    PROVE  ~Earlier(a, a)
BY DEF Clocks, Earlier

LEMMA Stamps ==
    ASSUME EventsAreStamped, NEW e \in Events
    PROVE  e.id \in Nat /\ e.hlc \in Clocks
BY DEF EventsAreStamped

LEMMA TypeInit == Init => TypeOK
BY DEF Init, TypeOK

LEMMA TypeNext == TypeOK /\ [Next]_vars => TypeOK'
<1> SUFFICES ASSUME TypeOK, [Next]_vars
             PROVE  TypeOK'
    OBVIOUS
<1> USE DEF TypeOK
<1>1. ASSUME NEW e \in Events, Take(e)
      PROVE  TypeOK'
  BY <1>1 DEF Take
<1>2. ASSUME NEW e \in waiting, Sequence(e)
      PROVE  TypeOK'
  BY <1>2 DEF Sequence
<1>3. CASE UNCHANGED vars
  BY <1>3 DEF vars
<1> QED
  BY <1>1, <1>2, <1>3 DEF Next

LEMMA OrderInit == Init => OrderInv
BY TypeInit DEF Init, OrderInv, CausalOrder, LastIsOldest

LEMMA OrderNext ==
    ASSUME EventsAreStamped
    PROVE  OrderInv /\ [Next]_vars => OrderInv'
<1> SUFFICES ASSUME OrderInv, [Next]_vars
             PROVE  OrderInv'
    OBVIOUS
<1>0. TypeOK /\ TypeOK'
  BY TypeNext DEF OrderInv
<1>1. ASSUME NEW e \in Events, Take(e)
      PROVE  CausalOrder' /\ LastIsOldest'
  BY <1>1 DEF Take, OrderInv, CausalOrder, LastIsOldest
<1>2. ASSUME NEW e \in waiting, Sequence(e)
      PROVE  CausalOrder' /\ LastIsOldest'
  <2> DEFINE n == Len(sequenced)
  <2>1. sequenced' = Append(sequenced, e) /\ e \in Events
    BY <1>0, <1>2 DEF Sequence, TypeOK
  <2>2. /\ n \in Nat /\ DOMAIN sequenced = 1..n
        /\ Len(sequenced') = n + 1 /\ DOMAIN sequenced' = 1..(n + 1)
        /\ sequenced'[n + 1] = e
        /\ \A i \in 1..n : sequenced'[i] = sequenced[i] /\ sequenced[i] \in Events
    BY <1>0, <2>1 DEF TypeOK
  <2>3. \A i \in 1..n : ~Earlier(e.hlc, sequenced[i].hlc)
    <3> SUFFICES ASSUME NEW i \in 1..n
                 PROVE  ~Earlier(e.hlc, sequenced[i].hlc)
        OBVIOUS
    <3>1. sequenced # <<>> /\ n \in 1..n
      BY <2>2
    <3>2. ~Earlier(e.hlc, sequenced[n].hlc)
      BY <3>1 DEF OrderInv, LastIsOldest
    <3>3. ~Earlier(sequenced[n].hlc, sequenced[i].hlc)
      <4>1. CASE i = n
        BY <4>1, <2>2, Stamps, NotEarlierThanItself
      <4>2. CASE i < n
        BY <4>2, <2>2, <3>1 DEF OrderInv, CausalOrder
      <4>3. n \in Nat /\ i \in 1..n => i = n \/ i < n
        OBVIOUS
      <4> QED
        BY <4>1, <4>2, <4>3, <2>2
    <3>4. /\ e.hlc \in Clocks /\ sequenced[n].hlc \in Clocks
          /\ sequenced[i].hlc \in Clocks
      BY <2>1, <2>2, <3>1, Stamps
    <3> QED
      BY <3>2, <3>3, <3>4, NotEarlierIsTransitive
  <2>4. CausalOrder'
    <3> SUFFICES ASSUME NEW i \in 1..(n + 1), NEW j \in 1..(n + 1), i < j
                 PROVE  ~Earlier(sequenced'[j].hlc, sequenced'[i].hlc)
        BY <2>2 DEF CausalOrder
    <3>1. CASE j = n + 1
      BY <3>1, <2>2, <2>3
    <3>2. CASE j # n + 1
      <4>1. i \in 1..n /\ j \in 1..n
        BY <3>2, <2>2
      <4> QED
        BY <4>1, <2>2 DEF OrderInv, CausalOrder
    <3> QED
      BY <3>1, <3>2
  <2>5. LastIsOldest'
    <3>1. waiting' = waiting \ {e}
      BY <1>2 DEF Sequence
    <3>2. \A f \in waiting : ~Earlier(f.hlc, e.hlc)
      BY <1>2 DEF Sequence
    <3> QED
      BY <3>1, <3>2, <2>2 DEF LastIsOldest
  <2> QED
    BY <2>4, <2>5
<1>3. ASSUME UNCHANGED vars
      PROVE  CausalOrder' /\ LastIsOldest'
  BY <1>3 DEF vars, OrderInv, CausalOrder, LastIsOldest
<1>4. CausalOrder' /\ LastIsOldest'
  BY <1>1, <1>2, <1>3 DEF Next
<1> QED
  BY <1>0, <1>4 DEF OrderInv

LEMMA OnceInit == Init => OnceInv
BY TypeInit DEF Init, OnceInv, OneNumberEach, WaitingIsTaken,
                SequencedIsTaken, WaitingIsNotSequenced, WaitingIsOnce

LEMMA OnceNext == OnceInv /\ [Next]_vars => OnceInv'
<1> SUFFICES ASSUME OnceInv, [Next]_vars
             PROVE  OnceInv'
    OBVIOUS
<1>0. TypeOK /\ TypeOK'
  BY TypeNext DEF OnceInv
<1> USE DEF OnceInv, OneNumberEach, WaitingIsTaken, SequencedIsTaken,
            WaitingIsNotSequenced, WaitingIsOnce
<1>1. ASSUME NEW e \in Events, Take(e)
      PROVE  OnceInv'
  <2>1. /\ e.id \notin taken /\ taken' = taken \union {e.id}
        /\ waiting' = waiting \union {e} /\ sequenced' = sequenced
    BY <1>1 DEF Take
  <2> QED
    BY <1>0, <2>1
<1>2. ASSUME NEW e \in waiting, Sequence(e)
      PROVE  OnceInv'
  <2> DEFINE n == Len(sequenced)
  <2>1. /\ taken' = taken /\ waiting' = waiting \ {e}
        /\ sequenced' = Append(sequenced, e)
    BY <1>2 DEF Sequence
  <2>2. /\ n \in Nat /\ DOMAIN sequenced = 1..n
        /\ DOMAIN sequenced' = 1..(n + 1) /\ sequenced'[n + 1] = e
        /\ \A i \in 1..n : sequenced'[i] = sequenced[i]
    BY <1>0, <2>1 DEF TypeOK
  <2>3. \A i \in 1..(n + 1) : i \in 1..n \/ i = n + 1
    BY <2>2
  <2>4. \A i \in 1..n : sequenced[i].id # e.id
    BY <2>2
  <2>5. OneNumberEach'
    BY <2>2, <2>3, <2>4
  <2>6. WaitingIsTaken' /\ SequencedIsTaken' /\ WaitingIsOnce'
    BY <2>1, <2>2, <2>3
  <2>7. WaitingIsNotSequenced'
    BY <2>1, <2>2, <2>3
  <2> QED
    BY <1>0, <2>5, <2>6, <2>7
<1>3. CASE UNCHANGED vars
  BY <1>0, <1>3 DEF vars
<1> QED
  BY <1>1, <1>2, <1>3 DEF Next

(* The events that get numbers get them in the order of their clocks.      *)
THEOREM SequencedInOrder ==
    ASSUME EventsAreStamped
    PROVE  Spec => []CausalOrder
<1>1. OrderInv => CausalOrder
  BY DEF OrderInv
<1>2. OrderInv /\ [Next]_vars => OrderInv'
  BY OrderNext
<1> QED
  BY <1>1, <1>2, OrderInit, PTL DEF Spec

(* ... and each gets one.                                                  *)
THEOREM SequencedOnce == Spec => []OneNumberEach
<1>1. OnceInv => OneNumberEach
  BY DEF OnceInv
<1> QED
  BY <1>1, OnceInit, OnceNext, PTL DEF Spec
=============================================================================
