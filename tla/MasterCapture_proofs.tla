------------------------- MODULE MasterCapture_proofs -------------------------
(***************************************************************************)
(* Theorems of MasterCapture: its invariants, and that it implements       *)
(* InOrderSequence.                                                        *)
(*                                                                         *)
(* What the heap does comes first, for any number of elements: of what is  *)
(* pushed nothing is lost or repeated (Pushing, Popping), and a parent     *)
(* goes before its children (Ordered), so that the root is the oldest      *)
(* (RootIsOldest). heapifyUp and heapifyDown take as many turns as there   *)
(* are elements. Up and Down say of a turn's state that only the element   *)
(* that moves can be out of place; the turns, a recursive function, are    *)
(* followed by SetInduction: the numbers of which something fails have a   *)
(* least one.                                                              *)
(*                                                                         *)
(* The inductive invariant IInv then follows an event from its page to its *)
(* number. TypeInv: what the variables are. Behind: no event is ahead of   *)
(* the clock of the document that sent it. DocumentsInOrder: of one        *)
(* document, a later event has a later clock, and what is emitted at once  *)
(* was made later. WiresInOrder: a frame's events leave its wire in the    *)
(* order they were emitted. PlacesInv: each event is in one place only.    *)
(* RingSound: what is unacknowledged in the main frame's ring is under way *)
(* or on its way back, in order. HeapInv: nothing that waits is before     *)
(* what has been numbered.                                                 *)
(* CountInv: each interaction, emitted or still to come, has a DOM event   *)
(* of its own, which bounds the ids. LateOnlyForOthers is inductive with   *)
(* the rest.                                                               *)
(***************************************************************************)
EXTENDS MasterCapture, FiniteSetTheorems, SequenceTheorems,
        WellFoundedInduction, TLAPS

-----------------------------------------------------------------------------
(* Numbers, and recursion on them.                                         *)

(* Every set of numbers has a least one.                                   *)
LEMMA LeastNumber ==
    ASSUME NEW S \in SUBSET Nat, S # {}
    PROVE  \E n \in S : \A m \in S : n <= m
<1> DEFINE R == OpToRel(<, Nat)
<1>1. IsWellFoundedOn(R, Nat)
  BY NatLessThanWellFounded
<1>2. PICK n \in S : \A m \in S : <<m, n>> \notin R
  <2> HIDE DEF R
  <2> QED
    BY <1>1, WFMin
<1>3. \A m \in S : ~(m < n)
  BY <1>2 DEF OpToRel
<1> QED
  BY <1>3

(* Induction, for a property given as the set of what has it.              *)
LEMMA SetInduction ==
    ASSUME NEW S, 0 \in S, \A n \in Nat : n \in S => n + 1 \in S
    PROVE  Nat \subseteq S
<1> SUFFICES ASSUME Nat \ S # {}
             PROVE  FALSE
    OBVIOUS
<1>1. PICK n \in Nat \ S : \A m \in Nat \ S : n <= m
  BY LeastNumber
<1>2. n # 0 /\ n - 1 \in Nat /\ n - 1 \in S
  BY <1>1
<1> QED
  BY <1>1, <1>2

(* From x, by T again and again.                                           *)
Repeats(f, X, x, T) ==
    /\ f \in [Nat -> X] /\ f[0] = x
    /\ \A n \in Nat : f[n + 1] = T[f[n]]

LEMMA Recursion ==
    ASSUME NEW X, NEW x \in X, NEW T \in [X -> X]
    PROVE  \E f : Repeats(f, X, x, T)
<1> DEFINE Part(n, g) == /\ g \in [0..n -> X] /\ g[0] = x
                         /\ \A i \in 0..n : i < n => g[i + 1] = T[g[i]]
           Has == {n \in Nat : \E g : Part(n, g)}
<1>1. \A n \in Nat : \E g : Part(n, g)
  <2>1. 0 \in Has
    <3>1. Part(0, [i \in 0..0 |-> x])
      OBVIOUS
    <3> QED
      BY <3>1
  <2>2. ASSUME NEW n \in Nat, n \in Has
        PROVE  n + 1 \in Has
    <3>1. PICK g : Part(n, g)
      BY <2>2
    <3> DEFINE h == [i \in 0..(n + 1) |-> IF i = n + 1 THEN T[g[n]] ELSE g[i]]
    <3>2. h \in [0..(n + 1) -> X] /\ h[0] = x
      BY <3>1
    <3>3. ASSUME NEW i \in 0..(n + 1), i < n + 1
          PROVE  h[i + 1] = T[h[i]]
      <4>1. CASE i = n
        BY <4>1
      <4>2. CASE i < n
        BY <3>1, <4>2
      <4> QED
        BY <3>3, <4>1, <4>2
    <3>4. Part(n + 1, h)
      BY <3>2, <3>3
    <3> QED
      BY <3>4
  <2>3. Nat \subseteq Has
    <3> HIDE DEF Has
    <3> QED
      BY <2>1, <2>2, SetInduction
  <2> QED
    BY <2>3
<1>2. ASSUME NEW m \in Nat, NEW n \in Nat, m <= n, NEW g, NEW h, Part(m, g), Part(n, h)
      PROVE  \A i \in 0..m : g[i] = h[i]
  <2> DEFINE Same == {i \in Nat : i <= m => g[i] = h[i]}
  <2>1. 0 \in Same
    BY <1>2
  <2>2. ASSUME NEW i \in Nat, i \in Same PROVE i + 1 \in Same
    <3> SUFFICES ASSUME i + 1 <= m PROVE g[i + 1] = h[i + 1]
      OBVIOUS
    <3>1. g[i] = h[i] /\ i \in 0..m /\ i \in 0..n /\ i < m /\ i < n
      BY <1>2, <2>2
    <3>2. g[i + 1] = T[g[i]] /\ h[i + 1] = T[h[i]]
      BY <1>2, <3>1
    <3> QED
      BY <3>1, <3>2
  <2>3. Nat \subseteq Same
    <3> HIDE DEF Same
    <3> QED
      BY <2>1, <2>2, SetInduction
  <2> QED
    BY <2>3
<1> DEFINE part == [n \in Nat |-> CHOOSE g : Part(n, g)]
           f == [n \in Nat |-> part[n][n]]
<1>3. \A n \in Nat : Part(n, part[n])
  <2> HIDE DEF Part
  <2> QED
    BY <1>1
<1> HIDE DEF part
<1>4. \A n \in Nat : f[n] = part[n][n] /\ f[n] \in X
  BY <1>3
<1>5. f[0] = x
  BY <1>3, <1>4
<1>6. ASSUME NEW n \in Nat PROVE f[n + 1] = T[f[n]]
  <2>1. Part(n, part[n]) /\ Part(n + 1, part[n + 1])
    <3> HIDE DEF Part
    <3> QED
      BY <1>3
  <2>2. part[n + 1][n] = part[n][n]
    <3> HIDE DEF Part
    <3>1. \A i \in 0..n : part[n][i] = part[n + 1][i]
      BY <1>2, <2>1
    <3> QED
      BY <3>1
  <2>3. part[n + 1][n + 1] = T[part[n + 1][n]]
    BY <2>1
  <2> HIDE DEF f
  <2> QED
    BY <1>4, <2>2, <2>3
<1> QED
  BY <1>4, <1>5, <1>6 DEF Repeats

-----------------------------------------------------------------------------
(* The heap, for any elements with a clock, a depth and an id.             *)
Clock == [physical : Nat, logical : Nat]

Comparable(E) == \A e \in E : e.hlc \in Clock /\ e.depth \in Nat

LEMMA LessIsAnOrder ==
    ASSUME NEW E, Comparable(E), NEW a \in E, NEW b \in E, NEW c \in E
    PROVE  /\ ~Less(a, a)
           /\ Less(a, b) => ~Less(b, a)
           /\ ~Less(b, a) /\ ~Less(c, b) => ~Less(c, a)
           /\ Less(a, b) /\ ~Less(c, b) => ~Less(c, a)
           /\ ~Less(b, a) => ~Earlier(b.hlc, a.hlc)
<1>1. /\ a.hlc.physical \in Nat /\ a.hlc.logical \in Nat /\ a.depth \in Nat
      /\ b.hlc.physical \in Nat /\ b.hlc.logical \in Nat /\ b.depth \in Nat
      /\ c.hlc.physical \in Nat /\ c.hlc.logical \in Nat /\ c.depth \in Nat
  BY DEF Comparable, Clock
<1>2. /\ a.hlc = b.hlc <=> /\ a.hlc.physical = b.hlc.physical
                           /\ a.hlc.logical = b.hlc.logical
      /\ b.hlc = c.hlc <=> /\ b.hlc.physical = c.hlc.physical
                           /\ b.hlc.logical = c.hlc.logical
      /\ a.hlc = c.hlc <=> /\ a.hlc.physical = c.hlc.physical
                           /\ a.hlc.logical = c.hlc.logical
  BY DEF Comparable, Clock
<1> QED
  BY <1>1, <1>2 DEF Less, Earlier

LEMMA Halves ==
    ASSUME NEW i \in Nat \ {0}
    PROVE  /\ i \div 2 \in Nat
           /\ i > 1 => i \div 2 >= 1 /\ i \div 2 < i
           /\ \A j \in Nat : i = j \div 2 <=> j = 2 * i \/ j = 2 * i + 1
OBVIOUS

(* The parent goes before.                                                 *)
Ordered(h) == \A i \in 2..Len(h) : ~Less(h[i], h[i \div 2])

OnceEach(h) == \A i, j \in DOMAIN h : h[i].id = h[j].id => i = j

Array(h, N) == h = [k \in 1..N |-> h[k]]

LEMMA SwappedValues ==
    ASSUME NEW N \in Nat, NEW h, Array(h, N),
           NEW i \in 1..N, NEW j \in 1..N
    PROVE  Swapped(h, i, j) = [k \in 1..N |-> IF k = i THEN h[j]
                                              ELSE IF k = j THEN h[i] ELSE h[k]]
BY DEF Swapped, Array

LEMMA SwappedOnce ==
    ASSUME NEW N \in Nat, NEW h, Array(h, N),
           NEW i \in 1..N, NEW j \in 1..N, OnceEach(h)
    PROVE  OnceEach(Swapped(h, i, j))
<1> DEFINE s == Swapped(h, i, j)
<1>1. s = [k \in 1..N |-> IF k = i THEN h[j] ELSE IF k = j THEN h[i] ELSE h[k]]
  BY SwappedValues
<1>2. DOMAIN h = 1..N
  BY DEF Array
<1> HIDE DEF s
<1>3. /\ DOMAIN s = 1..N /\ s[i] = h[j] /\ s[j] = h[i]
      /\ \A k \in 1..N : k # i /\ k # j => s[k] = h[k]
  BY <1>1
<1>4. OnceEach(s)
  BY <1>2, <1>3 DEF OnceEach
<1> QED
  BY <1>4 DEF s

LEMMA SwappedSet ==
    ASSUME NEW N \in Nat, NEW h, Array(h, N),
           NEW i \in 1..N, NEW j \in 1..N
    PROVE  ToSet(Swapped(h, i, j)) = ToSet(h)
<1> DEFINE s == Swapped(h, i, j)
<1>1. s = [k \in 1..N |-> IF k = i THEN h[j] ELSE IF k = j THEN h[i] ELSE h[k]]
  BY SwappedValues
<1>2. DOMAIN h = 1..N
  BY DEF Array
<1> HIDE DEF s
<1>3. /\ DOMAIN s = 1..N /\ s[i] = h[j] /\ s[j] = h[i]
      /\ \A k \in 1..N : k # i /\ k # j => s[k] = h[k]
  BY <1>1
<1>4. ToSet(s) = ToSet(h)
  BY <1>2, <1>3 DEF ToSet
<1> QED
  BY <1>4 DEF s

(* The states of a heapify of N elements.                                  *)
Turns(E, N) == [heap : [1..N -> E], at : 1..N]

(* Climbing is repeating Climb, as Sinking is repeating Sink.              *)
LEMMA OnceIsOnce ==
    ASSUME NEW x
    PROVE  Once(Climb, x) = Climb(x) /\ Once(Sink, x) = Sink(x)
BY DEF Once

LEMMA ClimbingRepeats ==
    ASSUME NEW X, NEW h, [heap |-> h, at |-> Len(h)] \in X,
           \A s \in X : Climb(s) \in X
    PROVE  /\ Climbing(h)[0] = [heap |-> h, at |-> Len(h)]
           /\ \A n \in Nat : /\ Climbing(h)[n] \in X
                             /\ Climbing(h)[n + 1] = Climb(Climbing(h)[n])
<1> DEFINE x == [heap |-> h, at |-> Len(h)]
           T == [s \in X |-> Climb(s)]
           Is(f) == f = [n \in Nat |-> IF n = 0 THEN [heap |-> h, at |-> Len(h)]
                                       ELSE Once(Climb, f[n - 1])]
<1>1. PICK f : Repeats(f, X, x, T)
  <2> HIDE DEF T, x
  <2>1. x \in X /\ T \in [X -> X]
    BY DEF T, x
  <2> QED
    BY <2>1, Recursion
<1>2. Is(f)
  <2>1. f \in [Nat -> X] /\ f[0] = x /\ \A n \in Nat : f[n + 1] = Climb(f[n])
    BY <1>1 DEF Repeats
  <2>2. \A n \in Nat : n # 0 => f[n] = Once(Climb, f[n - 1])
    <3> SUFFICES ASSUME NEW n \in Nat, n # 0
                 PROVE  f[n] = Climb(f[n - 1])
        BY OnceIsOnce
    <3>1. n - 1 \in Nat /\ (n - 1) + 1 = n
      OBVIOUS
    <3> QED
      BY <2>1, <3>1
  <2> QED
    BY <2>1, <2>2
<1>3. Climbing(h) = CHOOSE g : Is(g)
  BY DEF Climbing
<1>4. Is(Climbing(h))
  <2> HIDE DEF Is
  <2> QED
    BY <1>2, <1>3
<1> DEFINE g == Climbing(h)
<1> HIDE DEF g
<1>5. g = [n \in Nat |-> IF n = 0 THEN x ELSE Once(Climb, g[n - 1])]
  BY <1>4 DEF g
<1>6. g[0] = x /\ \A n \in Nat : g[n + 1] = Climb(g[n])
  <2>1. g[0] = x
    BY <1>5
  <2>2. ASSUME NEW n \in Nat PROVE g[n + 1] = Climb(g[n])
    <3>1. n + 1 \in Nat /\ n + 1 # 0 /\ (n + 1) - 1 = n
      OBVIOUS
    <3>2. g[n + 1] = Once(Climb, g[n])
      BY <1>5, <3>1
    <3> QED
      BY <3>2, OnceIsOnce
  <2> QED
    BY <2>1, <2>2
<1>7. \A n \in Nat : g[n] \in X
  <2> DEFINE In == {n \in Nat : g[n] \in X}
  <2>1. 0 \in In
    <3>1. x \in X
      OBVIOUS
    <3> HIDE DEF x
    <3> QED
      BY <1>6, <3>1
  <2>2. ASSUME NEW n \in Nat, n \in In PROVE n + 1 \in In
    <3>1. g[n] \in X /\ g[n + 1] = Climb(g[n])
      BY <1>6, <2>2
    <3>2. Climb(g[n]) \in X
      BY <3>1
    <3> QED
      BY <3>1, <3>2
  <2>3. Nat \subseteq In
    <3> HIDE DEF In
    <3> QED
      BY <2>1, <2>2, SetInduction
  <2> QED
    BY <2>3
<1> QED
  BY <1>6, <1>7 DEF g

LEMMA SinkingRepeats ==
    ASSUME NEW X, NEW h, [heap |-> h, at |-> 1] \in X,
           \A s \in X : Sink(s) \in X
    PROVE  /\ Sinking(h)[0] = [heap |-> h, at |-> 1]
           /\ \A n \in Nat : /\ Sinking(h)[n] \in X
                             /\ Sinking(h)[n + 1] = Sink(Sinking(h)[n])
<1> DEFINE x == [heap |-> h, at |-> 1]
           T == [s \in X |-> Sink(s)]
           Is(f) == f = [n \in Nat |-> IF n = 0 THEN [heap |-> h, at |-> 1]
                                       ELSE Once(Sink, f[n - 1])]
<1>1. PICK f : Repeats(f, X, x, T)
  <2> HIDE DEF T, x
  <2>1. x \in X /\ T \in [X -> X]
    BY DEF T, x
  <2> QED
    BY <2>1, Recursion
<1>2. Is(f)
  <2>1. f \in [Nat -> X] /\ f[0] = x /\ \A n \in Nat : f[n + 1] = Sink(f[n])
    BY <1>1 DEF Repeats
  <2>2. \A n \in Nat : n # 0 => f[n] = Once(Sink, f[n - 1])
    <3> SUFFICES ASSUME NEW n \in Nat, n # 0
                 PROVE  f[n] = Sink(f[n - 1])
        BY OnceIsOnce
    <3>1. n - 1 \in Nat /\ (n - 1) + 1 = n
      OBVIOUS
    <3> QED
      BY <2>1, <3>1
  <2> QED
    BY <2>1, <2>2
<1>3. Sinking(h) = CHOOSE g : Is(g)
  BY DEF Sinking
<1>4. Is(Sinking(h))
  <2> HIDE DEF Is
  <2> QED
    BY <1>2, <1>3
<1> DEFINE g == Sinking(h)
<1> HIDE DEF g
<1>5. g = [n \in Nat |-> IF n = 0 THEN x ELSE Once(Sink, g[n - 1])]
  BY <1>4 DEF g
<1>6. g[0] = x /\ \A n \in Nat : g[n + 1] = Sink(g[n])
  <2>1. g[0] = x
    BY <1>5
  <2>2. ASSUME NEW n \in Nat PROVE g[n + 1] = Sink(g[n])
    <3>1. n + 1 \in Nat /\ n + 1 # 0 /\ (n + 1) - 1 = n
      OBVIOUS
    <3>2. g[n + 1] = Once(Sink, g[n])
      BY <1>5, <3>1
    <3> QED
      BY <3>2, OnceIsOnce
  <2> QED
    BY <2>1, <2>2
<1>7. \A n \in Nat : g[n] \in X
  <2> DEFINE In == {n \in Nat : g[n] \in X}
  <2>1. 0 \in In
    <3>1. x \in X
      OBVIOUS
    <3> HIDE DEF x
    <3> QED
      BY <1>6, <3>1
  <2>2. ASSUME NEW n \in Nat, n \in In PROVE n + 1 \in In
    <3>1. g[n] \in X /\ g[n + 1] = Sink(g[n])
      BY <1>6, <2>2
    <3>2. Sink(g[n]) \in X
      BY <3>1
    <3> QED
      BY <3>1, <3>2
  <2>3. Nat \subseteq In
    <3> HIDE DEF In
    <3> QED
      BY <2>1, <2>2, SetInduction
  <2> QED
    BY <2>3
<1> QED
  BY <1>6, <1>7 DEF g

-----------------------------------------------------------------------------
(* heapifyUp: only the element that climbs may have to go before its       *)
(* parent.                                                                 *)
Up(h, s) ==
    /\ s.heap \in [1..Len(h) -> ToSet(h)] /\ s.at \in 1..Len(h)
    /\ ToSet(s.heap) = ToSet(h) /\ OnceEach(s.heap)
    /\ \A i \in 2..Len(h) : i # s.at => ~Less(s.heap[i], s.heap[i \div 2])
    /\ s.at > 1 =>
           \A c \in 2..Len(h) :
               c \div 2 = s.at => ~Less(s.heap[c], s.heap[s.at \div 2])

Risen(s) == s.at > 1 => ~Less(s.heap[s.at], s.heap[s.at \div 2])

LEMMA ClimbFacts ==
    ASSUME NEW E, Comparable(E), NEW h \in Seq(E), NEW s, Up(h, s),
           s = [heap |-> s.heap, at |-> s.at]
    PROVE  /\ Up(h, Climb(s))
           /\ Climb(s) = [heap |-> Climb(s).heap, at |-> Climb(s).at]
           /\ Risen(s) => Climb(s) = s
           /\ ~Risen(s) => Climb(s).at < s.at
<1> DEFINE N == Len(h)
           a == s.heap
           p == s.at \div 2
           t == Climb(s)
           b == t.heap
<1>1. CASE Risen(s)
  BY <1>1 DEF Risen, Climb
<1>2. CASE ~Risen(s)
  <2>1. /\ s.at > 1 /\ Less(a[s.at], a[p])
        /\ t = [heap |-> Swapped(a, s.at, p), at |-> p]
    BY <1>2 DEF Risen, Climb
  <2>2. N \in Nat /\ ToSet(h) \subseteq E
    BY DEF ToSet
  <2>3. a \in [1..N -> ToSet(h)] /\ s.at \in 1..N /\ OnceEach(a) /\ ToSet(a) = ToSet(h)
    BY DEF Up
  <2>4. p \in 1..N /\ p < s.at
    BY <2>1, <2>2, <2>3, Halves
  <2>5. t.at = p /\ b = Swapped(a, s.at, p)
    BY <2>1
  <2> HIDE DEF t, a, p, b, N
  <2>6. /\ b \in [1..N -> ToSet(h)] /\ OnceEach(b) /\ ToSet(b) = ToSet(h)
        /\ b[s.at] = a[p] /\ b[p] = a[s.at]
        /\ \A k \in 1..N : k # s.at /\ k # p => b[k] = a[k]
    <3> DEFINE F == ToSet(h)
               i == s.at
    <3>1. /\ N \in Nat /\ a \in [1..N -> F] /\ OnceEach(a)
          /\ i \in 1..N /\ p \in 1..N /\ b = Swapped(a, i, p) /\ ToSet(a) = F
      BY <2>2, <2>3, <2>4, <2>5
    <3>a. Array(a, N)
      BY <3>1 DEF Array
    <3> HIDE DEF F, i
    <3>2. b = [k \in 1..N |-> IF k = i THEN a[p]
                              ELSE IF k = p THEN a[i] ELSE a[k]]
      BY <3>1, <3>a, SwappedValues
    <3>3. OnceEach(b)
      BY <3>1, <3>a, SwappedOnce
    <3>4. ToSet(b) = F
      BY <3>1, <3>a, SwappedSet
    <3>5. b \in [1..N -> F]
      BY <3>1, <3>2
    <3>6. /\ b[i] = a[p] /\ b[p] = a[i]
          /\ \A k \in 1..N : k # i /\ k # p => b[k] = a[k]
      BY <3>1, <3>2
    <3> QED
      BY <3>3, <3>4, <3>5, <3>6 DEF F, i
  <2>7. \A k \in 1..N : a[k] \in E
    BY <2>2, <2>3
  <2>8. /\ \A i \in 2..N : i # s.at => ~Less(a[i], a[i \div 2])
        /\ \A c \in 2..N : c \div 2 = s.at => ~Less(a[c], a[p])
    BY <2>1 DEF Up, a, p, N
  <2>9. ASSUME NEW i \in 2..N, i # p
        PROVE  ~Less(b[i], b[i \div 2])
    <3>1. i \in 1..N /\ i \div 2 \in 1..N /\ i \div 2 < i
      BY <2>2, Halves
    <3>2. CASE i = s.at
      <4>1. i \div 2 = p
        BY <3>2 DEF p
      <4> QED
        BY <2>1, <2>3, <2>4, <2>6, <2>7, <3>2, <4>1, LessIsAnOrder
    <3>3. CASE i \div 2 = s.at
      <4>1. ~Less(a[i], a[p]) /\ i # s.at
        BY <2>8, <3>1, <3>3
      <4> QED
        BY <2>6, <2>9, <3>1, <3>3, <4>1
    <3>4. CASE i # s.at /\ i \div 2 = p
      <4>1. ~Less(a[i], a[p])
        BY <2>8, <3>4
      <4>2. ~Less(a[i], a[s.at])
        BY <2>1, <2>3, <2>4, <2>7, <3>1, <4>1, LessIsAnOrder
      <4> QED
        BY <2>6, <2>9, <3>1, <3>4, <4>2
    <3>5. CASE i # s.at /\ i \div 2 # s.at /\ i \div 2 # p
      BY <2>6, <2>8, <2>9, <3>1, <3>5
    <3> QED
      BY <3>2, <3>3, <3>4, <3>5
  <2>10. ASSUME p > 1, NEW c \in 2..N, c \div 2 = p
         PROVE  ~Less(b[c], b[p \div 2])
    <3>1. p \div 2 \in 1..N /\ p \div 2 < p /\ p \in 2..N /\ p # s.at
      BY <2>2, <2>4, <2>10, Halves
    <3>2. b[p \div 2] = a[p \div 2] /\ ~Less(a[p], a[p \div 2])
      BY <2>4, <2>6, <2>8, <3>1
    <3>3. CASE c = s.at
      BY <2>6, <3>2, <3>3
    <3>4. CASE c # s.at
      <4>1. c \in 1..N /\ c # p
        BY <2>2, <2>10, <3>1, Halves
      <4>2. b[c] = a[c] /\ ~Less(a[c], a[p])
        BY <2>6, <2>8, <2>10, <3>4, <4>1
      <4> QED
        BY <2>4, <2>7, <3>1, <3>2, <4>1, <4>2, LessIsAnOrder
    <3> QED
      BY <3>3, <3>4
  <2> QED
    BY <1>2, <2>1, <2>4, <2>5, <2>6, <2>9, <2>10 DEF Up, N, b, t
<1> QED
  BY <1>1, <1>2

LEMMA Climbed ==
    ASSUME NEW E, Comparable(E), NEW h \in Seq(E), h # <<>>, OnceEach(h),
           \A i \in 2..Len(h) : i # Len(h) => ~Less(h[i], h[i \div 2])
    PROVE  /\ HeapifyUp(h) \in Seq(E) /\ Len(HeapifyUp(h)) = Len(h)
           /\ ToSet(HeapifyUp(h)) = ToSet(h)
           /\ OnceEach(HeapifyUp(h)) /\ Ordered(HeapifyUp(h))
<1> DEFINE N == Len(h)
           x == [heap |-> h, at |-> N]
           X == {s \in Turns(ToSet(h), N) : Up(h, s)}
           g == Climbing(h)
<1>1. N \in Nat \ {0} /\ h \in [1..N -> ToSet(h)] /\ ToSet(h) \subseteq E
  BY DEF ToSet
<1>2. x \in X
  <2> HIDE DEF N
  <2>1. ASSUME NEW c \in 2..N PROVE c \div 2 # N
    BY <1>1, Halves
  <2>2. \A i \in 2..N : i # N => ~Less(h[i], h[i \div 2])
    BY DEF N
  <2>3. x.heap = h /\ x.at = N
    OBVIOUS
  <2> HIDE DEF x
  <2>4. Up(h, x)
    <3>1. /\ x.heap \in [1..N -> ToSet(h)] /\ x.at \in 1..N
          /\ ToSet(x.heap) = ToSet(h) /\ OnceEach(x.heap)
      BY <1>1, <2>3
    <3>2. \A i \in 2..N : i # x.at => ~Less(x.heap[i], x.heap[i \div 2])
      BY <2>2, <2>3
    <3>3. \A c \in 2..N : c \div 2 # x.at
      BY <2>1, <2>3
    <3> QED
      BY <3>1, <3>2, <3>3 DEF Up, N
  <2>5. x \in Turns(ToSet(h), N)
    BY <1>1 DEF Turns, x
  <2> QED
    BY <2>4, <2>5
<1>3. \A s \in X : /\ Climb(s) \in X
                   /\ Risen(s) => Climb(s) = s
                   /\ ~Risen(s) => Climb(s).at < s.at
  <2> SUFFICES ASSUME NEW s \in X
               PROVE  /\ Climb(s) \in X
                      /\ Risen(s) => Climb(s) = s
                      /\ ~Risen(s) => Climb(s).at < s.at
      OBVIOUS
  <2>1. Up(h, s) /\ s = [heap |-> s.heap, at |-> s.at]
    BY DEF Turns
  <2>2. /\ Up(h, Climb(s))
        /\ Climb(s) = [heap |-> Climb(s).heap, at |-> Climb(s).at]
        /\ Risen(s) => Climb(s) = s
        /\ ~Risen(s) => Climb(s).at < s.at
    BY <2>1, ClimbFacts
  <2>3. Climb(s) \in Turns(ToSet(h), N)
    <3>1. Climb(s).heap \in [1..N -> ToSet(h)] /\ Climb(s).at \in 1..N
      BY <2>2 DEF Up
    <3> QED
      BY <2>2, <3>1 DEF Turns
  <2> QED
    BY <2>2, <2>3
<1>4. g[0] = x /\ \A n \in Nat : g[n] \in X /\ g[n + 1] = Climb(g[n])
  <2> HIDE DEF X
  <2> QED
    BY <1>2, <1>3, ClimbingRepeats
<1> HIDE DEF g
<1>5. \A n \in Nat : Risen(g[n]) \/ g[n].at <= N - n
  <2> HIDE DEF N, X
  <2> DEFINE Near == {n \in Nat : Risen(g[n]) \/ g[n].at <= N - n}
  <2>1. 0 \in Near
    <3>1. g[0].at = N
      BY <1>4
    <3> QED
      BY <1>1, <3>1
  <2>2. ASSUME NEW n \in Nat, n \in Near PROVE n + 1 \in Near
    <3>1. /\ g[n] \in X /\ g[n + 1] \in X /\ g[n + 1] = Climb(g[n])
      BY <1>4
    <3>2. g[n].at \in Nat /\ g[n + 1].at \in Nat
      BY <1>1, <3>1 DEF Turns, X
    <3>3. CASE Risen(g[n])
      <4>1. g[n + 1] = g[n]
        BY <1>3, <3>1, <3>3
      <4> QED
        BY <3>3, <4>1
    <3>4. CASE ~Risen(g[n])
      <4>1. g[n + 1].at < g[n].at /\ g[n].at <= N - n
        BY <1>3, <2>2, <3>1, <3>4
      <4>2. g[n + 1].at <= N - (n + 1)
        BY <1>1, <3>2, <4>1
      <4> QED
        BY <4>2 DEF Near
    <3> QED
      BY <3>3, <3>4
  <2>3. Nat \subseteq Near
    <3> HIDE DEF Near
    <3> QED
      BY <2>1, <2>2, SetInduction
  <2> QED
    BY <2>3
<1>6. Up(h, g[N]) /\ Risen(g[N])
  <2> HIDE DEF N
  <2>1. g[N] \in X /\ (Risen(g[N]) \/ g[N].at <= N - N)
    BY <1>1, <1>4, <1>5
  <2>2. g[N].at \in 1..N /\ Up(h, g[N])
    BY <2>1 DEF Turns
  <2> HIDE DEF X
  <2>3. CASE g[N].at <= N - N
    BY <1>1, <2>2, <2>3
  <2> QED
    BY <2>1, <2>2, <2>3
<1> DEFINE r == g[N].heap
<1>7. HeapifyUp(h) = r
  BY DEF HeapifyUp, g
<1>8. /\ r \in [1..N -> ToSet(h)] /\ ToSet(r) = ToSet(h) /\ OnceEach(r)
      /\ \A i \in 2..N : ~Less(r[i], r[i \div 2])
  <2>1. /\ r \in [1..N -> ToSet(h)] /\ ToSet(r) = ToSet(h) /\ OnceEach(r)
        /\ g[N].at \in 1..N
        /\ \A i \in 2..N : i # g[N].at => ~Less(r[i], r[i \div 2])
    BY <1>6 DEF Up
  <2>2. g[N].at > 1 => ~Less(r[g[N].at], r[g[N].at \div 2])
    BY <1>6 DEF Risen
  <2> HIDE DEF r, N
  <2> QED
    BY <1>1, <2>1, <2>2
<1> HIDE DEF r, N
<1>9. r \in Seq(E) /\ Len(r) = N
  BY <1>1, <1>8
<1> QED
  BY <1>7, <1>8, <1>9 DEF Ordered, N

-----------------------------------------------------------------------------
(* heapifyDown: only the children of the element that sinks may have to go *)
(* before it.                                                              *)
Down(h, s) ==
    /\ s.heap \in [1..Len(h) -> ToSet(h)] /\ s.at \in 1..Len(h)
    /\ ToSet(s.heap) = ToSet(h) /\ OnceEach(s.heap)
    /\ \A i \in 2..Len(h) : i \div 2 # s.at => ~Less(s.heap[i], s.heap[i \div 2])
    /\ s.at > 1 =>
           \A c \in 2..Len(h) :
               c \div 2 = s.at => ~Less(s.heap[c], s.heap[s.at \div 2])

Settling(s) == Smallest(s.heap, s.at) # s.at

LEMMA SmallestFacts ==
    ASSUME NEW E, Comparable(E), NEW N \in Nat, NEW a \in [1..N -> E], NEW i \in 1..N
    PROVE  LET m == Smallest(a, i)
           IN  /\ m \in 1..N
               /\ m = i \/ m = 2 * i \/ m = 2 * i + 1
               /\ ~Less(a[i], a[m])
               /\ m # i => Less(a[m], a[i])
               /\ \A c \in 2..N : c \div 2 = i => ~Less(a[c], a[m])
<1> DEFINE l == IF 2 * i <= N /\ Less(a[2 * i], a[i]) THEN 2 * i ELSE i
           m == IF 2 * i + 1 <= N /\ Less(a[2 * i + 1], a[l]) THEN 2 * i + 1 ELSE l
<1>1. Smallest(a, i) = m
  <2>1. Len(a) = N
    OBVIOUS
  <2> QED
    BY <2>1 DEF Smallest
<1>2. \A k \in 1..N : a[k] \in E
  OBVIOUS
<1>3. /\ l \in 1..N /\ (l = i \/ l = 2 * i)
      /\ l # i => Less(a[l], a[i])
      /\ 2 * i <= N => ~Less(a[2 * i], a[l])
      /\ ~Less(a[i], a[l])
  <2>1. CASE 2 * i <= N /\ Less(a[2 * i], a[i])
    <3>1. l = 2 * i /\ 2 * i \in 1..N
      BY <2>1
    <3> QED
      BY <1>2, <2>1, <3>1, LessIsAnOrder
  <2>2. CASE ~(2 * i <= N /\ Less(a[2 * i], a[i]))
    BY <1>2, <2>2, LessIsAnOrder
  <2> QED
    BY <2>1, <2>2
<1> HIDE DEF l
<1>4. /\ m \in 1..N /\ (m = l \/ m = 2 * i + 1)
      /\ m # i => Less(a[m], a[i])
      /\ 2 * i <= N => ~Less(a[2 * i], a[m])
      /\ 2 * i + 1 <= N => ~Less(a[2 * i + 1], a[m])
      /\ ~Less(a[i], a[m])
  <2>1. CASE 2 * i + 1 <= N /\ Less(a[2 * i + 1], a[l])
    <3>1. m = 2 * i + 1 /\ 2 * i + 1 \in 1..N /\ 2 * i \in 1..N
      BY <2>1
    <3>2. Less(a[m], a[l])
      BY <2>1, <3>1
    <3> HIDE DEF m
    <3>3. ~Less(a[i], a[m]) /\ ~Less(a[2 * i], a[m]) /\ ~Less(a[m], a[m])
      BY <1>2, <1>3, <3>1, <3>2, LessIsAnOrder
    <3>4. Less(a[m], a[i])
      <4> SUFFICES ASSUME ~Less(a[m], a[i]) PROVE FALSE
        OBVIOUS
      <4>1. ~Less(a[m], a[l])
        BY <1>2, <1>3, <3>1, LessIsAnOrder
      <4> QED
        BY <3>2, <4>1
    <3> QED
      BY <3>1, <3>3, <3>4
  <2>2. CASE ~(2 * i + 1 <= N /\ Less(a[2 * i + 1], a[l]))
    <3>1. m = l
      BY <2>2
    <3> QED
      BY <1>3, <2>2, <3>1
  <2> QED
    BY <2>1, <2>2
<1> HIDE DEF m
<1>5. \A c \in 2..N : c \div 2 = i => c = 2 * i \/ c = 2 * i + 1
  BY Halves
<1> QED
  BY <1>1, <1>3, <1>4, <1>5

LEMMA SinkFacts ==
    ASSUME NEW E, Comparable(E), NEW h \in Seq(E), NEW s, Down(h, s),
           s = [heap |-> s.heap, at |-> s.at]
    PROVE  /\ Down(h, Sink(s))
           /\ Sink(s) = [heap |-> Sink(s).heap, at |-> Sink(s).at]
           /\ ~Settling(s) => Sink(s) = s
           /\ Settling(s) => Sink(s).at > s.at
<1> DEFINE N == Len(h)
           a == s.heap
           m == Smallest(a, s.at)
           t == Sink(s)
           b == t.heap
<1>1. N \in Nat /\ ToSet(h) \subseteq E
  BY DEF ToSet
<1>2. a \in [1..N -> ToSet(h)] /\ s.at \in 1..N /\ OnceEach(a) /\ ToSet(a) = ToSet(h)
  BY DEF Down
<1>3. /\ m \in 1..N
      /\ m = s.at \/ m = 2 * s.at \/ m = 2 * s.at + 1
      /\ ~Less(a[s.at], a[m])
      /\ m # s.at => Less(a[m], a[s.at])
      /\ \A c \in 2..N : c \div 2 = s.at => ~Less(a[c], a[m])
  <2>1. Comparable(ToSet(h))
    BY <1>1 DEF Comparable
  <2> HIDE DEF m, a, N
  <2> QED
    BY <1>1, <1>2, <2>1, SmallestFacts DEF m
<1>4. t = [heap |-> Swapped(a, s.at, m), at |-> m] /\ t.at = m /\ b = Swapped(a, s.at, m)
  BY DEF Sink
<1> HIDE DEF t, m, a, b, N
<1>5. /\ b \in [1..N -> ToSet(h)] /\ OnceEach(b) /\ ToSet(b) = ToSet(h)
      /\ b[s.at] = a[m] /\ b[m] = a[s.at]
      /\ \A k \in 1..N : k # s.at /\ k # m => b[k] = a[k]
      /\ s.at = m => b = a
  <2> DEFINE F == ToSet(h)
             i == s.at
  <2>1. /\ N \in Nat /\ a \in [1..N -> F] /\ OnceEach(a)
        /\ i \in 1..N /\ m \in 1..N /\ b = Swapped(a, i, m) /\ ToSet(a) = F
    BY <1>1, <1>2, <1>3, <1>4
  <2>a. Array(a, N)
    BY <2>1 DEF Array
  <2> HIDE DEF F, i
  <2>2. b = [k \in 1..N |-> IF k = i THEN a[m]
                            ELSE IF k = m THEN a[i] ELSE a[k]]
    BY <2>1, <2>a, SwappedValues
  <2>3. OnceEach(b)
    BY <2>1, <2>a, SwappedOnce
  <2>4. ToSet(b) = F
    BY <2>1, <2>a, SwappedSet
  <2>5. b \in [1..N -> F] /\ (i = m => b = a)
    BY <2>1, <2>2
  <2>6. /\ b[i] = a[m] /\ b[m] = a[i]
        /\ \A k \in 1..N : k # i /\ k # m => b[k] = a[k]
    BY <2>1, <2>2
  <2> QED
    BY <2>3, <2>4, <2>5, <2>6 DEF F, i
<1>6. CASE m = s.at
  <2>1. t = s /\ ~Settling(s)
    BY <1>4, <1>5, <1>6 DEF Settling, m, a, b
  <2> QED
    BY <2>1 DEF t
<1>7. CASE m # s.at
  <2>1. Settling(s) /\ m > s.at /\ m \div 2 = s.at /\ m \in 2..N
    <3>1. m \div 2 = s.at
      BY <1>2, <1>3, <1>7, Halves
    <3> QED
      BY <1>1, <1>2, <1>3, <1>7, <3>1 DEF Settling, m, a
  <2>2. \A k \in 1..N : a[k] \in E
    BY <1>1, <1>2
  <2>3. /\ \A i \in 2..N : i \div 2 # s.at => ~Less(a[i], a[i \div 2])
        /\ s.at > 1 => \A c \in 2..N : c \div 2 = s.at => ~Less(a[c], a[s.at \div 2])
    BY DEF Down, a, N
  <2>4. ASSUME NEW i \in 2..N, i \div 2 # m
        PROVE  ~Less(b[i], b[i \div 2])
    <3>1. i \in 1..N /\ i \div 2 \in 1..N /\ i \div 2 < i
      BY <1>1, Halves
    <3>2. CASE i = m
      BY <1>3, <1>5, <2>1, <3>2
    <3>3. CASE i # m /\ i \div 2 = s.at
      <4>1. i # s.at
        BY <1>2, <3>1, <3>3
      <4> QED
        BY <1>3, <1>5, <3>1, <3>3, <4>1
    <3>4. CASE i = s.at
      <4>1. s.at > 1 /\ ~Less(a[m], a[s.at \div 2])
        BY <1>2, <2>1, <2>3, <3>4
      <4>2. b[i \div 2] = a[i \div 2]
        BY <1>5, <2>4, <3>1, <3>4
      <4> QED
        BY <1>5, <3>4, <4>1, <4>2
    <3>5. CASE i # m /\ i # s.at /\ i \div 2 # s.at
      BY <1>5, <2>3, <2>4, <3>1, <3>5
    <3> QED
      BY <3>2, <3>3, <3>4, <3>5
  <2>5. ASSUME NEW c \in 2..N, c \div 2 = m
        PROVE  ~Less(b[c], b[m \div 2])
    <3>1. c \in 1..N /\ c # m /\ c # s.at
      BY <1>1, <1>2, <2>1, <2>5, Halves
    <3>2. ~Less(a[c], a[m])
      BY <1>7, <2>3, <2>5
    <3> QED
      BY <1>5, <2>1, <3>1, <3>2
  <2> QED
    BY <1>2, <1>3, <1>4, <1>5, <2>1, <2>4, <2>5 DEF Down, N, b, t
<1> QED
  BY <1>6, <1>7

LEMMA Sunk ==
    ASSUME NEW E, Comparable(E), NEW h \in Seq(E), h # <<>>, OnceEach(h),
           \A i \in 2..Len(h) : i \div 2 # 1 => ~Less(h[i], h[i \div 2])
    PROVE  /\ HeapifyDown(h) \in Seq(E) /\ Len(HeapifyDown(h)) = Len(h)
           /\ ToSet(HeapifyDown(h)) = ToSet(h)
           /\ OnceEach(HeapifyDown(h)) /\ Ordered(HeapifyDown(h))
<1> DEFINE N == Len(h)
           x == [heap |-> h, at |-> 1]
           X == {s \in Turns(ToSet(h), N) : Down(h, s)}
           g == Sinking(h)
<1>1. N \in Nat \ {0} /\ h \in [1..N -> ToSet(h)] /\ ToSet(h) \subseteq E
  BY DEF ToSet
<1>2. x \in X
  <2>1. Down(h, x)
    BY <1>1 DEF Down
  <2> QED
    BY <1>1, <2>1 DEF Turns
<1>3. \A s \in X : /\ Sink(s) \in X
                   /\ ~Settling(s) => Sink(s) = s
                   /\ Settling(s) => Sink(s).at > s.at
  <2> SUFFICES ASSUME NEW s \in X
               PROVE  /\ Sink(s) \in X
                      /\ ~Settling(s) => Sink(s) = s
                      /\ Settling(s) => Sink(s).at > s.at
      OBVIOUS
  <2>1. Down(h, s) /\ s = [heap |-> s.heap, at |-> s.at]
    BY DEF Turns
  <2>2. /\ Down(h, Sink(s))
        /\ Sink(s) = [heap |-> Sink(s).heap, at |-> Sink(s).at]
        /\ ~Settling(s) => Sink(s) = s
        /\ Settling(s) => Sink(s).at > s.at
    BY <2>1, SinkFacts
  <2>3. Sink(s) \in Turns(ToSet(h), N)
    <3>1. Sink(s).heap \in [1..N -> ToSet(h)] /\ Sink(s).at \in 1..N
      BY <2>2 DEF Down
    <3> QED
      BY <2>2, <3>1 DEF Turns
  <2> QED
    BY <2>2, <2>3
<1>4. g[0] = x /\ \A n \in Nat : g[n] \in X /\ g[n + 1] = Sink(g[n])
  <2> HIDE DEF X
  <2> QED
    BY <1>2, <1>3, SinkingRepeats
<1> HIDE DEF g
<1>5. \A n \in Nat : ~Settling(g[n]) \/ g[n].at > n
  <2> DEFINE Near == {n \in Nat : ~Settling(g[n]) \/ g[n].at > n}
  <2>1. 0 \in Near
    BY <1>1, <1>4
  <2>2. ASSUME NEW n \in Nat, n \in Near PROVE n + 1 \in Near
    <3>1. /\ g[n] \in X /\ g[n + 1] \in X /\ g[n + 1] = Sink(g[n])
      BY <1>4
    <3>2. g[n].at \in Nat /\ g[n + 1].at \in Nat
      BY <1>1, <3>1 DEF Turns
    <3>3. CASE ~Settling(g[n])
      <4>1. g[n + 1] = g[n]
        BY <1>3, <3>1, <3>3
      <4> QED
        BY <3>3, <4>1
    <3>4. CASE Settling(g[n])
      <4>1. g[n + 1].at > g[n].at /\ g[n].at > n
        BY <1>3, <2>2, <3>1, <3>4
      <4>2. g[n + 1].at > n + 1
        BY <3>2, <4>1
      <4> QED
        BY <4>2
    <3> QED
      BY <3>3, <3>4
  <2>3. Nat \subseteq Near
    <3> HIDE DEF Near
    <3> QED
      BY <2>1, <2>2, SetInduction
  <2> QED
    BY <2>3
<1>6. Down(h, g[N]) /\ ~Settling(g[N])
  <2>1. g[N] \in X /\ (~Settling(g[N]) \/ g[N].at > N)
    BY <1>1, <1>4, <1>5
  <2>2. g[N].at \in 1..N
    BY <2>1 DEF Turns
  <2> QED
    BY <1>1, <2>1, <2>2
<1> DEFINE r == g[N].heap
<1>7. HeapifyDown(h) = r
  BY DEF HeapifyDown, g
<1>8. /\ r \in [1..N -> ToSet(h)] /\ ToSet(r) = ToSet(h) /\ OnceEach(r)
      /\ \A i \in 2..N : ~Less(r[i], r[i \div 2])
  <2>1. /\ r \in [1..N -> ToSet(h)] /\ ToSet(r) = ToSet(h) /\ OnceEach(r)
        /\ g[N].at \in 1..N
        /\ \A i \in 2..N : i \div 2 # g[N].at => ~Less(r[i], r[i \div 2])
    BY <1>6 DEF Down
  <2>2. \A c \in 2..N : c \div 2 = g[N].at => ~Less(r[c], r[g[N].at])
    <3>1. Comparable(ToSet(h))
      BY <1>1 DEF Comparable
    <3>2. Smallest(r, g[N].at) = g[N].at
      BY <1>6 DEF Settling
    <3> DEFINE i == g[N].at
    <3> HIDE DEF r, N, X, x, i
    <3>3. i \in 1..N /\ Smallest(r, i) = i
      BY <2>1, <3>2 DEF i
    <3>4. \A c \in 2..N : c \div 2 = i => ~Less(r[c], r[Smallest(r, i)])
      <4> DEFINE E0 == ToSet(h)
      <4>1. Comparable(E0) /\ N \in Nat /\ r \in [1..N -> E0] /\ i \in 1..N
        BY <1>1, <2>1, <3>1, <3>3
      <4> HIDE DEF E0
      <4> QED
        BY <4>1, SmallestFacts
    <3>5. \A c \in 2..N : c \div 2 = i => ~Less(r[c], r[i])
      BY <3>3, <3>4
    <3> QED
      BY <3>5 DEF i
  <2> QED
    BY <2>1, <2>2
<1> HIDE DEF r, N
<1>9. r \in Seq(E) /\ Len(r) = N
  BY <1>1, <1>8
<1> QED
  BY <1>7, <1>8, <1>9 DEF Ordered, N

-----------------------------------------------------------------------------
(* Push adds an element and loses none.                                    *)
LEMMA Pushing ==
    ASSUME NEW E, Comparable(E), NEW h \in Seq(E), NEW e \in E,
           Ordered(h), OnceEach(h), \A i \in DOMAIN h : h[i].id # e.id
    PROVE  /\ Push(h, e) \in Seq(E) /\ Len(Push(h, e)) = Len(h) + 1
           /\ ToSet(Push(h, e)) = ToSet(h) \cup {e}
           /\ OnceEach(Push(h, e)) /\ Ordered(Push(h, e))
<1> DEFINE t == Append(h, e)
<1>1. /\ Len(h) \in Nat /\ DOMAIN h = 1..Len(h)
      /\ t \in Seq(E) /\ Len(t) = Len(h) + 1 /\ DOMAIN t = 1..(Len(h) + 1)
      /\ t[Len(h) + 1] = e /\ \A i \in 1..Len(h) : t[i] = h[i]
  OBVIOUS
<1> HIDE DEF t
<1>2. t # <<>>
  BY <1>1
<1>3. OnceEach(t)
  BY <1>1 DEF OnceEach
<1>4. ToSet(t) = ToSet(h) \cup {e}
  BY <1>1 DEF ToSet
<1>5. ASSUME NEW i \in 2..Len(t), i # Len(t) PROVE ~Less(t[i], t[i \div 2])
  <2>1. i \in 2..Len(h) /\ i \div 2 \in 1..Len(h)
    BY <1>1, <1>5, Halves
  <2> QED
    BY <1>1, <2>1 DEF Ordered
<1>6. Push(h, e) = HeapifyUp(t)
  BY DEF Push, t
<1> QED
  BY <1>1, <1>2, <1>3, <1>4, <1>5, <1>6, Climbed

(* Pop takes the element at the root, and loses no other.                  *)
LEMMA Popping ==
    ASSUME NEW E, Comparable(E), NEW h \in Seq(E), h # <<>>, Ordered(h), OnceEach(h)
    PROVE  /\ Pop(h) \in Seq(E) /\ Len(Pop(h)) = Len(h) - 1
           /\ ToSet(Pop(h)) = ToSet(h) \ {h[1]}
           /\ OnceEach(Pop(h)) /\ Ordered(Pop(h))
<1>1. /\ Len(h) \in Nat \ {0} /\ DOMAIN h = 1..Len(h)
      /\ \A i \in 1..Len(h) : h[i] \in E
  OBVIOUS
<1>2. CASE Len(h) = 1
  <2>1. Pop(h) = <<>>
    BY <1>2 DEF Pop
  <2>2. ToSet(h) = {h[1]} /\ ToSet(<<>>) = {}
    BY <1>1, <1>2 DEF ToSet
  <2> QED
    BY <1>2, <2>1, <2>2 DEF OnceEach, Ordered
<1>3. CASE Len(h) # 1
  <2> DEFINE N == Len(h) - 1
             t == [Front(h) EXCEPT ![1] = Last(h)]
  <2>1. N \in Nat \ {0}
    BY <1>1, <1>3
  <2>2. /\ Front(h) \in Seq(E) /\ Len(Front(h)) = N
        /\ \A i \in 1..N : Front(h)[i] = h[i]
    BY <1>1, <2>1 DEF Front
  <2>3. Last(h) = h[N + 1] /\ Last(h) \in E
    BY <1>1 DEF Last
  <2>4. t \in Seq(E) /\ Len(t) = N /\ DOMAIN t = 1..N
    BY <2>1, <2>2, <2>3
  <2>5. t[1] = h[N + 1] /\ \A i \in 2..N : t[i] = h[i]
    BY <2>1, <2>2, <2>3, <2>4
  <2>6. Pop(h) = HeapifyDown(t)
    BY <1>3 DEF Pop
  <2> HIDE DEF t
  <2>7. t # <<>>
    BY <2>1, <2>4
  <2>8. OnceEach(t)
    <3> SUFFICES ASSUME NEW i \in 1..N, NEW j \in 1..N, t[i].id = t[j].id
                 PROVE  i = j
        BY <2>4 DEF OnceEach
    <3> DEFINE p(k) == IF k = 1 THEN N + 1 ELSE k
    <3>1. /\ t[i] = h[p(i)] /\ t[j] = h[p(j)]
          /\ p(i) \in 1..(N + 1) /\ p(j) \in 1..(N + 1)
      BY <2>1, <2>5
    <3>2. p(i) = p(j)
      BY <1>1, <3>1 DEF OnceEach
    <3> QED
      BY <2>1, <3>2
  <2>9. ToSet(t) = ToSet(h) \ {h[1]}
    <3>1. \A i \in 1..N : \E k \in 2..(N + 1) : t[i] = h[k]
      <4> SUFFICES ASSUME NEW i \in 1..N PROVE \E k \in 2..(N + 1) : t[i] = h[k]
        OBVIOUS
      <4>1. CASE i = 1
        BY <2>1, <2>5, <4>1
      <4>2. CASE i # 1
        BY <2>1, <2>5, <4>2
      <4> QED
        BY <4>1, <4>2
    <3>2. \A k \in 2..(N + 1) : \E i \in 1..N : h[k] = t[i]
      <4> SUFFICES ASSUME NEW k \in 2..(N + 1) PROVE \E i \in 1..N : h[k] = t[i]
        OBVIOUS
      <4>1. CASE k = N + 1
        BY <2>1, <2>5, <4>1
      <4>2. CASE k # N + 1
        BY <2>1, <2>5, <4>2
      <4> QED
        BY <4>1, <4>2
    <3>3. \A k \in 2..(N + 1) : h[k] # h[1]
      <4> SUFFICES ASSUME NEW k \in 2..(N + 1), h[k] = h[1] PROVE FALSE
        OBVIOUS
      <4>1. k \in DOMAIN h /\ 1 \in DOMAIN h /\ h[k].id = h[1].id
        BY <1>1, <2>1
      <4>2. k = 1
        BY <4>1 DEF OnceEach
      <4> QED
        BY <4>2
    <3>4. ToSet(t) = {h[k] : k \in 2..(N + 1)}
      <4>1. ToSet(t) = {t[i] : i \in 1..N}
        BY <2>4 DEF ToSet
      <4> HIDE DEF N
      <4>2. ASSUME NEW y \in ToSet(t) PROVE y \in {h[k] : k \in 2..(N + 1)}
        <5>1. PICK i \in 1..N : y = t[i]
          BY <4>1
        <5> QED
          BY <3>1, <5>1
      <4>3. ASSUME NEW y \in {h[k] : k \in 2..(N + 1)} PROVE y \in ToSet(t)
        <5>1. PICK k \in 2..(N + 1) : y = h[k]
          OBVIOUS
        <5> QED
          BY <3>2, <4>1, <5>1
      <4> QED
        BY <4>2, <4>3
    <3>5. ToSet(h) = {h[k] : k \in 1..(N + 1)}
      BY <1>1 DEF ToSet
    <3>6. 1..(N + 1) = {1} \cup 2..(N + 1)
      BY <2>1
    <3> QED
      BY <3>3, <3>4, <3>5, <3>6
  <2>10. ASSUME NEW i \in 2..Len(t), i \div 2 # 1
         PROVE  ~Less(t[i], t[i \div 2])
    <3>1. i \in 2..N /\ i \div 2 \in 2..N /\ i \in 2..Len(h)
      BY <2>1, <2>4, <2>10, Halves
    <3> QED
      BY <2>5, <3>1 DEF Ordered
  <2> QED
    BY <2>4, <2>6, <2>7, <2>8, <2>9, <2>10, Sunk
<1> QED
  BY <1>2, <1>3

(* None is older than what Pop takes.                                      *)
LEMMA RootIsOldest ==
    ASSUME NEW E, Comparable(E), NEW h \in Seq(E), h # <<>>, Ordered(h)
    PROVE  \A i \in DOMAIN h : ~Earlier(h[i].hlc, h[1].hlc)
<1> DEFINE N == Len(h)
           Bad == {i \in 1..N : Less(h[i], h[1])}
<1>1. N \in Nat \ {0} /\ DOMAIN h = 1..N /\ \A i \in 1..N : h[i] \in E
  OBVIOUS
<1>2. Bad = {}
  <2> SUFFICES ASSUME Bad # {} PROVE FALSE
    OBVIOUS
  <2>1. PICK i \in Bad : \A j \in Bad : i <= j
    <3>1. Bad \in SUBSET Nat
      BY <1>1
    <3> HIDE DEF Bad
    <3> QED
      BY <3>1, LeastNumber
  <2>2. i \in 1..N /\ Less(h[i], h[1]) /\ i # 1
    BY <1>1, LessIsAnOrder
  <2>3. i \div 2 \in 1..N /\ i \div 2 < i
    BY <1>1, <2>2, Halves
  <2>4. ~Less(h[i \div 2], h[1])
    BY <2>1, <2>3
  <2>5. ~Less(h[i], h[i \div 2])
    BY <1>1, <2>2 DEF Ordered
  <2> QED
    BY <1>1, <2>2, <2>3, <2>4, <2>5, LessIsAnOrder
<1> QED
  BY <1>1, <1>2, LessIsAnOrder

-----------------------------------------------------------------------------
(* The inductive invariant. Its parts that an interaction disturbs have    *)
(* parameters, for a step may emit two: the pages p, the wires w, the      *)
(* number n of interactions so far, those dropped o, and the number k of   *)
(* DOM events.                                                             *)
Recorded(n, k, c) ==
    [id : 1..n, frame : Frames, doc : 0..MaxDocs,
     kind : Interactions, made : 1..k, depth : {0, 1},
     hlc : [physical : 1..MaxReading, logical : 0..n], arrival : 0..c]

Recognizers(k) ==
    [pointer : {"IDLE", "POINTER_DOWN", "DRAGGING"}, hovered : 0..k,
     scrolling : BOOLEAN, moved : 0..k, typed : 0..k]

Pages(n, k) ==
    [doc : 0..MaxDocs, rec : Recognizers(k),
     hlc : [physical : 0..MaxReading, logical : 0..n],
     ring : Seq([id : 1..n, acked : BOOLEAN])]

FrameTypes(p, w, n, o, k) ==
    /\ n \in Nat /\ k \in 0..MaxActs
    /\ p \in [Frames -> Pages(n, k)]
    /\ w \in [Frames -> Seq(Recorded(n, k, received))]
    /\ o \in SUBSET (1..n)
    /\ \A f \in Frames : Len(p[f].ring) <= Capacity

ProcessTypes(n, k) ==
    /\ received \in Nat /\ ripe \in 0..received /\ flushing \in BOOLEAN
    /\ acks \in Seq(1..n) /\ ignored \in SUBSET (1..n)
    /\ heap \in Seq(Recorded(n, k, received))
    /\ sequenced \in Seq(Recorded(n, k, received))
    /\ refused \in SUBSET Recorded(n, k, received)

TypeInv ==
    /\ FrameTypes(page, wire, emitted, overflowed, acts)
    /\ ProcessTypes(emitted, acts)

(* The events that are somewhere, their documents and the pages' clocks.   *)
Taken == ToSet(heap) \union ToSet(sequenced)

Wiring(w) == UNION {ToSet(w[f]) : f \in Frames}

Known(w) == Wiring(w) \union Taken \union refused

Behind(p, w) ==
    \A e \in Known(w) :
        /\ e.doc <= p[e.frame].doc
        /\ e.doc = p[e.frame].doc => ~Earlier(p[e.frame].hlc, e.hlc)

DocumentsInOrder(w) ==
    \A a, b \in Known(w) :
        SameDocument(a, b) /\ a.id < b.id =>
            /\ Earlier(a.hlc, b.hlc)
            /\ b.kind \notin Delayed => a.made <= b.made

(* A wire carries its frame's events in the order they were emitted, and   *)
(* what came out of it was emitted before.                                 *)
WiresInOrder(w) ==
    /\ \A f \in Frames : \A i \in DOMAIN w[f] : w[f][i].frame = f
    /\ \A f \in Frames : \A i, j \in DOMAIN w[f] : i < j => w[f][i].id < w[f][j].id
    /\ \A e \in Taken : \A i \in DOMAIN w[e.frame] : e.id < w[e.frame][i].id

WiresApart(w) ==
    \A f, g \in Frames : f # g => Ids(w[f]) \intersect Ids(w[g]) = {}

(* Every id up to n is in one place.                                       *)
Wired(w) == UNION {Ids(w[f]) : f \in Frames}

LateIds == {e.id : e \in refused}

Placed(w, n, o) ==
    /\ 1..n = o \union ignored \union Wired(w) \union LateIds
                \union Ids(heap) \union Ids(sequenced)
    /\ o \intersect (ignored \union Wired(w) \union LateIds
                         \union Ids(heap) \union Ids(sequenced)) = {}
    /\ ignored \intersect (Wired(w) \union LateIds
                               \union Ids(heap) \union Ids(sequenced)) = {}
    /\ Wired(w) \intersect (LateIds \union Ids(heap) \union Ids(sequenced)) = {}
    /\ LateIds \intersect (Ids(heap) \union Ids(sequenced)) = {}
    /\ Ids(heap) \intersect Ids(sequenced) = {}

PlacedOnce ==
    /\ OnceEach(heap) /\ OnceEach(sequenced)
    /\ \A a, b \in refused : a.id = b.id => a = b

PlacesInv ==
    WiresApart(wire) /\ Placed(wire, emitted, overflowed) /\ PlacedOnce

(* Of the main frame's ring, what is unacknowledged is acknowledged in its *)
(* order; no child's wire carries an event of it.                          *)
RingIds(p) == Ids(p[Main].ring)

RingSound(p, w) ==
    /\ \A i \in DOMAIN p[Main].ring : ~p[Main].ring[i].acked
    /\ \A i, j \in DOMAIN p[Main].ring :
           i < j => p[Main].ring[i].id < p[Main].ring[j].id
    /\ RingIds(p) \subseteq Ids(w[Main]) \union ToSet(acks)
    /\ \A g \in Children : RingIds(p) \intersect Ids(w[g]) = {}
    /\ \A i, j \in DOMAIN acks :
           i < j /\ {acks[i], acks[j]} \subseteq RingIds(p) => acks[i] < acks[j]
    /\ \A i \in DOMAIN acks : acks[i] \in RingIds(p) =>
           \A j \in DOMAIN w[Main] : acks[i] < w[Main][j].id

(* What waits in the process.                                              *)
HeapInv ==
    /\ Ordered(heap)
    /\ last = IF sequenced = <<>> THEN NoHlc ELSE sequenced[Len(sequenced)].hlc
    /\ \A e \in ToSet(heap) : last # NoHlc => ~Earlier(e.hlc, last)
    /\ \A i, j \in DOMAIN sequenced :
           i < j => ~Earlier(sequenced[j].hlc, sequenced[i].hlc)

(* Every interaction, emitted or to come, has a DOM event of its own.      *)
Hovering(p) == {f \in Frames : p[f].rec.hovered # 0}
Moving(p)   == {f \in Frames : p[f].rec.moved # 0}
Typing(p)   == {f \in Frames : p[f].rec.typed # 0}

ToCome(p) ==
    Cardinality(Hovering(p)) + Cardinality(Moving(p)) + Cardinality(Typing(p))

CountInv == emitted + ToCome(page) <= acts

IInv ==
    /\ TypeInv
    /\ Behind(page, wire) /\ DocumentsInOrder(wire) /\ WiresInOrder(wire)
    /\ PlacesInv /\ RingSound(page, wire)
    /\ HeapInv /\ CountInv /\ LateOnlyForOthers

-----------------------------------------------------------------------------
(* The constants, and what an event and a page are made of.                *)
LEMMA ConstantFacts ==
    /\ Main \in Frames /\ Main \notin Children /\ Children \subseteq Frames
    /\ IsFiniteSet(Frames)
    /\ MaxActs \in Nat /\ MaxReading \in Nat /\ MaxDocs \in Nat
    /\ Capacity \in Nat /\ Capacity >= 1
    /\ \A f \in Frames : UsedEvents[f] \subseteq DomEvents
<1>1. IsFiniteSet(Frames)
  <2>1. IsFiniteSet({Main})
    BY FS_Singleton
  <2> QED
    BY <2>1, FramesAssumption, FS_Union DEF Frames
<1> QED
  BY <1>1, FramesAssumption, CapacityAssumption, UsedAssumption,
     CaptureBoundAssumption DEF Frames

LEMMA RecordedFacts ==
    ASSUME NEW n \in Nat, NEW k \in Nat, NEW c \in Nat, NEW e \in Recorded(n, k, c)
    PROVE  /\ e.id \in 1..n /\ e.frame \in Frames /\ e.doc \in 0..MaxDocs
           /\ e.kind \in Interactions /\ e.made \in 1..k /\ e.depth \in {0, 1}
           /\ e.hlc \in [physical : 1..MaxReading, logical : 0..n]
           /\ e.hlc \in Clock /\ e.hlc # NoHlc /\ e.arrival \in 0..c
BY ConstantFacts DEF Recorded, Clock, NoHlc

LEMMA RecordedGrows ==
    ASSUME NEW n \in Nat, NEW k \in Nat, NEW c \in Nat,
           NEW n2 \in Nat, NEW k2 \in Nat, NEW c2 \in Nat,
           n <= n2, k <= k2, c <= c2
    PROVE  Recorded(n, k, c) \subseteq Recorded(n2, k2, c2)
BY DEF Recorded

LEMMA RecordedStep ==
    ASSUME NEW n \in Nat, NEW k \in Nat, NEW c \in Nat
    PROVE  Recorded(n, k, c) \subseteq Recorded(n + 1, k, c)
BY DEF Recorded

LEMMA SequencesGrow ==
    ASSUME NEW A, NEW B, A \subseteq B, NEW s \in Seq(A)
    PROVE  s \in Seq(B)
OBVIOUS

LEMMA PagesGrow ==
    ASSUME NEW n \in Nat, NEW k \in Nat, NEW n2 \in Nat, NEW k2 \in Nat,
           n <= n2, k <= k2
    PROVE  Pages(n, k) \subseteq Pages(n2, k2)
<1>1. Recognizers(k) \subseteq Recognizers(k2)
  BY DEF Recognizers
<1>2. Seq([id : 1..n, acked : BOOLEAN]) \subseteq Seq([id : 1..n2, acked : BOOLEAN])
  <2>1. [id : 1..n, acked : BOOLEAN] \subseteq [id : 1..n2, acked : BOOLEAN]
    OBVIOUS
  <2> QED
    BY <2>1, SequencesGrow
<1>3. [physical : 0..MaxReading, logical : 0..n] \subseteq
         [physical : 0..MaxReading, logical : 0..n2]
  OBVIOUS
<1> QED
  BY <1>1, <1>2, <1>3, Zenon DEF Pages

LEMMA RecordedCompare ==
    ASSUME NEW n \in Nat, NEW k \in Nat, NEW c \in Nat
    PROVE  Comparable(Recorded(n, k, c))
BY RecordedFacts DEF Comparable

-----------------------------------------------------------------------------
(* The recognizer: what it emits, and what it has still to emit.           *)
Bit(x) == IF x = 0 THEN 0 ELSE 1

Pending(r) == Bit(r.hovered) + Bit(r.moved) + Bit(r.typed)

Outputs(k) ==
    {s \in Seq([kind : Interactions, made : 1..k]) :
        /\ Len(s) <= 2
        /\ \A i \in DOMAIN s : s[i].kind \notin Delayed => s[i].made = k}

Sound(t, k) == t.rec \in Recognizers(k) /\ t.out \in Outputs(k)

LEMMA OutputFacts ==
    ASSUME NEW k \in Nat, NEW s \in Outputs(k)
    PROVE  /\ Len(s) \in {0, 1, 2}
           /\ \A i \in 1..Len(s) : /\ s[i] \in [kind : Interactions, made : 1..k]
                                   /\ s[i].kind \notin Delayed => s[i].made = k
<1> DEFINE I == [kind : Interactions, made : 1..k]
<1>1. /\ s \in Seq(I) /\ Len(s) <= 2
      /\ \A i \in DOMAIN s : s[i].kind \notin Delayed => s[i].made = k
  BY DEF Outputs
<1> HIDE DEF I
<1>2. Len(s) \in Nat /\ DOMAIN s = 1..Len(s) /\ \A i \in 1..Len(s) : s[i] \in I
  BY <1>1
<1> QED
  BY <1>1, <1>2 DEF I

LEMMA NoOutput ==
    ASSUME NEW k \in Nat
    PROVE  <<>> \in Outputs(k) /\ Len(<<>>) = 0
BY DEF Outputs

LEMMA OneOutput ==
    ASSUME NEW k \in Nat, NEW kind \in Interactions, NEW made \in 1..k,
           kind \notin Delayed => made = k
    PROVE  /\ <<Interaction(kind, made)>> \in Outputs(k)
           /\ Len(<<Interaction(kind, made)>>) = 1
<1> DEFINE i == Interaction(kind, made)
<1>1. /\ i \in [kind : Interactions, made : 1..k]
      /\ i.kind = kind /\ i.made = made
  BY DEF Interaction
<1> HIDE DEF i
<1> QED
  BY <1>1 DEF Outputs, i

LEMMA ScrolledFacts ==
    ASSUME NEW k \in Nat, NEW r \in Recognizers(k)
    PROVE  /\ Scrolled(r) \in Outputs(k)
           /\ Len(Scrolled(r)) = Bit(r.moved)
           /\ Still(r) \in Recognizers(k)
           /\ Still(r).hovered = r.hovered /\ Still(r).typed = r.typed
           /\ Still(r).moved = 0
<1>1. r.moved \in 0..k
  BY DEF Recognizers
<1>2. Still(r) = [r EXCEPT !.scrolling = FALSE, !.moved = 0]
  BY DEF Still
<1>3. /\ Still(r) \in Recognizers(k)
      /\ Still(r).hovered = r.hovered /\ Still(r).typed = r.typed
      /\ Still(r).moved = 0
  <2> DEFINE q == [r EXCEPT !.scrolling = FALSE]
  <2>1. q \in Recognizers(k) /\ q.hovered = r.hovered /\ q.typed = r.typed
    BY DEF Recognizers
  <2>2. Still(r) = [q EXCEPT !.moved = 0]
    BY <1>2 DEF Recognizers
  <2> HIDE DEF q
  <2> QED
    BY <2>1, <2>2 DEF Recognizers
<1>4. CASE r.moved = 0
  BY <1>3, <1>4, NoOutput DEF Scrolled, Bit
<1>5. CASE r.moved # 0
  <2>1. "SCROLL" \in Interactions /\ "SCROLL" \in Delayed
    BY DEF Interactions, Delayed
  <2> QED
    BY <1>1, <1>3, <1>5, <2>1, OneOutput DEF Scrolled, Bit
<1> QED
  BY <1>4, <1>5

(* A click or a double click ends a scroll.                                *)
LEMMA ScrolledAndMore ==
    ASSUME NEW k \in Nat, NEW r \in Recognizers(k), NEW kind \in Interactions, k >= 1
    PROVE  LET s == Append(Scrolled(r), Interaction(kind, k))
           IN  s \in Outputs(k) /\ Len(s) = Bit(r.moved) + 1
<1> DEFINE i == Interaction(kind, k)
           s == Append(Scrolled(r), i)
<1>1. /\ i \in [kind : Interactions, made : 1..k] /\ i.made = k
  BY DEF Interaction
<1> HIDE DEF i
<1>2. /\ Scrolled(r) \in Seq([kind : Interactions, made : 1..k])
      /\ \A j \in DOMAIN Scrolled(r) :
             Scrolled(r)[j].kind \notin Delayed => Scrolled(r)[j].made = k
      /\ Len(Scrolled(r)) = Bit(r.moved) /\ Bit(r.moved) <= 1
  <2>1. Scrolled(r) \in Outputs(k) /\ Len(Scrolled(r)) = Bit(r.moved)
    BY ScrolledFacts
  <2>2. Bit(r.moved) <= 1
    BY DEF Bit
  <2> QED
    BY <2>1, <2>2 DEF Outputs
<1>3. /\ s \in Seq([kind : Interactions, made : 1..k])
      /\ Len(s) = Bit(r.moved) + 1 /\ Len(s) <= 2
      /\ \A j \in DOMAIN s : s[j].kind \notin Delayed => s[j].made = k
  <2>1. Bit(r.moved) \in Nat
    BY DEF Bit
  <2> QED
    BY <1>1, <1>2, <2>1
<1> QED
  BY <1>3 DEF Outputs, i

LEMMA HandleFacts ==
    ASSUME NEW k \in Nat, NEW r \in Recognizers(k), NEW e \in DomEvents
    PROVE  LET t == Handle(r, e, k + 1)
           IN  /\ Sound(t, k + 1)
               /\ Len(t.out) + Pending(t.rec) <= Pending(r) + 1
<1> DEFINE n == k + 1
           t == Handle(r, e, n)
<1> SUFFICES Sound(t, n) /\ Len(t.out) + Pending(t.rec) <= Pending(r) + 1
    OBVIOUS
<1>0. /\ n \in Nat /\ n >= 1 /\ r \in Recognizers(n)
      /\ {r.hovered, r.moved, r.typed} \subseteq 0..k
      /\ Bit(r.hovered) \in {0, 1} /\ Bit(r.moved) \in {0, 1}
      /\ Bit(r.typed) \in {0, 1}
      /\ Bit(0) = 0 /\ Bit(n) = 1
  BY DEF Recognizers, Bit
<1>k. \A kind \in {"CLICK", "DOUBLE_CLICK", "DRAG", "KEYBOARD", "SCROLL"} :
          /\ kind \in Interactions
          /\ <<Interaction(kind, n)>> \in Outputs(n)
          /\ Len(<<Interaction(kind, n)>>) = 1
  <2> TAKE kind \in {"CLICK", "DOUBLE_CLICK", "DRAG", "KEYBOARD", "SCROLL"}
  <2>1. kind \in Interactions
    BY DEF Interactions
  <2> QED
    BY <1>0, <2>1, OneOutput
(* It takes the event without emitting anything.                           *)
<1>q. ASSUME NEW s \in Recognizers(n), t = Result(s, <<>>),
             Pending(s) <= Pending(r) + 1
      PROVE  Sound(t, n) /\ Len(t.out) + Pending(t.rec) <= Pending(r) + 1
  <2>1. t.rec = s /\ t.out = <<>>
    BY <1>q DEF Result
  <2>2. Pending(s) \in Nat
    BY DEF Pending, Bit
  <2> HIDE DEF t
  <2> QED
    BY <1>0, <1>q, <2>1, <2>2, NoOutput DEF Sound
(* It emits what the event makes.                                          *)
<1>o. ASSUME NEW s \in Recognizers(n), NEW o \in Outputs(n), t = Result(s, o),
             Len(o) + Pending(s) <= Pending(r) + 1
      PROVE  Sound(t, n) /\ Len(t.out) + Pending(t.rec) <= Pending(r) + 1
  <2>1. t.rec = s /\ t.out = o
    BY <1>o DEF Result
  <2> HIDE DEF t
  <2> QED
    BY <1>o, <2>1 DEF Sound
<1> HIDE DEF n
<1>1. CASE e = "wheel"
  <2>1. CASE r.scrolling
    <3> DEFINE s == [r EXCEPT !.moved = n]
    <3>1. t = Result(s, <<>>)
      BY <1>1, <2>1 DEF Handle, ProcessScrollEvent
    <3>2. /\ s \in Recognizers(n) /\ s.hovered = r.hovered
          /\ s.typed = r.typed /\ s.moved = n
      BY <1>0 DEF Recognizers
    <3>3. Pending(s) <= Pending(r) + 1
      BY <1>0, <3>2 DEF Pending
    <3> HIDE DEF s, t
    <3> QED
      BY <1>q, <3>1, <3>2, <3>3
  <2>2. CASE ~r.scrolling
    <3> DEFINE s == [r EXCEPT !.scrolling = TRUE]
               o == <<Interaction("SCROLL", n)>>
    <3>1. t = Result(s, o)
      BY <1>1, <2>2 DEF Handle, ProcessScrollEvent
    <3>2. /\ s \in Recognizers(n) /\ s.hovered = r.hovered
          /\ s.typed = r.typed /\ s.moved = r.moved
      BY <1>0 DEF Recognizers
    <3>3. o \in Outputs(n) /\ Len(o) = 1
      BY <1>k
    <3>4. Len(o) + Pending(s) <= Pending(r) + 1
      <4> HIDE DEF o, s
      <4> QED
        BY <1>0, <3>2, <3>3 DEF Pending
    <3> HIDE DEF s, t, o
    <3> QED
      BY <1>o, <3>1, <3>2, <3>3, <3>4
  <2> QED
    BY <2>1, <2>2
<1>2. CASE e = "input"
  <2> DEFINE s == [r EXCEPT !.typed = n]
  <2>1. t = Result(s, <<>>)
    BY <1>2 DEF Handle, ProcessInputEvent
  <2>2. /\ s \in Recognizers(n) /\ s.hovered = r.hovered
        /\ s.moved = r.moved /\ s.typed = n
    BY <1>0 DEF Recognizers
  <2>3. Pending(s) <= Pending(r) + 1
    BY <1>0, <2>2 DEF Pending
  <2> HIDE DEF s, t
  <2> QED
    BY <1>q, <2>1, <2>2, <2>3
<1>3. CASE e = "keydown"
  <2> DEFINE o == <<Interaction("KEYBOARD", n)>>
  <2>1. t = Result(r, o)
    BY <1>3 DEF Handle, ProcessKeyboardEvent
  <2>2. o \in Outputs(n) /\ Len(o) = 1
    BY <1>k
  <2>3. Len(o) + Pending(r) <= Pending(r) + 1
    <3> HIDE DEF o
    <3> QED
      BY <1>0, <2>2 DEF Pending
  <2> HIDE DEF t, o
  <2> QED
    BY <1>0, <1>o, <2>1, <2>2, <2>3
<1>4. CASE e \notin {"wheel", "input", "keydown"}
  <2>0. t = ProcessPointerEvent(r, e, n)
    BY <1>4 DEF Handle
  <2>1. ASSUME NEW v \in {"IDLE", "POINTER_DOWN", "DRAGGING"}
        PROVE  /\ [r EXCEPT !.pointer = v] \in Recognizers(n)
               /\ Pending([r EXCEPT !.pointer = v]) = Pending(r)
    BY <1>0 DEF Recognizers, Pending
  <2>2. ASSUME NEW v \in {"IDLE", "POINTER_DOWN"}
        PROVE  /\ [Still(r) EXCEPT !.pointer = v] \in Recognizers(n)
               /\ Pending([Still(r) EXCEPT !.pointer = v]) + Bit(r.moved)
                      = Pending(r)
    <3> DEFINE q == Still(r)
               s == [q EXCEPT !.pointer = v]
    <3>1. /\ q \in Recognizers(n) /\ q.hovered = r.hovered /\ q.typed = r.typed
          /\ q.moved = 0
      BY <1>0, ScrolledFacts
    <3> HIDE DEF q
    <3>2. /\ s \in Recognizers(n) /\ s.hovered = r.hovered /\ s.typed = r.typed
          /\ s.moved = 0
      BY <3>1 DEF Recognizers
    <3> HIDE DEF s
    <3>3. Pending(s) + Bit(r.moved) = Pending(r)
      BY <1>0, <3>2 DEF Pending
    <3> QED
      BY <3>2, <3>3 DEF s, q
  <2>3. CASE e = "mousedown"
    <3> DEFINE s == [Still(r) EXCEPT !.pointer = "POINTER_DOWN"]
               o == Scrolled(r)
    <3>1. t = Result(s, o)
      BY <2>0, <2>3 DEF ProcessPointerEvent
    <3>2. o \in Outputs(n) /\ Len(o) = Bit(r.moved)
      BY <1>0, ScrolledFacts
    <3>3. s \in Recognizers(n) /\ Pending(s) + Bit(r.moved) = Pending(r)
      BY <2>2
    <3>4. Pending(s) \in Nat /\ Pending(r) \in Nat
      BY DEF Pending, Bit
    <3> HIDE DEF s, t, o
    <3>5. Len(o) + Pending(s) <= Pending(r) + 1
      BY <1>0, <3>2, <3>3, <3>4
    <3> QED
      BY <1>o, <3>1, <3>2, <3>3, <3>5
  <2>4. ASSUME NEW kind \in {"CLICK", "DOUBLE_CLICK"},
               t = Result([Still(r) EXCEPT !.pointer = "IDLE"],
                          Append(Scrolled(r), Interaction(kind, n)))
        PROVE  Sound(t, n) /\ Len(t.out) + Pending(t.rec) <= Pending(r) + 1
    <3> DEFINE s == [Still(r) EXCEPT !.pointer = "IDLE"]
               o == Append(Scrolled(r), Interaction(kind, n))
    <3>1. t = Result(s, o)
      BY <2>4
    <3>2. o \in Outputs(n) /\ Len(o) = Bit(r.moved) + 1
      BY <1>0, <1>k, ScrolledAndMore
    <3>3. s \in Recognizers(n) /\ Pending(s) + Bit(r.moved) = Pending(r)
      BY <2>2
    <3>4. Pending(s) \in Nat /\ Pending(r) \in Nat
      BY DEF Pending, Bit
    <3> HIDE DEF s, t, o
    <3>5. Len(o) + Pending(s) <= Pending(r) + 1
      BY <1>0, <3>2, <3>3, <3>4
    <3> QED
      BY <1>o, <3>1, <3>2, <3>3, <3>5
  <2>5. ASSUME NEW kind \in {"CLICK", "DRAG"},
               t = Result([r EXCEPT !.pointer = "IDLE"], <<Interaction(kind, n)>>)
        PROVE  Sound(t, n) /\ Len(t.out) + Pending(t.rec) <= Pending(r) + 1
    <3> DEFINE s == [r EXCEPT !.pointer = "IDLE"]
               o == <<Interaction(kind, n)>>
    <3>1. t = Result(s, o)
      BY <2>5
    <3>2. o \in Outputs(n) /\ Len(o) = 1
      BY <1>k
    <3>3. s \in Recognizers(n) /\ Pending(s) = Pending(r)
      BY <2>1
    <3>4. Pending(r) \in Nat
      BY DEF Pending, Bit
    <3> HIDE DEF s, t, o
    <3>5. Len(o) + Pending(s) <= Pending(r) + 1
      BY <3>2, <3>3, <3>4
    <3> QED
      BY <1>o, <3>1, <3>2, <3>3, <3>5
  <2>6. ASSUME t = Result([r EXCEPT !.hovered = IF @ = 0 THEN n ELSE @], <<>>)
        PROVE  Sound(t, n) /\ Len(t.out) + Pending(t.rec) <= Pending(r) + 1
    <3> DEFINE s == [r EXCEPT !.hovered = IF r.hovered = 0 THEN n ELSE r.hovered]
    <3>1. t = Result(s, <<>>)
      BY <2>6
    <3>2. /\ s \in Recognizers(n) /\ s.moved = r.moved /\ s.typed = r.typed
          /\ s.hovered = IF r.hovered = 0 THEN n ELSE r.hovered
      BY <1>0 DEF Recognizers
    <3> HIDE DEF s, t
    <3>3. Pending(s) <= Pending(r) + 1
      BY <1>0, <3>2 DEF Pending
    <3> QED
      BY <1>q, <3>1, <3>2, <3>3
  <2>7. ASSUME NEW v \in {"IDLE", "POINTER_DOWN", "DRAGGING"},
               t = Result([r EXCEPT !.pointer = v], <<>>)
        PROVE  Sound(t, n) /\ Len(t.out) + Pending(t.rec) <= Pending(r) + 1
    <3> DEFINE s == [r EXCEPT !.pointer = v]
    <3>1. t = Result(s, <<>>) /\ s \in Recognizers(n) /\ Pending(s) = Pending(r)
      BY <2>1, <2>7
    <3>2. Pending(r) \in Nat
      BY DEF Pending, Bit
    <3> HIDE DEF s, t
    <3> QED
      BY <1>q, <3>1, <3>2
  <2>8. ASSUME t = Result(r, <<>>)
        PROVE  Sound(t, n) /\ Len(t.out) + Pending(t.rec) <= Pending(r) + 1
    <3>1. Pending(r) \in Nat
      BY DEF Pending, Bit
    <3> HIDE DEF t
    <3> QED
      BY <1>0, <1>q, <2>8, <3>1
  <2>9. \/ e = "mousedown"
        \/ \E kind \in {"CLICK", "DOUBLE_CLICK"} :
               t = Result([Still(r) EXCEPT !.pointer = "IDLE"],
                          Append(Scrolled(r), Interaction(kind, n)))
        \/ \E kind \in {"CLICK", "DRAG"} :
               t = Result([r EXCEPT !.pointer = "IDLE"], <<Interaction(kind, n)>>)
        \/ t = Result([r EXCEPT !.hovered = IF @ = 0 THEN n ELSE @], <<>>)
        \/ t = Result([r EXCEPT !.pointer = "DRAGGING"], <<>>)
        \/ t = Result(r, <<>>)
    BY <2>0 DEF ProcessPointerEvent
  <2> HIDE DEF t
  <2> QED
    BY <2>3, <2>4, <2>5, <2>6, <2>7, <2>8, <2>9
<1> QED
  BY <1>1, <1>2, <1>3, <1>4

LEMMA TimeoutFacts ==
    ASSUME NEW k \in Nat, NEW r \in Recognizers(k), NEW t \in Timeouts(r)
    PROVE  /\ Sound(t, k)
           /\ Len(t.out) + Pending(t.rec) <= Pending(r)
<1>0. /\ {r.hovered, r.moved, r.typed} \subseteq 0..k
      /\ Bit(r.hovered) \in {0, 1} /\ Bit(r.moved) \in {0, 1}
      /\ Bit(r.typed) \in {0, 1} /\ Bit(0) = 0
  BY DEF Recognizers, Bit
<1>k. {"SCROLL", "HOVER", "INPUT"} \subseteq Interactions \intersect Delayed
  BY DEF Interactions, Delayed
<1>o. ASSUME NEW s \in Recognizers(k), NEW o \in Outputs(k), t = Result(s, o),
             Len(o) + Pending(s) <= Pending(r)
      PROVE  Sound(t, k) /\ Len(t.out) + Pending(t.rec) <= Pending(r)
  <2>1. t.rec = s /\ t.out = o
    BY <1>o DEF Result
  <2> QED
    BY <1>o, <2>1 DEF Sound
<1>1. CASE r.hovered # 0 /\ t = HoverTimeout(r)
  <2> DEFINE s == [r EXCEPT !.hovered = 0]
             o == <<Interaction("HOVER", r.hovered)>>
  <2>1. t = Result(s, o)
    BY <1>1 DEF HoverTimeout
  <2>2. o \in Outputs(k) /\ Len(o) = 1
    BY <1>0, <1>1, <1>k, OneOutput
  <2>3. /\ s \in Recognizers(k) /\ s.hovered = 0 /\ s.moved = r.moved
        /\ s.typed = r.typed
    BY DEF Recognizers
  <2>4. Bit(r.hovered) = 1
    BY <1>1 DEF Bit
  <2> HIDE DEF s, o
  <2>5. Len(o) + Pending(s) <= Pending(r)
    BY <1>0, <2>2, <2>3, <2>4 DEF Pending
  <2> QED
    BY <1>o, <2>1, <2>2, <2>3, <2>5
<1>2. CASE r.typed # 0 /\ t = TypingTimeout(r)
  <2> DEFINE s == [r EXCEPT !.typed = 0]
             o == <<Interaction("INPUT", r.typed)>>
  <2>1. t = Result(s, o)
    BY <1>2 DEF TypingTimeout
  <2>2. o \in Outputs(k) /\ Len(o) = 1
    BY <1>0, <1>2, <1>k, OneOutput
  <2>3. /\ s \in Recognizers(k) /\ s.typed = 0 /\ s.moved = r.moved
        /\ s.hovered = r.hovered
    BY DEF Recognizers
  <2>4. Bit(r.typed) = 1
    BY <1>2 DEF Bit
  <2> HIDE DEF s, o
  <2>5. Len(o) + Pending(s) <= Pending(r)
    BY <1>0, <2>2, <2>3, <2>4 DEF Pending
  <2> QED
    BY <1>o, <2>1, <2>2, <2>3, <2>5
<1>3. CASE t = ScrollInterval(r) /\ r.moved = 0
  <2> DEFINE s == Still(r)
  <2>1. t = Result(s, <<>>)
    BY <1>3 DEF ScrollInterval
  <2>2. /\ s \in Recognizers(k) /\ s.hovered = r.hovered /\ s.typed = r.typed
        /\ s.moved = 0
    BY ScrolledFacts
  <2> HIDE DEF s
  <2>3. <<>> \in Outputs(k) /\ Len(<<>>) + Pending(s) <= Pending(r)
    BY <1>0, <1>3, <2>2, NoOutput DEF Pending
  <2> QED
    BY <1>o, <2>1, <2>2, <2>3
<1>4. CASE t = ScrollInterval(r) /\ r.moved # 0
  <2> DEFINE s == [r EXCEPT !.moved = 0]
             o == Scrolled(r)
  <2>1. t = Result(s, o)
    BY <1>4 DEF ScrollInterval
  <2>2. o \in Outputs(k) /\ Len(o) = Bit(r.moved)
    BY ScrolledFacts
  <2>3. /\ s \in Recognizers(k) /\ s.hovered = r.hovered /\ s.typed = r.typed
        /\ s.moved = 0
    BY DEF Recognizers
  <2> HIDE DEF s, o
  <2>4. Len(o) + Pending(s) <= Pending(r)
    BY <1>0, <2>2, <2>3 DEF Pending
  <2> QED
    BY <1>o, <2>1, <2>2, <2>3, <2>4
<1> QED
  BY <1>1, <1>2, <1>3, <1>4 DEF Timeouts

-----------------------------------------------------------------------------
(* Clocks, sequences and their ids.                                        *)
LEMMA ClockFacts ==
    ASSUME NEW a \in Clock, NEW b \in Clock, NEW c \in Clock
    PROVE  /\ ~Earlier(a, a)
           /\ Earlier(a, b) => ~Earlier(b, a)
           /\ Earlier(a, b) /\ ~Earlier(a, c) => Earlier(c, b)
           /\ ~Earlier(b, a) /\ ~Earlier(c, b) => ~Earlier(c, a)
BY DEF Clock, Earlier

LEMMA GeneratedFacts ==
    ASSUME NEW n \in Nat, NEW reading \in 1..MaxReading,
           NEW before \in [physical : 0..MaxReading, logical : 0..n]
    PROVE  /\ Generated(before, reading)
                  \in [physical : 1..MaxReading, logical : 0..(n + 1)]
           /\ Earlier(before, Generated(before, reading))
<1> MaxReading \in Nat
  BY ConstantFacts
<1>1. CASE reading > before.physical
  <2>1. Generated(before, reading) = [physical |-> reading, logical |-> 0]
    BY <1>1 DEF Generated
  <2> QED
    BY <1>1, <2>1 DEF Earlier
<1>2. CASE ~(reading > before.physical)
  <2> DEFINE g == [before EXCEPT !.logical = @ + 1]
  <2>1. Generated(before, reading) = g
    BY <1>2 DEF Generated
  <2>2. /\ g = [physical |-> before.physical, logical |-> before.logical + 1]
        /\ before.physical \in 1..MaxReading
    BY <1>2
  <2> QED
    BY <2>1, <2>2 DEF Earlier
<1> QED
  BY <1>1, <1>2

LEMMA AppendFacts ==
    ASSUME NEW E, NEW s \in Seq(E), NEW e
    PROVE  /\ Len(s) \in Nat /\ DOMAIN s = 1..Len(s)
           /\ Len(Append(s, e)) = Len(s) + 1
           /\ DOMAIN Append(s, e) = 1..(Len(s) + 1)
           /\ \A i \in 1..Len(s) : Append(s, e)[i] = s[i] /\ s[i] \in E
           /\ Append(s, e)[Len(s) + 1] = e
           /\ ToSet(Append(s, e)) = ToSet(s) \union {e}
           /\ Ids(Append(s, e)) = Ids(s) \union {e.id}
<1> DEFINE t == Append(s, e)
<1>1. /\ Len(s) \in Nat /\ DOMAIN s = 1..Len(s)
      /\ Len(t) = Len(s) + 1 /\ DOMAIN t = 1..(Len(s) + 1)
      /\ \A i \in 1..Len(s) : t[i] = s[i] /\ s[i] \in E
      /\ t[Len(s) + 1] = e
  OBVIOUS
<1> HIDE DEF t
<1>2. ToSet(t) = ToSet(s) \union {e}
  BY <1>1 DEF ToSet
<1>3. Ids(t) = Ids(s) \union {e.id}
  BY <1>1 DEF Ids
<1> QED
  BY <1>1, <1>2, <1>3 DEF t

LEMMA IdsAreOfMembers ==
    ASSUME NEW s
    PROVE  Ids(s) = {e.id : e \in ToSet(s)}
BY DEF Ids, ToSet

LEMMA MembersHaveType ==
    ASSUME NEW E, NEW s \in Seq(E)
    PROVE  ToSet(s) \subseteq E
BY DEF ToSet

LEMMA KnownTypes ==
    ASSUME NEW p, NEW w, NEW n, NEW o, NEW k,
           FrameTypes(p, w, n, o, k), ProcessTypes(n, k)
    PROVE  Known(w) \subseteq Recorded(n, k, received)
<1> DEFINE R == Recorded(n, k, received)
<1>1. \A f \in Frames : w[f] \in Seq(R)
  BY DEF FrameTypes
<1>2. heap \in Seq(R) /\ sequenced \in Seq(R) /\ refused \subseteq R
  BY DEF ProcessTypes
<1> HIDE DEF R
<1>3. \A f \in Frames : ToSet(w[f]) \subseteq R
  BY <1>1, MembersHaveType
<1>4. ToSet(heap) \subseteq R /\ ToSet(sequenced) \subseteq R
  BY <1>2, MembersHaveType
<1>5. \A e \in Known(w) :
          \/ \E f \in Frames : e \in ToSet(w[f])
          \/ e \in ToSet(heap) \/ e \in ToSet(sequenced) \/ e \in refused
  BY DEF Known, Taken, Wiring
<1>6. Known(w) \subseteq R
  BY <1>2, <1>3, <1>4, <1>5
<1> QED
  BY <1>6 DEF R

LEMMA PlacedWithin ==
    ASSUME NEW w, NEW n, NEW o, Placed(w, n, o)
    PROVE  /\ o \subseteq 1..n /\ ignored \subseteq 1..n /\ Wired(w) \subseteq 1..n
           /\ LateIds \subseteq 1..n /\ Ids(heap) \subseteq 1..n
           /\ Ids(sequenced) \subseteq 1..n
BY DEF Placed

LEMMA RingFacts ==
    ASSUME NEW n \in Nat, NEW ring \in Seq([id : 1..n, acked : BOOLEAN])
    PROVE  /\ \A i \in DOMAIN ring : ring[i].id \in 1..n
           /\ Ids(ring) \subseteq 1..n
<1> DEFINE R == [id : 1..n, acked : BOOLEAN]
<1>1. \A r \in R : r.id \in 1..n
  OBVIOUS
<1>0. ring \in Seq(R)
  OBVIOUS
<1> HIDE DEF R
<1>2. \A i \in DOMAIN ring : ring[i] \in R
  BY <1>0
<1>3. \A i \in DOMAIN ring : ring[i].id \in 1..n
  BY <1>1, <1>2
<1> QED
  BY <1>3 DEF Ids

-----------------------------------------------------------------------------
(* What a page that sends keeps, whether its ring takes the event or not.  *)
FrameInv(p, w, n, o, k) ==
    /\ FrameTypes(p, w, n, o, k) /\ ProcessTypes(n, k)
    /\ Behind(p, w) /\ DocumentsInOrder(w)
    /\ WiresInOrder(w) /\ WiresApart(w) /\ Placed(w, n, o)
    /\ RingSound(p, w)

(* The page moves its clock on.                                            *)
LEMMA DroppedKeeps ==
    ASSUME NEW p, NEW w, NEW n, NEW o, NEW k, FrameInv(p, w, n, o, k),
           NEW f \in Frames,
           NEW h \in [physical : 1..MaxReading, logical : 0..(n + 1)],
           Earlier(p[f].hlc, h)
    PROVE  FrameInv([p EXCEPT ![f] = [p[f] EXCEPT !.hlc = h]], w,
                    n + 1, o \union {n + 1}, k)
<1> DEFINE q == [p EXCEPT ![f] = [p[f] EXCEPT !.hlc = h]]
           m == n + 1
           v == o \union {m}
<1>0. /\ n \in Nat /\ k \in Nat /\ received \in Nat /\ p \in [Frames -> Pages(n, k)]
      /\ MaxReading \in Nat
  BY ConstantFacts DEF FrameInv, FrameTypes, ProcessTypes
<1>m. m \in Nat /\ n <= m /\ k <= k /\ received <= received
  BY <1>0
<1>1. /\ DOMAIN q = Frames /\ \A g \in Frames \ {f} : q[g] = p[g]
      /\ q[f].doc = p[f].doc /\ q[f].ring = p[f].ring
      /\ q[f].hlc = h /\ q[f] \in Pages(m, k)
  <2>1. p[f] \in Pages(m, k)
    <3> HIDE DEF m
    <3>1. Pages(n, k) \subseteq Pages(m, k)
      BY <1>0, <1>m, PagesGrow
    <3>2. p[f] \in Pages(n, k)
      BY <1>0
    <3> QED
      BY <3>1, <3>2
  <2>2. [p[f] EXCEPT !.hlc = h] \in Pages(m, k)
    <3>1. h \in [physical : 0..MaxReading, logical : 0..m]
      BY <1>0
    <3> HIDE DEF m
    <3> QED
      BY <2>1, <3>1 DEF Pages
  <2>3. /\ [p[f] EXCEPT !.hlc = h].doc = p[f].doc
        /\ [p[f] EXCEPT !.hlc = h].ring = p[f].ring
        /\ [p[f] EXCEPT !.hlc = h].hlc = h
    BY <2>1 DEF Pages
  <2> DEFINE y == [p[f] EXCEPT !.hlc = h]
  <2>4. q = [p EXCEPT ![f] = y]
    BY <1>0
  <2> HIDE DEF q, y
  <2>5. DOMAIN q = Frames /\ q[f] = y /\ \A g \in Frames \ {f} : q[g] = p[g]
    BY <1>0, <2>4
  <2> QED
    BY <2>2, <2>3, <2>5 DEF y
<1> HIDE DEF q
<1>2. Recorded(n, k, received) \subseteq Recorded(m, k, received)
  <2> HIDE DEF m
  <2> QED
    BY <1>0, <1>m, RecordedGrows
<1>3. 1..m = 1..n \union {m}
  BY <1>0
<1>4. /\ q \in [Frames -> Pages(m, k)]
      /\ \A g \in Frames : q[g].ring = p[g].ring
                           /\ q[g].doc = p[g].doc
  <2>1. Pages(n, k) \subseteq Pages(m, k)
    <3> HIDE DEF m
    <3> QED
      BY <1>0, <1>m, PagesGrow
  <2>2. q = [g \in Frames |-> q[g]]
    BY <1>0 DEF q
  <2> QED
    BY <1>0, <1>1, <2>1, <2>2
<1>5. FrameTypes(q, w, m, v, k)
  <2>1. \A g \in Frames : w[g] \in Seq(Recorded(m, k, received))
    BY <1>2, SequencesGrow DEF FrameInv, FrameTypes
  <2>2. w \in [Frames -> Seq(Recorded(m, k, received))]
    BY <2>1 DEF FrameInv, FrameTypes
  <2>3. v \in SUBSET (1..m)
    BY <1>3 DEF FrameInv, FrameTypes
  <2>4. k \in 0..MaxActs /\ \A g \in Frames : Len(q[g].ring) <= Capacity
    BY <1>4 DEF FrameInv, FrameTypes
  <2> HIDE DEF v, m
  <2> QED
    BY <1>m, <1>4, <2>2, <2>3, <2>4 DEF FrameTypes
<1>6. ProcessTypes(m, k)
  <2>1. 1..n \subseteq 1..m
    BY <1>3
  <2> HIDE DEF m
  <2> QED
    BY <1>2, <2>1, SequencesGrow DEF FrameInv, ProcessTypes
<1>7. Behind(q, w)
  <2> SUFFICES ASSUME NEW e \in Known(w)
               PROVE  /\ e.doc <= q[e.frame].doc
                      /\ e.doc = q[e.frame].doc => ~Earlier(q[e.frame].hlc, e.hlc)
      BY DEF Behind
  <2>1. e \in Recorded(n, k, received)
    BY KnownTypes DEF FrameInv
  <2>2. e.frame \in Frames /\ e.hlc \in Clock
    BY <1>0, <2>1, RecordedFacts
  <2>3. /\ e.doc <= p[e.frame].doc
        /\ e.doc = p[e.frame].doc => ~Earlier(p[e.frame].hlc, e.hlc)
    BY DEF FrameInv, Behind
  <2>4. p[f].hlc \in Clock /\ h \in Clock
    <3>1. p[f].hlc \in [physical : 0..MaxReading, logical : 0..n]
      BY <1>0 DEF Pages
    <3> QED
      BY <1>0, <3>1 DEF Clock
  <2>5. ~Earlier(p[f].hlc, e.hlc) => ~Earlier(h, e.hlc)
    BY <2>2, <2>4, ClockFacts
  <2> QED
    BY <1>1, <1>4, <2>2, <2>3, <2>5
<1>8. Placed(w, m, v)
  <2>1. m \notin 1..n
    BY <1>0
  <2>2. /\ ignored \subseteq 1..n /\ Wired(w) \subseteq 1..n /\ LateIds \subseteq 1..n
        /\ Ids(heap) \subseteq 1..n /\ Ids(sequenced) \subseteq 1..n
    BY PlacedWithin DEF FrameInv
  <2>3. Placed(w, n, o)
    BY DEF FrameInv
  <2> HIDE DEF m
  <2> QED
    BY <1>3, <2>1, <2>2, <2>3 DEF Placed
<1>9. RingSound(q, w)
  <2>1. q[Main].ring = p[Main].ring /\ RingIds(q) = RingIds(p)
    BY <1>4, ConstantFacts DEF RingIds
  <2> QED
    BY <2>1 DEF FrameInv, RingSound
<1> HIDE DEF m, v
<1> QED
  BY <1>5, <1>6, <1>7, <1>8, <1>9 DEF FrameInv, q, m, v

(* The event is put into the ring and on the wire.                         *)
LEMMA SentOnKeeps ==
    ASSUME NEW p, NEW w, NEW n, NEW o, NEW k, FrameInv(p, w, n, o, k),
           NEW f \in Frames, Len(p[f].ring) < Capacity,
           NEW e \in Recorded(n + 1, k, received),
           e.id = n + 1, e.frame = f, e.doc = p[f].doc,
           Earlier(p[f].hlc, e.hlc), e.kind \notin Delayed => e.made = k
    PROVE  FrameInv([p EXCEPT ![f] =
                        [p[f] EXCEPT
                            !.hlc = e.hlc,
                            !.ring = Append(@, [id |-> n + 1, acked |-> FALSE])]],
                    [w EXCEPT ![f] = Append(w[f], e)], n + 1, o, k)
<1> DEFINE m == n + 1
           i == [id |-> m, acked |-> FALSE]
           y == [p[f] EXCEPT !.hlc = e.hlc, !.ring = Append(@, i)]
           q == [p EXCEPT ![f] = y]
           z == Append(w[f], e)
           x == [w EXCEPT ![f] = z]
<1> SUFFICES FrameInv(q, x, m, o, k)
    OBVIOUS
<1>0. /\ n \in Nat /\ k \in Nat /\ received \in Nat /\ k \in 0..MaxActs
      /\ p \in [Frames -> Pages(n, k)]
      /\ w \in [Frames -> Seq(Recorded(n, k, received))]
      /\ MaxReading \in Nat /\ Capacity \in Nat /\ MaxDocs \in Nat
  BY ConstantFacts DEF FrameInv, FrameTypes, ProcessTypes
<1>m. m \in Nat /\ n <= m /\ k <= k /\ received <= received /\ m \notin 1..n
  BY <1>0
<1>i. i \in [id : 1..m, acked : BOOLEAN] /\ i.id = m /\ i.acked = FALSE
  BY <1>0
<1>3. 1..m = 1..n \union {m}
  BY <1>0
<1>2. Recorded(n, k, received) \subseteq Recorded(m, k, received)
  BY <1>0, RecordedStep
<1>a. /\ p[f] \in Pages(n, k) /\ p[f] \in Pages(m, k)
      /\ p[f].ring \in Seq([id : 1..n, acked : BOOLEAN])
      /\ p[f].ring \in Seq([id : 1..m, acked : BOOLEAN])
      /\ p[f].doc \in 0..MaxDocs /\ p[f].hlc \in Clock
  <2> HIDE DEF m
  <2>1. Pages(n, k) \subseteq Pages(m, k)
    BY <1>0, <1>m, PagesGrow
  <2>2. p[f] \in Pages(n, k) /\ p[f] \in Pages(m, k)
    BY <1>0, <2>1
  <2>3. p[f].hlc \in [physical : 0..MaxReading, logical : 0..n]
    BY <2>2 DEF Pages
  <2>4. p[f].hlc \in Clock
    BY <1>0, <2>3 DEF Clock
  <2> QED
    BY <2>2, <2>4 DEF Pages
<1>b. /\ e.hlc \in [physical : 1..MaxReading, logical : 0..m] /\ e.hlc \in Clock
      /\ e.id \in 1..m /\ e.frame \in Frames /\ e.kind \in Interactions
      /\ e.made \in 1..k
  <2> HIDE DEF m
  <2>1. e \in Recorded(m, k, received)
    BY DEF m
  <2> QED
    BY <1>0, <1>m, <2>1, RecordedFacts
<1> HIDE DEF m, i
<1>c. /\ y \in Pages(m, k) /\ y.doc = p[f].doc /\ y.hlc = e.hlc
      /\ y.ring = Append(p[f].ring, i)
  <2>1. Append(p[f].ring, i) \in Seq([id : 1..m, acked : BOOLEAN])
    BY <1>a, <1>i
  <2>2. e.hlc \in [physical : 0..MaxReading, logical : 0..m]
    BY <1>0, <1>b
  <2> DEFINE a == Append(p[f].ring, i)
  <2>4. y = [p[f] EXCEPT !.hlc = e.hlc, !.ring = a]
    BY <1>a DEF Pages
  <2> HIDE DEF a, y
  <2> QED
    BY <1>a, <2>1, <2>2, <2>4 DEF Pages, a
<1>d. /\ DOMAIN q = Frames /\ q[f] = y /\ \A g \in Frames \ {f} : q[g] = p[g]
      /\ DOMAIN x = Frames /\ x[f] = z /\ \A g \in Frames \ {f} : x[g] = w[g]
  <2> HIDE DEF y, z
  <2> QED
    BY <1>0
<1>e. q \in [Frames -> Pages(m, k)]
  <2>1. Pages(n, k) \subseteq Pages(m, k)
    BY <1>0, <1>m, PagesGrow
  <2>2. q = [g \in Frames |-> q[g]]
    BY <1>0
  <2> HIDE DEF q, y
  <2> QED
    BY <1>0, <1>c, <1>d, <2>1, <2>2
<1>f. /\ z \in Seq(Recorded(m, k, received))
      /\ Len(w[f]) \in Nat /\ DOMAIN w[f] = 1..Len(w[f])
      /\ DOMAIN z = 1..(Len(w[f]) + 1)
      /\ \A j \in 1..Len(w[f]) : z[j] = w[f][j]
      /\ z[Len(w[f]) + 1] = e
      /\ ToSet(z) = ToSet(w[f]) \union {e}
      /\ Ids(z) = Ids(w[f]) \union {m}
  <2>1. w[f] \in Seq(Recorded(n, k, received))
    BY <1>0
  <2>2. w[f] \in Seq(Recorded(m, k, received))
    BY <1>2, <2>1, SequencesGrow
  <2>3. e \in Recorded(m, k, received) /\ e.id = m
    BY DEF m
  <2>4. z \in Seq(Recorded(m, k, received))
    BY <2>2, <2>3
  <2> QED
    BY <2>2, <2>3, <2>4, AppendFacts
<1>g. x \in [Frames -> Seq(Recorded(m, k, received))]
  <2>1. x = [g \in Frames |-> x[g]]
    BY <1>0
  <2>2. \A g \in Frames : w[g] \in Seq(Recorded(m, k, received))
    BY <1>0, <1>2, SequencesGrow
  <2> HIDE DEF x, z
  <2> QED
    BY <1>d, <1>f, <2>1, <2>2
<1>h. /\ Len(p[f].ring) \in Nat /\ DOMAIN p[f].ring = 1..Len(p[f].ring)
      /\ Len(y.ring) = Len(p[f].ring) + 1
      /\ DOMAIN y.ring = 1..(Len(p[f].ring) + 1)
      /\ \A j \in 1..Len(p[f].ring) : y.ring[j] = p[f].ring[j]
      /\ y.ring[Len(p[f].ring) + 1] = i
      /\ Ids(y.ring) = Ids(p[f].ring) \union {m}
  BY <1>a, <1>c, <1>i, AppendFacts
<1> HIDE DEF q, x, y, z
<1>j. Known(x) = Known(w) \union {e}
  <2>1. Wiring(x) = Wiring(w) \union {e}
    <3>1. \A g \in Frames : ToSet(x[g]) = IF g = f THEN ToSet(w[f]) \union {e}
                                                   ELSE ToSet(w[g])
      BY <1>d, <1>f
    <3> QED
      BY <3>1 DEF Wiring
  <2> QED
    BY <2>1 DEF Known
<1>k. /\ \A c \in Known(w) : c \in Recorded(n, k, received)
      /\ \A c \in Known(w) : /\ c.id \in 1..n /\ c.frame \in Frames
                             /\ c.hlc \in Clock /\ c.made \in 1..k
                             /\ c.doc \in 0..MaxDocs
  <2>1. \A c \in Known(w) : c \in Recorded(n, k, received)
    BY KnownTypes DEF FrameInv
  <2> QED
    BY <1>0, <2>1, RecordedFacts
<1>5. FrameTypes(q, x, m, o, k)
  <2>1. \A g \in Frames : Len(q[g].ring) <= Capacity
    <3>1. Len(q[f].ring) <= Capacity
      BY <1>0, <1>d, <1>h
    <3>2. \A g \in Frames \ {f} : Len(q[g].ring) <= Capacity
      BY <1>d DEF FrameInv, FrameTypes
    <3> QED
      BY <3>1, <3>2
  <2>2. o \in SUBSET (1..m)
    BY <1>3 DEF FrameInv, FrameTypes
  <2> QED
    BY <1>0, <1>m, <1>e, <1>g, <2>1, <2>2 DEF FrameTypes
<1>6. ProcessTypes(m, k)
  <2>1. 1..n \subseteq 1..m
    BY <1>3
  <2> QED
    BY <1>2, <2>1, SequencesGrow DEF FrameInv, ProcessTypes
<1>7. Behind(q, x)
  <2> SUFFICES ASSUME NEW c \in Known(x)
               PROVE  /\ c.doc <= q[c.frame].doc
                      /\ c.doc = q[c.frame].doc => ~Earlier(q[c.frame].hlc, c.hlc)
      BY DEF Behind
  <2>1. CASE c = e
    <3>1. ~Earlier(e.hlc, e.hlc)
      BY <1>b, ClockFacts
    <3>2. c.frame = f /\ q[f].doc = p[f].doc /\ q[f].hlc = e.hlc
      BY <1>c, <1>d, <2>1
    <3>3. p[f].doc \in Nat
      BY <1>0, <1>a
    <3> QED
      BY <2>1, <3>1, <3>2, <3>3
  <2>2. CASE c \in Known(w)
    <3>1. c.frame \in Frames /\ c.hlc \in Clock
      BY <1>k, <2>2
    <3>2. /\ c.doc <= p[c.frame].doc
          /\ c.doc = p[c.frame].doc => ~Earlier(p[c.frame].hlc, c.hlc)
      BY <2>2 DEF FrameInv, Behind
    <3>3. ~Earlier(p[f].hlc, c.hlc) => ~Earlier(e.hlc, c.hlc)
      BY <1>a, <1>b, <3>1, ClockFacts
    <3>4. CASE c.frame = f
      BY <1>c, <1>d, <3>2, <3>3, <3>4
    <3>5. CASE c.frame # f
      BY <1>d, <3>1, <3>2, <3>5
    <3> QED
      BY <3>4, <3>5
  <2> QED
    BY <1>j, <2>1, <2>2
<1>8. DocumentsInOrder(x)
  <2> SUFFICES ASSUME NEW a \in Known(x), NEW b \in Known(x),
                      SameDocument(a, b), a.id < b.id
               PROVE  /\ Earlier(a.hlc, b.hlc)
                      /\ b.kind \notin Delayed => a.made <= b.made
      BY DEF DocumentsInOrder
  <2>1. CASE a \in Known(w) /\ b \in Known(w)
    BY <2>1 DEF FrameInv, DocumentsInOrder
  <2>2. CASE a \in Known(w) /\ b = e
    <3>1. a.frame = f /\ a.doc = p[f].doc
      BY <2>2 DEF SameDocument
    <3>2. ~Earlier(p[f].hlc, a.hlc)
      BY <2>2, <3>1 DEF FrameInv, Behind
    <3>3. Earlier(a.hlc, e.hlc)
      BY <1>a, <1>b, <1>k, <2>2, <3>2, ClockFacts
    <3>4. b.kind \notin Delayed => a.made <= b.made
      BY <1>0, <1>k, <2>2
    <3> QED
      BY <2>2, <3>3, <3>4
  <2>3. CASE a = e
    <3>1. b.id \in 1..m
      BY <1>3, <1>b, <1>j, <1>k
    <3>2. a.id = m
      BY <2>3 DEF m
    <3> QED
      BY <1>m, <3>1, <3>2
  <2> QED
    BY <1>j, <2>1, <2>2, <2>3
<1>9. WiresInOrder(x)
  <2>0. WiresInOrder(w)
    BY DEF FrameInv
  <2>w. \A j \in 1..Len(w[f]) : w[f][j].id \in 1..n
    <3>1. \A j \in 1..Len(w[f]) : w[f][j] \in Recorded(n, k, received)
      BY <1>0, <1>f
    <3> QED
      BY <1>0, <3>1, RecordedFacts
  <2>1. \A g \in Frames : \A j \in DOMAIN x[g] : x[g][j].frame = g
    <3>1. \A j \in DOMAIN x[f] : x[f][j].frame = f
      BY <1>d, <1>f, <2>0 DEF WiresInOrder
    <3> QED
      BY <1>d, <2>0, <3>1 DEF WiresInOrder
  <2>2. \A g \in Frames : \A j, l \in DOMAIN x[g] : j < l => x[g][j].id < x[g][l].id
    <3>1. ASSUME NEW j \in DOMAIN x[f], NEW l \in DOMAIN x[f], j < l
          PROVE  x[f][j].id < x[f][l].id
      <4>1. CASE l = Len(w[f]) + 1
        <5>1. j \in 1..Len(w[f]) /\ x[f][j].id \in 1..n
          BY <1>d, <1>f, <2>w, <3>1, <4>1
        <5>2. x[f][l].id = m
          BY <1>d, <1>f, <4>1 DEF m
        <5> QED
          BY <1>0, <5>1, <5>2 DEF m
      <4>2. CASE l # Len(w[f]) + 1
        <5>1. /\ j \in 1..Len(w[f]) /\ l \in 1..Len(w[f])
              /\ x[f][j] = w[f][j] /\ x[f][l] = w[f][l]
          BY <1>d, <1>f, <3>1, <4>2
        <5> QED
          BY <1>f, <2>0, <3>1, <5>1 DEF WiresInOrder
      <4> QED
        BY <4>1, <4>2
    <3>2. ASSUME NEW g \in Frames \ {f}
          PROVE  \A j, l \in DOMAIN x[g] : j < l => x[g][j].id < x[g][l].id
      BY <1>d, <2>0 DEF WiresInOrder
    <3> QED
      BY <3>1, <3>2
  <2>3. \A c \in Taken : \A j \in DOMAIN x[c.frame] : c.id < x[c.frame][j].id
    <3> SUFFICES ASSUME NEW c \in Taken, NEW j \in DOMAIN x[c.frame]
                 PROVE  c.id < x[c.frame][j].id
        OBVIOUS
    <3>1. c \in Known(w)
      BY DEF Known
    <3>2. c.frame \in Frames /\ c.id \in 1..n
      BY <1>k, <3>1
    <3>3. CASE c.frame = f /\ j = Len(w[f]) + 1
      <4>1. x[c.frame][j].id = m
        BY <1>d, <1>f, <3>3 DEF m
      <4> QED
        BY <1>0, <3>2, <4>1 DEF m
    <3>4. CASE c.frame = f /\ j # Len(w[f]) + 1
      <4>1. j \in 1..Len(w[f]) /\ x[f][j] = w[f][j]
        BY <1>d, <1>f, <3>4
      <4> QED
        BY <1>f, <2>0, <3>4, <4>1 DEF WiresInOrder
    <3>5. CASE c.frame # f
      BY <1>d, <2>0, <3>2, <3>5 DEF WiresInOrder
    <3> QED
      BY <3>3, <3>4, <3>5
  <2> QED
    BY <2>1, <2>2, <2>3 DEF WiresInOrder
<1>n. \A g \in Frames : Ids(w[g]) \subseteq 1..n
  <2>1. Wired(w) \subseteq 1..n
    BY PlacedWithin DEF FrameInv
  <2> QED
    BY <2>1 DEF Wired
<1>o. \A g \in Frames : Ids(x[g]) = IF g = f THEN Ids(w[f]) \union {m} ELSE Ids(w[g])
  BY <1>d, <1>f
<1>10. WiresApart(x)
  <2> SUFFICES ASSUME NEW g \in Frames, NEW j \in Frames, g # j
               PROVE  Ids(x[g]) \intersect Ids(x[j]) = {}
      BY DEF WiresApart
  <2>1. Ids(w[g]) \intersect Ids(w[j]) = {}
    BY DEF FrameInv, WiresApart
  <2>2. m \notin Ids(w[g]) /\ m \notin Ids(w[j])
    BY <1>m, <1>n
  <2>3. Ids(x[g]) \subseteq Ids(w[g]) \union {m} /\ Ids(x[j]) \subseteq Ids(w[j]) \union {m}
    BY <1>o
  <2>4. m \notin Ids(x[g]) \/ m \notin Ids(x[j])
    BY <1>o, <2>2
  <2> QED
    BY <2>1, <2>2, <2>3, <2>4
<1>11. Placed(x, m, o)
  <2>1. Wired(x) = Wired(w) \union {m}
    BY <1>o DEF Wired
  <2>2. /\ o \subseteq 1..n /\ ignored \subseteq 1..n
        /\ Wired(w) \subseteq 1..n /\ LateIds \subseteq 1..n
        /\ Ids(heap) \subseteq 1..n /\ Ids(sequenced) \subseteq 1..n
    BY PlacedWithin DEF FrameInv
  <2>3. Placed(w, n, o)
    BY DEF FrameInv
  <2> QED
    BY <1>3, <1>m, <2>1, <2>2, <2>3 DEF Placed
<1>12. RingSound(q, x)
  <2>0. RingSound(p, w) /\ Main \in Frames /\ Main \notin Children /\ Children \subseteq Frames
    BY ConstantFacts DEF FrameInv
  <2>a. ToSet(acks) \subseteq 1..n /\ \A j \in DOMAIN acks : acks[j] \in 1..n
    <3>1. acks \in Seq(1..n)
      BY DEF FrameInv, ProcessTypes
    <3>2. \A j \in DOMAIN acks : acks[j] \in 1..n
      BY <1>0, <3>1
    <3>3. ToSet(acks) \subseteq 1..n
      BY <3>2 DEF ToSet
    <3> QED
      BY <3>2, <3>3
  <2>1. CASE f = Main
    <3>0. q[Main] = y /\ p[Main] = p[f] /\ x[Main] = z /\ w[Main] = w[f]
      BY <1>d, <2>1
    <3>1. RingIds(q) = RingIds(p) \union {m}
      BY <1>h, <3>0 DEF RingIds
    <3>2. \A j \in DOMAIN q[Main].ring : ~q[Main].ring[j].acked
      <4>0. \A j \in DOMAIN p[Main].ring : ~p[Main].ring[j].acked
        BY <2>0 DEF RingSound
      <4>1. \A j \in 1..Len(p[f].ring) : ~p[f].ring[j].acked
        BY <1>h, <3>0, <4>0
      <4>2. ASSUME NEW j \in DOMAIN y.ring PROVE ~y.ring[j].acked
        <5>1. CASE j \in 1..Len(p[f].ring)
          BY <1>h, <4>1, <5>1
        <5>2. CASE j = Len(p[f].ring) + 1
          <6>1. y.ring[j] = i
            BY <1>h, <5>2
          <6> QED
            BY <1>i, <6>1
        <5>3. j \in 1..Len(p[f].ring) \/ j = Len(p[f].ring) + 1
          BY <1>h
        <5> QED
          BY <5>1, <5>2, <5>3
      <4> QED
        BY <3>0, <4>2
    <3>r. \A j \in 1..Len(p[f].ring) : p[f].ring[j].id \in 1..n
      BY <1>0, <1>a, <1>h, RingFacts
    <3>3. \A j, l \in DOMAIN q[Main].ring :
              j < l => q[Main].ring[j].id < q[Main].ring[l].id
      <4> SUFFICES ASSUME NEW j \in DOMAIN y.ring, NEW l \in DOMAIN y.ring, j < l
                   PROVE  y.ring[j].id < y.ring[l].id
          BY <3>0
      <4>1. CASE l = Len(p[f].ring) + 1
        <5>0. j \in 1..Len(p[f].ring)
          BY <1>h, <4>1
        <5>1. y.ring[j].id \in 1..n /\ y.ring[l].id = m
          BY <1>h, <1>i, <3>r, <4>1, <5>0
        <5> QED
          BY <1>0, <5>1 DEF m
      <4>2. CASE l # Len(p[f].ring) + 1
        <5>1. /\ j \in DOMAIN p[f].ring /\ l \in DOMAIN p[f].ring
              /\ y.ring[j] = p[f].ring[j] /\ y.ring[l] = p[f].ring[l]
          BY <1>h, <4>2, SMTT(30)
        <5> QED
          BY <2>0, <2>1, <5>1 DEF RingSound
      <4> QED
        BY <4>1, <4>2
    <3>4. RingIds(q) \subseteq Ids(x[Main]) \union ToSet(acks)
      BY <1>o, <2>0, <2>1, <3>1 DEF RingSound
    <3>5. \A g \in Children : RingIds(q) \intersect Ids(x[g]) = {}
      <4> SUFFICES ASSUME NEW g \in Children
                   PROVE  RingIds(q) \intersect Ids(x[g]) = {}
          OBVIOUS
      <4>1. g \in Frames /\ g # f /\ RingIds(p) \intersect Ids(w[g]) = {}
        BY <2>0, <2>1 DEF RingSound
      <4> QED
        BY <1>m, <1>n, <1>o, <3>1, <4>1
    <3>6. \A j \in DOMAIN acks : acks[j] \in RingIds(q) => acks[j] \in RingIds(p)
      BY <1>m, <2>a, <3>1
    <3>7. \A j, l \in DOMAIN acks :
              j < l /\ {acks[j], acks[l]} \subseteq RingIds(q) => acks[j] < acks[l]
      BY <2>0, <3>6 DEF RingSound
    <3>8. ASSUME NEW j \in DOMAIN acks, acks[j] \in RingIds(q),
                 NEW l \in DOMAIN x[Main]
          PROVE  acks[j] < x[Main][l].id
      <4>1. CASE l = Len(w[f]) + 1
        <5>1. x[Main][l].id = m
          BY <1>d, <1>f, <2>1, <4>1 DEF m
        <5> QED
          BY <1>0, <2>a, <5>1 DEF m
      <4>2. CASE l # Len(w[f]) + 1
        <5>1. l \in DOMAIN w[Main] /\ x[Main][l] = w[Main][l]
          BY <1>d, <1>f, <2>1, <4>2
        <5> QED
          BY <2>0, <3>6, <3>8, <5>1 DEF RingSound
      <4> QED
        BY <4>1, <4>2
    <3> QED
      BY <3>2, <3>3, <3>4, <3>5, <3>7, <3>8 DEF RingSound
  <2>2. CASE f # Main
    <3>1. q[Main] = p[Main] /\ x[Main] = w[Main] /\ RingIds(q) = RingIds(p)
      BY <1>d, <2>0, <2>2 DEF RingIds
    <3>2. RingIds(p) \subseteq 1..n
      <4>1. p[Main].ring \in Seq([id : 1..n, acked : BOOLEAN])
        <5>1. p[Main] \in Pages(n, k)
          BY <1>0, <2>0
        <5> QED
          BY <5>1 DEF Pages
      <4> QED
        BY <1>0, <4>1, RingFacts DEF RingIds
    <3>3. \A g \in Children : RingIds(q) \intersect Ids(x[g]) = {}
      <4> SUFFICES ASSUME NEW g \in Children
                   PROVE  RingIds(q) \intersect Ids(x[g]) = {}
          OBVIOUS
      <4>1. g \in Frames /\ RingIds(p) \intersect Ids(w[g]) = {}
        BY <2>0 DEF RingSound
      <4> QED
        BY <1>m, <1>o, <3>1, <3>2, <4>1
    <3> QED
      BY <2>0, <3>1, <3>3 DEF RingSound
  <2> QED
    BY <2>1, <2>2
<1> QED
  BY <1>5, <1>6, <1>7, <1>8, <1>9, <1>10, <1>11, <1>12 DEF FrameInv

(* sendExecution.                                                          *)
Stand(p, w, n, o, f) ==
    [page |-> p[f], wire |-> w[f], emitted |-> n, overflowed |-> o]

Stood(t) ==
    t = [page |-> t.page, wire |-> t.wire, emitted |-> t.emitted,
         overflowed |-> t.overflowed]

LEMMA SentKeeps ==
    ASSUME NEW p, NEW w, NEW n, NEW o, NEW k, FrameInv(p, w, n, o, k),
           NEW f \in Frames, NEW i \in [kind : Interactions, made : 1..k],
           i.kind \notin Delayed => i.made = k,
           NEW reading \in 1..MaxReading
    PROVE  LET t == Sent(f, Stand(p, w, n, o, f), i, reading)
           IN  /\ FrameInv([p EXCEPT ![f] = t.page], [w EXCEPT ![f] = t.wire],
                           t.emitted, t.overflowed, k)
               /\ t.emitted = n + 1 /\ t.page.rec = p[f].rec /\ Stood(t)
<1> DEFINE s == Stand(p, w, n, o, f)
           h == Generated(p[f].hlc, reading)
           e == [id |-> n + 1, frame |-> f, doc |-> p[f].doc,
                 kind |-> i.kind, made |-> i.made,
                 depth |-> Depth(f), hlc |-> h, arrival |-> 0]
           t == Sent(f, s, i, reading)
<1> SUFFICES /\ FrameInv([p EXCEPT ![f] = t.page], [w EXCEPT ![f] = t.wire],
                         t.emitted, t.overflowed, k)
             /\ t.emitted = n + 1 /\ t.page.rec = p[f].rec /\ Stood(t)
    OBVIOUS
<1>0. /\ n \in Nat /\ k \in Nat /\ received \in Nat
      /\ p \in [Frames -> Pages(n, k)] /\ p[f] \in Pages(n, k)
      /\ w \in [Frames -> Seq(Recorded(n, k, received))]
      /\ Len(p[f].ring) <= Capacity
      /\ MaxReading \in Nat /\ Capacity \in Nat
  BY ConstantFacts DEF FrameInv, FrameTypes, ProcessTypes
<1>1. /\ p[f].hlc \in [physical : 0..MaxReading, logical : 0..n]
      /\ p[f].doc \in 0..MaxDocs /\ Len(p[f].ring) \in Nat
  BY <1>0 DEF Pages
<1>2. /\ h \in [physical : 1..MaxReading, logical : 0..(n + 1)]
      /\ Earlier(p[f].hlc, h)
  BY <1>0, <1>1, GeneratedFacts
<1>3. /\ s = [page |-> p[f], wire |-> w[f], emitted |-> n, overflowed |-> o]
      /\ s.page = p[f] /\ s.wire = w[f] /\ s.emitted = n /\ s.overflowed = o
  BY DEF Stand
<1> HIDE DEF h, s
<1>4. CASE Full(p[f])
  <2> DEFINE y == [p[f] EXCEPT !.hlc = h]
  <2>1. t = [page |-> y, wire |-> w[f], emitted |-> n + 1,
             overflowed |-> o \union {n + 1}]
    BY <1>3, <1>4 DEF Sent, h
  <2>2. FrameInv([p EXCEPT ![f] = y], w, n + 1, o \union {n + 1}, k)
    BY <1>2, DroppedKeeps
  <2>3. [w EXCEPT ![f] = w[f]] = w
    BY <1>0
  <2>4. y.rec = p[f].rec
    BY <1>0 DEF Pages
  <2> HIDE DEF y, t
  <2>5. /\ t.page = y /\ t.wire = w[f] /\ t.emitted = n + 1
        /\ t.overflowed = o \union {n + 1} /\ Stood(t)
    BY <2>1 DEF Stood
  <2> QED
    BY <2>2, <2>3, <2>4, <2>5
<1>5. CASE ~Full(p[f])
  <2> DEFINE y == [p[f] EXCEPT
                      !.hlc = e.hlc,
                      !.ring = Append(@, [id |-> n + 1, acked |-> FALSE])]
             z == Append(w[f], e)
  <2>1. t = [page |-> y, wire |-> z, emitted |-> n + 1, overflowed |-> o]
    BY <1>3, <1>5 DEF Sent, h
  <2>2. Len(p[f].ring) < Capacity
    BY <1>0, <1>1, <1>5 DEF Full
  <2>3. e \in Recorded(n + 1, k, received)
    <3>1. Depth(f) \in {0, 1}
      BY DEF Depth
    <3> QED
      BY <1>0, <1>1, <1>2, <3>1 DEF Recorded
  <2>4. /\ e.id = n + 1 /\ e.frame = f /\ e.doc = p[f].doc
        /\ Earlier(p[f].hlc, e.hlc) /\ (e.kind \notin Delayed => e.made = k)
    BY <1>2
  <2>5. y.rec = p[f].rec
    BY <1>0 DEF Pages
  <2> HIDE DEF e
  <2>6. FrameInv([p EXCEPT ![f] = y], [w EXCEPT ![f] = z], n + 1, o, k)
    BY <2>2, <2>3, <2>4, SentOnKeeps
  <2> HIDE DEF y, z, t
  <2>7. /\ t.page = y /\ t.wire = z /\ t.emitted = n + 1 /\ t.overflowed = o
        /\ Stood(t)
    BY <2>1 DEF Stood
  <2> QED
    BY <2>5, <2>6, <2>7
<1> QED
  BY <1>4, <1>5

(* What a step of the recognizer emits, at most two interactions.          *)
LEMMA AllSentKeeps ==
    ASSUME NEW p, NEW w, NEW n, NEW o, NEW k, FrameInv(p, w, n, o, k),
           NEW f \in Frames, NEW out \in Outputs(k),
           NEW readings \in [1..2 -> 1..MaxReading]
    PROVE  LET t == AllSent(f, Stand(p, w, n, o, f), out, readings)
           IN  /\ FrameInv([p EXCEPT ![f] = t.page], [w EXCEPT ![f] = t.wire],
                           t.emitted, t.overflowed, k)
               /\ t.emitted = n + Len(out) /\ t.page.rec = p[f].rec
<1> DEFINE s == Stand(p, w, n, o, f)
           t == AllSent(f, s, out, readings)
           first == Sent(f, s, out[1], readings[1])
           p1 == [p EXCEPT ![f] = first.page]
           w1 == [w EXCEPT ![f] = first.wire]
<1> SUFFICES /\ FrameInv([p EXCEPT ![f] = t.page], [w EXCEPT ![f] = t.wire],
                         t.emitted, t.overflowed, k)
             /\ t.emitted = n + Len(out) /\ t.page.rec = p[f].rec
    OBVIOUS
<1>0. /\ p \in [Frames -> Pages(n, k)] /\ n \in Nat /\ k \in Nat
      /\ w \in [Frames -> Seq(Recorded(n, k, received))]
  <2>1. FrameTypes(p, w, n, o, k)
    BY DEF FrameInv
  <2>2. /\ p \in [Frames -> Pages(n, k)] /\ n \in Nat /\ k \in 0..MaxActs
        /\ w \in [Frames -> Seq(Recorded(n, k, received))]
    BY <2>1 DEF FrameTypes
  <2>3. k \in Nat
    BY <2>2, ConstantFacts
  <2> QED
    BY <2>2, <2>3
<1>r. readings[1] \in 1..MaxReading /\ readings[2] \in 1..MaxReading
  OBVIOUS
<1>1. /\ Len(out) \in {0, 1, 2}
      /\ \A i \in 1..Len(out) : /\ out[i] \in [kind : Interactions, made : 1..k]
                                /\ out[i].kind \notin Delayed => out[i].made = k
  BY <1>0, OutputFacts
<1>2. CASE Len(out) = 0
  <2>1. t = s
    BY <1>2 DEF AllSent
  <2>2. [p EXCEPT ![f] = p[f]] = p
    BY <1>0
  <2>3. [w EXCEPT ![f] = w[f]] = w
    BY <1>0
  <2>4. s.page = p[f] /\ s.wire = w[f] /\ s.emitted = n /\ s.overflowed = o
    BY DEF Stand
  <2> HIDE DEF t, s
  <2>5. /\ t.page = p[f] /\ t.wire = w[f] /\ t.overflowed = o
        /\ t.emitted = n /\ n = n + Len(out)
    BY <1>0, <1>2, <2>1, <2>4
  <2>6. FrameInv([p EXCEPT ![f] = p[f]], [w EXCEPT ![f] = w[f]], n, o, k)
    BY <2>2, <2>3
  <2> QED
    BY <2>5, <2>6
<1>3. ASSUME Len(out) > 0
      PROVE  /\ FrameInv(p1, w1, first.emitted, first.overflowed, k)
             /\ first.emitted = n + 1 /\ first.page.rec = p[f].rec
             /\ Stood(first)
  <2>1. 1 \in 1..Len(out) /\ out[1] \in [kind : Interactions, made : 1..k]
    BY <1>1, <1>3
  <2>2. out[1].kind \notin Delayed => out[1].made = k
    BY <1>1, <2>1
  <2> HIDE DEF s
  <2> QED
    BY <2>1, <2>2, <1>r, SentKeeps DEF s
<1>4. CASE Len(out) = 1
  <2>1. t = first
    BY <1>4 DEF AllSent
  <2>2. first.emitted = n + Len(out)
    BY <1>3, <1>4
  <2> HIDE DEF t, first
  <2>3. FrameInv([p EXCEPT ![f] = first.page], [w EXCEPT ![f] = first.wire],
                 first.emitted, first.overflowed, k)
    BY <1>3, <1>4
  <2>4. first.page.rec = p[f].rec
    BY <1>3, <1>4
  <2> QED
    BY <2>1, <2>2, <2>3, <2>4
<1>5. CASE Len(out) = 2
  <2> DEFINE second == Sent(f, first, out[2], readings[2])
  <2>1. t = second
    BY <1>5 DEF AllSent
  <2>2. 2 \in 1..Len(out) /\ out[2] \in [kind : Interactions, made : 1..k]
    BY <1>1, <1>5
  <2>3. out[2].kind \notin Delayed => out[2].made = k
    BY <1>1, <2>2
  <2> DEFINE n1 == first.emitted
             o1 == first.overflowed
  <2>4. /\ FrameInv(p1, w1, n1, o1, k)
        /\ n1 = n + 1 /\ first.page.rec = p[f].rec
        /\ first = [page |-> first.page, wire |-> first.wire,
                    emitted |-> n1, overflowed |-> o1]
    <3> HIDE DEF first
    <3> QED
      BY <1>3, <1>5 DEF Stood
  <2> HIDE DEF t, first, n1, o1
  <2>5. p1[f] = first.page /\ w1[f] = first.wire
    BY <1>0
  <2>6. first = Stand(p1, w1, n1, o1, f)
    BY <2>4, <2>5 DEF Stand
  <2> HIDE DEF second
  <2>7. /\ [p1 EXCEPT ![f] = second.page] = [p EXCEPT ![f] = second.page]
        /\ [w1 EXCEPT ![f] = second.wire] = [w EXCEPT ![f] = second.wire]
    BY <1>0
  <2> HIDE DEF p1, w1
  <2>8. /\ FrameInv([p1 EXCEPT ![f] = second.page], [w1 EXCEPT ![f] = second.wire],
                    second.emitted, second.overflowed, k)
        /\ second.emitted = n1 + 1 /\ second.page.rec = p1[f].rec
    <3>1. second = Sent(f, Stand(p1, w1, n1, o1, f), out[2], readings[2])
      BY <2>6 DEF second
    <3> QED
      BY <2>2, <2>3, <2>4, <3>1, <1>r, SentKeeps
  <2> QED
    BY <1>0, <1>5, <2>1, <2>4, <2>5, <2>7, <2>8
<1> QED
  BY <1>1, <1>2, <1>4, <1>5

-----------------------------------------------------------------------------
(* A step of the recognizer, and what it emits.                            *)
LEMMA RecKeeps ==
    ASSUME NEW p, NEW w, NEW n, NEW o, NEW k, FrameInv(p, w, n, o, k),
           NEW f \in Frames, NEW k2 \in 0..MaxActs, k <= k2,
           NEW r \in Recognizers(k2)
    PROVE  FrameInv([p EXCEPT ![f] = [p[f] EXCEPT !.rec = r]], w, n, o, k2)
<1> DEFINE q == [p EXCEPT ![f] = [p[f] EXCEPT !.rec = r]]
           y == [p[f] EXCEPT !.rec = r]
<1>a. FrameTypes(p, w, n, o, k) /\ ProcessTypes(n, k)
  BY DEF FrameInv
<1>b. /\ n \in Nat /\ k \in 0..MaxActs /\ received \in Nat
      /\ p \in [Frames -> Pages(n, k)]
      /\ w \in [Frames -> Seq(Recorded(n, k, received))]
  BY <1>a DEF FrameTypes, ProcessTypes
<1>c. MaxReading \in Nat /\ MaxActs \in Nat
  BY ConstantFacts
<1>0. k \in Nat /\ k2 \in Nat /\ n <= n /\ received <= received
  BY <1>b, <1>c
<1>2. /\ Recorded(n, k, received) \subseteq Recorded(n, k2, received)
      /\ Pages(n, k) \subseteq Pages(n, k2)
  BY <1>0, <1>b, RecordedGrows, PagesGrow
<1>3. /\ y \in Pages(n, k2) /\ y.doc = p[f].doc /\ y.hlc = p[f].hlc
      /\ y.ring = p[f].ring
  <2>1. p[f] \in Pages(n, k2)
    BY <1>2, <1>b
  <2> QED
    BY <2>1 DEF Pages
<1>4. q = [p EXCEPT ![f] = y]
  OBVIOUS
<1> HIDE DEF q, y
<1>5. q \in [Frames -> Pages(n, k2)]
  <2>1. q = [g \in Frames |-> IF g = f THEN y ELSE p[g]]
    BY <1>4, <1>b
  <2> QED
    BY <2>1, <1>2, <1>3, <1>b
<1>6. \A g \in Frames : /\ q[g].doc = p[g].doc /\ q[g].hlc = p[g].hlc
                        /\ q[g].ring = p[g].ring
  <2>1. q[f] = y /\ \A g \in Frames \ {f} : q[g] = p[g]
    BY <1>4, <1>b
  <2> QED
    BY <2>1, <1>3
<1>7. FrameTypes(q, w, n, o, k2)
  <2>1. \A g \in Frames : w[g] \in Seq(Recorded(n, k2, received))
    BY <1>2, <1>b, SequencesGrow
  <2>2. w \in [Frames -> Seq(Recorded(n, k2, received))]
    BY <2>1, <1>b
  <2>3. o \in SUBSET (1..n) /\ \A g \in Frames : Len(q[g].ring) <= Capacity
    BY <1>6, <1>a DEF FrameTypes
  <2> QED
    BY <1>b, <1>5, <2>2, <2>3 DEF FrameTypes
<1>8. ProcessTypes(n, k2)
  BY <1>2, <1>a, SequencesGrow DEF ProcessTypes
<1>9. Behind(q, w)
  <2> SUFFICES ASSUME NEW e \in Known(w)
               PROVE  /\ e.doc <= q[e.frame].doc
                      /\ e.doc = q[e.frame].doc => ~Earlier(q[e.frame].hlc, e.hlc)
      BY DEF Behind
  <2>1. e \in Recorded(n, k, received)
    BY <1>a, KnownTypes
  <2>2. e.frame \in Frames
    BY <1>0, <1>b, <2>1, RecordedFacts
  <2>3. /\ e.doc <= p[e.frame].doc
        /\ e.doc = p[e.frame].doc => ~Earlier(p[e.frame].hlc, e.hlc)
    BY DEF FrameInv, Behind
  <2> QED
    BY <1>6, <2>2, <2>3
<1>10. RingSound(q, w)
  <2>1. q[Main].ring = p[Main].ring /\ RingIds(q) = RingIds(p)
    BY <1>6, ConstantFacts DEF RingIds
  <2>2. RingSound(p, w)
    BY DEF FrameInv
  <2> QED
    BY <2>1, <2>2 DEF RingSound
<1>12. DocumentsInOrder(w) /\ WiresInOrder(w) /\ WiresApart(w) /\ Placed(w, n, o)
  BY DEF FrameInv
<1> QED
  BY <1>7, <1>8, <1>9, <1>10, <1>12 DEF FrameInv, q

LEMMA Emitting ==
    ASSUME FrameInv(page, wire, emitted, overflowed, acts),
           NEW f \in Frames, NEW k \in 0..MaxActs, acts <= k,
           NEW result, Sound(result, k), Emit(f, result)
    PROVE  /\ FrameInv(page', wire', emitted', overflowed', k)
           /\ emitted' = emitted + Len(result.out)
           /\ DOMAIN page' = Frames /\ page'[f].rec = result.rec
           /\ \A g \in Frames \ {f} : page'[g] = page[g]
           /\ UNCHANGED <<acks, sequencer, history>>
<1> DEFINE y == [page[f] EXCEPT !.rec = result.rec]
           q == [page EXCEPT ![f] = y]
           start == [page |-> y, wire |-> wire[f], emitted |-> emitted,
                     overflowed |-> overflowed]
<1>a. FrameTypes(page, wire, emitted, overflowed, acts)
  BY DEF FrameInv
<1>b. /\ page \in [Frames -> Pages(emitted, acts)]
      /\ wire \in [Frames -> Seq(Recorded(emitted, acts, received))]
  BY <1>a DEF FrameTypes
<1>1. PICK readings \in [1..2 -> 1..MaxReading] :
        \E end \in {AllSent(f, start, result.out, readings)} :
            /\ page' = [page EXCEPT ![f] = end.page]
            /\ wire' = [wire EXCEPT ![f] = end.wire]
            /\ emitted' = end.emitted
            /\ overflowed' = end.overflowed
            /\ UNCHANGED <<acks, sequencer, history>>
  BY DEF Emit
<1> DEFINE end == AllSent(f, start, result.out, readings)
<1>2. /\ page' = [page EXCEPT ![f] = end.page]
      /\ wire' = [wire EXCEPT ![f] = end.wire]
      /\ emitted' = end.emitted
      /\ overflowed' = end.overflowed
      /\ UNCHANGED <<acks, sequencer, history>>
  BY <1>1
<1>3. result.rec \in Recognizers(k) /\ result.out \in Outputs(k)
  BY DEF Sound
<1>4. FrameInv(q, wire, emitted, overflowed, k)
  BY <1>3, RecKeeps
<1>5. q[f] = y /\ y.rec = result.rec
  <2>1. y.rec = result.rec
    <3>1. page[f] \in Pages(emitted, acts)
      BY <1>b
    <3> QED
      BY <3>1 DEF Pages
  <2> HIDE DEF y
  <2> QED
    BY <1>b, <2>1
<1>6. start = Stand(q, wire, emitted, overflowed, f)
  <2> HIDE DEF q, y
  <2> QED
    BY <1>5 DEF Stand
<1>7. [q EXCEPT ![f] = end.page] = [page EXCEPT ![f] = end.page]
  <2> HIDE DEF end, y
  <2> QED
    BY <1>b
<1> DEFINE t == AllSent(f, Stand(q, wire, emitted, overflowed, f), result.out, readings)
<1>8. /\ FrameInv([q EXCEPT ![f] = t.page], [wire EXCEPT ![f] = t.wire],
                  t.emitted, t.overflowed, k)
      /\ t.emitted = emitted + Len(result.out) /\ t.page.rec = q[f].rec
  <2> HIDE DEF q
  <2> QED
    BY <1>3, <1>4, AllSentKeeps
<1>9. t = end
  BY <1>6
<1> HIDE DEF t, end, q, start, y
<1>10. /\ DOMAIN page' = Frames /\ page'[f] = end.page
       /\ \A g \in Frames \ {f} : page'[g] = page[g]
  BY <1>2, <1>b
<1> QED
  BY <1>2, <1>5, <1>7, <1>8, <1>9, <1>10

-----------------------------------------------------------------------------
(* The invariant, as what the pages disturb and what the process does.     *)
StandsNow == FrameInv(page, wire, emitted, overflowed, acts)

ProcessInv == PlacedOnce /\ HeapInv /\ LateOnlyForOthers

LEMMA IInvParts ==
    IInv <=> StandsNow /\ ProcessInv /\ CountInv
BY DEF IInv, StandsNow, FrameInv, ProcessInv, TypeInv, PlacesInv


(* The pages' steps leave the process as it is.                            *)
LEMMA ProcessStands ==
    ASSUME UNCHANGED <<heap, last, sequenced, refused>>, ProcessInv
    PROVE  ProcessInv'
BY DEF ProcessInv, PlacedOnce, OnceEach, HeapInv, Ordered, LateOnlyForOthers,
       SameDocument, ToSet

LEMMA FramesStand ==
    ASSUME UNCHANGED <<acks, heap, received, ripe, flushing, sequenced, history>>,
           FrameInv(page', wire', emitted', overflowed', acts')
    PROVE  StandsNow'
<1>1. FrameTypes(page, wire, emitted, overflowed, acts)'
  BY DEF FrameInv, FrameTypes
<1>2. ProcessTypes(emitted, acts)'
  BY DEF FrameInv, ProcessTypes, history
<1>3. Known(wire)' = Known(wire')
  BY DEF Known, Taken, history
<1>4. Behind(page, wire)' /\ DocumentsInOrder(wire)'
  BY <1>3 DEF FrameInv, Behind, DocumentsInOrder
<1>5. WiresInOrder(wire)' /\ WiresApart(wire)'
  <2>1. Taken' = Taken
    BY DEF Taken
  <2>2. WiresInOrder(wire)'
    BY <2>1 DEF FrameInv, WiresInOrder
  <2>3. WiresApart(wire)'
    BY DEF FrameInv, WiresApart, Ids
  <2> QED
    BY <2>2, <2>3
<1>6. Placed(wire, emitted, overflowed)'
  <2>1. /\ Wired(wire)' = Wired(wire') /\ LateIds' = LateIds
        /\ Ids(heap)' = Ids(heap) /\ Ids(sequenced)' = Ids(sequenced)
        /\ ignored' = ignored
    BY DEF Wired, LateIds, Ids, history
  <2>2. Placed(wire', emitted', overflowed')
    BY DEF FrameInv
  <2> QED
    BY <2>1, <2>2 DEF Placed
<1>7. RingSound(page, wire)'
  BY DEF FrameInv, RingSound, RingIds, ToSet
<1> QED
  BY <1>1, <1>2, <1>4, <1>5, <1>6, <1>7 DEF StandsNow, FrameInv

(* Each frame's share of the interactions to come.                         *)
LEMMA OneApart ==
    ASSUME NEW A \in SUBSET Frames, NEW B \in SUBSET Frames, NEW f \in Frames,
           \A g \in Frames \ {f} : g \in A <=> g \in B
    PROVE  /\ Cardinality(A) \in Nat /\ Cardinality(B) \in Nat
           /\ Cardinality(B) + (IF f \in A THEN 1 ELSE 0) =
              Cardinality(A) + (IF f \in B THEN 1 ELSE 0)
<1>1. IsFiniteSet(A) /\ IsFiniteSet(B)
  BY ConstantFacts, FS_Subset
<1>2. A \ {f} = B \ {f}
  OBVIOUS
<1>3. Cardinality(A) \in Nat /\ Cardinality(B) \in Nat
  BY <1>1, FS_CardinalityType
<1>4. Cardinality(A \ {f}) = IF f \in A THEN Cardinality(A) - 1 ELSE Cardinality(A)
  BY <1>1, FS_RemoveElement
<1>5. Cardinality(B \ {f}) = IF f \in B THEN Cardinality(B) - 1 ELSE Cardinality(B)
  BY <1>1, FS_RemoveElement
<1> QED
  BY <1>2, <1>3, <1>4, <1>5

LEMMA ToComeChanges ==
    ASSUME NEW p, NEW q, NEW f \in Frames,
           \A g \in Frames \ {f} : q[g] = p[g],
           NEW i \in Nat, NEW d \in Nat, NEW k \in Nat,
           p[f].rec \in Recognizers(k), q[f].rec \in Recognizers(k),
           i + Pending(q[f].rec) <= Pending(p[f].rec) + d
    PROVE  ToCome(p) \in Nat /\ ToCome(q) \in Nat /\ i + ToCome(q) <= ToCome(p) + d
<1>1. ASSUME NEW A \in SUBSET Frames, NEW B \in SUBSET Frames, NEW x, NEW y,
             f \in A <=> x # 0, f \in B <=> y # 0,
             \A g \in Frames \ {f} : g \in A <=> g \in B
      PROVE  /\ Cardinality(A) \in Nat /\ Cardinality(B) \in Nat
             /\ Cardinality(B) + Bit(x) = Cardinality(A) + Bit(y)
  BY <1>1, OneApart DEF Bit
<1> DEFINE r == p[f].rec
           s == q[f].rec
<1>2. /\ Cardinality(Hovering(p)) \in Nat /\ Cardinality(Hovering(q)) \in Nat
      /\ Cardinality(Hovering(q)) + Bit(r.hovered) =
         Cardinality(Hovering(p)) + Bit(s.hovered)
  <2>1. Hovering(p) \in SUBSET Frames /\ Hovering(q) \in SUBSET Frames
    BY DEF Hovering
  <2>2. /\ f \in Hovering(p) <=> r.hovered # 0
        /\ f \in Hovering(q) <=> s.hovered # 0
        /\ \A g \in Frames \ {f} : g \in Hovering(p) <=> g \in Hovering(q)
    BY DEF Hovering
  <2> DEFINE X == r.hovered
             Y == s.hovered
  <2>3. /\ f \in Hovering(p) <=> X # 0
        /\ f \in Hovering(q) <=> Y # 0
    BY <2>2
  <2>4. \A g \in Frames \ {f} : g \in Hovering(p) <=> g \in Hovering(q)
    BY <2>2
  <2> HIDE DEF X, Y
  <2>5. /\ Cardinality(Hovering(p)) \in Nat /\ Cardinality(Hovering(q)) \in Nat
        /\ Cardinality(Hovering(q)) + Bit(X) = Cardinality(Hovering(p)) + Bit(Y)
    BY <1>1, <2>1, <2>3, <2>4
  <2> QED
    BY <2>5 DEF X, Y
<1>3. /\ Cardinality(Moving(p)) \in Nat /\ Cardinality(Moving(q)) \in Nat
      /\ Cardinality(Moving(q)) + Bit(r.moved) =
         Cardinality(Moving(p)) + Bit(s.moved)
  <2>1. Moving(p) \in SUBSET Frames /\ Moving(q) \in SUBSET Frames
    BY DEF Moving
  <2>2. /\ f \in Moving(p) <=> r.moved # 0
        /\ f \in Moving(q) <=> s.moved # 0
        /\ \A g \in Frames \ {f} : g \in Moving(p) <=> g \in Moving(q)
    BY DEF Moving
  <2> DEFINE X == r.moved
             Y == s.moved
  <2>3. /\ f \in Moving(p) <=> X # 0
        /\ f \in Moving(q) <=> Y # 0
    BY <2>2
  <2>4. \A g \in Frames \ {f} : g \in Moving(p) <=> g \in Moving(q)
    BY <2>2
  <2> HIDE DEF X, Y
  <2>5. /\ Cardinality(Moving(p)) \in Nat /\ Cardinality(Moving(q)) \in Nat
        /\ Cardinality(Moving(q)) + Bit(X) = Cardinality(Moving(p)) + Bit(Y)
    BY <1>1, <2>1, <2>3, <2>4
  <2> QED
    BY <2>5 DEF X, Y
<1>4. /\ Cardinality(Typing(p)) \in Nat /\ Cardinality(Typing(q)) \in Nat
      /\ Cardinality(Typing(q)) + Bit(r.typed) =
         Cardinality(Typing(p)) + Bit(s.typed)
  <2>1. Typing(p) \in SUBSET Frames /\ Typing(q) \in SUBSET Frames
    BY DEF Typing
  <2>2. /\ f \in Typing(p) <=> r.typed # 0
        /\ f \in Typing(q) <=> s.typed # 0
        /\ \A g \in Frames \ {f} : g \in Typing(p) <=> g \in Typing(q)
    BY DEF Typing
  <2> DEFINE X == r.typed
             Y == s.typed
  <2>3. /\ f \in Typing(p) <=> X # 0
        /\ f \in Typing(q) <=> Y # 0
    BY <2>2
  <2>4. \A g \in Frames \ {f} : g \in Typing(p) <=> g \in Typing(q)
    BY <2>2
  <2> HIDE DEF X, Y
  <2>5. /\ Cardinality(Typing(p)) \in Nat /\ Cardinality(Typing(q)) \in Nat
        /\ Cardinality(Typing(q)) + Bit(X) = Cardinality(Typing(p)) + Bit(Y)
    BY <1>1, <2>1, <2>3, <2>4
  <2> QED
    BY <2>5 DEF X, Y
<1>5. /\ Bit(r.hovered) \in {0, 1} /\ Bit(r.moved) \in {0, 1} /\ Bit(r.typed) \in {0, 1}
      /\ Bit(s.hovered) \in {0, 1} /\ Bit(s.moved) \in {0, 1} /\ Bit(s.typed) \in {0, 1}
  BY DEF Bit
<1>6. i + Bit(s.hovered) + Bit(s.moved) + Bit(s.typed)
          <= Bit(r.hovered) + Bit(r.moved) + Bit(r.typed) + d
  BY <1>5 DEF Pending
<1> HIDE DEF r, s
<1> QED
  BY <1>2, <1>3, <1>4, <1>5, <1>6 DEF ToCome

(* UserActs and TimerFires: d DOM events make the recognizer come to       *)
(* result.                                                                 *)
LEMMA EmitKeeps ==
    ASSUME IInv, NEW f \in Frames, NEW d \in Nat, acts' = acts + d, acts' <= MaxActs,
           NEW result, Sound(result, acts'), Emit(f, result),
           Len(result.out) + Pending(result.rec) <= Pending(page[f].rec) + d
    PROVE  IInv'
<1>1. StandsNow /\ ProcessInv /\ CountInv
  BY IInvParts
<1>2. FrameInv(page, wire, emitted, overflowed, acts)
  BY <1>1 DEF StandsNow
<1>3. /\ acts \in Nat /\ MaxActs \in Nat /\ emitted \in Nat
      /\ page \in [Frames -> Pages(emitted, acts)]
  <2>1. FrameTypes(page, wire, emitted, overflowed, acts)
    BY <1>2 DEF FrameInv
  <2>2. MaxActs \in Nat
    BY ConstantFacts
  <2> QED
    BY <2>1, <2>2 DEF FrameTypes
<1>4. acts' \in 0..MaxActs /\ acts <= acts' /\ acts' \in Nat
  BY <1>3
<1>5. /\ FrameInv(page', wire', emitted', overflowed', acts')
      /\ emitted' = emitted + Len(result.out)
      /\ DOMAIN page' = Frames /\ page'[f].rec = result.rec
      /\ \A g \in Frames \ {f} : page'[g] = page[g]
      /\ UNCHANGED <<acks, sequencer, history>>
  BY <1>2, <1>4, Emitting
<1>6. StandsNow'
  BY <1>5, FramesStand DEF sequencer
<1>7. ProcessInv'
  BY <1>1, <1>5, ProcessStands DEF sequencer, history
<1>8. CountInv'
  <2>1. /\ page[f].rec \in Recognizers(acts') /\ page'[f].rec \in Recognizers(acts')
    <3>1. Pages(emitted, acts) \subseteq Pages(emitted, acts')
      BY <1>3, <1>4, PagesGrow
    <3>2. page[f] \in Pages(emitted, acts')
      BY <1>3, <3>1
    <3> QED
      BY <1>5, <3>2 DEF Pages, Sound
  <2>2. Len(result.out) \in Nat
    BY <1>4, OutputFacts DEF Sound
  <2>3. ToCome(page) \in Nat /\ ToCome(page') \in Nat
        /\ Len(result.out) + ToCome(page') <= ToCome(page) + d
    BY <1>4, <1>5, <2>1, <2>2, ToComeChanges
  <2>4. emitted + ToCome(page) <= acts
    BY <1>1 DEF CountInv
  <2>5. emitted' + ToCome(page') <= acts'
    BY <1>3, <1>5, <2>2, <2>3, <2>4
  <2>6. ToCome(page)' = ToCome(page')
    BY DEF ToCome, Hovering, Moving, Typing
  <2> QED
    BY <2>5, <2>6 DEF CountInv
<1>9. IInv' <=> StandsNow' /\ ProcessInv' /\ CountInv'
  BY DEF IInv, StandsNow, FrameInv, ProcessInv, TypeInv, PlacesInv
<1> QED
  BY <1>6, <1>7, <1>8, <1>9

LEMMA RecIsThere ==
    ASSUME IInv
    PROVE  /\ acts \in Nat /\ acts <= MaxActs /\ MaxActs \in Nat
           /\ \A f \in Frames : page[f].rec \in Recognizers(acts)
<1>1. MaxActs \in Nat
  BY ConstantFacts
<1>2. acts \in 0..MaxActs /\ page \in [Frames -> Pages(emitted, acts)]
  BY DEF IInv, TypeInv, FrameTypes
<1> QED
  BY <1>1, <1>2 DEF Pages

LEMMA UserActsKeeps ==
    ASSUME IInv, NEW f \in Frames, NEW e \in UsedEvents[f], UserActs(f, e)
    PROVE  IInv'
<1>1. /\ acts \in Nat /\ MaxActs \in Nat /\ page[f].rec \in Recognizers(acts)
      /\ e \in DomEvents
  BY RecIsThere, ConstantFacts
<1>2. /\ acts' = acts + 1 /\ acts' <= MaxActs
      /\ Emit(f, Handle(page[f].rec, e, acts'))
  BY <1>1 DEF UserActs
<1> DEFINE result == Handle(page[f].rec, e, acts + 1)
<1>3. /\ Sound(result, acts + 1)
      /\ Len(result.out) + Pending(result.rec) <= Pending(page[f].rec) + 1
  BY <1>1, HandleFacts
<1>4. Emit(f, result) /\ Sound(result, acts')
  BY <1>2, <1>3
<1> HIDE DEF result
<1> QED
  BY <1>2, <1>3, <1>4, EmitKeeps

LEMMA TimerFiresKeeps ==
    ASSUME IInv, NEW f \in Frames, TimerFires(f)
    PROVE  IInv'
<1>1. acts \in Nat /\ acts <= MaxActs /\ page[f].rec \in Recognizers(acts)
  BY RecIsThere
<1>2. PICK result \in Timeouts(page[f].rec) : Emit(f, result)
  BY DEF TimerFires
<1>3. /\ Sound(result, acts)
      /\ Len(result.out) + Pending(result.rec) <= Pending(page[f].rec)
  BY <1>1, TimeoutFacts
<1>4. acts' = acts + 0 /\ acts' = acts
  BY <1>1 DEF TimerFires
<1>5. Pending(page[f].rec) + 0 = Pending(page[f].rec)
  BY DEF Pending, Bit
<1> QED
  BY <1>1, <1>2, <1>3, <1>4, <1>5, EmitKeeps

-----------------------------------------------------------------------------
(* Navigate.                                                               *)
LEMMA GreatestNumber ==
    ASSUME NEW b \in Nat, NEW S \in SUBSET (0..b), S # {}
    PROVE  Max(S) \in S /\ \A x \in S : x <= Max(S)
<1> DEFINE T == {b - x : x \in S}
<1>0. \A x \in S : x \in 0..b
  OBVIOUS
<1>1. T \in SUBSET Nat /\ T # {}
  <2>1. \A x \in S : b - x \in Nat /\ b - x \in T
    BY <1>0
  <2> QED
    BY <2>1
<1>2. PICK m \in T : \A y \in T : m <= y
  BY <1>1, LeastNumber
<1>3. PICK z \in S : m = b - z
  BY <1>2
<1>4. \A x \in S : z >= x
  <2> SUFFICES ASSUME NEW x \in S
               PROVE  z >= x
      OBVIOUS
  <2>1. m <= b - x
    BY <1>2
  <2> QED
    BY <1>3, <2>1
<1>5. Max(S) \in S /\ \A y \in S : Max(S) >= y
  BY <1>4 DEF Max
<1> QED
  BY <1>0, <1>5

NextDoc == 1 + Max({page[g].doc : g \in Frames})

LEMMA NewDocument ==
    ASSUME FrameTypes(page, wire, emitted, overflowed, acts), NextDoc <= MaxDocs
    PROVE  /\ NextDoc \in 0..MaxDocs
           /\ \A g \in Frames : page[g].doc < NextDoc
<1> DEFINE S == {page[g].doc : g \in Frames}
<1>1. page \in [Frames -> Pages(emitted, acts)]
  BY DEF FrameTypes
<1>2. \A g \in Frames : page[g].doc \in 0..MaxDocs
  BY <1>1 DEF Pages
<1>3. MaxDocs \in Nat /\ Main \in Frames
  BY ConstantFacts
<1>4. S \in SUBSET (0..MaxDocs) /\ S # {}
  BY <1>2, <1>3
<1>5. Max(S) \in S /\ \A x \in S : x <= Max(S)
  BY <1>3, <1>4, GreatestNumber
<1>6. NextDoc = 1 + Max(S)
  BY DEF NextDoc
<1> DEFINE m == Max(S)
<1>7. m \in 0..MaxDocs /\ \A g \in Frames : page[g].doc <= m
  BY <1>4, <1>5
<1> HIDE DEF m
<1>8. NextDoc = 1 + m
  BY <1>6 DEF m
<1> QED
  BY <1>2, <1>3, <1>7, <1>8

LEMMA NewPageFacts ==
    ASSUME NEW n \in Nat, NEW k \in Nat, NEW d \in 0..MaxDocs
    PROVE  /\ NewPage(d) \in Pages(n, k) /\ NewPage(d).doc = d
           /\ NewPage(d).ring = <<>>
           /\ NewPage(d).rec \in Recognizers(k) /\ Pending(NewPage(d).rec) = 0
           /\ NewPage(d).rec.hovered = 0 /\ NewPage(d).rec.moved = 0
           /\ NewPage(d).rec.typed = 0
<1>1. /\ NewRecognizer \in Recognizers(k) /\ Pending(NewRecognizer) = 0
      /\ NewRecognizer.hovered = 0 /\ NewRecognizer.moved = 0
      /\ NewRecognizer.typed = 0
  BY DEF NewRecognizer, Recognizers, Pending, Bit
<1>2. NoHlc \in [physical : 0..MaxReading, logical : 0..n]
  BY ConstantFacts DEF NoHlc
<1>3. <<>> \in Seq([id : 1..n, acked : BOOLEAN])
  OBVIOUS
<1> QED
  BY <1>1, <1>2, <1>3 DEF NewPage, Pages

(* A document is new: no event is of it.                                   *)
LEMMA NewIsAhead ==
    ASSUME FrameInv(page, wire, emitted, overflowed, acts), NextDoc <= MaxDocs,
           NEW q, \A g \in Frames : q[g] = page[g] \/ q[g].doc = NextDoc
    PROVE  \A e \in Known(wire) :
               /\ e.doc <= q[e.frame].doc
               /\ e.doc = q[e.frame].doc => ~Earlier(q[e.frame].hlc, e.hlc)
<1> SUFFICES ASSUME NEW e \in Known(wire)
             PROVE  /\ e.doc <= q[e.frame].doc
                    /\ e.doc = q[e.frame].doc => ~Earlier(q[e.frame].hlc, e.hlc)
    OBVIOUS
<1>1. /\ FrameTypes(page, wire, emitted, overflowed, acts)
      /\ ProcessTypes(emitted, acts) /\ Behind(page, wire)
  BY DEF FrameInv
<1>2. e \in Recorded(emitted, acts, received)
  BY <1>1, KnownTypes
<1>3. emitted \in Nat /\ acts \in 0..MaxActs /\ received \in Nat
  BY <1>1 DEF FrameTypes, ProcessTypes
<1>4. e.frame \in Frames /\ e.doc \in 0..MaxDocs
  BY <1>2 DEF Recorded
<1>5. /\ e.doc <= page[e.frame].doc
      /\ e.doc = page[e.frame].doc => ~Earlier(page[e.frame].hlc, e.hlc)
  BY <1>1 DEF Behind
<1>6. NextDoc \in 0..MaxDocs /\ page[e.frame].doc < NextDoc
  BY <1>1, <1>4, NewDocument
<1>7. page[e.frame].doc \in 0..MaxDocs /\ MaxDocs \in Nat
  <2>1. page \in [Frames -> Pages(emitted, acts)]
    BY <1>1 DEF FrameTypes
  <2>2. MaxDocs \in Nat
    BY ConstantFacts
  <2> QED
    BY <1>4, <2>1, <2>2 DEF Pages
<1>8. CASE q[e.frame] = page[e.frame]
  BY <1>5, <1>8
<1>9. CASE q[e.frame].doc = NextDoc
  BY <1>4, <1>5, <1>6, <1>7, <1>9
<1> QED
  BY <1>4, <1>8, <1>9

LEMMA NavigateFrameKeeps ==
    ASSUME IInv, NEW f \in Frames, f # Main, Navigate(f)
    PROVE  IInv'
<1> DEFINE new == NewPage(NextDoc)
           q == [page EXCEPT ![f] = new]
<1>1. /\ StandsNow /\ ProcessInv /\ CountInv
      /\ FrameInv(page, wire, emitted, overflowed, acts)
  BY IInvParts DEF StandsNow
<1>2. /\ NextDoc <= MaxDocs /\ page' = q
      /\ UNCHANGED <<wire, ignored, acks, sequencer, acts, emitted, overflowed, refused>>
  <2>1. /\ NextDoc <= MaxDocs /\ page' = q /\ UNCHANGED <<wire, ignored>>
    BY DEF Navigate, NextDoc
  <2>2. UNCHANGED <<acks, sequencer, acts, emitted, overflowed, refused>>
    BY DEF Navigate
  <2> QED
    BY <2>1, <2>2
<1>3. /\ FrameTypes(page, wire, emitted, overflowed, acts)
      /\ ProcessTypes(emitted, acts)
  BY <1>1 DEF FrameInv
<1>4. /\ emitted \in Nat /\ acts \in 0..MaxActs /\ MaxActs \in Nat
      /\ page \in [Frames -> Pages(emitted, acts)]
  BY <1>3, ConstantFacts DEF FrameTypes
<1>5. acts \in Nat
  BY <1>4
<1>6. NextDoc \in 0..MaxDocs
  BY <1>2, <1>3, NewDocument
<1>7. /\ new \in Pages(emitted, acts) /\ new.doc = NextDoc
      /\ new.ring = <<>>
      /\ new.rec \in Recognizers(acts) /\ Pending(new.rec) = 0
  BY <1>4, <1>5, <1>6, NewPageFacts
<1> HIDE DEF new
<1>8. q[f] = new /\ \A g \in Frames \ {f} : q[g] = page[g]
  BY <1>4
<1>9. q \in [Frames -> Pages(emitted, acts)]
  BY <1>4, <1>7
<1> HIDE DEF q
<1>10. FrameTypes(q, wire, emitted, overflowed, acts)
  <2>1. \A g \in Frames : Len(q[g].ring) <= Capacity
    <3>1. Len(new.ring) <= Capacity
      BY <1>7, ConstantFacts
    <3>2. \A g \in Frames : Len(page[g].ring) <= Capacity
      BY <1>3 DEF FrameTypes
    <3> QED
      BY <1>8, <3>1, <3>2
  <2> QED
    BY <1>3, <1>9, <2>1 DEF FrameTypes
<1>11. Behind(q, wire)
  <2>1. \A g \in Frames : q[g] = page[g] \/ q[g].doc = NextDoc
    BY <1>7, <1>8
  <2> QED
    BY <1>1, <1>2, <2>1, NewIsAhead DEF Behind
<1>12. RingSound(q, wire)
  <2>1. q[Main] = page[Main]
    BY <1>8, ConstantFacts
  <2>2. RingIds(q) = RingIds(page)
    BY <2>1 DEF RingIds
  <2>3. RingSound(page, wire)
    BY <1>1 DEF FrameInv
  <2> QED
    BY <2>1, <2>2, <2>3 DEF RingSound
<1>14. FrameInv(q, wire, emitted, overflowed, acts)
  BY <1>1, <1>3, <1>10, <1>11, <1>12 DEF FrameInv
<1>15. StandsNow'
  <2>1. FrameInv(page', wire', emitted', overflowed', acts')
    BY <1>2, <1>14
  <2> QED
    BY <1>2, <2>1, FramesStand DEF sequencer, history
<1>16. ProcessInv'
  BY <1>1, <1>2, ProcessStands DEF sequencer
<1>17. CountInv'
  <2>1. page[f].rec \in Recognizers(acts)
    BY <1>4 DEF Pages
  <2>2. Pending(page[f].rec) \in Nat
    BY DEF Pending, Bit
  <2>3. 0 + Pending(q[f].rec) <= Pending(page[f].rec) + 0 /\ q[f].rec \in Recognizers(acts)
    BY <1>7, <1>8, <2>2
  <2>4. /\ ToCome(page) \in Nat /\ ToCome(q) \in Nat
        /\ 0 + ToCome(q) <= ToCome(page) + 0
    BY <1>5, <1>8, <2>1, <2>3, ToComeChanges
  <2>5. emitted + ToCome(q) <= acts
    BY <1>1, <1>4, <1>5, <2>4 DEF CountInv
  <2>6. ToCome(page)' = ToCome(q)
    BY <1>2 DEF ToCome, Hovering, Moving, Typing
  <2> QED
    BY <1>2, <2>5, <2>6 DEF CountInv
<1>18. IInv' <=> StandsNow' /\ ProcessInv' /\ CountInv'
  BY DEF IInv, StandsNow, FrameInv, ProcessInv, TypeInv, PlacesInv
<1> QED
  BY <1>15, <1>16, <1>17, <1>18

LEMMA NavigateMainKeeps ==
    ASSUME IInv, Navigate(Main)
    PROVE  IInv'
<1> DEFINE new == NewPage(NextDoc)
           n == emitted
           k == acts
           A == Ids(wire[Main])
           B == UNION {Ids(wire[g]) : g \in Children}
<1>1. /\ StandsNow /\ ProcessInv /\ CountInv
      /\ FrameInv(page, wire, n, overflowed, k)
  BY IInvParts DEF StandsNow
<1>2. /\ NextDoc <= MaxDocs
      /\ page' = [g \in Frames |-> new]
      /\ wire' = [g \in Frames |-> IF g = Main THEN wire[g] ELSE <<>>]
      /\ ignored' = ignored \union B
  BY DEF Navigate, NextDoc
<1>3. UNCHANGED <<acks, heap, received, ripe, last, flushing, sequenced, acts,
                  emitted, overflowed, refused>>
  BY DEF Navigate, sequencer
<1>4. FrameTypes(page, wire, n, overflowed, k) /\ ProcessTypes(n, k)
  BY <1>1 DEF FrameInv
<1>5. /\ n \in Nat /\ k \in 0..MaxActs /\ MaxActs \in Nat /\ received \in Nat
      /\ wire \in [Frames -> Seq(Recorded(n, k, received))]
  BY <1>4, ConstantFacts DEF FrameTypes, ProcessTypes
<1>6. k \in Nat
  BY <1>5
<1>7. NextDoc \in 0..MaxDocs
  BY <1>2, <1>4, NewDocument
<1>8. /\ new \in Pages(n, k) /\ new.doc = NextDoc
      /\ new.ring = <<>>
      /\ new.rec.hovered = 0 /\ new.rec.moved = 0 /\ new.rec.typed = 0
  BY <1>5, <1>6, <1>7, NewPageFacts
<1> HIDE DEF new, n, k
<1>9. /\ \A g \in Frames : page'[g] = new /\ Main \in Frames
      /\ wire'[Main] = wire[Main]
      /\ \A g \in Children : wire'[g] = <<>>
      /\ Frames = {Main} \union Children /\ Main \notin Children
  BY <1>2, ConstantFacts DEF Frames
<1>10. /\ Ids(wire'[Main]) = A /\ \A g \in Children : Ids(wire'[g]) = {}
  BY <1>9 DEF Ids
<1>11. FrameTypes(page, wire, emitted, overflowed, acts)'
  <2>1. page' \in [Frames -> Pages(n, k)]
    BY <1>2, <1>8
  <2>2. wire' \in [Frames -> Seq(Recorded(n, k, received))]
    <3> DEFINE R == Recorded(n, k, received)
    <3>1. wire \in [Frames -> Seq(R)] /\ <<>> \in Seq(R)
      BY <1>5
    <3> HIDE DEF R
    <3>2. wire' \in [Frames -> Seq(R)]
      BY <1>2, <3>1
    <3> QED
      BY <3>2 DEF R
  <2>3. \A g \in Frames : Len(page'[g].ring) <= Capacity
    BY <1>8, <1>9, ConstantFacts
  <2>4. overflowed \in SUBSET (1..n)
    BY <1>4 DEF FrameTypes
  <2> QED
    BY <1>3, <1>5, <2>1, <2>2, <2>3, <2>4 DEF FrameTypes, n, k
<1>12. Placed(wire, n, overflowed) /\ WiresApart(wire) /\ WiresInOrder(wire)
  BY <1>1 DEF FrameInv
<1>13. Wired(wire) = A \union B /\ A \intersect B = {}
  <2>1. Wired(wire) = A \union B
    BY <1>9 DEF Wired
  <2>2. \A g \in Children : A \intersect Ids(wire[g]) = {}
    BY <1>9, <1>12 DEF WiresApart
  <2> QED
    BY <2>1, <2>2
<1>14. Wired(wire') = A
  BY <1>9, <1>10 DEF Wired
<1>15. ProcessTypes(emitted, acts)'
  <2>1. ignored' \in SUBSET (1..n)
    <3>1. Wired(wire) \subseteq 1..n /\ ignored \subseteq 1..n
      BY <1>12, PlacedWithin
    <3> QED
      BY <1>2, <1>13, <3>1
  <2> QED
    BY <1>3, <1>4, <2>1 DEF ProcessTypes, n, k
<1>16. Placed(wire, emitted, overflowed)'
  <2>1. /\ LateIds' = LateIds /\ Ids(heap)' = Ids(heap)
        /\ Ids(sequenced)' = Ids(sequenced) /\ Wired(wire)' = Wired(wire')
    BY <1>3 DEF LateIds, Ids, Wired
  <2> HIDE DEF A, B
  <2> QED
    BY <1>2, <1>3, <1>12, <1>13, <1>14, <2>1 DEF Placed, n
<1>17. Known(wire)' \subseteq Known(wire)
  <2>2. \A g \in Children : ToSet(wire'[g]) = {}
    BY <1>9 DEF ToSet
  <2>3. Wiring(wire') \subseteq Wiring(wire)
    BY <1>9, <2>2 DEF Wiring
  <2>4. Known(wire)' = Known(wire')
    <3>1. Taken' = Taken
      BY <1>3 DEF Taken
    <3> QED
      BY <1>3, <3>1 DEF Known, Wiring
  <2> QED
    BY <1>3, <2>3, <2>4 DEF Known
<1>18. Behind(page, wire)'
  <2>1. \A e \in Known(wire) :
            /\ e.doc <= page'[e.frame].doc
            /\ e.doc = page'[e.frame].doc => ~Earlier(page'[e.frame].hlc, e.hlc)
    <3>1. \A g \in Frames : page'[g] = page[g] \/ page'[g].doc = NextDoc
      BY <1>8, <1>9
    <3> QED
      BY <1>1, <1>2, <3>1, NewIsAhead DEF n, k
  <2> QED
    BY <1>17, <2>1 DEF Behind
<1>19. DocumentsInOrder(wire)'
  <2>1. DocumentsInOrder(wire)
    BY <1>1 DEF FrameInv
  <2> QED
    BY <1>17, <2>1 DEF DocumentsInOrder, SameDocument
<1>20. WiresInOrder(wire)'
  <2>1. \A g \in Frames : wire'[g] = wire[g] \/ DOMAIN wire'[g] = {}
    BY <1>9
  <2>2. \A g \in Frames : \A i \in DOMAIN wire'[g] :
            i \in DOMAIN wire[g] /\ wire'[g][i] = wire[g][i]
    BY <2>1
  <2>3. Taken' = Taken
    BY <1>3 DEF Taken
  <2>4. \A e \in Taken : e.frame \in Frames
    <3>1. Known(wire) \subseteq Recorded(n, k, received)
      BY <1>4, KnownTypes
    <3> QED
      BY <3>1 DEF Known, Recorded
  <2> QED
    BY <1>12, <2>2, <2>3, <2>4 DEF WiresInOrder
<1>21. WiresApart(wire)'
  <2>1. \A g \in Frames : Ids(wire'[g]) \subseteq Ids(wire[g])
    BY <1>9, <1>10
  <2>2. \A g \in Frames : Ids(wire[g])' = Ids(wire'[g])
    BY DEF Ids
  <2> QED
    BY <1>12, <2>1, <2>2 DEF WiresApart
<1>22. RingSound(page, wire)'
  <2>1. page'[Main].ring = <<>> /\ Main \in Frames
    BY <1>8, <1>9
  <2>2. RingIds(page)' = {}
    BY <2>1 DEF RingIds, Ids
  <2> QED
    BY <2>1, <2>2 DEF RingSound
<1>24. StandsNow'
  BY <1>11, <1>15, <1>16, <1>18, <1>19, <1>20, <1>21, <1>22
     DEF StandsNow, FrameInv
<1>25. ProcessInv'
  BY <1>1, <1>3, ProcessStands
<1>26. CountInv'
  <2>1. /\ Hovering(page)' = {} /\ Moving(page)' = {} /\ Typing(page)' = {}
    BY <1>8, <1>9 DEF Hovering, Moving, Typing
  <2>2. ToCome(page)' = 0
    BY <2>1, FS_EmptySet DEF ToCome
  <2>3. emitted <= acts
    <3>1. Hovering(page) \in SUBSET Frames /\ Moving(page) \in SUBSET Frames
          /\ Typing(page) \in SUBSET Frames
      BY DEF Hovering, Moving, Typing
    <3>2. /\ Cardinality(Hovering(page)) \in Nat /\ Cardinality(Moving(page)) \in Nat
          /\ Cardinality(Typing(page)) \in Nat
      BY <3>1, ConstantFacts, FS_Subset, FS_CardinalityType
    <3> QED
      BY <1>1, <1>5, <1>6, <3>2 DEF CountInv, ToCome, n, k
  <2> QED
    BY <1>3, <1>5, <2>2, <2>3 DEF CountInv, n, k
<1>27. IInv' <=> StandsNow' /\ ProcessInv' /\ CountInv'
  BY DEF IInv, StandsNow, FrameInv, ProcessInv, TypeInv, PlacesInv
<1> QED
  BY <1>24, <1>25, <1>26, <1>27

-----------------------------------------------------------------------------
(* Ack: it frees the oldest of the ring, or nothing.                       *)
LEMMA TailFacts ==
    ASSUME NEW E, NEW s \in Seq(E), s # <<>>
    PROVE  /\ Tail(s) \in Seq(E) /\ Len(s) \in Nat \ {0} /\ Len(Tail(s)) = Len(s) - 1
           /\ DOMAIN s = 1..Len(s) /\ DOMAIN Tail(s) = 1..(Len(s) - 1)
           /\ Head(s) = s[1] /\ s[1] \in E
           /\ \A i \in DOMAIN Tail(s) : i + 1 \in DOMAIN s /\ Tail(s)[i] = s[i + 1]
           /\ ToSet(s) = ToSet(Tail(s)) \union {s[1]}
<1> DEFINE t == Tail(s)
           N == Len(s)
<1>1. /\ t \in Seq(E) /\ N \in Nat \ {0} /\ Len(t) = N - 1
      /\ DOMAIN s = 1..N /\ DOMAIN t = 1..(N - 1)
      /\ Head(s) = s[1] /\ s[1] \in E
      /\ \A i \in 1..(N - 1) : t[i] = s[i + 1]
  OBVIOUS
<1> HIDE DEF t, N
<1>2. \A i \in 1..(N - 1) : i + 1 \in 1..N
  BY <1>1
<1>3. ToSet(s) \subseteq ToSet(t) \union {s[1]}
  <2> SUFFICES ASSUME NEW i \in 1..N, i # 1
               PROVE  s[i] \in ToSet(t)
      BY <1>1 DEF ToSet
  <2>1. i - 1 \in 1..(N - 1) /\ (i - 1) + 1 = i
    BY <1>1
  <2>2. t[i - 1] = s[i]
    BY <1>1, <2>1
  <2> QED
    BY <1>1, <2>1, <2>2 DEF ToSet
<1>4. ToSet(t) \union {s[1]} \subseteq ToSet(s)
  <2>1. 1 \in 1..N
    BY <1>1
  <2>2. s[1] \in ToSet(s)
    BY <1>1, <2>1 DEF ToSet
  <2>3. ToSet(t) \subseteq ToSet(s)
    <3> SUFFICES ASSUME NEW i \in 1..(N - 1)
                 PROVE  t[i] \in ToSet(s)
        BY <1>1 DEF ToSet
    <3>1. i + 1 \in 1..N /\ t[i] = s[i + 1]
      BY <1>1, <1>2
    <3> QED
      BY <1>1, <3>1 DEF ToSet
  <2> QED
    BY <2>2, <2>3
<1> QED
  BY <1>1, <1>2, <1>3, <1>4 DEF t, N

LEMMA SmallestNumber ==
    ASSUME NEW S \in SUBSET Nat, NEW z \in S, \A x \in S : z <= x
    PROVE  Min(S) = z
<1>1. Min(S) \in S /\ \A x \in S : Min(S) <= x
  BY DEF Min
<1> DEFINE m == Min(S)
<1>2. m \in Nat /\ z \in Nat /\ m <= z /\ z <= m
  BY <1>1
<1> HIDE DEF m
<1>3. m = z
  BY <1>2
<1> QED
  BY <1>3 DEF m

RingItem(n) == [id : 1..n, acked : BOOLEAN]

LEMMA Acknowledging ==
    ASSUME NEW n \in Nat, NEW ring \in Seq(RingItem(n)),
           \A i \in DOMAIN ring : ~ring[i].acked,
           \A i, j \in DOMAIN ring : i < j => ring[i].id < ring[j].id,
           NEW a, a \in Ids(ring) => ring[1].id = a
    PROVE  LET t == Acknowledged(ring, a)
           IN  /\ t \in Seq(RingItem(n)) /\ Len(t) <= Len(ring)
               /\ Ids(t) \subseteq Ids(ring) \ {a}
               /\ \E d \in {0, 1} : \A i \in DOMAIN t :
                      i \in Nat /\ i + d \in DOMAIN ring /\ t[i] = ring[i + d]
<1> DEFINE R == RingItem(n)
           N == Len(ring)
           t == Acknowledged(ring, a)
           After(i) == [ring[i] EXCEPT !.acked = @ \/ ring[i].id = a]
           marked == [i \in DOMAIN ring |->
                         [ring[i] EXCEPT !.acked = @ \/ ring[i].id = a]]
           pending == {i \in DOMAIN marked : ~marked[i].acked}
<1> SUFFICES /\ t \in Seq(R) /\ Len(t) <= N
             /\ Ids(t) \subseteq Ids(ring) \ {a}
             /\ \E d \in {0, 1} : \A i \in DOMAIN t :
                    i \in Nat /\ i + d \in DOMAIN ring /\ t[i] = ring[i + d]
    OBVIOUS
<1>1. /\ N \in Nat /\ DOMAIN ring = 1..N /\ ring \in [1..N -> R]
      /\ \A i \in 1..N : ring[i] \in R /\ ring[i].acked \in BOOLEAN
                         /\ ring[i].id \in 1..n
  <2>1. N \in Nat /\ DOMAIN ring = 1..N /\ ring \in [1..N -> R]
    OBVIOUS
  <2>2. \A r \in R : r.acked \in BOOLEAN /\ r.id \in 1..n
    BY DEF RingItem
  <2> HIDE DEF R
  <2> QED
    BY <2>1, <2>2
<1>2. \A i \in 1..N : /\ marked[i] \in R
                      /\ (marked[i].acked <=> ring[i].id = a)
                      /\ ring[i].id # a => marked[i] = ring[i]
  <2> SUFFICES ASSUME NEW i \in 1..N
               PROVE  /\ marked[i] \in R
                      /\ (marked[i].acked <=> ring[i].id = a)
                      /\ ring[i].id # a => marked[i] = ring[i]
      OBVIOUS
  <2>1. marked[i] = [ring[i] EXCEPT !.acked = ring[i].acked \/ ring[i].id = a]
    BY <1>1
  <2>2. ~ring[i].acked
    BY <1>1
  <2> DEFINE r == ring[i]
  <2>3. r \in R /\ r.id \in 1..n /\ r = [id |-> r.id, acked |-> FALSE]
    BY <1>1, <2>2 DEF RingItem
  <2> HIDE DEF r, marked
  <2>4. marked[i] = [r EXCEPT !.acked = r.acked \/ r.id = a] /\ ~r.acked
    BY <2>1, <2>2 DEF r
  <2>5. CASE r.id = a
    <3>1. marked[i] = [id |-> r.id, acked |-> TRUE]
      BY <2>3, <2>4, <2>5
    <3>2. marked[i] \in R /\ marked[i].acked
      BY <2>3, <3>1 DEF RingItem
    <3>3. ring[i].id = a
      BY <2>5 DEF r
    <3>4. marked[i].acked \in BOOLEAN
      BY <3>1
    <3> QED
      BY <3>2, <3>3, <3>4
  <2>6. CASE r.id # a
    <3>1. marked[i] = [id |-> r.id, acked |-> FALSE]
      BY <2>3, <2>4, <2>6
    <3>2. marked[i] \in R /\ ~marked[i].acked /\ marked[i] = r
      BY <2>3, <3>1 DEF RingItem
    <3>3. ring[i].id # a
      BY <2>6 DEF r
    <3>4. marked[i].acked \in BOOLEAN
      BY <3>1
    <3> QED
      BY <3>2, <3>3, <3>4 DEF r
  <2> QED
    BY <2>5, <2>6
<1>3. /\ marked \in [1..N -> R] /\ DOMAIN marked = 1..N
      /\ marked = [i \in 1..N |-> marked[i]]
  BY <1>1, <1>2
<1>4. t = IF pending = {} THEN <<>> ELSE SubSeq(marked, Min(pending), Len(marked))
  BY DEF Acknowledged, Freed
<1> HIDE DEF marked, t
<1>5. marked \in Seq(R) /\ Len(marked) = N
  BY <1>1, <1>3
<1>6. pending = {i \in 1..N : ring[i].id # a}
  BY <1>2, <1>3
<1>7. CASE N = 0
  <2>1. t = <<>>
    BY <1>4, <1>6, <1>7
  <2>2. DOMAIN t = {} /\ Len(t) = 0 /\ t \in Seq(R)
    BY <2>1
  <2> QED
    BY <1>1, <2>2 DEF Ids
<1>8. CASE N > 0 /\ a \notin Ids(ring)
  <2>1. \A i \in 1..N : ring[i].id # a
    BY <1>1, <1>8 DEF Ids
  <2>2. pending = 1..N
    BY <1>6, <2>1
  <2>3. \A i \in 1..N : marked[i] = ring[i]
    BY <1>2, <2>1
  <2>4. 1 \in 1..N /\ \A x \in 1..N : 1 <= x
    BY <1>1, <1>8
  <2>5. Min(1..N) = 1
    BY <2>4, SmallestNumber
  <2>6. t = SubSeq(marked, 1, N)
    BY <1>4, <1>5, <2>2, <2>4, <2>5
  <2>7. t = marked
    BY <1>1, <1>3, <1>5, <2>6
  <2>8. /\ DOMAIN t = 1..N /\ Len(t) = N /\ t \in Seq(R)
        /\ \A i \in 1..N : t[i] = ring[i] /\ i + 0 = i /\ i \in Nat
    BY <1>3, <1>5, <2>3, <2>7
  <2>9. Ids(t) = Ids(ring)
    BY <1>1, <2>8 DEF Ids
  <2>10. \A i \in DOMAIN t : i \in Nat /\ i + 0 \in DOMAIN ring /\ t[i] = ring[i + 0]
    BY <1>1, <2>8
  <2> QED
    BY <1>1, <1>8, <2>8, <2>9, <2>10
<1>9. CASE N > 0 /\ a \in Ids(ring)
  <2>1. ring[1].id = a /\ 1 \in 1..N
    BY <1>1, <1>9
  <2>2. \A i \in 2..N : i \in 1..N /\ 1 < i /\ ring[i].id # a
    <3> SUFFICES ASSUME NEW i \in 2..N
                 PROVE  i \in 1..N /\ 1 < i /\ ring[i].id # a
        OBVIOUS
    <3>1. i \in 1..N /\ 1 < i
      BY <1>1
    <3>2. ring[1].id < ring[i].id
      BY <1>1, <2>1, <3>1
    <3>3. ring[1].id \in Nat /\ ring[i].id \in Nat
      BY <1>1, <2>1, <3>1
    <3> QED
      BY <2>1, <3>1, <3>2, <3>3
  <2>3. pending = 2..N
    <3>1. \A i \in 1..N : i # 1 => i \in 2..N
      BY <1>1
    <3> QED
      BY <1>6, <2>1, <2>2, <3>1
  <2>4. \A i \in 2..N : marked[i] = ring[i]
    BY <1>2, <2>2
  <2>5. CASE N = 1
    <3>1. t = <<>>
      BY <1>4, <2>3, <2>5
    <3>2. DOMAIN t = {} /\ Len(t) = 0 /\ t \in Seq(R)
      BY <3>1
    <3> QED
      BY <1>1, <3>2 DEF Ids
  <2>6. CASE N > 1
    <3>1. 2 \in 2..N /\ \A x \in 2..N : 2 <= x
      BY <1>1, <2>6
    <3>2. Min(2..N) = 2
      <4>1. 2..N \in SUBSET Nat
        BY <1>1
      <4> QED
        BY <3>1, <4>1, SmallestNumber
    <3>3. t = SubSeq(marked, 2, N)
      BY <1>4, <1>5, <2>3, <3>1, <3>2
    <3>4. /\ DOMAIN t = 1..(N - 1) /\ Len(t) = N - 1 /\ t \in Seq(R)
          /\ \A i \in 1..(N - 1) : t[i] = marked[i + 1]
      <4>1. \A i \in 2..N : marked[i] \in R
        BY <1>2, <2>2
      <4> HIDE DEF R, N
      <4> QED
        BY <1>1, <1>5, <2>6, <3>3, <4>1
    <3>5. \A i \in 1..(N - 1) : i \in Nat /\ i + 1 \in 2..N /\ i + 1 \in DOMAIN ring
      BY <1>1
    <3>6. \A i \in 1..(N - 1) : t[i] = ring[i + 1]
      BY <2>4, <3>4, <3>5
    <3>7. Ids(t) \subseteq Ids(ring) \ {a}
      <4> SUFFICES ASSUME NEW i \in 1..(N - 1)
                   PROVE  t[i].id \in Ids(ring) \ {a}
          BY <3>4 DEF Ids
      <4>1. i + 1 \in 2..N /\ i + 1 \in DOMAIN ring /\ t[i] = ring[i + 1]
        BY <3>5, <3>6
      <4> QED
        BY <2>2, <4>1 DEF Ids
    <3>8. \A i \in DOMAIN t : i \in Nat /\ i + 1 \in DOMAIN ring /\ t[i] = ring[i + 1]
      BY <3>4, <3>5, <3>6
    <3> QED
      BY <1>1, <3>4, <3>7, <3>8
  <2> QED
    BY <1>1, <1>9, <2>5, <2>6
<1> QED
  BY <1>1, <1>7, <1>8, <1>9

(* Whatever comes back, it is of the oldest in the ring or of none.        *)
LEMMA OldestComesBack ==
    ASSUME StandsNow, acks # <<>>, Head(acks) \in RingIds(page)
    PROVE  page[Main].ring[1].id = Head(acks)
<1> DEFINE n == emitted
           ring == page[Main].ring
           N == Len(ring)
           a == acks[1]
<1>1. FrameTypes(page, wire, n, overflowed, acts) /\ ProcessTypes(n, acts)
  BY DEF StandsNow, FrameInv
<1>2. /\ n \in Nat /\ acks \in Seq(1..n) /\ ring \in Seq(RingItem(n))
  <2>1. page \in [Frames -> Pages(n, acts)] /\ Main \in Frames
    BY <1>1, ConstantFacts DEF FrameTypes
  <2>2. page[Main] \in Pages(n, acts)
    BY <2>1
  <2> QED
    BY <1>1, <2>2 DEF ProcessTypes, FrameTypes, Pages, RingItem
<1>3. /\ Len(acks) \in Nat \ {0} /\ DOMAIN acks = 1..Len(acks) /\ Head(acks) = a
      /\ 1 \in DOMAIN acks /\ a \in 1..n /\ \A j \in DOMAIN acks : acks[j] \in 1..n
  BY <1>2
<1>4. N \in Nat /\ DOMAIN ring = 1..N /\ \A i \in DOMAIN ring : ring[i].id \in 1..n
  BY <1>2, RingFacts DEF RingItem
<1>5. /\ \A i, j \in DOMAIN ring : i < j => ring[i].id < ring[j].id
      /\ RingIds(page) \subseteq Ids(wire[Main]) \union ToSet(acks)
      /\ \A i, j \in DOMAIN acks :
             i < j /\ {acks[i], acks[j]} \subseteq RingIds(page) => acks[i] < acks[j]
      /\ \A i \in DOMAIN acks : acks[i] \in RingIds(page) =>
             \A j \in DOMAIN wire[Main] : acks[i] < wire[Main][j].id
  BY DEF StandsNow, FrameInv, RingSound
<1> HIDE DEF ring, N, n, a
<1>6. PICK i \in DOMAIN ring : ring[i].id = a
  BY <1>3 DEF RingIds, Ids, ring
<1>7. 1 \in DOMAIN ring /\ i \in Nat /\ 1 <= i
  BY <1>4
<1> DEFINE b == ring[1].id
<1>8. b \in RingIds(page) /\ b \in 1..n
  BY <1>4, <1>7 DEF RingIds, Ids, ring
<1>9. b <= a
  <2>1. CASE i = 1
    BY <1>3, <1>6, <2>1, <1>2
  <2>2. CASE 1 < i
    <3>1. b < a
      BY <1>5, <1>6, <1>7, <2>2
    <3> QED
      BY <1>2, <1>3, <1>8, <3>1
  <2> QED
    BY <1>7, <2>1, <2>2
<1> HIDE DEF b
<1>10. b \notin Ids(wire[Main])
  <2> SUFFICES ASSUME NEW j \in DOMAIN wire[Main], wire[Main][j].id = b
               PROVE  FALSE
      BY DEF Ids
  <2>1. acks[1] < b
    BY <1>3, <1>5, <1>6 DEF a
  <2> QED
    BY <1>2, <1>3, <1>8, <1>9, <2>1 DEF a
<1>11. PICK j \in DOMAIN acks : acks[j] = b
  BY <1>5, <1>8, <1>10 DEF ToSet
<1>12. j = 1
  <2> SUFFICES ASSUME 1 < j
               PROVE  FALSE
      BY <1>3
  <2>1. {acks[1], acks[j]} \subseteq RingIds(page)
    BY <1>3, <1>8, <1>11 DEF a
  <2>2. acks[1] < acks[j]
    BY <1>3, <1>5, <2>1
  <2> QED
    BY <1>2, <1>3, <1>8, <1>9, <1>11, <2>2 DEF a
<1> QED
  BY <1>3, <1>11, <1>12 DEF a, b, ring

LEMMA AckKeeps ==
    ASSUME IInv, Ack
    PROVE  IInv'
<1> DEFINE n == emitted
           k == acts
           ring == page[Main].ring
           N == Len(ring)
           a == Head(acks)
           free == Acknowledged(ring, a)
           y == [page[Main] EXCEPT !.ring = free]
           later == Tail(acks)
<1>1. /\ StandsNow /\ ProcessInv /\ CountInv
      /\ FrameInv(page, wire, n, overflowed, k)
  BY IInvParts DEF StandsNow
<1>2. /\ acks # <<>> /\ acks' = later
      /\ page' = [page EXCEPT ![Main] = y]
      /\ UNCHANGED <<wire, heap, received, ripe, last, flushing, sequenced, acts,
                     emitted, overflowed, ignored, refused>>
  BY DEF Ack, sequencer, history
<1>3. FrameTypes(page, wire, n, overflowed, k) /\ ProcessTypes(n, k)
  BY <1>1 DEF FrameInv
<1>4. /\ n \in Nat /\ k \in Nat /\ k \in 0..MaxActs
      /\ page \in [Frames -> Pages(n, k)] /\ Main \in Frames
      /\ acks \in Seq(1..n)
  BY <1>3, ConstantFacts DEF FrameTypes, ProcessTypes
<1>5. page[Main] \in Pages(n, k) /\ ring \in Seq(RingItem(n)) /\ Len(ring) <= Capacity
  <2>1. page[Main] \in Pages(n, k)
    BY <1>4
  <2> QED
    BY <1>3, <1>4, <2>1 DEF FrameTypes, Pages, RingItem
<1>6. RingSound(page, wire)
  BY <1>1 DEF FrameInv
<1>7. /\ \A i \in DOMAIN ring : ~ring[i].acked
      /\ \A i, j \in DOMAIN ring : i < j => ring[i].id < ring[j].id
  BY <1>6 DEF RingSound
<1>8. a \in Ids(ring) => ring[1].id = a
  BY <1>1, <1>2, OldestComesBack DEF RingIds
<1>9. /\ free \in Seq(RingItem(n)) /\ Len(free) <= N
      /\ Ids(free) \subseteq Ids(ring) \ {a}
      /\ \E d \in {0, 1} : \A i \in DOMAIN free :
             i \in Nat /\ i + d \in DOMAIN ring /\ free[i] = ring[i + d]
  <2>1. n \in Nat /\ ring \in Seq(RingItem(n))
    BY <1>4, <1>5
  <2> HIDE DEF ring, a, n
  <2>2. LET t == Acknowledged(ring, a)
        IN  /\ t \in Seq(RingItem(n)) /\ Len(t) <= Len(ring)
            /\ Ids(t) \subseteq Ids(ring) \ {a}
            /\ \E d \in {0, 1} : \A i \in DOMAIN t :
                   i \in Nat /\ i + d \in DOMAIN ring /\ t[i] = ring[i + d]
    BY <2>1, <1>7, <1>8, Acknowledging
  <2> QED
    BY <2>2
<1>10. /\ later \in Seq(1..n) /\ a = acks[1]
       /\ \A i \in DOMAIN later :
              i \in Nat /\ i + 1 \in DOMAIN acks /\ later[i] = acks[i + 1]
       /\ ToSet(acks) = ToSet(later) \union {a}
  <2>1. DOMAIN later = 1..(Len(acks) - 1)
    BY <1>2, <1>4, TailFacts
  <2> QED
    BY <1>2, <1>4, <2>1, TailFacts
<1> HIDE DEF free, a, later
<1>11. /\ y \in Pages(n, k) /\ y.ring = free /\ y.doc = page[Main].doc
       /\ y.hlc = page[Main].hlc /\ y.rec = page[Main].rec
  BY <1>5, <1>9 DEF Pages, RingItem
<1> HIDE DEF y
<1>12. /\ page' \in [Frames -> Pages(n, k)] /\ page'[Main] = y
       /\ \A g \in Frames \ {Main} : page'[g] = page[g]
  BY <1>2, <1>4, <1>11
<1>13. \A g \in Frames : /\ page'[g].doc = page[g].doc /\ page'[g].hlc = page[g].hlc
                         /\ page'[g].rec = page[g].rec
  BY <1>11, <1>12
<1>14. FrameTypes(page, wire, emitted, overflowed, acts)'
  <2>1. \A g \in Frames : Len(page'[g].ring) <= Capacity
    <3>1. \A g \in Frames \ {Main} : Len(page'[g].ring) <= Capacity
      BY <1>3, <1>12 DEF FrameTypes
    <3>2. Len(free) <= Capacity
      <4>1. Len(free) \in Nat /\ N \in Nat /\ Capacity \in Nat
        BY <1>5, <1>9, ConstantFacts
      <4> HIDE DEF ring
      <4> QED
        BY <1>5, <1>9, <4>1
    <3> QED
      BY <1>11, <1>12, <3>1, <3>2
  <2> QED
    BY <1>2, <1>3, <1>12, <2>1 DEF FrameTypes
<1>15. ProcessTypes(emitted, acts)'
  BY <1>2, <1>3, <1>10 DEF ProcessTypes
<1>16. Known(wire)' = Known(wire) /\ Taken' = Taken
  BY <1>2 DEF Known, Wiring, Taken
<1>17. Behind(page, wire)'
  <2>1. Behind(page, wire)
    BY <1>1 DEF FrameInv
  <2>2. \A e \in Known(wire) : e.frame \in Frames
    BY <1>3, KnownTypes DEF Recorded
  <2> QED
    BY <1>13, <1>16, <2>1, <2>2 DEF Behind
<1>18. DocumentsInOrder(wire)'
  BY <1>1, <1>16 DEF FrameInv, DocumentsInOrder, SameDocument
<1>19. WiresInOrder(wire)'
  BY <1>1, <1>2, <1>16 DEF FrameInv, WiresInOrder
<1>20. /\ Wired(wire)' = Wired(wire) /\ LateIds' = LateIds /\ Ids(heap)' = Ids(heap)
       /\ Ids(sequenced)' = Ids(sequenced)
       /\ \A g \in Frames : Ids(wire[g])' = Ids(wire[g])
  BY <1>2 DEF Wired, LateIds, Ids
<1>21. WiresApart(wire)' /\ Placed(wire, emitted, overflowed)'
  <2>1. WiresApart(wire) /\ Placed(wire, n, overflowed)
    BY <1>1 DEF FrameInv
  <2>2. WiresApart(wire)'
    BY <1>20, <2>1 DEF WiresApart
  <2>3. Placed(wire, emitted, overflowed)'
    BY <1>2, <1>20, <2>1 DEF Placed
  <2> QED
    BY <2>2, <2>3
<1>22. RingSound(page, wire)'
  <2>1. page'[Main].ring = free /\ wire' = wire /\ acks' = later
    BY <1>2, <1>11, <1>12
  <2>2. RingIds(page)' = Ids(free) /\ RingIds(page) = Ids(ring)
    BY <2>1 DEF RingIds, Ids
  <2>3. PICK d \in {0, 1} : \A i \in DOMAIN free :
            i \in Nat /\ i + d \in DOMAIN ring /\ free[i] = ring[i + d]
    BY <1>9
  <2>4. \A i \in DOMAIN free : ~free[i].acked
    BY <1>7, <2>3
  <2>5. \A i, j \in DOMAIN free : i < j => free[i].id < free[j].id
    <3> SUFFICES ASSUME NEW i \in DOMAIN free, NEW j \in DOMAIN free, i < j
                 PROVE  free[i].id < free[j].id
        OBVIOUS
    <3>1. i + d \in DOMAIN ring /\ j + d \in DOMAIN ring /\ i + d < j + d
      BY <2>3
    <3> QED
      BY <1>7, <2>3, <3>1
  <2>6. Ids(free) \subseteq Ids(wire[Main]) \union ToSet(later)
    BY <1>6, <1>9, <1>10, <2>2 DEF RingSound
  <2>7. \A g \in Children : Ids(free) \intersect Ids(wire[g]) = {}
    BY <1>6, <1>9, <2>2 DEF RingSound
  <2>8. \A i, j \in DOMAIN later :
            i < j /\ {later[i], later[j]} \subseteq Ids(free) => later[i] < later[j]
    <3> SUFFICES ASSUME NEW i \in DOMAIN later, NEW j \in DOMAIN later, i < j,
                        {later[i], later[j]} \subseteq Ids(free)
                 PROVE  later[i] < later[j]
        OBVIOUS
    <3>1. /\ i + 1 \in DOMAIN acks /\ j + 1 \in DOMAIN acks /\ i + 1 < j + 1
          /\ later[i] = acks[i + 1] /\ later[j] = acks[j + 1]
      BY <1>10
    <3>2. {acks[i + 1], acks[j + 1]} \subseteq RingIds(page)
      BY <1>9, <2>2, <3>1
    <3> QED
      BY <1>6, <3>1, <3>2 DEF RingSound
  <2>9. \A i \in DOMAIN later : later[i] \in Ids(free) =>
            \A j \in DOMAIN wire[Main] : later[i] < wire[Main][j].id
    <3> SUFFICES ASSUME NEW i \in DOMAIN later, later[i] \in Ids(free)
                 PROVE  \A j \in DOMAIN wire[Main] : later[i] < wire[Main][j].id
        OBVIOUS
    <3>1. i + 1 \in DOMAIN acks /\ later[i] = acks[i + 1]
      BY <1>10
    <3>2. acks[i + 1] \in RingIds(page)
      BY <1>9, <2>2, <3>1
    <3> QED
      BY <1>6, <3>1, <3>2 DEF RingSound
  <2> HIDE DEF ring
  <2>10. \A g \in Children : g \in Frames
    BY ConstantFacts
  <2> QED
    BY <1>4, <1>20, <2>1, <2>2, <2>4, <2>5, <2>6, <2>7, <2>8, <2>9, <2>10 DEF RingSound
<1>24. StandsNow'
  BY <1>14, <1>15, <1>17, <1>18, <1>19, <1>21, <1>22 DEF StandsNow, FrameInv
<1>25. ProcessInv'
  BY <1>1, <1>2, ProcessStands
<1>26. CountInv'
  <2>1. ToCome(page)' = ToCome(page)
    BY <1>13 DEF ToCome, Hovering, Moving, Typing
  <2> QED
    BY <1>1, <1>2, <2>1 DEF CountInv
<1>27. IInv' <=> StandsNow' /\ ProcessInv' /\ CountInv'
  BY DEF IInv, StandsNow, FrameInv, ProcessInv, TypeInv, PlacesInv
<1> QED
  BY <1>24, <1>25, <1>26, <1>27

-----------------------------------------------------------------------------
(* Receive: what comes off a wire.                                         *)
First(f) == Head(wire[f])

After(f) == [wire EXCEPT ![f] = Tail(wire[f])]

NowTyped ==
    /\ emitted \in Nat /\ acts \in Nat /\ acts \in 0..MaxActs /\ received \in Nat
    /\ Main \in Frames /\ Children \subseteq Frames
    /\ page \in [Frames -> Pages(emitted, acts)]
    /\ wire \in [Frames -> Seq(Recorded(emitted, acts, received))]
    /\ acks \in Seq(1..emitted)
    /\ FrameTypes(page, wire, emitted, overflowed, acts)
    /\ ProcessTypes(emitted, acts)

LEMMA Typed ==
    ASSUME StandsNow
    PROVE  NowTyped
<1>1. FrameTypes(page, wire, emitted, overflowed, acts) /\ ProcessTypes(emitted, acts)
  BY DEF StandsNow, FrameInv
<1>2. MaxActs \in Nat /\ Main \in Frames /\ Children \subseteq Frames
  BY ConstantFacts
<1>3. /\ emitted \in Nat /\ acts \in 0..MaxActs /\ received \in Nat
      /\ page \in [Frames -> Pages(emitted, acts)]
      /\ wire \in [Frames -> Seq(Recorded(emitted, acts, received))]
      /\ acks \in Seq(1..emitted)
  BY <1>1 DEF FrameTypes, ProcessTypes
<1>4. acts \in Nat
  BY <1>2, <1>3
<1> QED
  BY <1>1, <1>2, <1>3, <1>4 DEF NowTyped

LEMMA ComingOff ==
    ASSUME StandsNow, NEW f \in Frames, wire[f] # <<>>
    PROVE  LET e == First(f)
               w == After(f)
           IN  /\ e \in Recorded(emitted, acts, received) /\ e.frame = f
               /\ e.id \in 1..emitted /\ e \in Wiring(wire)
               /\ w \in [Frames -> Seq(Recorded(emitted, acts, received))]
               /\ \A g \in Frames \ {f} : w[g] = wire[g]
               /\ Ids(wire[f]) = Ids(w[f]) \union {e.id} /\ e.id \notin Ids(w[f])
               /\ \A i \in DOMAIN w[f] : e.id < w[f][i].id
               /\ \A g \in Frames : \E d \in {0, 1} : \A i \in DOMAIN w[g] :
                      i \in Nat /\ i + d \in DOMAIN wire[g] /\ w[g][i] = wire[g][i + d]
<1> DEFINE e == First(f)
           w == After(f)
           R == Recorded(emitted, acts, received)
           t == Tail(wire[f])
<1>1. /\ NowTyped /\ emitted \in Nat /\ acts \in Nat /\ received \in Nat
      /\ wire \in [Frames -> Seq(R)] /\ wire[f] \in Seq(R)
  BY Typed DEF NowTyped
<1>2. /\ t \in Seq(R) /\ DOMAIN wire[f] = 1..Len(wire[f]) /\ Len(wire[f]) \in Nat \ {0}
      /\ e = wire[f][1] /\ e \in R
      /\ DOMAIN t = 1..(Len(wire[f]) - 1)
      /\ \A i \in DOMAIN t : i + 1 \in DOMAIN wire[f] /\ t[i] = wire[f][i + 1]
      /\ ToSet(wire[f]) = ToSet(t) \union {e}
  <2> HIDE DEF R
  <2> QED
    BY <1>1, TailFacts DEF First
<1>3. WiresInOrder(wire)
  BY DEF StandsNow, FrameInv
<1>4. e.id \in 1..emitted
  BY <1>1, <1>2, RecordedFacts
<1> HIDE DEF e, t, R
<1>5. w = [wire EXCEPT ![f] = t]
  BY DEF After, t
<1> HIDE DEF w
<1>6. /\ w \in [Frames -> Seq(R)] /\ w[f] = t
      /\ \A g \in Frames \ {f} : w[g] = wire[g]
  BY <1>1, <1>2, <1>5
<1>7. 1 \in DOMAIN wire[f] /\ e.frame = f
  BY <1>2, <1>3 DEF WiresInOrder
<1>8. e \in Wiring(wire)
  BY <1>2, <1>7 DEF Wiring, ToSet
<1>9. Ids(wire[f]) = Ids(t) \union {e.id}
  BY <1>2, IdsAreOfMembers
<1>10. \A i \in DOMAIN t : e.id < t[i].id
  <2> SUFFICES ASSUME NEW i \in DOMAIN t
               PROVE  e.id < t[i].id
      OBVIOUS
  <2>1. i + 1 \in DOMAIN wire[f] /\ 1 < i + 1 /\ t[i] = wire[f][i + 1]
    BY <1>2
  <2> QED
    BY <1>2, <1>3, <1>7, <2>1 DEF WiresInOrder
<1>11. e.id \notin Ids(t)
  <2>1. \A i \in DOMAIN t : t[i].id # e.id
    BY <1>4, <1>10
  <2> QED
    BY <2>1 DEF Ids
<1>12. \A i \in DOMAIN t : i \in Nat /\ i + 1 \in DOMAIN wire[f] /\ t[i] = wire[f][i + 1]
  BY <1>2
<1>13. \A g \in Frames \ {f} : \A i \in DOMAIN w[g] :
           i \in Nat /\ i + 0 \in DOMAIN wire[g] /\ w[g][i] = wire[g][i + 0]
  <2> SUFFICES ASSUME NEW g \in Frames \ {f}, NEW i \in DOMAIN w[g]
               PROVE  i \in Nat /\ i + 0 \in DOMAIN wire[g] /\ w[g][i] = wire[g][i + 0]
      OBVIOUS
  <2>1. w[g] = wire[g] /\ wire[g] \in Seq(R)
    BY <1>1, <1>6
  <2>2. i \in Nat /\ i + 0 = i
    BY <2>1
  <2> QED
    BY <2>1, <2>2
<1>14. \A g \in Frames : \E d \in {0, 1} : \A i \in DOMAIN w[g] :
           i \in Nat /\ i + d \in DOMAIN wire[g] /\ w[g][i] = wire[g][i + d]
  <2> SUFFICES ASSUME NEW g \in Frames
               PROVE  \E d \in {0, 1} : \A i \in DOMAIN w[g] :
                          i \in Nat /\ i + d \in DOMAIN wire[g] /\ w[g][i] = wire[g][i + d]
      OBVIOUS
  <2>1. CASE g = f
    BY <1>6, <1>12, <2>1
  <2>2. CASE g # f
    BY <1>13, <2>2
  <2> QED
    BY <2>1, <2>2
<1> QED
  BY <1>2, <1>4, <1>6, <1>7, <1>8, <1>9, <1>10, <1>11, <1>14 DEF e, w, R

(* The wires that are left.                                                *)
LEMMA WiresLeft ==
    ASSUME StandsNow, NEW f \in Frames, wire[f] # <<>>
    PROVE  LET e == First(f)
               w == After(f)
           IN  /\ Wiring(w) \subseteq Wiring(wire)
               /\ Wired(w) = Wired(wire) \ {e.id} /\ e.id \in Wired(wire)
               /\ WiresApart(w) /\ WiresInOrder(w)
<1> DEFINE e == First(f)
           w == After(f)
<1>1. /\ e.frame = f /\ e.id \in 1..emitted /\ e \in Wiring(wire)
      /\ \A g \in Frames \ {f} : w[g] = wire[g]
      /\ Ids(wire[f]) = Ids(w[f]) \union {e.id} /\ e.id \notin Ids(w[f])
      /\ \A g \in Frames : \E d \in {0, 1} : \A i \in DOMAIN w[g] :
             i \in Nat /\ i + d \in DOMAIN wire[g] /\ w[g][i] = wire[g][i + d]
  BY ComingOff
<1>2. WiresInOrder(wire) /\ WiresApart(wire)
  BY DEF StandsNow, FrameInv
<1> HIDE DEF e, w
<1>3. \A g \in Frames : \A i \in DOMAIN w[g] : \E j \in DOMAIN wire[g] : w[g][i] = wire[g][j]
  BY <1>1
<1>4. Wiring(w) \subseteq Wiring(wire)
  <2>1. \A g \in Frames : ToSet(w[g]) \subseteq ToSet(wire[g])
    BY <1>3 DEF ToSet
  <2> QED
    BY <2>1 DEF Wiring
<1>5. \A g \in Frames : Ids(w[g]) \subseteq Ids(wire[g])
  BY <1>1
<1>6. WiresApart(w)
  BY <1>2, <1>5 DEF WiresApart
<1>7. e.id \in Wired(wire) /\ \A g \in Frames \ {f} : e.id \notin Ids(wire[g])
  <2>1. e.id \in Ids(wire[f])
    BY <1>1
  <2>2. e.id \in Wired(wire)
    BY <2>1 DEF Wired
  <2>3. \A g \in Frames \ {f} : Ids(wire[f]) \intersect Ids(wire[g]) = {}
    BY <1>2 DEF WiresApart
  <2> QED
    BY <2>1, <2>2, <2>3
<1>8. Wired(w) = Wired(wire) \ {e.id}
  <2>1. \A x : x \in Wired(w) => x \in Wired(wire) \ {e.id}
    BY <1>1, <1>5, <1>7 DEF Wired
  <2>2. \A x : x \in Wired(wire) \ {e.id} => x \in Wired(w)
    BY <1>1 DEF Wired
  <2> QED
    BY <2>1, <2>2
<1>9. WiresInOrder(w)
  <2>1. \A g \in Frames : \A i \in DOMAIN w[g] : w[g][i].frame = g
    BY <1>2, <1>3 DEF WiresInOrder
  <2>2. \A g \in Frames : \A i, j \in DOMAIN w[g] : i < j => w[g][i].id < w[g][j].id
    <3> SUFFICES ASSUME NEW g \in Frames, NEW i \in DOMAIN w[g], NEW j \in DOMAIN w[g],
                        i < j
                 PROVE  w[g][i].id < w[g][j].id
        OBVIOUS
    <3>1. PICK d \in {0, 1} : \A m \in DOMAIN w[g] :
              m \in Nat /\ m + d \in DOMAIN wire[g] /\ w[g][m] = wire[g][m + d]
      BY <1>1
    <3>2. i + d < j + d
      BY <3>1
    <3> QED
      BY <1>2, <3>1, <3>2 DEF WiresInOrder
  <2>3. \A x \in Taken : x.frame \in Frames
    BY Typed, KnownTypes DEF NowTyped, Known, Recorded
  <2>4. \A x \in Taken : \A i \in DOMAIN w[x.frame] : x.id < w[x.frame][i].id
    BY <1>2, <1>3, <2>3 DEF WiresInOrder
  <2> QED
    BY <2>1, <2>2, <2>4 DEF WiresInOrder
<1> QED
  BY <1>4, <1>6, <1>7, <1>8, <1>9 DEF e, w

(* The acknowledgement that goes out.                                      *)
LEMMA RingStaysSound ==
    ASSUME StandsNow, NEW f \in Frames, wire[f] # <<>>,
           page' = page, wire' = After(f), acks' = Append(acks, First(f).id)
    PROVE  RingSound(page, wire)'
<1> DEFINE e == First(f)
           w == After(f)
           a == e.id
           more == Append(acks, a)
           N == Len(acks)
           I == RingIds(page)
<1>1. /\ NowTyped /\ acks \in Seq(1..emitted) /\ Main \in Frames
      /\ Children \subseteq Frames /\ Main \notin Children
      /\ Frames = {Main} \union Children
  BY Typed, ConstantFacts DEF NowTyped, Frames
<1>2. /\ a \in 1..emitted
      /\ \A g \in Frames \ {f} : w[g] = wire[g]
      /\ Ids(wire[f]) = Ids(w[f]) \union {a}
      /\ \A i \in DOMAIN w[f] : a < w[f][i].id
      /\ \A g \in Frames : \E d \in {0, 1} : \A i \in DOMAIN w[g] :
             i \in Nat /\ i + d \in DOMAIN wire[g] /\ w[g][i] = wire[g][i + d]
  BY ComingOff
<1>3. /\ N \in Nat /\ DOMAIN acks = 1..N /\ DOMAIN more = 1..(N + 1)
      /\ \A i \in 1..N : more[i] = acks[i]
      /\ more[N + 1] = a /\ ToSet(more) = ToSet(acks) \union {a}
  BY <1>1, AppendFacts
<1>4. RingSound(page, wire)
  BY DEF StandsNow, FrameInv
<1> HIDE DEF e, w, a, more, N
<1>0. \A g \in Frames : \A i \in DOMAIN w[g] : \E j \in DOMAIN wire[g] : w[g][i] = wire[g][j]
  BY <1>2
<1>5. /\ \A i \in DOMAIN page[Main].ring : ~page[Main].ring[i].acked
      /\ \A i, j \in DOMAIN page[Main].ring :
             i < j => page[Main].ring[i].id < page[Main].ring[j].id
      /\ I \subseteq Ids(wire[Main]) \union ToSet(acks)
      /\ \A g \in Children : I \intersect Ids(wire[g]) = {}
      /\ \A i, j \in DOMAIN acks : i < j /\ {acks[i], acks[j]} \subseteq I => acks[i] < acks[j]
      /\ \A i \in DOMAIN acks : acks[i] \in I =>
             \A j \in DOMAIN wire[Main] : acks[i] < wire[Main][j].id
  BY <1>4 DEF RingSound
<1> HIDE DEF I
<1>6. a \in I => f = Main
  BY <1>1, <1>2, <1>5
<1>7. I \subseteq Ids(w[Main]) \union ToSet(more)
  <2>1. Ids(wire[Main]) \subseteq Ids(w[Main]) \union {a}
    BY <1>1, <1>2
  <2> QED
    BY <1>3, <1>5, <2>1
<1>8. \A g \in Children : I \intersect Ids(w[g]) = {}
  <2>1. \A g \in Frames : Ids(w[g]) \subseteq Ids(wire[g])
    BY <1>0 DEF Ids
  <2> QED
    BY <1>1, <1>5, <2>1
<1>9. a \in I => \A i \in DOMAIN acks : acks[i] \in I => acks[i] < a
  <2> SUFFICES ASSUME a \in I, NEW i \in DOMAIN acks, acks[i] \in I
               PROVE  acks[i] < a
      OBVIOUS
  <2>1. a \in Ids(wire[Main])
    BY <1>2, <1>6
  <2>2. PICK j \in DOMAIN wire[Main] : wire[Main][j].id = a
    BY <2>1 DEF Ids
  <2> QED
    BY <1>5, <2>2
<1>10. \A i, j \in DOMAIN more : i < j /\ {more[i], more[j]} \subseteq I => more[i] < more[j]
  <2> SUFFICES ASSUME NEW i \in DOMAIN more, NEW j \in DOMAIN more, i < j,
                      more[i] \in I, more[j] \in I
               PROVE  more[i] < more[j]
      OBVIOUS
  <2>1. i \in 1..N
    BY <1>3
  <2>2. CASE j \in 1..N
    BY <1>3, <1>5, <2>1, <2>2
  <2>3. CASE j = N + 1
    BY <1>3, <1>9, <2>1, <2>3
  <2> QED
    BY <1>3, <2>2, <2>3
<1>11. \A i \in DOMAIN more : more[i] \in I => \A j \in DOMAIN w[Main] : more[i] < w[Main][j].id
  <2> SUFFICES ASSUME NEW i \in DOMAIN more, more[i] \in I, NEW j \in DOMAIN w[Main]
               PROVE  more[i] < w[Main][j].id
      OBVIOUS
  <2>1. CASE i \in 1..N
    <3>1. PICK m \in DOMAIN wire[Main] : w[Main][j] = wire[Main][m]
      BY <1>0, <1>1
    <3> QED
      BY <1>3, <1>5, <2>1, <3>1
  <2>2. CASE i = N + 1
    <3>1. f = Main
      BY <1>3, <1>6, <2>2
    <3> QED
      BY <1>2, <1>3, <2>2, <3>1
  <2> QED
    BY <1>3, <2>1, <2>2
<1>12. /\ page' = page /\ wire' = w /\ acks' = more
  BY DEF w, more, a, e
<1>13. RingIds(page)' = I /\ \A g \in Frames : Ids(wire[g])' = Ids(w[g])
  BY <1>12 DEF RingIds, Ids, I
<1>14. ToSet(acks)' = ToSet(more)
  BY <1>12 DEF ToSet
<1> QED
  BY <1>1, <1>5, <1>7, <1>8, <1>10, <1>11, <1>12, <1>13, <1>14 DEF RingSound

(* A late event.                                                           *)
LEMMA ReceiveLateKeeps ==
    ASSUME IInv, NEW f \in Frames, wire[f] # <<>>, Late(First(f)),
           wire' = After(f), acks' = Append(acks, First(f).id),
           refused' = refused \union {First(f)},
           UNCHANGED <<page, heap, received, ripe, last, flushing, sequenced, acts,
                       emitted, overflowed, ignored>>
    PROVE  IInv'
<1> DEFINE e == First(f)
           w == After(f)
           n == emitted
           k == acts
           R == Recorded(n, k, received)
<1>1. StandsNow /\ ProcessInv /\ CountInv /\ FrameInv(page, wire, n, overflowed, k)
  BY IInvParts DEF StandsNow
<1>2. /\ NowTyped /\ n \in Nat /\ k \in Nat /\ k \in 0..MaxActs /\ received \in Nat
      /\ acks \in Seq(1..n)
      /\ FrameTypes(page, wire, n, overflowed, k) /\ ProcessTypes(n, k)
  BY <1>1, Typed DEF NowTyped
<1>3. /\ e \in R /\ e.frame = f /\ e.id \in 1..n /\ e \in Wiring(wire)
      /\ w \in [Frames -> Seq(R)]
  BY <1>1, ComingOff
<1>4. /\ Wiring(w) \subseteq Wiring(wire)
      /\ Wired(w) = Wired(wire) \ {e.id} /\ e.id \in Wired(wire)
      /\ WiresApart(w) /\ WiresInOrder(w)
  BY <1>1, WiresLeft
<1>5. wire' = w /\ acks' = Append(acks, e.id) /\ refused' = refused \union {e}
  OBVIOUS
<1>6. RingSound(page, wire)'
  BY <1>1, RingStaysSound
<1> HIDE DEF e, w, R, n, k
<1>7. FrameTypes(page, wire, emitted, overflowed, acts)'
  BY <1>2, <1>3, <1>5 DEF FrameTypes, R, n, k
<1>8. ProcessTypes(emitted, acts)'
  <2>1. acks' \in Seq(1..n)
    BY <1>2, <1>3, <1>5
  <2>2. refused' \subseteq R
    BY <1>2, <1>3, <1>5 DEF ProcessTypes, R
  <2> QED
    BY <1>2, <2>1, <2>2 DEF ProcessTypes, R, n, k
<1>9. Taken' = Taken
  BY DEF Taken
<1>10. Known(wire)' \subseteq Known(wire)
  <2>1. Known(wire)' = Wiring(w) \union Taken \union (refused \union {e})
    BY <1>5, <1>9 DEF Known, Wiring
  <2> QED
    BY <1>3, <1>4, <2>1 DEF Known
<1>11. Behind(page, wire)'
  BY <1>1, <1>10 DEF FrameInv, Behind
<1>12. DocumentsInOrder(wire)'
  BY <1>1, <1>10 DEF FrameInv, DocumentsInOrder, SameDocument
<1>13. WiresInOrder(wire)' /\ WiresApart(wire)'
  <2>1. WiresInOrder(wire)'
    BY <1>4, <1>5, <1>9 DEF WiresInOrder
  <2>2. \A g \in Frames : Ids(wire[g])' = Ids(w[g])
    BY <1>5 DEF Ids
  <2>3. WiresApart(wire)'
    BY <1>4, <2>2 DEF WiresApart
  <2> QED
    BY <2>1, <2>3
<1>14. Placed(wire, n, overflowed)
  BY <1>1 DEF FrameInv
<1>15. Placed(wire, emitted, overflowed)'
  <2>1. /\ LateIds' = LateIds \union {e.id} /\ Ids(heap)' = Ids(heap)
        /\ Ids(sequenced)' = Ids(sequenced) /\ Wired(wire)' = Wired(w)
    BY <1>5 DEF LateIds, Ids, Wired
  <2> QED
    BY <1>4, <1>14, <2>1 DEF Placed, n
<1>17. StandsNow'
  BY <1>6, <1>7, <1>8, <1>11, <1>12, <1>13, <1>15 DEF StandsNow, FrameInv
<1>18. PlacedOnce'
  <2>1. \A a \in refused : a.id # e.id
    BY <1>4, <1>14 DEF Placed, LateIds
  <2>2. PlacedOnce
    BY <1>1 DEF ProcessInv
  <2> QED
    BY <1>5, <2>1, <2>2 DEF PlacedOnce, OnceEach
<1>19. HeapInv'
  BY <1>1 DEF ProcessInv, HeapInv, Ordered, ToSet
<1>20. LateOnlyForOthers'
  <2> DEFINE N == Len(sequenced)
             s == sequenced[N]
  <2>1. HeapInv /\ last # NoHlc /\ Earlier(e.hlc, last)
    BY <1>1 DEF ProcessInv, Late, e
  <2>2. sequenced \in Seq(R)
    BY <1>2 DEF ProcessTypes, R
  <2>3. sequenced # <<>> /\ last = s.hlc
    BY <2>1 DEF HeapInv
  <2>4. N \in DOMAIN sequenced /\ s \in R /\ Earlier(e.hlc, s.hlc)
    BY <2>1, <2>2, <2>3
  <2> HIDE DEF N, s
  <2>5. s \in Taken /\ s.id \in Ids(sequenced)
    BY <2>4 DEF Taken, ToSet, Ids, s
  <2>6. ~SameDocument(e, s)
    <3> SUFFICES ASSUME SameDocument(e, s)
                 PROVE  FALSE
        OBVIOUS
    <3>1. s.frame = f
      BY <1>3 DEF SameDocument
    <3>2. s.id < e.id
      <4>1. WiresInOrder(wire)
        BY <1>1 DEF FrameInv
      <4>2. PICK j \in DOMAIN wire[f] : wire[f][j] = e
        <5>1. wire[f] \in Seq(R) /\ wire[f] # <<>>
          BY <1>2 DEF NowTyped, R, n, k
        <5>2. e = wire[f][1] /\ 1 \in DOMAIN wire[f]
          BY <5>1 DEF e, First
        <5> QED
          BY <5>2
      <4> QED
        BY <2>5, <3>1, <4>1, <4>2 DEF WiresInOrder
    <3>3. s \in Known(wire) /\ e \in Known(wire)
      BY <1>3, <2>5 DEF Known
    <3>4. SameDocument(s, e)
      BY DEF SameDocument
    <3>5. Earlier(s.hlc, e.hlc)
      BY <1>1, <3>2, <3>3, <3>4 DEF FrameInv, DocumentsInOrder
    <3>6. s.hlc \in Clock /\ e.hlc \in Clock
      BY <1>2, <1>3, <2>4, RecordedFacts DEF R
    <3> QED
      BY <2>4, <3>5, <3>6, ClockFacts
  <2>7. \E i \in DOMAIN sequenced :
            Earlier(e.hlc, sequenced[i].hlc) /\ ~SameDocument(e, sequenced[i])
    BY <2>4, <2>6 DEF s
  <2>8. LateOnlyForOthers
    BY <1>1 DEF ProcessInv
  <2> QED
    BY <1>5, <2>7, <2>8 DEF LateOnlyForOthers, SameDocument
<1>21. CountInv'
  BY <1>1 DEF CountInv, ToCome, Hovering, Moving, Typing
<1>22. IInv' <=> StandsNow' /\ ProcessInv' /\ CountInv'
  BY DEF IInv, StandsNow, FrameInv, ProcessInv, TypeInv, PlacesInv
<1> QED
  BY <1>17, <1>18, <1>19, <1>20, <1>21, <1>22 DEF ProcessInv

(* An event in time: the heap takes it.                                    *)
LEMMA ReceiveInTimeKeeps ==
    ASSUME IInv, NEW f \in Frames, wire[f] # <<>>, ~Late(First(f)),
           wire' = After(f), acks' = Append(acks, First(f).id),
           received' = received + 1,
           heap' = Push(heap, [First(f) EXCEPT !.arrival = received + 1]),
           UNCHANGED <<page, ripe, last, flushing, sequenced, acts, emitted,
                       overflowed, ignored, refused>>
    PROVE  IInv' /\ ToSet(heap') = ToSet(heap) \union
                        {[First(f) EXCEPT !.arrival = received + 1]}
<1> DEFINE e == First(f)
           x == [e EXCEPT !.arrival = received + 1]
           w == After(f)
           n == emitted
           k == acts
           R == Recorded(n, k, received)
           Q == Recorded(n, k, received + 1)
<1>1. StandsNow /\ ProcessInv /\ CountInv /\ FrameInv(page, wire, n, overflowed, k)
  BY IInvParts DEF StandsNow
<1>2. /\ NowTyped /\ n \in Nat /\ k \in Nat /\ k \in 0..MaxActs /\ received \in Nat
      /\ acks \in Seq(1..n)
      /\ FrameTypes(page, wire, n, overflowed, k) /\ ProcessTypes(n, k)
  BY <1>1, Typed DEF NowTyped
<1>3. /\ e \in R /\ e.frame = f /\ e.id \in 1..n /\ e \in Wiring(wire)
      /\ w \in [Frames -> Seq(R)]
  BY <1>1, ComingOff
<1>4. /\ Wiring(w) \subseteq Wiring(wire)
      /\ Wired(w) = Wired(wire) \ {e.id} /\ e.id \in Wired(wire)
      /\ WiresApart(w) /\ WiresInOrder(w)
  BY <1>1, WiresLeft
<1>5. /\ wire' = w /\ acks' = Append(acks, e.id) /\ received' = received + 1
      /\ heap' = Push(heap, x)
  OBVIOUS
<1>6. RingSound(page, wire)'
  BY <1>1, RingStaysSound
<1>7. last # NoHlc => ~Earlier(e.hlc, last)
  BY DEF Late
<1> HIDE DEF e
<1>8. /\ x \in Q /\ x.id = e.id /\ x.frame = e.frame /\ x.doc = e.doc
      /\ x.hlc = e.hlc /\ x.kind = e.kind /\ x.made = e.made
  <2>1. received + 1 \in Nat /\ received + 1 \in 0..(received + 1)
    BY <1>2
  <2>2. \A i \in 0..received : i \in 0..(received + 1)
    BY <1>2
  <2>3. e \in [id : 1..n, frame : Frames, doc : 0..MaxDocs,
               kind : Interactions, made : 1..k, depth : {0, 1},
               hlc : [physical : 1..MaxReading, logical : 0..n], arrival : 0..received]
    BY <1>3 DEF Recorded
  <2> HIDE DEF n, k
  <2>4. x \in [id : 1..n, frame : Frames, doc : 0..MaxDocs,
               kind : Interactions, made : 1..k, depth : {0, 1},
               hlc : [physical : 1..MaxReading, logical : 0..n],
               arrival : 0..(received + 1)]
    BY <2>1, <2>3
  <2>5. /\ x.id = e.id /\ x.frame = e.frame /\ x.doc = e.doc
        /\ x.hlc = e.hlc /\ x.kind = e.kind /\ x.made = e.made
    BY <2>3
  <2> QED
    BY <2>4, <2>5 DEF Recorded
<1>9. R \subseteq Q
  <2>1. n <= n /\ k <= k /\ received <= received + 1 /\ received + 1 \in Nat
    BY <1>2
  <2> QED
    BY <1>2, <2>1, RecordedGrows
<1>10. Comparable(Q)
  <2>1. received + 1 \in Nat
    BY <1>2
  <2> QED
    BY <1>2, <2>1, RecordedCompare
<1> HIDE DEF x, w, R, Q, n, k
<1>11. Placed(wire, n, overflowed) /\ PlacedOnce /\ HeapInv /\ LateOnlyForOthers
  BY <1>1 DEF FrameInv, ProcessInv
<1>12. heap \in Seq(Q) /\ sequenced \in Seq(Q) /\ refused \subseteq Q
  <2>1. heap \in Seq(R) /\ sequenced \in Seq(R) /\ refused \subseteq R
    BY <1>2 DEF ProcessTypes, R
  <2> QED
    BY <1>9, <2>1, SequencesGrow
<1>13. \A i \in DOMAIN heap : heap[i].id # x.id
  BY <1>4, <1>8, <1>11 DEF Placed, Ids
<1>14. /\ heap' \in Seq(Q) /\ ToSet(heap') = ToSet(heap) \union {x}
       /\ OnceEach(heap') /\ Ordered(heap')
  <2>1. Ordered(heap) /\ OnceEach(heap)
    BY <1>11 DEF HeapInv, PlacedOnce
  <2>2. /\ Push(heap, x) \in Seq(Q)
        /\ ToSet(Push(heap, x)) = ToSet(heap) \cup {x}
        /\ OnceEach(Push(heap, x)) /\ Ordered(Push(heap, x))
    BY <1>8, <1>10, <1>12, <1>13, <2>1, Pushing
  <2> QED
    BY <1>5, <2>2
<1>15. FrameTypes(page, wire, emitted, overflowed, acts)'
  <2>1. w \in [Frames -> Seq(Q)]
    <3>1. \A g \in Frames : w[g] \in Seq(Q)
      BY <1>3, <1>9, SequencesGrow
    <3> QED
      BY <1>3, <3>1
  <2> QED
    BY <1>2, <1>5, <2>1 DEF FrameTypes, Q, n, k
<1>16. ProcessTypes(emitted, acts)'
  <2>1. acks' \in Seq(1..n)
    BY <1>2, <1>3, <1>5
  <2>2. received' \in Nat /\ ripe' \in 0..received'
    BY <1>2, <1>5 DEF ProcessTypes
  <2>3. heap' \in Seq(Q) /\ sequenced' \in Seq(Q) /\ refused' \subseteq Q
    BY <1>12, <1>14
  <2>4. ignored' \in SUBSET (1..n) /\ flushing' \in BOOLEAN
    BY <1>2 DEF ProcessTypes
  <2> QED
    BY <1>5, <2>1, <2>2, <2>3, <2>4 DEF ProcessTypes, Q, n, k
<1>17. Taken' = Taken \union {x}
  BY <1>14 DEF Taken, ToSet
<1>18. Known(wire)' \subseteq Known(wire) \union {x}
  <2>1. Known(wire)' = Wiring(w) \union Taken' \union refused
    BY <1>5 DEF Known, Wiring
  <2> QED
    BY <1>4, <1>17, <2>1 DEF Known
<1>19. e \in Known(wire)
  BY <1>3 DEF Known
<1>20. Behind(page, wire)'
  <2>1. Behind(page, wire)
    BY <1>1 DEF FrameInv
  <2>2. \A y \in Known(wire) \union {x} :
            /\ y.doc <= page[y.frame].doc
            /\ y.doc = page[y.frame].doc => ~Earlier(page[y.frame].hlc, y.hlc)
    BY <1>8, <1>19, <2>1 DEF Behind
  <2> QED
    BY <1>18, <2>2 DEF Behind
<1>21. DocumentsInOrder(wire)'
  <2> DEFINE InOrder(a, b) ==
                 SameDocument(a, b) /\ a.id < b.id =>
                     /\ Earlier(a.hlc, b.hlc)
                     /\ b.kind \notin Delayed => a.made <= b.made
  <2>1. \A a, b \in Known(wire) : InOrder(a, b)
    BY <1>1 DEF FrameInv, DocumentsInOrder
  <2>2. \A a \in Known(wire) : InOrder(a, x)
    BY <1>8, <1>19, <2>1 DEF SameDocument
  <2>3. \A b \in Known(wire) : InOrder(x, b)
    BY <1>8, <1>19, <2>1 DEF SameDocument
  <2>4. InOrder(x, x)
    BY <1>3, <1>8, <1>2
  <2> HIDE DEF InOrder
  <2>5. \A a, b \in Known(wire)' : InOrder(a, b)
    BY <1>18, <2>1, <2>2, <2>3, <2>4
  <2> QED
    BY <2>5 DEF DocumentsInOrder, InOrder, SameDocument
<1>22. WiresInOrder(wire)'
  <2>1. \A i \in DOMAIN w[x.frame] : x.id < w[x.frame][i].id
    <3>1. \A i \in DOMAIN w[f] : e.id < w[f][i].id
      BY <1>1, ComingOff DEF w, e
    <3> QED
      BY <1>3, <1>8, <3>1
  <2> QED
    BY <1>4, <1>5, <1>17, <2>1 DEF WiresInOrder
<1>23. WiresApart(wire)'
  <2>2. \A g \in Frames : Ids(wire[g])' = Ids(w[g])
    BY <1>5 DEF Ids
  <2> QED
    BY <1>4, <2>2 DEF WiresApart
<1>24. Placed(wire, emitted, overflowed)'
  <2>1. Ids(heap)' = Ids(heap')
    BY DEF Ids
  <2>2. Ids(heap') = Ids(heap) \union {e.id}
    BY <1>8, <1>14, IdsAreOfMembers
  <2>3. /\ LateIds' = LateIds /\ Ids(sequenced)' = Ids(sequenced)
        /\ Wired(wire)' = Wired(w)
    BY <1>5 DEF LateIds, Ids, Wired
  <2>4. Placed(wire, n, overflowed)'
            <=> /\ 1..n = overflowed \union ignored \union Wired(w) \union LateIds
                              \union Ids(heap') \union Ids(sequenced)
                /\ overflowed \intersect (ignored \union Wired(w) \union LateIds
                              \union Ids(heap') \union Ids(sequenced)) = {}
                /\ ignored \intersect (Wired(w) \union LateIds
                              \union Ids(heap') \union Ids(sequenced)) = {}
                /\ Wired(w) \intersect (LateIds \union Ids(heap') \union Ids(sequenced)) = {}
                /\ LateIds \intersect (Ids(heap') \union Ids(sequenced)) = {}
                /\ Ids(heap') \intersect Ids(sequenced) = {}
    BY <2>1, <2>3 DEF Placed, n
  <2>5. Placed(wire, n, overflowed)'
    BY <1>4, <1>11, <2>2, <2>4 DEF Placed
  <2> QED
    BY <2>5 DEF n
<1>26. StandsNow'
  BY <1>6, <1>15, <1>16, <1>20, <1>21, <1>22, <1>23, <1>24
     DEF StandsNow, FrameInv
<1>27. PlacedOnce'
  <2>1. OnceEach(heap)'
    BY <1>14 DEF OnceEach
  <2> QED
    BY <1>11, <2>1 DEF PlacedOnce, OnceEach
<1>28. HeapInv'
  <2>1. Ordered(heap)'
    BY <1>14 DEF Ordered
  <2>2. ToSet(heap)' = ToSet(heap) \union {x}
    BY <1>14 DEF ToSet
  <2>3. \A y \in ToSet(heap) \union {x} : last # NoHlc => ~Earlier(y.hlc, last)
    BY <1>7, <1>8, <1>11 DEF HeapInv
  <2> QED
    BY <1>11, <2>1, <2>2, <2>3 DEF HeapInv
<1>29. LateOnlyForOthers'
  BY <1>11 DEF LateOnlyForOthers, SameDocument
<1>30. CountInv'
  BY <1>1 DEF CountInv, ToCome, Hovering, Moving, Typing
<1>31. IInv' <=> StandsNow' /\ ProcessInv' /\ CountInv'
  BY DEF IInv, StandsNow, FrameInv, ProcessInv, TypeInv, PlacesInv
<1> QED
  BY <1>14, <1>26, <1>27, <1>28, <1>29, <1>30, <1>31 DEF ProcessInv, x, e

LEMMA ReceiveKeeps ==
    ASSUME IInv, NEW f \in Frames, Receive(f)
    PROVE  IInv'
<1>1. wire[f] # <<>> /\ wire' = After(f) /\ acks' = Append(acks, First(f).id)
  BY DEF Receive, After, First
<1>2. UNCHANGED <<page, ripe, last, flushing, sequenced, acts, emitted,
                  overflowed, ignored>>
  BY DEF Receive
<1>3. CASE Late(First(f))
  <2>1. refused' = refused \union {First(f)} /\ UNCHANGED <<heap, received>>
    BY <1>3 DEF Receive, First
  <2> QED
    BY <1>1, <1>2, <1>3, <2>1, ReceiveLateKeeps
<1>4. CASE ~Late(First(f))
  <2>1. /\ received' = received + 1
        /\ heap' = Push(heap, [First(f) EXCEPT !.arrival = received + 1])
        /\ UNCHANGED refused
    BY <1>4 DEF Receive, First
  <2> QED
    BY <1>1, <1>2, <1>4, <2>1, ReceiveInTimeKeeps
<1> QED
  BY <1>3, <1>4

-----------------------------------------------------------------------------
(* FlushNext: the root goes through.                                       *)
Root == heap[1]

LEMMA FlushNextFacts ==
    ASSUME IInv, FlushNext
    PROVE  LET R == Recorded(emitted, acts, received)
               N == Len(sequenced)
           IN  /\ Root \in R /\ Root \in ToSet(heap)
               /\ heap' \in Seq(R) /\ ToSet(heap') = ToSet(heap) \ {Root}
               /\ Ids(heap) = Ids(heap') \union {Root.id} /\ Root.id \notin Ids(heap')
               /\ OnceEach(heap') /\ Ordered(heap')
               /\ \A e \in ToSet(heap) : ~Earlier(e.hlc, Root.hlc)
               /\ sequenced \in Seq(R) /\ sequenced' \in Seq(R)
               /\ N \in Nat /\ DOMAIN sequenced = 1..N /\ DOMAIN sequenced' = 1..(N + 1)
               /\ \A i \in 1..N : sequenced'[i] = sequenced[i]
               /\ sequenced'[N + 1] = Root /\ Len(sequenced') = N + 1
               /\ ToSet(sequenced') = ToSet(sequenced) \union {Root}
               /\ Ids(sequenced') = Ids(sequenced) \union {Root.id}
<1> DEFINE R == Recorded(emitted, acts, received)
           N == Len(sequenced)
           x == Root
<1>1. /\ StandsNow /\ PlacedOnce /\ HeapInv
  BY IInvParts DEF ProcessInv
<1>2. /\ heap # <<>> /\ heap' = Pop(heap) /\ sequenced' = Append(sequenced, x)
  BY DEF FlushNext, Due, Root
<1>3. emitted \in Nat /\ acts \in Nat /\ received \in Nat /\ ProcessTypes(emitted, acts)
  BY <1>1, Typed DEF NowTyped
<1>4. heap \in Seq(R) /\ sequenced \in Seq(R) /\ Comparable(R)
  BY <1>3, RecordedCompare DEF ProcessTypes
<1>5. OnceEach(heap) /\ Ordered(heap)
  BY <1>1 DEF PlacedOnce, HeapInv
<1> HIDE DEF R
<1>6. /\ x \in R /\ 1 \in DOMAIN heap /\ x \in ToSet(heap)
  BY <1>2, <1>4 DEF Root, ToSet
<1>7. /\ heap' \in Seq(R) /\ ToSet(heap') = ToSet(heap) \ {x}
      /\ OnceEach(heap') /\ Ordered(heap')
  <2>1. /\ Pop(heap) \in Seq(R) /\ ToSet(Pop(heap)) = ToSet(heap) \ {heap[1]}
        /\ OnceEach(Pop(heap)) /\ Ordered(Pop(heap))
    BY <1>2, <1>4, <1>5, Popping
  <2> QED
    BY <1>2, <2>1 DEF Root
<1>8. \A e \in ToSet(heap) : ~Earlier(e.hlc, x.hlc)
  <2>1. \A i \in DOMAIN heap : ~Earlier(heap[i].hlc, heap[1].hlc)
    BY <1>2, <1>4, <1>5, RootIsOldest
  <2> QED
    BY <2>1 DEF ToSet, Root
<1>9. \A a, b \in ToSet(heap) : a.id = b.id => a = b
  BY <1>5 DEF OnceEach, ToSet
<1> HIDE DEF x
<1>10. Ids(heap) = Ids(heap') \union {x.id} /\ x.id \notin Ids(heap')
  <2>1. Ids(heap) = {e.id : e \in ToSet(heap)} /\ Ids(heap') = {e.id : e \in ToSet(heap')}
    BY IdsAreOfMembers
  <2>2. ToSet(heap) = ToSet(heap') \union {x}
    BY <1>6, <1>7
  <2>3. \A e \in ToSet(heap') : e.id # x.id
    BY <1>6, <1>7, <1>9
  <2> QED
    BY <2>1, <2>2, <2>3
<1>11. /\ N \in Nat /\ DOMAIN sequenced = 1..N
       /\ Len(Append(sequenced, x)) = N + 1
       /\ DOMAIN Append(sequenced, x) = 1..(N + 1)
       /\ \A i \in 1..N : Append(sequenced, x)[i] = sequenced[i] /\ sequenced[i] \in R
       /\ Append(sequenced, x)[N + 1] = x
       /\ ToSet(Append(sequenced, x)) = ToSet(sequenced) \union {x}
       /\ Ids(Append(sequenced, x)) = Ids(sequenced) \union {x.id}
  BY <1>4, AppendFacts
<1>12. sequenced' \in Seq(R)
  BY <1>2, <1>4, <1>6
<1> HIDE DEF N
<1>13. /\ DOMAIN sequenced' = 1..(N + 1) /\ Len(sequenced') = N + 1
       /\ \A i \in 1..N : sequenced'[i] = sequenced[i]
       /\ sequenced'[N + 1] = x
       /\ ToSet(sequenced') = ToSet(sequenced) \union {x}
       /\ Ids(sequenced') = Ids(sequenced) \union {x.id}
  BY <1>2, <1>11
<1>14. sequenced \in Seq(R) /\ N \in Nat /\ DOMAIN sequenced = 1..N
  BY <1>4, <1>11
<1> QED
  BY <1>6, <1>7, <1>8, <1>10, <1>12, <1>13, <1>14 DEF x, R, N

LEMMA RingStands ==
    ASSUME UNCHANGED <<page, wire, acks>>, FrameInv(page, wire, emitted, overflowed, acts)
    PROVE  RingSound(page, wire)' /\ WiresApart(wire)'
<1>1. /\ RingIds(page)' = RingIds(page) /\ ToSet(acks)' = ToSet(acks)
      /\ \A g \in Frames : Ids(wire[g])' = Ids(wire[g])
  BY DEF RingIds, Ids, ToSet
<1>2. Main \in Frames /\ Children \subseteq Frames
  BY ConstantFacts
<1>3. RingSound(page, wire) /\ WiresApart(wire)
  BY DEF FrameInv
<1>4. RingSound(page, wire)'
  BY <1>1, <1>2, <1>3 DEF RingSound
<1>6. WiresApart(wire)'
  BY <1>1, <1>3 DEF WiresApart
<1> QED
  BY <1>4, <1>6

LEMMA FlushNextKeeps ==
    ASSUME IInv, FlushNext
    PROVE  IInv'
<1> DEFINE R == Recorded(emitted, acts, received)
           N == Len(sequenced)
           n == emitted
<1>1. /\ StandsNow /\ ProcessInv /\ CountInv /\ FrameInv(page, wire, n, overflowed, acts)
      /\ PlacedOnce /\ HeapInv /\ LateOnlyForOthers
  BY IInvParts DEF StandsNow, ProcessInv
<1>2. /\ emitted \in Nat /\ acts \in Nat /\ received \in Nat
      /\ FrameTypes(page, wire, n, overflowed, acts) /\ ProcessTypes(emitted, acts)
  BY <1>1, Typed DEF NowTyped
<1>3. /\ last' = Root.hlc
      /\ UNCHANGED <<page, wire, acks, received, ripe, flushing, acts,
                     emitted, overflowed, ignored, refused>>
  BY DEF FlushNext, Root, history
<1>4. /\ Root \in R /\ Root \in ToSet(heap)
      /\ heap' \in Seq(R) /\ ToSet(heap') = ToSet(heap) \ {Root}
      /\ Ids(heap) = Ids(heap') \union {Root.id} /\ Root.id \notin Ids(heap')
      /\ OnceEach(heap') /\ Ordered(heap')
      /\ \A e \in ToSet(heap) : ~Earlier(e.hlc, Root.hlc)
      /\ sequenced \in Seq(R) /\ sequenced' \in Seq(R)
      /\ N \in Nat /\ DOMAIN sequenced = 1..N /\ DOMAIN sequenced' = 1..(N + 1)
      /\ \A i \in 1..N : sequenced'[i] = sequenced[i]
      /\ sequenced'[N + 1] = Root /\ Len(sequenced') = N + 1
      /\ ToSet(sequenced') = ToSet(sequenced) \union {Root}
      /\ Ids(sequenced') = Ids(sequenced) \union {Root.id}
  BY FlushNextFacts
<1>5. Root.hlc \in Clock /\ Root.hlc # NoHlc
  BY <1>2, <1>4, RecordedFacts
<1>6. \A i \in 1..N : sequenced[i] \in R /\ sequenced[i].hlc \in Clock
                      /\ sequenced[i].hlc # NoHlc
  <2>1. \A i \in 1..N : sequenced[i] \in R
    BY <1>4
  <2> QED
    BY <1>2, <2>1, RecordedFacts
<1> HIDE DEF R, N, n
<1>7. FrameTypes(page, wire, emitted, overflowed, acts)'
  BY <1>2, <1>3 DEF FrameTypes, n
<1>8. ProcessTypes(emitted, acts)'
  BY <1>2, <1>3, <1>4 DEF ProcessTypes, R
<1>9. Taken' = Taken
  <2>1. Taken' = ToSet(heap') \union ToSet(sequenced')
    BY DEF Taken, ToSet
  <2> QED
    BY <1>4, <2>1 DEF Taken
<1>10. Known(wire)' = Known(wire)
  BY <1>3, <1>9 DEF Known, Wiring, ToSet
<1>11. Behind(page, wire)'
  BY <1>1, <1>3, <1>10 DEF FrameInv, Behind
<1>12. DocumentsInOrder(wire)'
  BY <1>1, <1>10 DEF FrameInv, DocumentsInOrder, SameDocument
<1>13. WiresInOrder(wire)'
  BY <1>1, <1>3, <1>9 DEF FrameInv, WiresInOrder
<1>14. WiresApart(wire)'
  BY <1>1, <1>3, RingStands DEF n
<1>15. Placed(wire, n, overflowed)
  BY <1>1 DEF FrameInv
<1>16. Placed(wire, emitted, overflowed)'
  <2>1. Ids(heap)' = Ids(heap') /\ Ids(sequenced)' = Ids(sequenced')
        /\ Wired(wire)' = Wired(wire) /\ LateIds' = LateIds
    BY <1>3 DEF Ids, Wired, LateIds
  <2>2. Placed(wire, n, overflowed)'
            <=> /\ 1..n = overflowed \union ignored \union Wired(wire) \union LateIds
                              \union Ids(heap') \union Ids(sequenced')
                /\ overflowed \intersect (ignored \union Wired(wire) \union LateIds
                              \union Ids(heap') \union Ids(sequenced')) = {}
                /\ ignored \intersect (Wired(wire) \union LateIds
                              \union Ids(heap') \union Ids(sequenced')) = {}
                /\ Wired(wire) \intersect (LateIds \union Ids(heap') \union Ids(sequenced')) = {}
                /\ LateIds \intersect (Ids(heap') \union Ids(sequenced')) = {}
                /\ Ids(heap') \intersect Ids(sequenced') = {}
    BY <1>3, <2>1 DEF Placed, n
  <2>3. Placed(wire, n, overflowed)'
    BY <1>4, <1>15, <2>2 DEF Placed
  <2> QED
    BY <2>3 DEF n
<1>17. RingSound(page, wire)'
  BY <1>1, <1>3, RingStands DEF n
<1>18. StandsNow'
  BY <1>7, <1>8, <1>11, <1>12, <1>13, <1>14, <1>16, <1>17 DEF StandsNow, FrameInv
<1>19. PlacedOnce'
  <2>1. \A i \in 1..N : sequenced[i].id # Root.id
    <3>1. Root.id \notin Ids(sequenced)
      BY <1>4, <1>15 DEF Placed
    <3>2. \A i \in 1..N : sequenced[i].id \in Ids(sequenced)
      BY <1>4 DEF Ids
    <3> QED
      BY <3>1, <3>2
  <2>2. OnceEach(sequenced')
    <3> SUFFICES ASSUME NEW i \in 1..(N + 1), NEW j \in 1..(N + 1),
                        sequenced'[i].id = sequenced'[j].id
                 PROVE  i = j
        BY <1>4 DEF OnceEach
    <3>1. CASE i \in 1..N /\ j \in 1..N
      BY <1>1, <1>4, <3>1 DEF PlacedOnce, OnceEach
    <3>2. CASE i = N + 1 /\ j \in 1..N
      BY <1>4, <2>1, <3>2
    <3>3. CASE i \in 1..N /\ j = N + 1
      BY <1>4, <2>1, <3>3
    <3> QED
      BY <1>4, <3>1, <3>2, <3>3
  <2> QED
    BY <1>1, <1>3, <1>4, <2>2 DEF PlacedOnce, OnceEach
<1>20. HeapInv'
  <2>1. Ordered(heap)'
    BY <1>4 DEF Ordered
  <2>2. last' = IF sequenced' = <<>> THEN NoHlc ELSE sequenced'[Len(sequenced')].hlc
    <3>1. sequenced' # <<>>
      BY <1>4
    <3> QED
      BY <1>3, <1>4, <3>1
  <2>3. \A e \in ToSet(heap') : ~Earlier(e.hlc, last')
    BY <1>3, <1>4
  <2>4. ToSet(heap)' = ToSet(heap')
    BY DEF ToSet
  <2>5. \A i \in 1..N : ~Earlier(Root.hlc, sequenced[i].hlc)
    <3> SUFFICES ASSUME NEW i \in 1..N
                 PROVE  ~Earlier(Root.hlc, sequenced[i].hlc)
        OBVIOUS
    <3>1. N \in 1..N /\ sequenced # <<>>
      BY <1>4
    <3>2. last = sequenced[N].hlc /\ ~Earlier(Root.hlc, sequenced[N].hlc)
      BY <1>1, <1>4, <1>6, <3>1 DEF HeapInv, N
    <3>3. CASE i = N
      BY <3>2, <3>3
    <3>4. CASE i < N
      <4>1. ~Earlier(sequenced[N].hlc, sequenced[i].hlc)
        BY <1>1, <1>4, <3>1, <3>4 DEF HeapInv
      <4> QED
        BY <1>5, <1>6, <3>1, <3>2, <4>1, ClockFacts
    <3> QED
      BY <1>4, <3>3, <3>4
  <2>6. \A i, j \in 1..(N + 1) : i < j => ~Earlier(sequenced'[j].hlc, sequenced'[i].hlc)
    <3> SUFFICES ASSUME NEW i \in 1..(N + 1), NEW j \in 1..(N + 1), i < j
                 PROVE  ~Earlier(sequenced'[j].hlc, sequenced'[i].hlc)
        OBVIOUS
    <3>1. i \in 1..N
      BY <1>4
    <3>2. CASE j \in 1..N
      BY <1>1, <1>4, <3>1, <3>2 DEF HeapInv
    <3>3. CASE j = N + 1
      BY <1>4, <2>5, <3>1, <3>3
    <3> QED
      BY <1>4, <3>2, <3>3
  <2> QED
    BY <1>4, <2>1, <2>2, <2>3, <2>4, <2>6 DEF HeapInv
<1>21. LateOnlyForOthers'
  <2> SUFFICES ASSUME NEW e \in refused
               PROVE  \E i \in DOMAIN sequenced' :
                          /\ Earlier(e.hlc, sequenced'[i].hlc)
                          /\ ~SameDocument(e, sequenced'[i])
      BY <1>3 DEF LateOnlyForOthers, SameDocument
  <2>1. PICK i \in DOMAIN sequenced :
            /\ Earlier(e.hlc, sequenced[i].hlc)
            /\ ~SameDocument(e, sequenced[i])
    BY <1>1 DEF LateOnlyForOthers
  <2>2. i \in 1..(N + 1) /\ sequenced'[i] = sequenced[i]
    BY <1>4
  <2> QED
    BY <1>4, <2>1, <2>2
<1>22. CountInv'
  BY <1>1, <1>3 DEF CountInv, ToCome, Hovering, Moving, Typing
<1>23. IInv' <=> StandsNow' /\ ProcessInv' /\ CountInv'
  BY DEF IInv, StandsNow, FrameInv, ProcessInv, TypeInv, PlacesInv
<1> QED
  BY <1>18, <1>19, <1>20, <1>21, <1>22, <1>23 DEF ProcessInv

(* The clock and the ends of a flush.                                      *)
LEMMA TimeKeeps ==
    ASSUME IInv, flushing' \in BOOLEAN, ripe' \in 0..received,
           UNCHANGED <<page, wire, acks, heap, received, last, sequenced, acts,
                       emitted, overflowed, history>>
    PROVE  IInv'
<1>1. /\ StandsNow /\ ProcessInv /\ CountInv
      /\ FrameInv(page, wire, emitted, overflowed, acts)
  BY IInvParts DEF StandsNow
<1>2. UNCHANGED <<ignored, refused>>
  BY DEF history
<1>3. FrameTypes(page, wire, emitted, overflowed, acts)'
  BY <1>1 DEF FrameInv, FrameTypes
<1>4. ProcessTypes(emitted, acts)'
  BY <1>1, <1>2 DEF FrameInv, ProcessTypes
<1>5. Taken' = Taken /\ Known(wire)' = Known(wire)
  BY <1>2 DEF Taken, Known, Wiring
<1>6. Behind(page, wire)' /\ WiresInOrder(wire)'
  BY <1>1, <1>5 DEF FrameInv, Behind, WiresInOrder
<1>7. DocumentsInOrder(wire)'
  BY <1>1, <1>5 DEF FrameInv, DocumentsInOrder, SameDocument
<1>8. WiresApart(wire)'
  BY <1>1, RingStands
<1>9. Placed(wire, emitted, overflowed)'
  <2>1. /\ Wired(wire)' = Wired(wire) /\ LateIds' = LateIds
        /\ Ids(heap)' = Ids(heap) /\ Ids(sequenced)' = Ids(sequenced)
    BY <1>2 DEF Wired, LateIds, Ids
  <2> QED
    BY <1>1, <1>2, <2>1 DEF FrameInv, Placed
<1>10. RingSound(page, wire)'
  BY <1>1, RingStands
<1>11. StandsNow'
  BY <1>3, <1>4, <1>6, <1>7, <1>8, <1>9, <1>10 DEF StandsNow, FrameInv
<1>12. ProcessInv'
  BY <1>1, <1>2, ProcessStands
<1>13. CountInv'
  BY <1>1 DEF CountInv, ToCome, Hovering, Moving, Typing
<1>14. IInv' <=> StandsNow' /\ ProcessInv' /\ CountInv'
  BY DEF IInv, StandsNow, FrameInv, ProcessInv, TypeInv, PlacesInv
<1> QED
  BY <1>11, <1>12, <1>13, <1>14

LEMMA StaysPut ==
    ASSUME IInv, UNCHANGED vars
    PROVE  IInv'
<1>1. ripe \in 0..received /\ flushing \in BOOLEAN
  BY DEF IInv, TypeInv, ProcessTypes
<1>2. /\ flushing' \in BOOLEAN /\ ripe' \in 0..received
      /\ UNCHANGED <<page, wire, acks, heap, received, last, sequenced, acts,
                     emitted, overflowed, history>>
  BY <1>1 DEF vars, sequencer
<1> QED
  BY <1>2, TimeKeeps

LEMMA FlushKeeps ==
    ASSUME IInv, Flush
    PROVE  IInv'
<1>1. ripe \in 0..received
  BY DEF IInv, TypeInv, ProcessTypes
<1>2. CASE FlushStarts
  BY <1>1, <1>2, TimeKeeps DEF FlushStarts
<1>3. CASE FlushNext
  BY <1>3, FlushNextKeeps
<1>4. CASE FlushEnds
  BY <1>1, <1>4, TimeKeeps DEF FlushEnds
<1> QED
  BY <1>2, <1>3, <1>4 DEF Flush

LEMMA RipenKeeps ==
    ASSUME IInv, Ripen
    PROVE  IInv'
<1>1. ripe \in 0..received /\ received \in Nat /\ flushing \in BOOLEAN
  BY DEF IInv, TypeInv, ProcessTypes
<1>2. ripe' \in 0..received /\ flushing' \in BOOLEAN
  BY <1>1 DEF Ripen
<1> QED
  BY <1>2, TimeKeeps DEF Ripen

LEMMA NextKeeps ==
    ASSUME IInv, [Next]_vars
    PROVE  IInv'
<1>1. ASSUME NEW f \in Frames, PageStep(f)
      PROVE  IInv'
  <2>1. CASE \E e \in UsedEvents[f] : UserActs(f, e)
    BY <2>1, UserActsKeeps
  <2>2. CASE TimerFires(f)
    BY <2>2, TimerFiresKeeps
  <2>3. CASE Navigate(f)
    BY <2>3, NavigateMainKeeps, NavigateFrameKeeps
  <2> QED
    BY <1>1, <2>1, <2>2, <2>3 DEF PageStep
<1>2. ASSUME NEW f \in Frames, Receive(f)
      PROVE  IInv'
  BY <1>2, ReceiveKeeps
<1>3. CASE Ack
  BY <1>3, AckKeeps
<1>4. CASE Flush
  BY <1>4, FlushKeeps
<1>5. CASE Ripen
  BY <1>5, RipenKeeps
<1>6. CASE UNCHANGED vars
  BY <1>6, StaysPut
<1> QED
  BY <1>1, <1>2, <1>3, <1>4, <1>5, <1>6 DEF Next

LEMMA InitHolds ==
    ASSUME Init
    PROVE  IInv
<1>1. /\ Main \in Frames /\ Children \subseteq Frames
      /\ MaxActs \in Nat /\ MaxDocs \in Nat /\ Capacity \in Nat
  BY ConstantFacts
<1>2. /\ 0 \in Nat /\ 0 \in 0..MaxDocs
  BY <1>1
<1>3. /\ NewPage(0) \in Pages(0, 0)
      /\ NewPage(0).ring = <<>>
      /\ NewPage(0).rec.hovered = 0 /\ NewPage(0).rec.moved = 0
      /\ NewPage(0).rec.typed = 0
  BY <1>2, NewPageFacts
<1> DEFINE new == NewPage(0)
<1>4. /\ page = [f \in Frames |-> new] /\ wire = [f \in Frames |-> <<>>]
      /\ acks = <<>> /\ heap = <<>> /\ received = 0 /\ ripe = 0 /\ last = NoHlc
      /\ flushing = FALSE /\ sequenced = <<>> /\ acts = 0 /\ emitted = 0
      /\ overflowed = {} /\ ignored = {} /\ refused = {}
  BY DEF Init
<1> HIDE DEF new
<1>5. \A f \in Frames : page[f] = new /\ wire[f] = <<>>
  BY <1>4
<1>6. FrameTypes(page, wire, emitted, overflowed, acts)
  <2>1. page \in [Frames -> Pages(emitted, acts)]
    BY <1>3, <1>4 DEF new
  <2>2. wire \in [Frames -> Seq(Recorded(emitted, acts, received))]
    BY <1>4
  <2>3. \A f \in Frames : Len(page[f].ring) <= Capacity
    BY <1>1, <1>3, <1>5 DEF new
  <2>4. emitted \in Nat /\ acts \in 0..MaxActs /\ overflowed \in SUBSET (1..emitted)
    BY <1>1, <1>4
  <2> QED
    BY <2>1, <2>2, <2>3, <2>4 DEF FrameTypes
<1>7. ProcessTypes(emitted, acts)
  <2>a. received = 0 /\ ripe = 0 /\ 0 \in 0..0
    BY <1>4
  <2>b. flushing \in BOOLEAN
    BY <1>4, Zenon
  <2>1. received \in Nat /\ ripe \in 0..received /\ flushing \in BOOLEAN
    BY <2>a, <2>b
  <2>3. acks \in Seq(1..emitted) /\ ignored \in SUBSET (1..emitted)
    BY <1>4
  <2> DEFINE R == Recorded(emitted, acts, received)
  <2> HIDE DEF R
  <2>2. heap \in Seq(R) /\ sequenced \in Seq(R) /\ refused \in SUBSET R
    BY <1>4
  <2> QED
    BY <2>1, <2>2, <2>3 DEF ProcessTypes, R
<1>8. /\ ToSet(heap) = {} /\ ToSet(sequenced) = {} /\ Ids(heap) = {}
      /\ Ids(sequenced) = {} /\ LateIds = {} /\ ToSet(acks) = {}
      /\ \A f \in Frames : ToSet(wire[f]) = {} /\ Ids(wire[f]) = {}
  BY <1>4, <1>5 DEF ToSet, Ids, LateIds
<1>9. Known(wire) = {} /\ Taken = {} /\ Wired(wire) = {}
  BY <1>4, <1>8 DEF Known, Wiring, Taken, Wired
<1>10. Behind(page, wire) /\ DocumentsInOrder(wire)
  BY <1>9 DEF Behind, DocumentsInOrder
<1>11. WiresInOrder(wire) /\ WiresApart(wire)
  BY <1>5, <1>8, <1>9 DEF WiresInOrder, WiresApart
<1>12. Placed(wire, emitted, overflowed)
  BY <1>4, <1>8, <1>9 DEF Placed
<1>13. PlacedOnce
  BY <1>4 DEF PlacedOnce, OnceEach
<1>14. RingSound(page, wire)
  <2>1. page[Main].ring = <<>>
    BY <1>1, <1>3, <1>5 DEF new
  <2>2. RingIds(page) = {}
    BY <2>1 DEF RingIds, Ids
  <2> QED
    BY <1>4, <2>1, <2>2 DEF RingSound
<1>16. HeapInv /\ LateOnlyForOthers
  BY <1>4, <1>8 DEF HeapInv, Ordered, LateOnlyForOthers
<1>17. CountInv
  <2>1. Hovering(page) = {} /\ Moving(page) = {} /\ Typing(page) = {}
    BY <1>3, <1>5 DEF Hovering, Moving, Typing, new
  <2>2. ToCome(page) = 0
    BY <2>1, FS_EmptySet DEF ToCome
  <2> QED
    BY <1>4, <2>2 DEF CountInv
<1> QED
  BY <1>6, <1>7, <1>10, <1>11, <1>12, <1>13, <1>14, <1>16, <1>17
     DEF IInv, TypeInv, PlacesInv

LEMMA Inductive == Spec => []IInv
<1>1. Init => IInv
  BY InitHolds
<1>2. IInv /\ [Next]_vars => IInv'
  BY NextKeeps
<1> QED
  BY <1>1, <1>2, PTL DEF Spec

-----------------------------------------------------------------------------
(* What the invariant implies.                                             *)
LEMMA EmittedBehindActs ==
    ASSUME IInv
    PROVE  emitted \in 0..acts /\ acts \in 0..MaxActs /\ MaxActs \in Nat
<1>1. StandsNow /\ CountInv
  BY IInvParts
<1>2. emitted \in Nat /\ acts \in Nat /\ acts \in 0..MaxActs
  BY <1>1, Typed DEF NowTyped
<1>3. /\ Hovering(page) \in SUBSET Frames /\ Moving(page) \in SUBSET Frames
      /\ Typing(page) \in SUBSET Frames
  BY DEF Hovering, Moving, Typing
<1>4. /\ Cardinality(Hovering(page)) \in Nat /\ Cardinality(Moving(page)) \in Nat
      /\ Cardinality(Typing(page)) \in Nat
  BY <1>3, ConstantFacts, FS_Subset, FS_CardinalityType
<1>5. emitted <= acts
  BY <1>1, <1>2, <1>4 DEF CountInv, ToCome
<1> QED
  BY <1>2, <1>5, ConstantFacts

LEMMA TypeImplied ==
    ASSUME IInv
    PROVE  TypeOK
<1>1. NowTyped /\ FrameTypes(page, wire, emitted, overflowed, acts)
      /\ ProcessTypes(emitted, acts)
  BY IInvParts, Typed DEF NowTyped
<1>2. emitted \in 0..acts /\ acts \in 0..MaxActs
  BY EmittedBehindActs
<1>3. Event = Recorded(emitted, acts, received)
  BY DEF Event, Recorded
<1>4. ASSUME NEW f \in Frames
      PROVE  /\ page[f].doc \in 0..MaxDocs
             /\ page[f].rec.pointer \in {"IDLE", "POINTER_DOWN", "DRAGGING"}
             /\ {page[f].rec.hovered, page[f].rec.moved, page[f].rec.typed} \subseteq 0..acts
             /\ page[f].ring \in Seq([id : 1..emitted, acked : BOOLEAN])
             /\ Len(page[f].ring) <= Capacity
             /\ wire[f] \in Seq(Event)
  <2>1. page[f] \in Pages(emitted, acts) /\ Len(page[f].ring) <= Capacity
    BY <1>1 DEF NowTyped, FrameTypes
  <2>2. /\ page[f].doc \in 0..MaxDocs /\ page[f].rec \in Recognizers(acts)
        /\ page[f].ring \in Seq([id : 1..emitted, acked : BOOLEAN])
    BY <2>1 DEF Pages
  <2>3. wire[f] \in Seq(Event)
    BY <1>1, <1>3 DEF NowTyped
  <2> QED
    BY <2>1, <2>2, <2>3 DEF Recognizers
<1>5. /\ acks \in Seq(1..emitted) /\ heap \in Seq(Event) /\ sequenced \in Seq(Event)
      /\ ripe \in 0..received /\ flushing \in BOOLEAN
      /\ {overflowed, ignored} \subseteq SUBSET (1..emitted) /\ refused \subseteq Event
  BY <1>1, <1>3 DEF FrameTypes, ProcessTypes
<1> QED
  BY <1>2, <1>4, <1>5 DEF TypeOK

(* Sizes.                                                                  *)
LEMMA Apart ==
    ASSUME NEW S, NEW T, IsFiniteSet(S), IsFiniteSet(T), S \intersect T = {}
    PROVE  IsFiniteSet(S \union T)
           /\ Cardinality(S \union T) = Cardinality(S) + Cardinality(T)
<1>1. /\ IsFiniteSet(S \union T)
      /\ Cardinality(S \union T) =
             Cardinality(S) + Cardinality(T) - Cardinality(S \intersect T)
  BY FS_Union
<1>2. Cardinality(S \intersect T) = 0
  BY FS_EmptySet
<1>3. Cardinality(S) \in Nat /\ Cardinality(T) \in Nat
  BY FS_CardinalityType
<1> QED
  BY <1>1, <1>2, <1>3

LEMMA OneIdEach ==
    ASSUME NEW S, NEW T, IsFiniteSet(T), NEW g \in [S -> T],
           \A a, b \in S : g[a] = g[b] => a = b, \A t \in T : \E a \in S : g[a] = t
    PROVE  Cardinality(S) = Cardinality(T)
<1>1. g \in Injection(S, T) /\ g \in Surjection(S, T)
  BY DEF Injection, Surjection, IsInjective
<1> QED
  BY <1>1, FS_Injection

LEMMA IdsCount ==
    ASSUME NEW E, NEW s \in Seq(E), OnceEach(s), IsFiniteSet(Ids(s))
    PROVE  Len(s) = Cardinality(Ids(s))
<1> DEFINE N == Len(s)
           g == [i \in 1..N |-> s[i].id]
           T == Ids(s)
<1>1. N \in Nat /\ DOMAIN s = 1..N
  OBVIOUS
<1>2. /\ g \in [1..N -> T] /\ \A i \in 1..N : g[i] = s[i].id
      /\ \A t \in T : \E i \in 1..N : s[i].id = t
  BY <1>1 DEF Ids
<1>3. \A i, j \in 1..N : s[i].id = s[j].id => i = j
  BY <1>1 DEF OnceEach
<1> HIDE DEF g, T
<1>4. /\ \A i, j \in 1..N : g[i] = g[j] => i = j
      /\ \A t \in T : \E i \in 1..N : g[i] = t
  BY <1>2, <1>3
<1>5. IsFiniteSet(T)
  BY DEF T
<1>6. Cardinality(1..N) = Cardinality(T)
  BY <1>2, <1>4, <1>5, OneIdEach
<1>7. Cardinality(1..N) = N
  BY <1>1, FS_Interval
<1> QED
  BY <1>6, <1>7 DEF T

LEMMA AccountedImplied ==
    ASSUME IInv
    PROVE  Accounted
<1> DEFINE n == emitted
           A == overflowed
           B == ignored
           C == OnTheWire
           D == LateIds
           G == Ids(heap)
           H == Ids(sequenced)
<1>1. /\ StandsNow /\ PlacedOnce /\ Placed(wire, n, overflowed)
  BY IInvParts DEF ProcessInv, StandsNow, FrameInv
<1>2. n \in Nat /\ ProcessTypes(n, acts)
  BY <1>1, Typed DEF NowTyped
<1>3. C = Wired(wire)
  BY DEF OnTheWire, Wired
<1>4. /\ 1..n = A \union (B \union (C \union (D \union (G \union H))))
      /\ A \intersect (B \union (C \union (D \union (G \union H)))) = {}
      /\ B \intersect (C \union (D \union (G \union H))) = {}
      /\ C \intersect (D \union (G \union H)) = {}
      /\ D \intersect (G \union H) = {}
      /\ G \intersect H = {}
  BY <1>1, <1>3 DEF Placed
<1>5. IsFiniteSet(1..n) /\ Cardinality(1..n) = n
  BY <1>2, FS_Interval
<1> HIDE DEF A, B, C, D, G, H, n
<1>6. /\ IsFiniteSet(A) /\ IsFiniteSet(B) /\ IsFiniteSet(C) /\ IsFiniteSet(D)
      /\ IsFiniteSet(G) /\ IsFiniteSet(H)
  <2>1. /\ A \in SUBSET (1..n) /\ B \in SUBSET (1..n) /\ C \in SUBSET (1..n)
        /\ D \in SUBSET (1..n) /\ G \in SUBSET (1..n) /\ H \in SUBSET (1..n)
    BY <1>4
  <2> QED
    BY <1>5, <2>1, FS_Subset
<1>7. /\ IsFiniteSet(G \union H)
      /\ Cardinality(G \union H) = Cardinality(G) + Cardinality(H)
  BY <1>4, <1>6, Apart
<1>8. /\ IsFiniteSet(D \union (G \union H))
      /\ Cardinality(D \union (G \union H)) = Cardinality(D) + Cardinality(G \union H)
  BY <1>4, <1>6, <1>7, Apart
<1>9. /\ IsFiniteSet(C \union (D \union (G \union H)))
      /\ Cardinality(C \union (D \union (G \union H))) =
             Cardinality(C) + Cardinality(D \union (G \union H))
  BY <1>4, <1>6, <1>8, Apart
<1>10. /\ IsFiniteSet(B \union (C \union (D \union (G \union H))))
       /\ Cardinality(B \union (C \union (D \union (G \union H)))) =
              Cardinality(B) + Cardinality(C \union (D \union (G \union H)))
  BY <1>4, <1>6, <1>9, Apart
<1>11. Cardinality(A \union (B \union (C \union (D \union (G \union H))))) =
           Cardinality(A) + Cardinality(B \union (C \union (D \union (G \union H))))
  BY <1>4, <1>6, <1>10, Apart
<1>12. /\ Cardinality(A) \in Nat /\ Cardinality(B) \in Nat /\ Cardinality(C) \in Nat
       /\ Cardinality(D) \in Nat /\ Cardinality(G) \in Nat /\ Cardinality(H) \in Nat
  BY <1>6, FS_CardinalityType
<1>13. n = Cardinality(A) + Cardinality(B) + Cardinality(C) + Cardinality(D)
               + Cardinality(G) + Cardinality(H)
  <2>1. n = Cardinality(A \union (B \union (C \union (D \union (G \union H)))))
    BY <1>4, <1>5
  <2>2. Cardinality(D \union (G \union H)) =
            Cardinality(D) + (Cardinality(G) + Cardinality(H))
    BY <1>7, <1>8
  <2>3. Cardinality(C \union (D \union (G \union H))) =
            Cardinality(C) + (Cardinality(D) + (Cardinality(G) + Cardinality(H)))
    BY <1>9, <2>2
  <2>4. Cardinality(B \union (C \union (D \union (G \union H)))) =
            Cardinality(B)
                + (Cardinality(C) + (Cardinality(D) + (Cardinality(G) + Cardinality(H))))
    BY <1>10, <2>3
  <2>5. n = Cardinality(A) + (Cardinality(B)
                + (Cardinality(C) + (Cardinality(D) + (Cardinality(G) + Cardinality(H)))))
    BY <1>11, <2>1, <2>4
  <2> QED
    BY <1>12, <2>5
<1>14. Len(heap) = Cardinality(G) /\ Len(sequenced) = Cardinality(H)
  <2>1. /\ heap \in Seq(Recorded(n, acts, received))
        /\ sequenced \in Seq(Recorded(n, acts, received))
        /\ OnceEach(heap) /\ OnceEach(sequenced)
    BY <1>1, <1>2 DEF ProcessTypes, PlacedOnce
  <2> QED
    BY <1>6, <2>1, IdsCount DEF G, H
<1>15. Cardinality(refused) = Cardinality(D)
  <2> DEFINE g == [e \in refused |-> e.id]
  <2>1. /\ g \in [refused -> D] /\ \A e \in refused : g[e] = e.id
        /\ \A t \in D : \E e \in refused : e.id = t
    BY DEF D, LateIds
  <2>2. \A a, b \in refused : a.id = b.id => a = b
    BY <1>1 DEF PlacedOnce
  <2> HIDE DEF g
  <2>3. /\ \A a, b \in refused : g[a] = g[b] => a = b
        /\ \A t \in D : \E e \in refused : g[e] = t
    BY <2>1, <2>2
  <2> QED
    BY <1>6, <2>1, <2>3, OneIdEach
<1>16. 1..n = A \union B \union C \union D \union G \union H
  BY <1>4
<1> QED
  BY <1>13, <1>14, <1>15, <1>16 DEF Accounted, A, B, C, D, G, H, n, LateIds

LEMMA OrderImplied ==
    ASSUME IInv
    PROVE  ImmediateInOrder
<1>1. /\ StandsNow /\ OnceEach(sequenced) /\ HeapInv /\ DocumentsInOrder(wire)
  BY IInvParts DEF ProcessInv, StandsNow, FrameInv, PlacedOnce
<1>2. emitted \in Nat /\ acts \in Nat /\ received \in Nat /\ ProcessTypes(emitted, acts)
  BY <1>1, Typed DEF NowTyped
<1> SUFFICES ASSUME NEW i \in DOMAIN sequenced, NEW j \in DOMAIN sequenced, i < j,
                    SameDocument(sequenced[i], sequenced[j]),
                    sequenced[i].made > sequenced[j].made,
                    sequenced[j].kind \notin Delayed
             PROVE  FALSE
    BY DEF ImmediateInOrder
<1> DEFINE a == sequenced[i]
           b == sequenced[j]
<1>3. a \in Recorded(emitted, acts, received) /\ b \in Recorded(emitted, acts, received)
  BY <1>2 DEF ProcessTypes
<1>4. a.id \in Nat /\ b.id \in Nat /\ a.made \in Nat /\ b.made \in Nat
  <2>1. a.id \in 1..emitted /\ b.id \in 1..emitted /\ a.made \in 1..acts /\ b.made \in 1..acts
    BY <1>2, <1>3, RecordedFacts
  <2> QED
    BY <2>1, <1>2
<1>5. i \in Nat /\ j \in Nat
  <2>1. DOMAIN sequenced = 1..Len(sequenced) /\ Len(sequenced) \in Nat
    BY <1>2 DEF ProcessTypes
  <2> QED
    BY <2>1
<1>6. a.id # b.id
  BY <1>1, <1>5 DEF OnceEach
<1>7. a \in Known(wire) /\ b \in Known(wire)
  BY DEF Known, Taken, ToSet
<1>8. SameDocument(a, b) /\ SameDocument(b, a) /\ ~Earlier(b.hlc, a.hlc)
      /\ b.kind \notin Delayed /\ a.made > b.made
  BY <1>1 DEF SameDocument, HeapInv
<1> HIDE DEF a, b
<1>9. CASE a.id < b.id
  BY <1>1, <1>4, <1>7, <1>8, <1>9 DEF DocumentsInOrder
<1>10. CASE b.id < a.id
  BY <1>1, <1>7, <1>8, <1>10 DEF DocumentsInOrder
<1> QED
  BY <1>4, <1>6, <1>9, <1>10

LEMMA RingImplied ==
    ASSUME IInv
    PROVE  RingIsUnderWay
<1>1. RingSound(page, wire)
  BY DEF IInv
<1>2. \A i \in DOMAIN page[Main].ring : page[Main].ring[i].id \in RingIds(page)
  BY DEF RingIds, Ids
<1>3. RingIds(page) \subseteq Ids(wire[Main]) \union ToSet(acks)
  BY <1>1 DEF RingSound
<1> QED
  BY <1>2, <1>3 DEF RingIsUnderWay

-----------------------------------------------------------------------------
(* The refinement.                                                         *)
LEMMA StampedOf ==
    ASSUME IInv, NEW e \in Recorded(emitted, acts, received)
    PROVE  /\ Stamped(e) \in [id : 1..MaxActs,
                              hlc : [physical : 1..MaxReading, logical : 0..MaxActs]]
           /\ Stamped(e).id = e.id /\ Stamped(e).hlc = e.hlc
<1>1. emitted \in 0..acts /\ acts \in 0..MaxActs /\ MaxActs \in Nat
  BY EmittedBehindActs
<1>2. emitted \in Nat /\ acts \in Nat /\ received \in Nat /\ emitted <= MaxActs
  BY <1>1, IInvParts, Typed DEF NowTyped
<1>3. e.id \in 1..emitted /\ e.hlc \in [physical : 1..MaxReading, logical : 0..emitted]
  BY <1>2, RecordedFacts
<1>4. e.id \in 1..MaxActs
  BY <1>1, <1>2, <1>3
<1>5. e.hlc \in [physical : 1..MaxReading, logical : 0..MaxActs]
  <2>1. 0..emitted \subseteq 0..MaxActs
    BY <1>1, <1>2
  <2> QED
    BY <1>3, <2>1
<1> QED
  BY <1>4, <1>5 DEF Stamped

Waiting(h) == {Stamped(e) : e \in ToSet(h)}

LEMMA WaitingIs ==
    ASSUME NEW h
    PROVE  {Stamped(h[i]) : i \in DOMAIN h} = Waiting(h)
BY DEF Waiting, ToSet

LEMMA ReceiveTakes ==
    ASSUME IInv, NEW f \in Frames, Receive(f), ~Late(First(f))
    PROVE  Order!Next
<1> DEFINE e == First(f)
           x == [e EXCEPT !.arrival = received + 1]
           s == Stamped(x)
           N == Len(sequenced)
<1>1. /\ wire[f] # <<>> /\ wire' = After(f) /\ acks' = Append(acks, e.id)
      /\ received' = received + 1 /\ heap' = Push(heap, x)
      /\ UNCHANGED <<page, ripe, last, flushing, sequenced, acts, emitted,
                     overflowed, ignored, refused>>
  BY DEF Receive, After, First
<1>2. ToSet(heap') = ToSet(heap) \union {x}
  BY <1>1, ReceiveInTimeKeeps
<1>3. /\ StandsNow /\ Placed(wire, emitted, overflowed) /\ HeapInv
  BY IInvParts DEF StandsNow, FrameInv, ProcessInv
<1>4. /\ emitted \in Nat /\ acts \in Nat /\ received \in Nat
      /\ ProcessTypes(emitted, acts)
  BY <1>3, Typed DEF NowTyped
<1>5. e \in Recorded(emitted, acts, received) /\ e.id \in Wired(wire)
  BY <1>1, <1>3, ComingOff, WiresLeft
<1>6. last # NoHlc => ~Earlier(e.hlc, last)
  BY DEF Late
<1>7. /\ s = Stamped(e) /\ s.id = e.id /\ s.hlc = e.hlc /\ x.id = e.id
      /\ s \in [id : 1..MaxActs,
                hlc : [physical : 1..MaxReading, logical : 0..MaxActs]]
  <2> HIDE DEF e
  <2>1. x.id = e.id /\ x.hlc = e.hlc
    BY <1>5 DEF Recorded
  <2> HIDE DEF x
  <2>2. s = Stamped(e)
    BY <2>1 DEF Stamped
  <2> QED
    BY <1>5, <2>1, <2>2, StampedOf
<1> HIDE DEF e, x, s, N
<1>8. e.id \notin Ids(heap) \union Ids(sequenced)
  BY <1>3, <1>5 DEF Placed
<1> DEFINE q == [i \in DOMAIN sequenced |-> Stamped(sequenced[i])]
<1>9. q # <<>> => ~Order!Earlier(s.hlc, q[Len(q)].hlc)
  <2>1. sequenced \in Seq(Recorded(emitted, acts, received))
    BY <1>4 DEF ProcessTypes
  <2>2. N \in Nat /\ DOMAIN sequenced = 1..N
    BY <2>1 DEF N
  <2>3. Len(q) = N /\ \A i \in 1..N : q[i] = Stamped(sequenced[i])
    BY <2>2
  <2> HIDE DEF q
  <2>4. CASE N = 0
    <3>1. q = <<>>
      BY <2>2, <2>4 DEF q
    <3> QED
      BY <3>1
  <2>5. CASE N # 0
    <3>1. N \in 1..N /\ sequenced # <<>>
      BY <2>2, <2>5 DEF N
    <3>2. sequenced[N] \in Recorded(emitted, acts, received)
      BY <2>1, <2>2, <3>1
    <3>3. last = sequenced[N].hlc /\ last # NoHlc
      BY <1>3, <1>4, <3>1, <3>2, RecordedFacts DEF HeapInv, N
    <3>4. q[N].hlc = last
      BY <2>3, <3>1, <3>3 DEF Stamped
    <3> QED
      BY <1>6, <1>7, <2>3, <3>3, <3>4 DEF Order!Earlier, Earlier
  <2> QED
    BY <2>4, <2>5
<1>10. /\ Ids(heap)' = Ids(heap') /\ Ids(sequenced)' = Ids(sequenced)
       /\ Ids(heap') = Ids(heap) \union {e.id}
  <2>1. Ids(heap) = {y.id : y \in ToSet(heap)} /\ Ids(heap') = {y.id : y \in ToSet(heap')}
    BY IdsAreOfMembers
  <2>2. Ids(heap') = Ids(heap) \union {e.id}
    BY <1>2, <1>7, <2>1
  <2> QED
    BY <1>1, <2>2 DEF Ids
<1> DEFINE v == {Stamped(heap[i]) : i \in DOMAIN heap}
<1>11. v' = v \union {s}
  <2>1. v = Waiting(heap) /\ v' = Waiting(heap')
    BY WaitingIs
  <2>2. Waiting(heap') = Waiting(heap) \union {s}
    BY <1>2 DEF Waiting, s
  <2> QED
    BY <2>1, <2>2
<1>12. q' = q
  BY <1>1
<1>13. (Ids(heap) \union Ids(sequenced))' = (Ids(heap) \union Ids(sequenced)) \union {s.id}
  BY <1>7, <1>10
<1>14. Order!Take(s)
  <2> HIDE DEF v, q
  <2> QED
    BY <1>7, <1>8, <1>9, <1>11, <1>12, <1>13 DEF Order!Take, v, q
<1> QED
  BY <1>7, <1>14 DEF Order!Next

LEMMA FlushSequences ==
    ASSUME IInv, FlushNext
    PROVE  Order!Next
<1> DEFINE R == Recorded(emitted, acts, received)
           N == Len(sequenced)
           s == Stamped(Root)
           q == [i \in DOMAIN sequenced |-> Stamped(sequenced[i])]
           v == {Stamped(heap[i]) : i \in DOMAIN heap}
<1>1. /\ Root \in R /\ Root \in ToSet(heap)
      /\ heap' \in Seq(R) /\ ToSet(heap') = ToSet(heap) \ {Root}
      /\ Ids(heap) = Ids(heap') \union {Root.id} /\ Root.id \notin Ids(heap')
      /\ \A e \in ToSet(heap) : ~Earlier(e.hlc, Root.hlc)
      /\ N \in Nat /\ DOMAIN sequenced = 1..N /\ DOMAIN sequenced' = 1..(N + 1)
      /\ \A i \in 1..N : sequenced'[i] = sequenced[i]
      /\ sequenced'[N + 1] = Root
      /\ Ids(sequenced') = Ids(sequenced) \union {Root.id}
  BY FlushNextFacts
<1> HIDE DEF R, N
<1>2. v = Waiting(heap) /\ v' = Waiting(heap')
  BY WaitingIs
<1>3. \A t \in v : \E e \in ToSet(heap) : t = Stamped(e)
  BY <1>2 DEF Waiting
<1>4. \A other \in v : ~Order!Earlier(other.hlc, s.hlc)
  BY <1>1, <1>3 DEF Stamped, Order!Earlier, Earlier
<1>5. v' = v \ {s} /\ s \in v
  <2>1. \A e \in ToSet(heap') : e.id # Root.id
    <3>1. Ids(heap') = {e.id : e \in ToSet(heap')}
      BY IdsAreOfMembers
    <3> QED
      BY <1>1, <3>1
  <2>2. \A e \in ToSet(heap') : Stamped(e) # s
    <3>1. \A e : Stamped(e).id = e.id
      BY DEF Stamped
    <3> QED
      BY <2>1, <3>1
  <2>3. ToSet(heap) = ToSet(heap') \union {Root}
    BY <1>1
  <2>4. Waiting(heap) = Waiting(heap') \union {s} /\ s \notin Waiting(heap')
    BY <2>2, <2>3 DEF Waiting
  <2> QED
    BY <1>2, <2>4
<1>6. q' = Append(q, s)
  <2> DEFINE p == [i \in 1..N |-> Stamped(sequenced[i])]
  <2>1. q = p
    BY <1>1
  <2>2. q' = [i \in 1..(N + 1) |-> Stamped(sequenced'[i])]
    BY <1>1
  <2>3. p \in Seq({Stamped(sequenced[i]) : i \in 1..N}) /\ Len(p) = N
    BY <1>1
  <2>4. Append(p, s) = [i \in 1..(N + 1) |-> IF i = N + 1 THEN s ELSE p[i]]
    <3> DEFINE T == {Stamped(sequenced[i]) : i \in 1..N}
    <3> HIDE DEF p, s, T
    <3>1. p \in Seq(T) /\ Len(p) = N /\ N \in Nat
      BY <1>1, <2>3 DEF T
    <3>2. /\ DOMAIN Append(p, s) = 1..(N + 1) /\ Append(p, s)[N + 1] = s
          /\ \A i \in 1..N : Append(p, s)[i] = p[i]
      <4>1. p \in Seq(T)
        BY <3>1
      <4>2. DOMAIN Append(p, s) = 1..(Len(p) + 1)
        BY <4>1, AppendFacts
      <4>3. Append(p, s)[Len(p) + 1] = s
        BY <4>1, AppendFacts
      <4>4. \A i \in 1..Len(p) : Append(p, s)[i] = p[i]
        BY <4>1, AppendFacts
      <4>5. Len(p) = N
        BY <3>1
      <4> QED
        BY <4>2, <4>3, <4>4, <4>5
    <3>3. Append(p, s) \in Seq(T \union {s})
      BY <3>1
    <3>4. Append(p, s) = [i \in 1..(N + 1) |-> Append(p, s)[i]]
      <4> DEFINE t == Append(p, s)
                 W == T \union {s}
      <4>1. t \in Seq(W)
        BY <3>3
      <4>2. DOMAIN t = 1..(N + 1)
        BY <3>2
      <4> HIDE DEF t, W
      <4>3. PICK n \in Nat : t \in [1..n -> W]
        BY <4>1, SeqDef
      <4>4. t = [i \in DOMAIN t |-> t[i]]
        BY <4>3
      <4>5. t = [i \in 1..(N + 1) |-> t[i]]
        BY <4>2, <4>4
      <4> QED
        BY <4>5 DEF t
    <3>5. \A i \in 1..(N + 1) : Append(p, s)[i] = IF i = N + 1 THEN s ELSE p[i]
      BY <3>1, <3>2
    <3> QED
      BY <3>4, <3>5
  <2>5. \A i \in 1..(N + 1) : Stamped(sequenced'[i]) = IF i = N + 1 THEN s ELSE p[i]
    BY <1>1
  <2> HIDE DEF p, q, s
  <2> QED
    BY <2>1, <2>2, <2>4, <2>5
<1>7. (Ids(heap) \union Ids(sequenced))' = Ids(heap) \union Ids(sequenced)
  <2>1. Ids(heap)' = Ids(heap') /\ Ids(sequenced)' = Ids(sequenced')
    BY DEF Ids
  <2> QED
    BY <1>1, <2>1
<1>8. Order!Sequence(s)
  <2> HIDE DEF v, q, s
  <2> QED
    BY <1>4, <1>5, <1>6, <1>7 DEF Order!Sequence, v, q
<1> QED
  BY <1>5, <1>8 DEF Order!Next

LEMMA OthersStutter ==
    ASSUME UNCHANGED <<heap, sequenced>>
    PROVE  UNCHANGED Order!vars
BY DEF Order!vars, Ids

LEMMA EmitLeavesProcess ==
    ASSUME NEW f, NEW result, Emit(f, result)
    PROVE  UNCHANGED <<heap, sequenced>>
BY DEF Emit, sequencer

LEMMA StepRefines ==
    ASSUME IInv, [Next]_vars
    PROVE  [Order!Next]_(Order!vars)
<1>1. ASSUME NEW f \in Frames, PageStep(f)
      PROVE  UNCHANGED <<heap, sequenced>>
  <2>1. ASSUME NEW e, UserActs(f, e)
        PROVE  UNCHANGED <<heap, sequenced>>
    BY <2>1, EmitLeavesProcess DEF UserActs
  <2>2. CASE TimerFires(f)
    BY <2>2, EmitLeavesProcess DEF TimerFires
  <2>3. CASE Navigate(f)
    BY <2>3 DEF Navigate, sequencer
  <2> QED
    BY <1>1, <2>1, <2>2, <2>3 DEF PageStep
<1>2. ASSUME NEW f \in Frames, Receive(f), Late(First(f))
      PROVE  UNCHANGED <<heap, sequenced>>
  BY <1>2 DEF Receive, First
<1>3. ASSUME NEW f \in Frames, Receive(f), ~Late(First(f))
      PROVE  Order!Next
  BY <1>3, ReceiveTakes
<1>4. CASE Ack \/ Ripen \/ FlushStarts \/ FlushEnds
  <2>1. UNCHANGED <<heap, sequenced>>
    BY <1>4 DEF Ack, Ripen, FlushStarts, FlushEnds, sequencer
  <2> QED
    BY <2>1, OthersStutter
<1>5. CASE FlushNext
  BY <1>5, FlushSequences
<1>6. CASE UNCHANGED vars
  <2>1. UNCHANGED <<heap, sequenced>>
    BY <1>6 DEF vars, sequencer
  <2> QED
    BY <2>1, OthersStutter
<1> QED
  BY <1>1, <1>2, <1>3, <1>4, <1>5, <1>6, OthersStutter DEF Next, Flush

LEMMA InitRefines ==
    ASSUME Init
    PROVE  Order!Init
<1>1. heap = <<>> /\ sequenced = <<>>
  BY DEF Init
<1> QED
  BY <1>1 DEF Order!Init, Ids

-----------------------------------------------------------------------------
(* The theorems.                                                           *)
THEOREM TypeCorrect == Spec => []TypeOK
<1>1. IInv => TypeOK
  BY TypeImplied
<1> QED
  BY <1>1, Inductive, PTL

(* No interaction is lost without trace, none is there twice.              *)
THEOREM AccountedFor == Spec => []Accounted
<1>1. IInv => Accounted
  BY AccountedImplied
<1> QED
  BY <1>1, Inductive, PTL

(* What is late is late because of another document.                       *)
THEOREM OnlyOthersMakeLate == Spec => []LateOnlyForOthers
<1>1. IInv => LateOnlyForOthers
  BY DEF IInv
<1> QED
  BY <1>1, Inductive, PTL

(* Of one document, what is emitted at once is numbered in the user's      *)
(* order.                                                                  *)
THEOREM NumberedInOrder == Spec => []ImmediateInOrder
<1>1. IInv => ImmediateInOrder
  BY OrderImplied
<1> QED
  BY <1>1, Inductive, PTL

(* The main frame's ring holds only what will be acknowledged.             *)
THEOREM RingComesFree == Spec => []RingIsUnderWay
<1>1. IInv => RingIsUnderWay
  BY RingImplied
<1> QED
  BY <1>1, Inductive, PTL

(* Heap, flush and late-arrival abort implement InOrderSequence.           *)
THEOREM ImplementsSequence == Spec => SequencesInOrder
<1>1. Init => Order!Init
  BY InitRefines
<1>2. IInv /\ [Next]_vars => [Order!Next]_(Order!vars)
  BY StepRefines
<1> QED
  BY <1>1, <1>2, Inductive, PTL DEF Spec, SequencesInOrder, Order!Spec

(* The numbers follow the hybrid logical clocks.                           *)
THEOREM SequencedInOrder == Spec => []Order!CausalOrder
<1>1. IInv => Order!CausalOrder
  <2> SUFFICES ASSUME IInv
               PROVE  Order!CausalOrder
      OBVIOUS
  <2>1. HeapInv
    BY IInvParts DEF ProcessInv
  <2> QED
    BY <2>1 DEF Order!CausalOrder, HeapInv, Stamped, Order!Earlier, Earlier
<1> QED
  BY <1>1, Inductive, PTL

(* No event gets two numbers.                                              *)
THEOREM SequencedOnce == Spec => []Order!OneNumberEach
<1>1. IInv => Order!OneNumberEach
  <2> SUFFICES ASSUME IInv
               PROVE  Order!OneNumberEach
      OBVIOUS
  <2>1. OnceEach(sequenced)
    BY IInvParts DEF ProcessInv, PlacedOnce
  <2> QED
    BY <2>1 DEF Order!OneNumberEach, OnceEach, Stamped
<1> QED
  BY <1>1, Inductive, PTL

=============================================================================
