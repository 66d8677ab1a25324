-------------------------- MODULE StakePolicy_proofs --------------------------
(***************************************************************************)
(* Theorems of StakePolicy, for any policies, balances and odds:           *)
(*   TypeCorrect   the types of the variables;                             *)
(*   Best          what was authorized of the placed stake is the best     *)
(*                 multiple of the increment for the odds at the click;    *)
(*   Bounded       only the progression exceeds MaxStake, by so much;      *)
(*   Floor         a clamped bet earns the acceptable minimum, if the odds *)
(*                 do not fall before the observer confirms.               *)
(*                                                                         *)
(* All rest on one invariant, that a bet is clicked on the odds and the    *)
(* balance its stake was computed from, and on the arithmetic of the       *)
(* engine: a stake s is modest iff s <= Clamped as ratios, and snapping    *)
(* rounds that ratio to a multiple of the increment.                       *)
(***************************************************************************)
EXTENDS StakePolicy, TLAPS

DecidedInv ==
    /\ TypeOK
    /\ at # "done" => successCount <= MaxRebets
    /\ at = "armed" =>
         /\ Authorized(policy, funds, expected)
         /\ stake = Decision(policy, funds, expected) + Progression(policy, successCount)
    /\ IsPlaced =>
         /\ Authorized(policy, placed.funds, placed.odds)
         /\ placed.stake = Decision(policy, placed.funds, placed.odds)
                             + Progression(policy, placed.index)

-----------------------------------------------------------------------------
(* Arithmetic.                                                             *)
LEMMA Multiply ==
    ASSUME NEW a \in Int, NEW b \in Int, NEW c \in Nat, a <= b
    PROVE  a * c <= b * c
OBVIOUS

LEMMA Cancel ==
    ASSUME NEW a \in Int, NEW b \in Int, NEW c \in Nat \ {0}, a * c <= b * c
    PROVE  a <= b
OBVIOUS

LEMMA Divide ==
    ASSUME NEW a \in Nat, NEW b \in Nat \ {0}
    PROVE  a \div b \in Nat /\ b * (a \div b) <= a /\ a < b * (a \div b) + b
OBVIOUS

LEMMA MultipleOf ==
    ASSUME NEW a \in Nat, NEW b \in Nat \ {0}
    PROVE  (b * a) % b = 0
OBVIOUS

LEMMA Remainder ==
    ASSUME NEW a \in Nat, NEW b \in Nat \ {0}, a < b, a % b = 0
    PROVE  a = 0
OBVIOUS

-----------------------------------------------------------------------------
(* What the solver asks for is a ratio, and so is what the balance leaves. *)
LEMMA ClampedType ==
    ASSUME NEW p \in PolicyRecords, NEW b \in Nat, NEW o \in Nat, Solvable(p, o)
    PROVE  /\ RawStake(p, o).num \in Nat /\ RawStake(p, o).den \in Nat \ {0}
           /\ Clamped(p, b, o).num \in Nat /\ Clamped(p, b, o).den \in Nat \ {0}
<1>1. RawStake(p, o).num \in Nat /\ RawStake(p, o).den \in Nat \ {0}
  BY DEF PolicyRecords, Solvable, RawStake, Ratio
<1> QED
  BY <1>1 DEF Clamped, Ratio

(* A stake is modest iff it does not exceed the clamped ratio.             *)
LEMMA ModestIs ==
    ASSUME NEW p \in PolicyRecords, NEW b \in Nat, NEW o \in Nat, NEW s \in Int,
           Solvable(p, o)
    PROVE  Modest(p, b, o, s) <=> s * Clamped(p, b, o).den <= Clamped(p, b, o).num
<1> DEFINE n == RawStake(p, o).num
           d == RawStake(p, o).den
<1>1. n \in Nat /\ d \in Nat \ {0}
  BY ClampedType
<1>2. Modest(p, b, o, s) <=> s <= b /\ s * d <= n
  BY DEF Modest, Profit, RawStake, Ratio, Solvable, PolicyRecords
<1>3. CASE n > b * d
  <2>1. Clamped(p, b, o).num = b /\ Clamped(p, b, o).den = 1
    BY <1>3 DEF Clamped, Exceeds, Ratio
  <2>2. s <= b => s * d <= b * d
    BY <1>1, Multiply
  <2>3. s * d \in Int /\ b * d \in Int
    BY <1>1
  <2> HIDE DEF n, d
  <2>4. s <= b => s * d <= n
    BY <1>1, <1>3, <2>2, <2>3
  <2> QED
    BY <1>2, <2>1, <2>4
<1>4. CASE ~(n > b * d)
  <2>1. Clamped(p, b, o).num = n /\ Clamped(p, b, o).den = d
    BY <1>4 DEF Clamped, Exceeds
  <2> HIDE DEF n, d
  <2>2. s * d \in Int /\ b * d \in Int
    BY <1>1
  <2>3. s * d <= n => s * d <= b * d
    BY <1>1, <1>4, <2>2
  <2>4. s * d <= n => s <= b
    BY <1>1, <2>3, Cancel
  <2> QED
    BY <1>2, <2>1, <2>4
<1> QED
  BY <1>3, <1>4

(* With twice the amount and the balance, the ratio is twice as large.     *)
LEMMA Doubled ==
    ASSUME NEW p \in PolicyRecords, NEW b \in Nat, NEW o \in Nat, Solvable(p, o),
           NEW q, q = [p EXCEPT !.amount = 2 * @]
    PROVE  /\ q \in PolicyRecords /\ Solvable(q, o)
           /\ Clamped(q, 2 * b, o).num = 2 * Clamped(p, b, o).num
           /\ Clamped(q, 2 * b, o).den = Clamped(p, b, o).den
<1>1. /\ q \in PolicyRecords /\ Solvable(q, o)
      /\ q.mode = p.mode /\ q.amount = 2 * p.amount
  BY DEF PolicyRecords, Solvable
<1>2. /\ RawStake(q, o).num = 2 * RawStake(p, o).num
      /\ RawStake(q, o).den = RawStake(p, o).den
  BY <1>1 DEF RawStake, Ratio, PolicyRecords
<1>3. RawStake(p, o).num \in Nat /\ RawStake(p, o).den \in Nat \ {0}
  BY ClampedType
<1>4. Exceeds(RawStake(q, o), 2 * b) <=> Exceeds(RawStake(p, o), b)
  BY <1>2, <1>3 DEF Exceeds
<1> QED
  BY <1>1, <1>2, <1>4 DEF Clamped, Ratio

(* Snapping: down to a multiple of the increment, or to the nearest.       *)
LEMMA SnapsTo ==
    ASSUME NEW p \in PolicyRecords, NEW x, x.num \in Nat, x.den \in Nat \ {0}
    PROVE  LET s == Snapped(p, x)
           IN  /\ s \in Nat /\ s % p.increment = 0
               /\ IF p.rounds
                    THEN /\ (2 * s - p.increment) * x.den <= 2 * x.num
                         /\ ~((2 * s + p.increment) * x.den <= 2 * x.num)
                    ELSE /\ s * x.den <= x.num
                         /\ ~((s + p.increment) * x.den <= x.num)
<1> DEFINE step == p.increment * x.den
           k == IF p.rounds THEN (2 * x.num + step) \div (2 * step) ELSE x.num \div step
<1>1. /\ p.increment \in Nat \ {0} /\ p.rounds \in BOOLEAN
      /\ step \in Nat \ {0}
  BY DEF PolicyRecords
<1>2. Snapped(p, x) = p.increment * k
  BY DEF Snapped
<1>3. CASE p.rounds
  <2>1. k = (2 * x.num + step) \div (2 * step)
    BY <1>3
  <2>2. 2 * x.num + step \in Nat /\ 2 * step \in Nat \ {0}
    BY <1>1
  <2> HIDE DEF k, step
  <2>3. /\ k \in Nat /\ (2 * step) * k <= 2 * x.num + step
        /\ 2 * x.num + step < (2 * step) * k + 2 * step
    BY <2>1, <2>2, Divide
  <2>4. (2 * (p.increment * k) - p.increment) * x.den = (2 * step) * k - step
    BY <1>1, <2>3 DEF step
  <2>5. (2 * (p.increment * k) + p.increment) * x.den = (2 * step) * k + step
    BY <1>1, <2>3 DEF step
  <2>6. (2 * step) * k \in Nat
    BY <1>1, <2>3
  <2>7. /\ (2 * (p.increment * k) - p.increment) * x.den <= 2 * x.num
        /\ ~((2 * (p.increment * k) + p.increment) * x.den <= 2 * x.num)
    BY <1>1, <2>3, <2>4, <2>5, <2>6
  <2>8. p.increment * k \in Nat /\ (p.increment * k) % p.increment = 0
    <3>1. p.increment \in Nat \ {0} /\ k \in Nat
      BY <1>1, <2>3
    <3> QED
      BY ONLY <3>1, MultipleOf
  <2> QED
    BY <1>2, <1>3, <2>7, <2>8
<1>4. CASE ~p.rounds
  <2>1. k = x.num \div step
    BY <1>4
  <2> HIDE DEF k, step
  <2>2. k \in Nat /\ step * k <= x.num /\ x.num < step * k + step
    BY <1>1, <2>1, Divide
  <2>3. /\ (p.increment * k) * x.den = step * k
        /\ (p.increment * k + p.increment) * x.den = step * k + step
    BY <1>1, <2>2 DEF step
  <2>4. step * k \in Nat
    BY <1>1, <2>2
  <2>5. /\ (p.increment * k) * x.den <= x.num
        /\ ~((p.increment * k + p.increment) * x.den <= x.num)
    BY <1>1, <2>2, <2>3, <2>4
  <2>6. p.increment * k \in Nat /\ (p.increment * k) % p.increment = 0
    BY <1>1, <2>2, MultipleOf
  <2> QED
    BY <1>2, <1>4, <2>5, <2>6
<1> QED
  BY <1>3, <1>4

-----------------------------------------------------------------------------
LEMMA DecisionType ==
    ASSUME NEW p \in PolicyRecords, NEW b \in Nat, NEW o \in Nat, Solvable(p, o)
    PROVE  Decision(p, b, o) \in Nat /\ Decision(p, b, o) % p.increment = 0
BY ClampedType, SnapsTo DEF Decision

LEMMA ProgressionType ==
    ASSUME NEW p \in PolicyRecords, NEW i \in Nat
    PROVE  Progression(p, i) \in Nat
BY DEF Progression, PolicyRecords

LEMMA Types ==
    TypeOK => /\ policy \in PolicyRecords /\ odds \in Nat
              /\ placed.funds \in Nat /\ placed.odds \in Nat /\ placed.confirmed \in Nat
              /\ placed.index \in 0..MaxRebets
BY PoliciesAssumption, NumbersAssumption DEF TypeOK

LEMMA DecidedInit == Init => DecidedInv
BY NumbersAssumption DEF Init, DecidedInv, TypeOK, NothingPlaced, IsPlaced

LEMMA DecidedNext == DecidedInv /\ [Next]_vars => DecidedInv'
<1> SUFFICES ASSUME DecidedInv, [Next]_vars
             PROVE  DecidedInv'
    OBVIOUS
<1>t. TypeOK /\ policy \in PolicyRecords /\ odds \in Nat
  BY Types DEF DecidedInv
<1> USE NumbersAssumption
<1>1. CASE Prepare
  <2>1. successCount \in Nat
    BY <1>t DEF TypeOK
  <2>2. /\ Decision(policy, balance, odds) \in Nat
        /\ Progression(policy, successCount) \in Nat
    BY <1>t, <1>1, <2>1, DecisionType, ProgressionType DEF Prepare, Authorized, TypeOK
  <2>3. TypeOK'
    BY <1>t, <1>1, <2>2 DEF Prepare, TypeOK
  <2>4. /\ at' = "armed" /\ successCount <= MaxRebets
        /\ stake' = Decision(policy, balance, odds) + Progression(policy, successCount)
        /\ Authorized(policy, balance, odds)
        /\ expected' = odds /\ funds' = balance
        /\ UNCHANGED <<policy, successCount, placed>>
    BY <1>1 DEF Prepare, DecidedInv
  <2> QED
    BY <2>3, <2>4 DEF DecidedInv, IsPlaced
<1>2. CASE MoveOdds
  BY <1>t, <1>2 DEF MoveOdds, DecidedInv, TypeOK, IsPlaced, cycle
<1>3. CASE Click
  <2>1. /\ at = "armed" /\ odds = expected /\ slip = stake
        /\ at' \in {"clicked", "submitted"}
        /\ placed' = [stake |-> stake, odds |-> expected, confirmed |-> expected,
                      funds |-> funds, index |-> successCount]
        /\ UNCHANGED <<policy, balance, odds, successCount, stake, expected, funds, slip>>
    BY <1>3 DEF Click, PlaceAt, cycle
  <2>2. successCount \in 0..MaxRebets
    BY <1>t, <2>1 DEF DecidedInv, TypeOK
  <2>3. TypeOK'
    BY <1>t, <2>1, <2>2 DEF TypeOK
  <2>4. /\ Authorized(policy, placed'.funds, placed'.odds)
        /\ placed'.stake = Decision(policy, placed'.funds, placed'.odds)
                             + Progression(policy, placed'.index)
    BY <2>1 DEF DecidedInv
  <2> QED
    BY <2>1, <2>2, <2>3, <2>4 DEF DecidedInv
<1>8. CASE ObserverConfirms
  <2>1. /\ at = "clicked" /\ at' = "submitted"
        /\ placed' = [placed EXCEPT !.confirmed = odds]
        /\ UNCHANGED <<policy, balance, odds, successCount, stake, expected, funds, slip>>
    BY <1>8 DEF ObserverConfirms, cycle
  <2>2. placed' \in [stake : Nat, odds : Nat, confirmed : Nat, funds : Nat,
                     index : 0..MaxRebets]
    BY <1>t, <2>1 DEF TypeOK
  <2>3. TypeOK'
    BY <1>t, <2>1, <2>2 DEF TypeOK
  <2>4. /\ placed'.stake = placed.stake /\ placed'.odds = placed.odds
        /\ placed'.funds = placed.funds /\ placed'.index = placed.index
    BY <1>t, <2>1 DEF TypeOK
  <2>5. successCount <= MaxRebets
    BY <2>1 DEF DecidedInv
  <2> QED
    BY <2>1, <2>3, <2>4, <2>5 DEF DecidedInv, IsPlaced
<1>9. CASE Interrupt
  BY <1>t, <1>9 DEF Interrupt, DecidedInv, TypeOK, IsPlaced, cycle
<1>4. CASE AtomicAbort
  BY <1>t, <1>4 DEF AtomicAbort, DecidedInv, TypeOK, IsPlaced, cycle
<1>5. CASE Accept
  BY <1>t, <1>5 DEF Accept, DecidedInv, TypeOK, IsPlaced, cycle
<1>6. CASE Refuse
  BY <1>t, <1>6 DEF Refuse, DecidedInv, TypeOK, IsPlaced, cycle
<1>7. CASE UNCHANGED vars
  BY <1>t, <1>7 DEF vars, DecidedInv, TypeOK, IsPlaced, cycle
<1> QED
  BY <1>1, <1>2, <1>3, <1>4, <1>5, <1>6, <1>7, <1>8, <1>9 DEF Next

LEMMA AlwaysDecided == Spec => []DecidedInv
BY DecidedInit, DecidedNext, PTL DEF Spec

(* What is placed is what the engine authorized, with the progression.     *)
LEMMA BaseIs ==
    ASSUME DecidedInv, IsPlaced
    PROVE  /\ policy \in PolicyRecords /\ placed.funds \in Nat /\ placed.odds \in Nat
           /\ Solvable(policy, placed.odds)
           /\ Base = Decision(policy, placed.funds, placed.odds)
           /\ Base \in Nat /\ Base % policy.increment = 0
           /\ Authorized(policy, placed.funds, placed.odds)
<1>1. /\ policy \in PolicyRecords /\ placed.funds \in Nat /\ placed.odds \in Nat
      /\ placed.index \in Nat
      /\ Authorized(policy, placed.funds, placed.odds)
  BY Types, NumbersAssumption DEF DecidedInv
<1>2. Solvable(policy, placed.odds)
  BY <1>1 DEF Authorized
<1>3. /\ Decision(policy, placed.funds, placed.odds) \in Nat
      /\ Decision(policy, placed.funds, placed.odds) % policy.increment = 0
      /\ Progression(policy, placed.index) \in Nat
  BY <1>1, <1>2, DecisionType, ProgressionType
<1>4. Base = Decision(policy, placed.funds, placed.odds)
  BY <1>3 DEF Base, DecidedInv
<1> QED
  BY <1>1, <1>2, <1>3, <1>4

LEMMA DecidedIsBest == DecidedInv => BaseIsBest
<1> SUFFICES ASSUME DecidedInv, IsPlaced
             PROVE  LET modest(s) == Modest(policy, placed.funds, placed.odds, s)
                        scaled    == [policy EXCEPT !.amount = 2 * @]
                        twice(s)  == Modest(scaled, 2 * placed.funds, placed.odds, s)
                    IN  /\ Base % policy.increment = 0
                        /\ IF policy.rounds
                             THEN /\ twice(2 * Base - policy.increment)
                                  /\ ~twice(2 * Base + policy.increment)
                             ELSE modest(Base) /\ ~modest(Base + policy.increment)
    BY DEF BaseIsBest
<1> DEFINE b == placed.funds
           o == placed.odds
           x == Clamped(policy, b, o)
           scaled == [policy EXCEPT !.amount = 2 * @]
<1>1. /\ policy \in PolicyRecords /\ b \in Nat /\ o \in Nat /\ Solvable(policy, o)
      /\ Base = Decision(policy, b, o) /\ Base \in Nat /\ Base % policy.increment = 0
  BY BaseIs
<1>2. x.num \in Nat /\ x.den \in Nat \ {0} /\ policy.increment \in Nat \ {0}
  BY <1>1, ClampedType DEF PolicyRecords
<1>3. IF policy.rounds
        THEN /\ (2 * Base - policy.increment) * x.den <= 2 * x.num
             /\ ~((2 * Base + policy.increment) * x.den <= 2 * x.num)
        ELSE Base * x.den <= x.num /\ ~((Base + policy.increment) * x.den <= x.num)
  <2>1. Base = Snapped(policy, x)
    BY <1>1 DEF Decision
  <2> HIDE DEF x
  <2> QED
    BY <1>1, <1>2, <2>1, SnapsTo
<1>4. \A s \in Int : Modest(policy, b, o, s) <=> s * x.den <= x.num
  BY <1>1, ModestIs
<1>5. /\ scaled \in PolicyRecords /\ Solvable(scaled, o)
      /\ Clamped(scaled, 2 * b, o).num = 2 * x.num
      /\ Clamped(scaled, 2 * b, o).den = x.den
  BY <1>1, Doubled
<1>6. 2 * b \in Nat
  BY <1>1
<1>7. \A s \in Int : Modest(scaled, 2 * b, o, s) <=> s * x.den <= 2 * x.num
  <2> HIDE DEF scaled, x, b, o
  <2> QED
    BY <1>1, <1>5, <1>6, ModestIs
<1>8. /\ Base \in Int /\ Base + policy.increment \in Int
      /\ 2 * Base - policy.increment \in Int /\ 2 * Base + policy.increment \in Int
  BY <1>1, <1>2
<1> HIDE DEF scaled, x, b, o
<1>9. /\ Base % policy.increment = 0
      /\ IF policy.rounds
           THEN /\ Modest(scaled, 2 * b, o, 2 * Base - policy.increment)
                /\ ~Modest(scaled, 2 * b, o, 2 * Base + policy.increment)
           ELSE Modest(policy, b, o, Base) /\ ~Modest(policy, b, o, Base + policy.increment)
  BY <1>1, <1>3, <1>4, <1>7, <1>8
<1> QED
  BY <1>9 DEF scaled, b, o

LEMMA DecidedIsBounded == DecidedInv => OvershootIsBounded
<1> SUFFICES ASSUME DecidedInv, IsPlaced
             PROVE  /\ placed.stake >= policy.minimumStake
                    /\ placed.stake <= policy.maxStake
                         + (IF MaxRebets >= 2 THEN MaxRebets - 1 ELSE 0) * policy.rebetIncrement
    BY DEF OvershootIsBounded
<1> DEFINE step == policy.rebetIncrement
           i == placed.index
           most == IF MaxRebets >= 2 THEN MaxRebets - 1 ELSE 0
<1>1. /\ policy.minimumStake <= Base /\ Base <= policy.maxStake /\ Base \in Nat
      /\ policy.minimumStake \in Nat /\ policy.maxStake \in Nat /\ step \in Nat
  BY BaseIs DEF Authorized, WithinLimits, PolicyRecords
<1>2. placed.stake = Base + Progression(policy, i) /\ i \in 0..MaxRebets
  BY BaseIs, Types DEF DecidedInv
<1>3. Progression(policy, i) \in Nat /\ Progression(policy, i) <= most * step
  <2>1. CASE i >= 2
    <3>1. Progression(policy, i) = (i - 1) * step
      BY <2>1 DEF Progression
    <3>2. i - 1 \in Nat /\ i - 1 <= most /\ most \in Nat
      BY <1>2, <2>1, NumbersAssumption
    <3> HIDE DEF most, step, i
    <3> QED
      BY <1>1, <3>1, <3>2, Multiply
  <2>2. CASE ~(i >= 2)
    BY <1>1, <2>2, NumbersAssumption DEF Progression
  <2> QED
    BY <2>1, <2>2
<1>4. most * step \in Nat
  BY <1>1, NumbersAssumption
<1> HIDE DEF most, step
<1>5. placed.stake >= policy.minimumStake /\ placed.stake <= policy.maxStake + most * step
  BY <1>1, <1>2, <1>3, <1>4
<1> QED
  BY <1>5 DEF most, step

LEMMA DecidedIsProfitable == DecidedInv => ProfitFloor
<1> SUFFICES ASSUME DecidedInv, IsPlaced,
                    Exceeds(RawStake(policy, placed.odds), placed.funds),
                    0 < placed.odds, placed.odds <= placed.confirmed
             PROVE  Profit(Base + policy.increment, placed.confirmed) >= 10 * policy.minimumProfit
    BY DEF ProfitFloor
<1> DEFINE b == placed.funds
           o == placed.odds
           c == placed.confirmed
           m == 10 * policy.minimumProfit
           x == Clamped(policy, b, o)
<1>1. /\ policy \in PolicyRecords /\ b \in Nat /\ o \in Nat /\ Solvable(policy, o)
      /\ Base = Decision(policy, b, o) /\ Base \in Nat /\ Authorized(policy, b, o)
  BY BaseIs
<1>2. /\ policy.increment \in Nat \ {0} /\ m \in Nat
      /\ Base > 0 /\ Profit(b, o) >= m
  BY <1>1 DEF PolicyRecords, Authorized, WithinLimits, Fundable
<1>3. x.num = b /\ x.den = 1
  BY DEF Clamped, Ratio
<1>4. /\ Base + policy.increment >= b
      /\ b = 0 => Base = 0
  <2>1. Base = Snapped(policy, x) /\ x.num \in Nat /\ x.den \in Nat \ {0}
    BY <1>1, <1>3 DEF Decision
  <2> HIDE DEF x, b, o
  <2>2. IF policy.rounds
          THEN /\ (2 * Base - policy.increment) * x.den <= 2 * x.num
               /\ ~((2 * Base + policy.increment) * x.den <= 2 * x.num)
          ELSE Base * x.den <= x.num /\ ~((Base + policy.increment) * x.den <= x.num)
    BY <1>1, <2>1, SnapsTo
  <2>3. Base + policy.increment >= b
    BY <1>1, <1>2, <1>3, <2>2
  <2>4. ASSUME b = 0
        PROVE  Base = 0
    <3>1. CASE ~policy.rounds
      BY <1>1, <1>3, <2>2, <2>4, <3>1
    <3>2. CASE policy.rounds
      <4>1. 2 * Base <= policy.increment
        BY <1>1, <1>2, <1>3, <2>2, <2>4, <3>2
      <4>2. Base < policy.increment /\ Base % policy.increment = 0
        BY <1>1, <1>2, <4>1, DecisionType
      <4> QED
        BY <1>1, <1>2, <4>2, Remainder
    <3> QED
      BY <3>1, <3>2
  <2> QED
    BY <2>3, <2>4
<1>5. b > 0
  BY <1>1, <1>2, <1>4
<1>6. c \in Nat /\ o <= c
  BY Types DEF DecidedInv
<1>7. o >= 10
  <2>1. Profit(b, o) = b * (o - 10)
    BY <1>1 DEF Profit
  <2>2. b * (o - 10) >= 0
    <3>1. Profit(b, o) \in Int
      BY <1>1, <2>1
    <3>2. Profit(b, o) >= 0
      <4> HIDE DEF m, b, o
      <4> QED
        BY <1>2, <3>1
    <3> QED
      BY <2>1, <3>2
  <2> HIDE DEF b, o
  <2>3. ASSUME o < 10
        PROVE  FALSE
    BY <1>1, <1>5, <2>2, <2>3
  <2> QED
    BY <1>1, <2>3
<1>8. Profit(Base + policy.increment, c) >= Profit(b, o)
  <2> DEFINE s == Base + policy.increment
  <2>1. s \in Nat /\ s >= b
    BY <1>1, <1>2, <1>4
  <2>2. Profit(b, o) = b * (o - 10) /\ Profit(s, c) = s * (c - 10)
    BY <1>6, <1>7, <1>1 DEF Profit
  <2> HIDE DEF s, b, o, c
  <2>3. b * (o - 10) <= s * (o - 10)
    BY <1>1, <1>7, <2>1, Multiply
  <2>4. (o - 10) * s <= (c - 10) * s
    BY <1>1, <1>6, <1>7, <2>1, Multiply
  <2>5. b * (o - 10) <= s * (c - 10)
    <3> DEFINE u == o - 10
               v == c - 10
    <3>1. u \in Nat /\ v \in Nat
      BY <1>1, <1>6, <1>7
    <3> HIDE DEF u, v
    <3>2. u * s = s * u /\ v * s = s * v /\ s * u \in Int /\ s * v \in Int /\ b * u \in Int
      BY <1>1, <2>1, <3>1
    <3>3. b * u <= s * u /\ u * s <= v * s
      BY <2>3, <2>4 DEF u, v
    <3>4. b * u <= s * v
      BY ONLY <3>2, <3>3
    <3> QED
      BY <3>4 DEF u, v
  <2> QED
    BY <2>2, <2>5 DEF s
<1>9. Profit(Base + policy.increment, c) \in Int /\ Profit(b, o) \in Int
  BY <1>1, <1>2, <1>6 DEF Profit
<1> QED
  BY <1>2, <1>8, <1>9

-----------------------------------------------------------------------------
(* The variables keep their types.                                         *)
THEOREM TypeCorrect == Spec => []TypeOK
<1>1. DecidedInv => TypeOK
  BY DEF DecidedInv
<1> QED
  BY <1>1, AlwaysDecided, PTL

(* The stake authorized is the best for the odds on the page at the click. *)
THEOREM Best == Spec => []BaseIsBest
BY AlwaysDecided, DecidedIsBest, PTL

(* Over a whole run the progression exceeds MaxStake by a bounded amount.  *)
THEOREM Bounded == Spec => []OvershootIsBounded
BY AlwaysDecided, DecidedIsBounded, PTL

(* A bet clamped to the balance earns the acceptable minimum at the odds   *)
(* confirmed, if those did not fall after the check.                       *)
THEOREM Floor == Spec => []ProfitFloor
BY AlwaysDecided, DecidedIsProfitable, PTL
=============================================================================
