----------------------------- MODULE StakePolicy -----------------------------
(***************************************************************************)
(* How much a run stakes: ConstraintEngine.evaluate over the policy, the   *)
(* balance and the odds that BetCycle read, the linear progression that    *)
(* BetCycle appends on rebets, the check of odds and stake that the        *)
(* ATOMIC_PLACE_BET script makes against the page before it clicks, and    *)
(* the observer it leaves in the page, which presses Confirm without       *)
(* checking.  The odds move at any time, and the slip may show another     *)
(* stake: typing is skipped on the Confirm screen.                         *)
(*                                                                         *)
(* Amounts are whole numbers of the smallest coin and odds are in tenths,  *)
(* 0 for odds that could not be read; stakes before rounding are ratios    *)
(* (the code's floating point is taken for exact).                         *)
(***************************************************************************)
EXTENDS Integers

CONSTANTS
    Policies,    \* the policies a run may be given
    Balances,    \* opening balances; an unreadable one counts as 0
    Odds,        \* the odds the page may show, in tenths
    MaxRebets    \* policy: Rebet.Strategy.MaxRebetAttempts

PolicyRecords ==
    [mode : {"FIXED", "PROFIT_TARGET"}, amount : Nat, minimumProfit : Nat,
     clamps : BOOLEAN, increment : Nat \ {0}, rounds : BOOLEAN,
     minimumStake : Nat, maxStake : Nat, rebetIncrement : Nat]

ASSUME PoliciesAssumption == Policies \subseteq PolicyRecords
ASSUME NumbersAssumption ==
    Balances \subseteq Nat /\ Odds \subseteq Nat /\ MaxRebets \in Nat

VARIABLES
    policy, balance, odds,   \* the snapshot, the account and the page
    at,                      \* where the cycle is
    successCount,            \* rebetSequenceIndex of the cycle under way
    stake, expected, funds,  \* stakeAmount, liveOdds and balance of the cycle
    slip,                    \* the stake the slip shows
    placed                   \* the last bet clicked: the odds on the page then,
                             \* those confirmed, and what it was based on

cycle == <<stake, expected, funds>>
vars  == <<policy, balance, odds, at, successCount, cycle, slip, placed>>

NothingPlaced == [stake |-> 0, odds |-> 0, confirmed |-> 0, funds |-> 0, index |-> 0]

TypeOK ==
    /\ policy \in Policies /\ balance \in Nat /\ odds \in Odds
    /\ at \in {"prepare", "armed", "clicked", "submitted", "done"}
    /\ successCount \in 0..(1 + MaxRebets)
    /\ stake \in Nat /\ expected \in Nat /\ funds \in Nat /\ slip \in Nat
    /\ placed \in [stake : Nat, odds : Nat, confirmed : Nat, funds : Nat,
                   index : 0..MaxRebets]

Init ==
    /\ policy \in Policies /\ balance \in Balances /\ odds \in Odds
    /\ at = "prepare" /\ successCount = 0
    /\ stake = 0 /\ expected = 0 /\ funds = 0 /\ slip = 0
    /\ placed = NothingPlaced

-----------------------------------------------------------------------------
(* ConstraintEngine.evaluate.                                              *)

(* Ten times the profit a stake of s earns at odds o (0 if unreadable).    *)
Profit(s, o) == IF o = 0 THEN 0 ELSE s * (o - 10)

Ratio(n, d) == [num |-> n, den |-> d]

(* 1. The solver.                                                          *)
Solvable(p, o) == p.mode = "FIXED" \/ o > 10

RawStake(p, o) ==
    IF p.mode = "FIXED" THEN Ratio(p.amount, 1) ELSE Ratio(10 * p.amount, o - 10)

(* 2. The conflict with the balance.                                       *)
Exceeds(x, b) == x.num > b * x.den

(* Mutant of Fundable: the clamped stake's profit is not looked at.        *)
FundableAtAnyProfit(p, b, o) == Exceeds(RawStake(p, o), b) => p.clamps

Fundable(p, b, o) ==
    Exceeds(RawStake(p, o), b) => p.clamps /\ Profit(b, o) >= 10 * p.minimumProfit

Clamped(p, b, o) == IF Exceeds(RawStake(p, o), b) THEN Ratio(b, 1) ELSE RawStake(p, o)

(* 3. The platform's increment: down, or to the nearest.                   *)
Snapped(p, x) ==
    LET step == p.increment * x.den
    IN  p.increment * (IF p.rounds THEN (2 * x.num + step) \div (2 * step)
                                   ELSE x.num \div step)

(* 4. The hard limits.                                                     *)
WithinLimits(p, s) == s > 0 /\ p.minimumStake <= s /\ s <= p.maxStake

Decision(p, b, o) == Snapped(p, Clamped(p, b, o))

Authorized(p, b, o) ==
    /\ Solvable(p, o) /\ Fundable(p, b, o)
    /\ WithinLimits(p, Decision(p, b, o))

(* Mutant of Progression: off by one, from the first rebet on.             *)
ProgressionEarly(p, index) == index * p.rebetIncrement

(* BetCycle: the increment counts from the second rebet on, and is added   *)
(* to what the engine authorized.                                          *)
Progression(p, index) == IF index >= 2 THEN (index - 1) * p.rebetIncrement ELSE 0

-----------------------------------------------------------------------------
(* Session, slip, odds, balance, policy, stake.  A cycle the engine        *)
(* rejects changes nothing here (BetRun counts the failures).              *)
Prepare ==
    /\ at = "prepare"
    /\ Authorized(policy, balance, odds)
    /\ at' = "armed"
    /\ stake' = Decision(policy, balance, odds) + Progression(policy, successCount)
    /\ expected' = odds /\ funds' = balance
    /\ slip' \in {stake', slip}
    /\ UNCHANGED <<policy, balance, odds, successCount, placed>>

MoveOdds ==
    /\ at # "done"
    /\ odds' \in Odds \ {odds}
    /\ UNCHANGED <<policy, balance, at, successCount, cycle, slip, placed>>

(* A banner about the odds: a FAILED cycle, and another.                   *)
Interrupt ==
    /\ at = "armed"
    /\ at' = "prepare"
    /\ UNCHANGED <<policy, balance, odds, successCount, cycle, slip, placed>>

(* The click that is checked is the confirmation itself, if the Confirm    *)
(* screen is up or the site asks for none; else it is Place Bet.           *)
PlaceAt(o) ==
    /\ at' \in {"clicked", "submitted"}
    /\ placed' = [stake |-> slip, odds |-> o, confirmed |-> o, funds |-> funds,
                  index |-> successCount]
    /\ UNCHANGED <<policy, balance, odds, successCount, cycle, slip>>

(* Mutant of Click: the page's odds are not compared.                      *)
ClickAnyOdds ==
    /\ at = "armed" /\ slip = stake
    /\ PlaceAt(odds)

(* ATOMIC_PLACE_BET: odds and stake of the page are those of the cycle.    *)
Click ==
    /\ at = "armed" /\ odds = expected /\ slip = stake
    /\ PlaceAt(odds)

(* After Place Bet the script's observer presses Confirm as soon as it is  *)
(* there, at whatever odds the page has come to by then.                   *)
ObserverConfirms ==
    /\ at = "clicked"
    /\ at' = "submitted"
    /\ placed' = [placed EXCEPT !.confirmed = odds]
    /\ UNCHANGED <<policy, balance, odds, successCount, cycle, slip>>

(* [ATOMIC-ABORT]: a FAILED cycle, and another.                            *)
AtomicAbort ==
    /\ at = "armed" /\ (odds # expected \/ slip # stake)
    /\ at' = "prepare"
    /\ UNCHANGED <<policy, balance, odds, successCount, cycle, slip, placed>>

(* Mutant of Accept: off by one.                                           *)
AcceptOneMore ==
    /\ at = "submitted" /\ stake <= balance
    /\ balance' = balance - stake
    /\ successCount' = successCount + 1
    /\ at' = IF successCount < 1 + MaxRebets THEN "prepare" ELSE "done"
    /\ UNCHANGED <<policy, odds, cycle, slip, placed>>

(* The bookmaker takes the bet, and AutomationRun rebets up to its target. *)
Accept ==
    /\ at = "submitted" /\ stake <= balance
    /\ balance' = balance - stake
    /\ successCount' = successCount + 1
    /\ at' = IF successCount < MaxRebets THEN "prepare" ELSE "done"
    /\ UNCHANGED <<policy, odds, cycle, slip, placed>>

(* It refuses it, or nobody confirms it: a FAILED cycle.                   *)
Refuse ==
    /\ at \in {"clicked", "submitted"}
    /\ at' = "prepare"
    /\ UNCHANGED <<policy, balance, odds, successCount, cycle, slip, placed>>

Next ==
    \/ Prepare \/ MoveOdds \/ Interrupt \/ Click \/ ObserverConfirms \/ AtomicAbort
    \/ Accept \/ Refuse

Spec == Init /\ [][Next]_vars

-----------------------------------------------------------------------------
IsPlaced == placed.stake > 0

(* What the engine authorized of the placed bet.                           *)
Base == placed.stake - Progression(policy, placed.index)

(* A stake that does not overshoot: neither the amount of the policy (the  *)
(* stake itself or, at odds o, the profit) nor the balance b.              *)
Modest(p, b, o, s) ==
    /\ s <= b
    /\ IF p.mode = "FIXED" THEN s <= p.amount ELSE Profit(s, o) <= 10 * p.amount

(* Moving odds, failed cycles and a stale slip notwithstanding, what was   *)
(* authorized of the placed stake (it all, but for the progression) is the *)
(* best multiple of the increment for the odds on the page at the click:   *)
(* the greatest modest one or, with ROUND_NUMBERS, one half an increment   *)
(* of which either way is on the other side of it.  The odds the observer  *)
(* confirms may be others.                                                 *)
BaseIsBest ==
    IsPlaced =>
        LET modest(s) == Modest(policy, placed.funds, placed.odds, s)
            scaled    == [policy EXCEPT !.amount = 2 * @]
            twice(s)  == Modest(scaled, 2 * placed.funds, placed.odds, s)
        IN  /\ Base % policy.increment = 0
            /\ IF policy.rounds
                 THEN /\ twice(2 * Base - policy.increment)
                      /\ ~twice(2 * Base + policy.increment)
                 ELSE modest(Base) /\ ~modest(Base + policy.increment)

(* The hard limits hold for what was authorized, so that the progression,  *)
(* which is appended after they are checked, is all that can exceed        *)
(* MaxStake (it does: MaxStakeIsHard), and over a whole run by             *)
(* (MaxRebets - 1) increments at most.                                     *)
OvershootIsBounded ==
    IsPlaced =>
        /\ placed.stake >= policy.minimumStake
        /\ placed.stake <= policy.maxStake
             + (IF MaxRebets >= 2 THEN MaxRebets - 1 ELSE 0) * policy.rebetIncrement

(* What the engine calls its hard limits holds for the stake it authorizes *)
(* and not, since the progression comes after it, for the stake placed.    *)
MaxStakeIsHard == IsPlaced => placed.stake <= policy.maxStake

(* A bet the balance forced below its target earns the acceptable minimum  *)
(* at the odds it is confirmed at, less what the last increment would have *)
(* earned, unless the odds fell between the check and the Confirm, which   *)
(* nobody compares.                                                        *)
ProfitFloor ==
    /\ IsPlaced /\ Exceeds(RawStake(policy, placed.odds), placed.funds)
    /\ 0 < placed.odds /\ placed.odds <= placed.confirmed
    =>
    Profit(Base + policy.increment, placed.confirmed) >= 10 * policy.minimumProfit
=============================================================================
