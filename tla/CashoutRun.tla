------------------------------ MODULE CashoutRun ------------------------------
(***************************************************************************)
(* One CashoutTransaction on one browser: its cycles (CashoutCycle), the   *)
(* ATOMIC_CASHOUT script of ActionSimulator, which clicks Cashout, waits   *)
(* for the confirmation and clicks Confirm (the irreversible boundary),    *)
(* the wait for the outcome, and what becomes of the errors on their way   *)
(* from the page through the simulator to the transaction's retries.       *)
(*                                                                         *)
(* The environment is the bookmaker, which decides a confirmed cashout,    *)
(* and its page: the confirmation, toasts, the list of open bets.          *)
(***************************************************************************)
EXTENDS Naturals, FiniteSets

CONSTANTS
    Bets,         \* the account's open bets
    NoBet,        \* betId null: a slave, or no bet named
    ListsAll,     \* does the page list every open bet, in its detailed form?
    MaxRefusals,  \* bound: commands simulator.execute refuses
    MaxStrays     \* bound: toasts that are not this transaction's

ASSUME BetsAssumption == NoBet \notin Bets
ASSUME SiteAssumption ==
    ListsAll \in BOOLEAN /\ MaxRefusals \in Nat /\ MaxStrays \in Nat

MaxPreBoundaryRetries == 2

VARIABLES
    at,        \* where the transaction is
    state,     \* CashoutTransaction.state
    attempt,
    error,     \* what CashoutCycle catches: a kind and its boundaryCrossed
    betId,     \* the bet to cash out
    listed,    \* the bets the open-bets page shows while they are open
    simple,    \* does it show them in its simple list?
    modal,     \* the bet whose confirmation is on the screen
    shown,     \* the toast or popup on the screen: "none", "success", "error"
    openBets,  \* the bets the bookmaker holds open
    pending,   \* confirmed cashouts the bookmaker has not decided
    sold,      \* bets it has cashed out
    faults,    \* faults between a Confirm click and its outcome
    refusals,
    strays     \* toasts so far that are not this transaction's

given   == <<betId, listed, simple>>
program == <<at, state, attempt, error, given>>
site    == <<modal, shown, openBets, pending, sold>>
counts  == <<faults, refusals, strays>>
vars    == <<program, site, counts>>

Kinds == {"none", "ABORT", "DISABLED", "UNKNOWN", "FAILED", "OTHER"}
Errors == [kind : Kinds, boundaryCrossed : BOOLEAN]
Error(kind, crossed) == [kind |-> kind, boundaryCrossed |-> crossed]
NoError == Error("none", FALSE)

TypeOK ==
    /\ at \in {"cycle", "dispatched", "awaiting", "caught", "aborted", "done"}
    /\ state \in {"ACTIVE", "COMPLETED", "ABORTED", "FAILED", "UNCERTAIN"}
    /\ attempt \in 0..MaxPreBoundaryRetries
    /\ error \in Errors
    /\ betId \in Bets \cup {NoBet} /\ modal \in Bets \cup {NoBet}
    /\ listed \subseteq Bets /\ simple \in BOOLEAN
    /\ shown \in {"none", "success", "error"}
    /\ openBets \subseteq Bets /\ pending \subseteq Bets /\ sold \subseteq Bets
    /\ faults \in 0..MaxPreBoundaryRetries
    /\ refusals \in 0..MaxRefusals /\ strays \in 0..MaxStrays

(* The master names the bet the operator clicked, a slave none.  The page  *)
(* may show some of the bets only, in either of its lists; a confirmation  *)
(* may be open already, the master's or one that was left open, whatever   *)
(* bet it is for.                                                          *)
Init ==
    /\ at = "cycle" /\ state = "ACTIVE" /\ attempt = 0 /\ error = NoError
    /\ betId \in Bets \cup {NoBet}
    /\ listed \in SUBSET Bets /\ simple \in BOOLEAN
    /\ ListsAll => listed = Bets /\ ~simple
    /\ modal \in Bets \cup {NoBet}
    /\ shown = "none" /\ openBets = Bets /\ pending = {} /\ sold = {}
    /\ faults = 0 /\ refusals = 0 /\ strays = 0

Stop(status) == at' = "done" /\ state' = status

-----------------------------------------------------------------------------
(* Mutant of BeginCycle: the attempts are not counted.                     *)
BeginCycleUncounted ==
    /\ at = "cycle"
    /\ at' = "dispatched" /\ attempt' = 1 /\ error' = NoError
    /\ UNCHANGED <<state, given, site, counts>>

(* CashoutTransaction.start begins a cycle, which sets the active cycle.   *)
BeginCycle ==
    /\ at = "cycle"
    /\ at' = "dispatched" /\ attempt' = attempt + 1 /\ error' = NoError
    /\ UNCHANGED <<state, given, site, counts>>

(* ActionSimulator.execute wraps what it throws.  Only UncertainStateError *)
(* passes as it is; of everything else the message is kept, and the        *)
(* boundaryCrossed mark of the original error is not.                      *)
Wrapped(e) == IF e.kind = "UNKNOWN" THEN e ELSE Error(e.kind, FALSE)

Throw(kind, crossed) ==
    /\ at' = "caught" /\ error' = Wrapped(Error(kind, crossed))
    /\ UNCHANGED <<state, attempt, given>>

(* The simulator returns false; the cycle takes any return for a success.  *)
Refused ==
    /\ at = "dispatched" /\ refusals < MaxRefusals
    /\ refusals' = refusals + 1
    /\ Stop("COMPLETED")
    /\ UNCHANGED <<attempt, error, given, site, faults, strays>>

OnPage == openBets \cap listed

(* The bet the script takes: the one whose confirmation is open; else the  *)
(* named one, if the page lists it; else whichever listed bet the prefix   *)
(* of the name, the recorded selector or the first cashout button finds.   *)
Resolved ==
    IF modal # NoBet THEN {modal}
    ELSE IF betId \in OnPage THEN {betId} ELSE OnPage

(* The script throws before the boundary: no bet or no button, a disabled  *)
(* button, a confirmation that does not come, or comes after the wait.     *)
AbortBeforeConfirm ==
    /\ at = "dispatched"
    /\ \/ \E kind \in {"ABORT", "DISABLED", "OTHER"} : Throw(kind, FALSE) /\ UNCHANGED modal
       \/ Throw("ABORT", FALSE) /\ modal = NoBet /\ modal' \in Resolved
    /\ UNCHANGED <<shown, openBets, pending, sold, counts>>

(* The Confirm click, the irreversible boundary.                           *)
Confirm(b) ==
    /\ at = "dispatched"
    /\ b \in Resolved
    /\ at' = "awaiting"
    /\ modal' = NoBet
    /\ pending' = IF b \in openBets THEN pending \cup {b} ELSE pending
    /\ UNCHANGED <<state, attempt, error, given, shown, openBets, sold, counts>>

(* Mutant of SeeSuccess: the closing of the confirmation is a success.     *)
SeeModalClose ==
    /\ at = "awaiting"
    /\ modal = NoBet
    /\ Stop("COMPLETED")
    /\ UNCHANGED <<attempt, error, given, site, counts>>

(* A success on the screen, or the named bet not on the list: it is looked *)
(* for in the detailed list only, and never found in the simple one, nor   *)
(* when the page did not list it in the first place.                       *)
SeeSuccess ==
    /\ at = "awaiting"
    /\ \/ shown = "success"
       \/ betId # NoBet /\ (betId \notin OnPage \/ simple)
    /\ Stop("COMPLETED")
    /\ UNCHANGED <<attempt, error, given, site, counts>>

(* An error toast, or twelve seconds without a sign.                       *)
SeeFailure ==
    /\ at = "awaiting"
    /\ \/ shown = "error" /\ Throw("FAILED", TRUE)
       \/ shown = "none" /\ Throw("UNKNOWN", TRUE)
    /\ UNCHANGED <<site, counts>>

(* The page navigates or closes under the script, or the call times out:   *)
(* the script's own boundaryCrossed is lost with it.                       *)
FaultAfterConfirm ==
    /\ at = "awaiting"
    /\ faults' = faults + 1
    /\ Throw("OTHER", TRUE)
    /\ UNCHANGED <<site, refusals, strays>>

(* Mutant of CycleStatus: an unknown outcome counts as an abort.           *)
CycleStatusHopeful(e) ==
    CASE e.kind = "FAILED" /\ e.boundaryCrossed -> "FAILED"
      [] e.kind = "OTHER" /\ e.boundaryCrossed  -> "UNCERTAIN"
      [] OTHER                                  -> "ABORTED"

(* CashoutCycle's catch block.  After the wrapping no error but UNKNOWN    *)
(* has its mark, so that everything else is taken for an abort.            *)
CycleStatus(e) ==
    CASE e.kind = "UNKNOWN"                                  -> "UNCERTAIN"
      [] e.kind \in {"ABORT", "DISABLED"}                    -> "ABORTED"
      [] e.kind \in {"FAILED", "OTHER"} /\ ~e.boundaryCrossed -> "ABORTED"
      [] e.kind = "FAILED" /\ e.boundaryCrossed              -> "FAILED"
      [] e.kind = "OTHER" /\ e.boundaryCrossed               -> "UNCERTAIN"

Catch ==
    /\ at = "caught"
    /\ IF CycleStatus(error) = "ABORTED" THEN at' = "aborted" /\ UNCHANGED state
                                         ELSE Stop(CycleStatus(error))
    /\ UNCHANGED <<attempt, error, given, site, counts>>

(* Mutant of RetryOrStop: off by one.                                      *)
RetryOneMore ==
    /\ at = "aborted"
    /\ IF attempt <= MaxPreBoundaryRetries /\ error.kind # "DISABLED"
         THEN at' = "cycle" /\ UNCHANGED state
         ELSE Stop("ABORTED")
    /\ UNCHANGED <<attempt, error, given, site, counts>>

(* ABORTED is taken for a fault before the boundary: one more attempt.     *)
RetryOrStop ==
    /\ at = "aborted"
    /\ IF attempt < MaxPreBoundaryRetries /\ error.kind # "DISABLED"
         THEN at' = "cycle" /\ UNCHANGED state
         ELSE Stop("ABORTED")
    /\ UNCHANGED <<attempt, error, given, site, counts>>

-----------------------------------------------------------------------------
(* The bookmaker decides; its page may say so, and takes the sold bet off  *)
(* the list of open bets.                                                  *)
Decide(b) ==
    /\ b \in pending
    /\ pending' = pending \ {b}
    /\ \/ /\ sold' = sold \cup {b} /\ openBets' = openBets \ {b}
          /\ shown' \in {shown, "success"}
       \/ /\ shown' \in {shown, "error"}
          /\ UNCHANGED <<sold, openBets>>
    /\ UNCHANGED <<program, modal, counts>>

(* A toast fades.                                                          *)
Fade ==
    /\ shown # "none" /\ shown' = "none"
    /\ UNCHANGED <<program, modal, openBets, pending, sold, counts>>

(* A toast that is not this transaction's: one the script finds because    *)
(* nothing clears the toasts of the transaction before it, or another's    *)
(* that comes up meanwhile.                                                *)
Stray ==
    /\ strays < MaxStrays
    /\ strays' = strays + 1
    /\ shown' \in {"success", "error"}
    /\ UNCHANGED <<program, modal, openBets, pending, sold, faults, refusals>>

Program ==
    \/ BeginCycle \/ Refused \/ AbortBeforeConfirm \/ (\E b \in Bets : Confirm(b))
    \/ SeeSuccess \/ SeeFailure \/ FaultAfterConfirm \/ Catch \/ RetryOrStop

Next == Program \/ (\E b \in Bets : Decide(b)) \/ Fade \/ Stray

(* The script's waits are loops with a deadline.                           *)
Spec == Init /\ [][Next]_vars /\ WF_vars(Program)

-----------------------------------------------------------------------------
(* One intent sells one bet: late confirmations, retried aborts, rejected  *)
(* cashouts and the choice of another bet never add up to a second sale;   *)
(* only a fault between a Confirm and its outcome can, or a toast that is  *)
(* not the transaction's own, one for each.                                *)
SalesAreSingle == Cardinality(sold \cup pending) <= 1 + faults + strays

(* COMPLETED is a sale, unless the simulator refused the command, and      *)
(* leaves nothing undecided but what a fault left; as long as every toast  *)
(* is the transaction's own and the named bet, if there is one, is where   *)
(* the script looks for it, in the detailed list.                          *)
CompletedIsSold ==
    /\ state = "COMPLETED" /\ strays = 0
    /\ betId # NoBet => betId \in listed /\ ~simple
    =>
    /\ sold # {} \/ refusals > 0
    /\ Cardinality(pending) <= faults

(* A transaction ends whatever its attempts run into.                      *)
TransactionEnds == <>(at = "done")

(* The promise of Transaction, from the header of CashoutTransaction:      *)
(* "Controls retries before the boundary and halts on UNCERTAIN."          *)
Promise == INSTANCE Transaction WITH
    phase <- CASE state = "ACTIVE" -> "working"
               [] state = "UNCERTAIN" -> "frozen"
               [] OTHER -> "closed",
    open <- Cardinality(pending)

KeepsPromise == Promise!Spec
=============================================================================
