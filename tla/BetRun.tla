-------------------------------- MODULE BetRun --------------------------------
(***************************************************************************)
(* One AutomationRun on one browser: its cycles (BetCycle.execute), the    *)
(* atomic click of ActionSimulator, the observation of the outcome         *)
(* (ResultResolver.observeResult through window.__cmsTracker), the retries *)
(* after FAILED cycles and the rebets after SUCCESS.                       *)
(*                                                                         *)
(* The bookmaker and its page are the environment: a click is swallowed by *)
(* the page or taken; what was taken is decided at some time; the keys of  *)
(* the page that say so may be logged, or missed by the tracker, which     *)
(* disconnects before observeResult gives up.                              *)
(***************************************************************************)
EXTENDS Naturals

CONSTANTS
    MaxRebets,       \* policy: Rebet.Strategy.MaxRebetAttempts
    MaxFailures,     \* policy: Execution.Retries.MaxExecutionRetries
    MaxRefusals,     \* bound: clicks simulator.execute refuses (guard, deadline)
    SlowSubmission   \* may a taken click stay invisible until the timeout?

ASSUME PolicyAssumption == MaxRebets \in Nat /\ MaxFailures \in Nat
ASSUME SiteAssumption   == MaxRefusals \in Nat /\ SlowSubmission \in BOOLEAN

VARIABLES
    at,            \* where the run is
    state,         \* AutomationRun.state
    successCount,
    failures,      \* consecutiveFailures
    authorized,    \* BettingAuthorizationRegistry.isAuthorized of the browser
    tracker,       \* window.__cmsTracker: "absent", or the last it logged
    click,         \* what became of the last click: "none", "swallowed", "taken"
    pending,       \* submissions the bookmaker has not decided
    verdict,       \* its last decision
    accepted,      \* bets it has accepted in this run
    refusals,      \* clicks refused so far
    revokedClicks  \* clicks since the last revocation of the authorization

program == <<at, state, successCount, failures>>
site    == <<click, pending, verdict, accepted>>
counts  == <<refusals, revokedClicks>>
vars    == <<program, authorized, tracker, site, counts>>

Target == 1 + MaxRebets   \* targetTotalBets

Places == {"gate", "prepare", "armed", "observe", "success", "failed", "done"}

TypeOK ==
    /\ at \in Places
    /\ state \in {"ACTIVE", "COMPLETED", "ABORTED", "UNCERTAIN"}
    /\ successCount \in 0..Target
    /\ failures \in 0..(MaxFailures + 1)
    /\ authorized \in BOOLEAN
    /\ tracker \in {"absent", "clean", "processing", "finished", "success", "fail"}
    /\ click \in {"none", "swallowed", "taken"}
    /\ pending \in Nat /\ accepted \in Nat
    /\ refusals \in 0..MaxRefusals /\ revokedClicks \in Nat
    /\ verdict \in {"none", "accepted", "rejected"}

(* The page may still carry the tracker of an earlier run.                 *)
Init ==
    /\ at = "gate" /\ state = "ACTIVE" /\ successCount = 0 /\ failures = 0
    /\ authorized = TRUE
    /\ tracker \in {"absent", "processing", "success", "fail"}
    /\ click = "none" /\ pending = 0 /\ verdict = "none" /\ accepted = 0
    /\ refusals = 0 /\ revokedClicks = 0

Goto(place) == at' = place /\ UNCHANGED <<state, successCount, failures>>

Stop(status) ==
    at' = "done" /\ state' = status /\ UNCHANGED <<successCount, failures>>

-----------------------------------------------------------------------------
(* BetCycle.execute.                                                       *)

(* Mutant of Gate: the run was authorized, its cycles do not ask again.    *)
GateOnce ==
    /\ at = "gate"
    /\ Goto("prepare")
    /\ UNCHANGED <<authorized, tracker, site, counts>>

(* Gate 2: the authorization is asked again at the start of each cycle; an *)
(* ABORTED cycle aborts the run.                                           *)
Gate ==
    /\ at = "gate"
    /\ IF authorized THEN Goto("prepare") ELSE Stop("ABORTED")
    /\ UNCHANGED <<authorized, tracker, site, counts>>

(* Session, slip, odds, balance, policy, stake, interrupts: each of them   *)
(* can fail the cycle, by its result or by a throw caught before           *)
(* PROCESSING.                                                             *)
PrepareFails ==
    /\ at = "prepare"
    /\ Goto("failed")
    /\ UNCHANGED <<authorized, tracker, site, counts>>

(* setActiveCycle, and state PROCESSING.                                   *)
Arm ==
    /\ at = "prepare"
    /\ Goto("armed")
    /\ UNCHANGED <<authorized, tracker, site, counts>>

(* simulator.execute returns false, and the cycle does not look at what it *)
(* returned: it waits for the result of a click that never was.            *)
Refused ==
    /\ at = "armed" /\ refusals < MaxRefusals
    /\ Goto("observe")
    /\ click' = "none"
    /\ refusals' = refusals + 1
    /\ UNCHANGED <<authorized, tracker, pending, verdict, accepted, revokedClicks>>

(* [ATOMIC-ABORT]: wrong odds or stake, before the tracker is reset, or no *)
(* button to click, after it.                                              *)
AtomicAbort ==
    /\ at = "armed"
    /\ Goto("failed")
    /\ tracker' \in {tracker, "clean"}
    /\ UNCHANGED <<authorized, site, counts>>

(* Any other throw: the resolution fails, or the retries of a detached     *)
(* page end, without a click.                                              *)
ThrowBeforeClick ==
    /\ at = "armed"
    /\ Stop("UNCERTAIN")
    /\ UNCHANGED <<authorized, tracker, site, counts>>

ClickFate ==
    \/ click' = "swallowed" /\ pending' = pending
    \/ click' = "taken" /\ pending' = pending + 1

(* Mutant of Click: a lost answer is taken for a click that was not.       *)
ClickFailsOnFault ==
    /\ at = "armed"
    /\ ClickFate
    /\ \/ Goto("observe") /\ tracker' = "clean"
       \/ Goto("failed") /\ tracker' \in {"clean", "absent"}
    /\ revokedClicks' = IF authorized THEN 0 ELSE revokedClicks + 1
    /\ UNCHANGED <<authorized, verdict, accepted, refusals>>

(* The tracker is reset and the button clicked in one turn of the page;    *)
(* the answer to the simulator may still be lost (a timeout, LF-306).      *)
Click ==
    /\ at = "armed"
    /\ ClickFate
    /\ \/ Goto("observe") /\ tracker' = "clean"
       \/ Stop("UNCERTAIN") /\ tracker' \in {"clean", "absent"}
    /\ revokedClicks' = IF authorized THEN 0 ELSE revokedClicks + 1
    /\ UNCHANGED <<authorized, verdict, accepted, refusals>>

(* Mutant of SeeOutcome: an end without evidence is taken for a failure.   *)
SeeOutcomeFails ==
    /\ at = "observe"
    /\ \/ tracker = "success" /\ Goto("success")
       \/ tracker = "fail" /\ Goto("failed")
       \/ tracker = "finished" /\ verdict = "accepted" /\ Goto("success")
       \/ tracker = "finished" /\ Goto("failed")
    /\ UNCHANGED <<authorized, tracker, site, counts>>

(* observeResult finds a definitive key, or the end of 'submitting' and,   *)
(* by the style sheet, a success, a failure or neither.                    *)
SeeOutcome ==
    /\ at = "observe"
    /\ \/ tracker = "success" /\ Goto("success")
       \/ tracker = "fail" /\ Goto("failed")
       \/ tracker = "finished" /\ verdict = "accepted" /\ Goto("success")
       \/ tracker = "finished" /\ verdict = "rejected" /\ Goto("failed")
       \/ tracker = "finished" /\ Stop("UNCERTAIN")
    /\ UNCHANGED <<authorized, tracker, site, counts>>

(* Mutant of GiveUp: a submission still in progress is taken for failed.   *)
GiveUpFails ==
    /\ at = "observe"
    /\ \/ tracker = "absent" /\ Stop("UNCERTAIN")
       \/ tracker = "processing" /\ Goto("failed")
       \/ /\ tracker = "clean"
          /\ click # "taken" \/ SlowSubmission
          /\ Goto("failed")
    /\ UNCHANGED <<authorized, tracker, site, counts>>

(* The wait ends without one.  With a tracker that saw no processing the   *)
(* click is taken for swallowed; a taken click is assumed to show within   *)
(* the thirty seconds unless SlowSubmission.                               *)
GiveUp ==
    /\ at = "observe"
    /\ \/ tracker \in {"absent", "processing"} /\ Stop("UNCERTAIN")
       \/ /\ tracker = "clean"
          /\ click # "taken" \/ SlowSubmission
          /\ Goto("failed")
    /\ UNCHANGED <<authorized, tracker, site, counts>>

-----------------------------------------------------------------------------
(* AutomationRun.start, after a cycle.                                     *)

(* Mutant of AfterFailure: the circuit breaker forgets the failures.       *)
AfterFailureForgets ==
    /\ at = "failed"
    /\ failures' = 1
    /\ IF failures <= MaxFailures THEN at' = "gate" /\ state' = state
                                  ELSE at' = "done" /\ state' = "ABORTED"
    /\ UNCHANGED <<successCount, authorized, tracker, site, counts>>

(* FAILED: another cycle until the circuit breaker opens.                  *)
AfterFailure ==
    /\ at = "failed"
    /\ failures' = failures + 1
    /\ IF failures < MaxFailures THEN at' = "gate" /\ state' = state
                                 ELSE at' = "done" /\ state' = "ABORTED"
    /\ UNCHANGED <<successCount, authorized, tracker, site, counts>>

(* Mutant of AfterSuccess: off by one.                                     *)
AfterSuccessOneMore ==
    /\ at = "success"
    /\ successCount' = successCount + 1
    /\ failures' = 0
    /\ IF successCount < Target
         THEN \/ at' = "gate" /\ state' = state
              \/ at' = "done" /\ state' = "COMPLETED"
         ELSE at' = "done" /\ state' \in {"COMPLETED", "ABORTED"}
    /\ UNCHANGED <<authorized, tracker, site, counts>>

(* SUCCESS: rebet until the target is reached.  If Rebet cannot be clicked *)
(* the run is COMPLETED; if the final OK cannot, the throw makes it        *)
(* ABORTED although its bets were placed.                                  *)
AfterSuccess ==
    /\ at = "success"
    /\ successCount' = successCount + 1
    /\ failures' = 0
    /\ IF successCount + 1 < Target
         THEN \/ at' = "gate" /\ state' = state
              \/ at' = "done" /\ state' = "COMPLETED"
         ELSE at' = "done" /\ state' \in {"COMPLETED", "ABORTED"}
    /\ UNCHANGED <<authorized, tracker, site, counts>>

-----------------------------------------------------------------------------
(* The environment.                                                        *)

(* SET_BETTING_AUTHORIZATION.                                              *)
Authorize(enabled) ==
    /\ at # "done"
    /\ authorized' = enabled
    /\ revokedClicks' = IF authorized /\ ~enabled THEN 0 ELSE revokedClicks
    /\ UNCHANGED <<program, tracker, site, refusals>>

(* The page shows that it submits.                                         *)
ShowProcessing ==
    /\ pending > 0 /\ tracker = "clean"
    /\ tracker' = "processing"
    /\ UNCHANGED <<program, authorized, site, counts>>

(* The bookmaker decides; the tracker logs a key of the result, only the   *)
(* end of 'submitting', or (disconnected) nothing.                         *)
Decide(v) ==
    /\ pending > 0
    /\ pending' = pending - 1
    /\ verdict' = v
    /\ accepted' = IF v = "accepted" THEN accepted + 1 ELSE accepted
    /\ \/ /\ tracker \in {"clean", "processing"}
          /\ tracker' \in {"finished", IF v = "accepted" THEN "success" ELSE "fail"}
       \/ tracker # "clean" /\ UNCHANGED tracker
    /\ UNCHANGED <<program, authorized, click, counts>>

(* The page is reloaded or lost while the run waits for the outcome.       *)
LosePage ==
    /\ at = "observe" /\ tracker # "absent"
    /\ tracker' = "absent"
    /\ UNCHANGED <<program, authorized, site, counts>>

Program ==
    \/ Gate \/ PrepareFails \/ Arm \/ Refused \/ AtomicAbort \/ ThrowBeforeClick
    \/ Click \/ SeeOutcome \/ GiveUp \/ AfterFailure \/ AfterSuccess

Next ==
    \/ Program
    \/ \E enabled \in BOOLEAN : Authorize(enabled)
    \/ ShowProcessing
    \/ \E v \in {"accepted", "rejected"} : Decide(v)
    \/ LosePage

(* Every await of the run has a timeout; the page shows that it submits    *)
(* what it has taken.                                                      *)
Fairness == WF_vars(Program) /\ WF_vars(ShowProcessing)

Spec == Init /\ [][Next]_vars /\ Fairness

-----------------------------------------------------------------------------
(* The run keeps the promise of Transaction: no click while an earlier     *)
(* submission is undecided, and COMPLETED or ABORTED, on which             *)
(* WorkflowEngine releases the lease, only when nothing is undecided.      *)
Promise == INSTANCE Transaction WITH
    phase <- CASE state = "ACTIVE" -> "working"
               [] state = "UNCERTAIN" -> "frozen"
               [] OTHER -> "closed",
    open <- pending

KeepsPromise == Promise!Spec

(* The books agree: a run that ends with a known status has counted every  *)
(* bet the bookmaker accepted, however its cycles failed, were retried and *)
(* were observed; and what it has counted too many are refused clicks.     *)
BooksAgree ==
    state \in {"COMPLETED", "ABORTED"} =>
        /\ accepted <= successCount
        /\ successCount <= accepted + refusals

(* No run places more bets than its policy asks for, retries included,     *)
(* not even one whose last outcome stayed unknown.                         *)
NeverMoreThanTarget == accepted + pending <= Target

(* An authorization revoked in the middle of a run lets at most the cycle  *)
(* through that had already passed the gate.                               *)
RevocationHolds == revokedClicks <= 1

(* Every run ends, whatever mix of failures and successes its cycles have. *)
RunEnds == <>(at = "done")

(* A SUCCESS is a bet: "definitive Primary Evidence of the bet result".    *)
NoPhantomSuccess == successCount <= accepted
=============================================================================
