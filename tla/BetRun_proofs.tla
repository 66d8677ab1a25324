----------------------------- MODULE BetRun_proofs -----------------------------
(***************************************************************************)
(* Theorems of BetRun, for any policy and any number of refused clicks:    *)
(*   TypeCorrect    the types of the variables;                            *)
(*   Revoked        a revocation lets one click through at most;           *)
(* and, if a click that was taken shows on the page before the observation *)
(* of its outcome ends (~SlowSubmission):                                  *)
(*   Books          the count of bets at the end is right;                 *)
(*   Targeted       no run places more bets than it was asked for;         *)
(*   Implements     a run keeps the promise of Transaction.                *)
(*                                                                         *)
(* The inductive invariant says, for each place of the run, what is known  *)
(* of the last click; while its outcome is observed there are five cases.  *)
(***************************************************************************)
EXTENDS BetRun, TLAPS

TypeInv ==
    /\ TypeOK
    /\ at # "done" => failures <= MaxFailures /\ successCount < Target

RevokedInv ==
    /\ TypeOK
    /\ RevocationHolds
    /\ at \in {"prepare", "armed"} /\ ~authorized => revokedClicks = 0

(* Nothing is undecided, and what is counted is right.                     *)
Counts == accepted <= successCount /\ successCount <= accepted + refusals

Settled == pending = 0 /\ Counts

(* ... and one bet is still to be counted.                                 *)
Won ==
    /\ pending = 0
    /\ accepted <= successCount + 1 /\ successCount + 1 <= accepted + refusals

(* What is known of the last click while its outcome is observed.          *)
NoClick ==
    /\ click = "none" /\ pending = 0
    /\ accepted <= successCount /\ successCount + 1 <= accepted + refusals

Swallowed == click = "swallowed" /\ Settled /\ tracker \in {"clean", "absent"}

Undecided ==
    /\ click = "taken" /\ pending = 1 /\ Counts
    /\ tracker \in {"clean", "processing", "absent"}

Accepted ==
    /\ click = "taken" /\ verdict = "accepted" /\ Won
    /\ tracker \in {"finished", "success", "processing", "absent"}

Rejected ==
    /\ click = "taken" /\ verdict = "rejected" /\ Settled
    /\ tracker \in {"finished", "fail", "processing", "absent"}

Observed == NoClick \/ Swallowed \/ Undecided \/ Accepted \/ Rejected

BooksInv ==
    /\ TypeInv
    /\ at # "done" <=> state = "ACTIVE"
    /\ at \in {"gate", "prepare", "armed", "failed"} => Settled
    /\ at = "success" => Won
    /\ at = "observe" => Observed
    /\ state \in {"COMPLETED", "ABORTED"} => Settled
    /\ state = "UNCERTAIN" => accepted + pending <= Target
    /\ pending <= 1

-----------------------------------------------------------------------------
LEMMA TypeInit == Init => TypeInv
BY PolicyAssumption, SiteAssumption
   DEF Init, TypeInv, TypeOK, Places, Target

LEMMA TypeNext == TypeInv /\ [Next]_vars => TypeInv'
<1> SUFFICES ASSUME TypeInv, [Next]_vars
             PROVE  TypeInv'
    OBVIOUS
<1> USE PolicyAssumption, SiteAssumption
    DEF TypeInv, TypeOK, Places, Target, program, site, counts, Goto, Stop
<1>1. CASE Gate
  BY <1>1 DEF Gate
<1>2. CASE PrepareFails
  BY <1>2 DEF PrepareFails
<1>3. CASE Arm
  BY <1>3 DEF Arm
<1>4. CASE Refused
  BY <1>4 DEF Refused
<1>5. CASE AtomicAbort
  BY <1>5 DEF AtomicAbort
<1>6. CASE ThrowBeforeClick
  BY <1>6 DEF ThrowBeforeClick
<1>7. CASE Click
  BY <1>7 DEF Click, ClickFate
<1>8. CASE SeeOutcome
  BY <1>8 DEF SeeOutcome
<1>9. CASE GiveUp
  BY <1>9 DEF GiveUp
<1>10. CASE AfterFailure
  BY <1>10 DEF AfterFailure
<1>11. CASE AfterSuccess
  BY <1>11 DEF AfterSuccess
<1>12. ASSUME NEW enabled \in BOOLEAN, Authorize(enabled)
       PROVE  TypeInv'
  BY <1>12 DEF Authorize
<1>13. CASE ShowProcessing
  BY <1>13 DEF ShowProcessing
<1>14. ASSUME NEW v \in {"accepted", "rejected"}, Decide(v)
       PROVE  TypeInv'
  BY <1>14 DEF Decide
<1>15. CASE LosePage
  BY <1>15 DEF LosePage
<1>16. CASE UNCHANGED vars
  BY <1>16 DEF vars
<1> QED
  BY <1>1, <1>2, <1>3, <1>4, <1>5, <1>6, <1>7, <1>8, <1>9, <1>10, <1>11,
     <1>12, <1>13, <1>14, <1>15, <1>16 DEF Next, Program

LEMMA RevokedInit == Init => RevokedInv
BY TypeInit DEF TypeInv, Init, RevokedInv, RevocationHolds

LEMMA RevokedNext == RevokedInv /\ TypeOK' /\ [Next]_vars => RevokedInv'
<1> SUFFICES ASSUME RevokedInv, TypeOK', [Next]_vars
             PROVE  RevokedInv'
    OBVIOUS
<1> USE DEF RevokedInv, RevocationHolds, program, site, counts, Goto, Stop
<1>1. CASE Gate
  BY <1>1 DEF Gate
<1>2. CASE Click
  BY <1>2 DEF Click, TypeOK
<1>3. ASSUME NEW enabled \in BOOLEAN, Authorize(enabled)
      PROVE  RevokedInv'
  BY <1>3 DEF Authorize, TypeOK
<1>4. CASE \/ PrepareFails \/ Arm \/ Refused \/ AtomicAbort \/ ThrowBeforeClick
           \/ SeeOutcome \/ GiveUp
  BY <1>4 DEF PrepareFails, Arm, Refused, AtomicAbort, ThrowBeforeClick,
              SeeOutcome, GiveUp
<1>5. CASE AfterFailure \/ AfterSuccess
  BY <1>5 DEF AfterFailure, AfterSuccess
<1>6. CASE ShowProcessing \/ LosePage
  BY <1>6 DEF ShowProcessing, LosePage
<1>7. ASSUME NEW v \in {"accepted", "rejected"}, Decide(v)
      PROVE  RevokedInv'
  BY <1>7 DEF Decide
<1>8. CASE UNCHANGED vars
  BY <1>8 DEF vars
<1> QED
  BY <1>1, <1>2, <1>3, <1>4, <1>5, <1>6, <1>7, <1>8 DEF Next, Program

-----------------------------------------------------------------------------
LEMMA BooksInit == Init => BooksInv
BY TypeInit DEF Init, BooksInv, Settled, Counts, TypeInv, TypeOK

LEMMA BooksNext ==
    ASSUME ~SlowSubmission
    PROVE  BooksInv /\ [Next]_vars => BooksInv'
<1> SUFFICES ASSUME BooksInv, [Next]_vars
             PROVE  BooksInv'
    OBVIOUS
<1>0. TypeInv /\ TypeInv'
  BY TypeNext DEF BooksInv
<1> USE <1>0, PolicyAssumption, SiteAssumption
    DEF BooksInv, Settled, Counts, program, site, counts, Goto, Stop, Target
<1>1. CASE Gate
  BY <1>1 DEF Gate
<1>2. CASE PrepareFails \/ Arm \/ AtomicAbort
  BY <1>2 DEF PrepareFails, Arm, AtomicAbort
<1>3. CASE ThrowBeforeClick
  BY <1>3 DEF ThrowBeforeClick, TypeInv, TypeOK
<1>4. CASE Refused
  <2>1. NoClick'
    BY <1>4 DEF Refused, NoClick, TypeInv, TypeOK
  <2>2. at' = "observe" /\ state' = "ACTIVE"
    BY <1>4 DEF Refused
  <2>3. Observed'
    BY <2>1 DEF Observed
  <2>4. pending' <= 1
    BY <2>1 DEF NoClick
  <2> QED
    BY <2>2, <2>3, <2>4
<1>5. CASE Click
  <2>1. \/ click' = "swallowed" /\ pending' = 0
        \/ click' = "taken" /\ pending' = 1
    BY <1>5 DEF Click, ClickFate, TypeInv, TypeOK
  <2>2. CASE Goto("observe") /\ tracker' = "clean"
    <3>1. Swallowed' \/ Undecided'
      BY <1>5, <2>1, <2>2 DEF Click, Swallowed, Undecided
    <3>2. Observed'
      BY <3>1 DEF Observed
    <3>3. at' = "observe" /\ state' = "ACTIVE" /\ pending' <= 1
      BY <1>5, <2>1, <2>2 DEF Click
    <3> QED
      BY <3>2, <3>3
  <2>3. CASE Stop("UNCERTAIN")
    <3>1. at' = "done" /\ state' = "UNCERTAIN" /\ pending' <= 1
      BY <2>1, <2>3
    <3>2. at = "armed" /\ accepted' = accepted
      BY <1>5 DEF Click
    <3>3. accepted <= successCount /\ successCount < Target
      BY <3>2 DEF TypeInv
    <3>4. accepted + pending' <= Target
      <4>1. accepted \in Nat /\ successCount \in Nat /\ Target \in Nat
        BY DEF TypeInv, TypeOK
      <4> QED
        BY ONLY <4>1, <3>3, <2>1
    <3> QED
      BY <3>1, <3>2, <3>4
  <2> QED
    BY <1>5, <2>2, <2>3 DEF Click
<1>6. CASE SeeOutcome
  <2>1. Observed /\ at = "observe"
    BY <1>6 DEF SeeOutcome
  <2>2. CASE Goto("success")
    <3>1. NoClick \/ Accepted
      BY <1>6, <2>1, <2>2 DEF SeeOutcome, Observed, Swallowed, Undecided, Rejected
    <3>2. Won
      BY <3>1 DEF NoClick, Accepted, Won, TypeInv, TypeOK
    <3> QED
      BY <3>2, <1>6, <2>2 DEF SeeOutcome, Won
  <2>3. CASE Goto("failed")
    <3>1. NoClick \/ Rejected
      BY <1>6, <2>1, <2>3 DEF SeeOutcome, Observed, Swallowed, Undecided, Accepted
    <3>2. Settled
      BY <3>1 DEF NoClick, Rejected, TypeInv, TypeOK
    <3> QED
      BY <3>2, <1>6, <2>3 DEF SeeOutcome
  <2>4. CASE Stop("UNCERTAIN")
    <3>1. accepted + pending <= Target
      BY <2>1 DEF Observed, NoClick, Swallowed, Undecided, Accepted, Rejected,
                  Won, TypeInv, TypeOK
    <3> QED
      BY <3>1, <1>6, <2>4 DEF SeeOutcome
  <2> QED
    BY <1>6, <2>2, <2>3, <2>4 DEF SeeOutcome
<1>7. CASE GiveUp
  <2>1. Observed /\ at = "observe"
    BY <1>7 DEF GiveUp
  <2>2. CASE Goto("failed")
    <3>1. NoClick \/ Swallowed
      BY <1>7, <2>1, <2>2 DEF GiveUp, Observed, Undecided, Accepted, Rejected
    <3>2. Settled
      BY <3>1 DEF NoClick, Swallowed, TypeInv, TypeOK
    <3> QED
      BY <3>2, <1>7, <2>2 DEF GiveUp
  <2>3. CASE Stop("UNCERTAIN")
    <3>1. accepted + pending <= Target
      BY <2>1 DEF Observed, NoClick, Swallowed, Undecided, Accepted, Rejected,
                  Won, TypeInv, TypeOK
    <3> QED
      BY <3>1, <1>7, <2>3 DEF GiveUp
  <2> QED
    BY <1>7, <2>2, <2>3 DEF GiveUp
<1>8. CASE AfterFailure
  BY <1>8 DEF AfterFailure
<1>9. CASE AfterSuccess
  <2>1. Settled'
    BY <1>9 DEF AfterSuccess, Won, TypeInv, TypeOK
  <2> QED
    BY <2>1, <1>9 DEF AfterSuccess
<1>10. ASSUME NEW enabled \in BOOLEAN, Authorize(enabled)
       PROVE  BooksInv'
  BY <1>10 DEF Authorize, Won, Observed, NoClick, Swallowed, Undecided, Accepted,
               Rejected
<1>11. CASE ShowProcessing
  BY <1>11 DEF ShowProcessing, Won, Observed, NoClick, Swallowed, Undecided,
               Accepted, Rejected
<1>12. ASSUME NEW v \in {"accepted", "rejected"}, Decide(v)
       PROVE  BooksInv'
  <2>1. /\ pending > 0 /\ pending' = pending - 1
        /\ accepted' = IF v = "accepted" THEN accepted + 1 ELSE accepted
        /\ verdict' = v /\ click' = click
        /\ at' = at /\ state' = state /\ successCount' = successCount
        /\ refusals' = refusals
    BY <1>12 DEF Decide
  <2>2. at = "observe" \/ state = "UNCERTAIN"
    BY <2>1 DEF Won, TypeInv, TypeOK, Places
  <2>3. CASE at = "observe"
    <3>1. Undecided
      BY <2>1, <2>3 DEF Observed, NoClick, Swallowed, Accepted, Rejected, Won
    <3>2. /\ tracker = "clean" =>
               tracker' \in {"finished", IF v = "accepted" THEN "success" ELSE "fail"}
          /\ tracker' \in {tracker, "finished",
                           IF v = "accepted" THEN "success" ELSE "fail"}
      BY <1>12 DEF Decide
    <3>3. CASE v = "accepted"
      <4>1. tracker' \in {"finished", "success", "processing", "absent"}
        BY <3>1, <3>2, <3>3 DEF Undecided
      <4>2. Won'
        BY <2>1, <3>1, <3>3 DEF Undecided, Won, TypeInv, TypeOK
      <4> QED
        BY <4>1, <4>2, <2>1, <2>3, <3>1, <3>3 DEF Accepted, Observed, Undecided
    <3>4. CASE v = "rejected"
      <4>1. tracker' \in {"finished", "fail", "processing", "absent"}
        BY <3>1, <3>2, <3>4 DEF Undecided
      <4>2. Settled'
        BY <2>1, <3>1, <3>4 DEF Undecided, TypeInv, TypeOK
      <4> QED
        BY <4>1, <4>2, <2>1, <2>3, <3>1, <3>4 DEF Rejected, Observed, Undecided
    <3> QED
      BY <3>3, <3>4
  <2>4. CASE state = "UNCERTAIN"
    <3>1. accepted' + pending' <= Target /\ pending' <= 1
      BY <2>1, <2>4 DEF TypeInv, TypeOK
    <3>2. at' = "done" /\ state' = "UNCERTAIN"
      BY <2>1, <2>4 DEF TypeInv, TypeOK
    <3> QED
      BY <3>1, <3>2
  <2> QED
    BY <2>2, <2>3, <2>4
<1>13. CASE LosePage
  <2>1. Observed /\ at = "observe" /\ tracker' = "absent"
        /\ UNCHANGED <<program, site, refusals>>
    BY <1>13 DEF LosePage
  <2>2. Observed'
    BY <2>1 DEF Observed, NoClick, Swallowed, Undecided, Accepted, Rejected, Won
  <2> QED
    BY <2>1, <2>2
<1>14. CASE UNCHANGED vars
  BY <1>14 DEF vars, Won, Observed, NoClick, Swallowed, Undecided, Accepted,
               Rejected
<1> QED
  BY <1>1, <1>2, <1>3, <1>4, <1>5, <1>6, <1>7, <1>8, <1>9, <1>10, <1>11,
     <1>12, <1>13, <1>14 DEF Next, Program

-----------------------------------------------------------------------------
(* Transaction's view of a run.                                            *)
Phase ==
    CASE state = "ACTIVE" -> "working"
      [] state = "UNCERTAIN" -> "frozen"
      [] OTHER -> "closed"

LEMMA ImplementsInit == Init => Promise!Init
BY DEF Init, Promise!Init

(* A click submits, a decision decides, an end closes or freezes; all else *)
(* stutters.                                                               *)
LEMMA ImplementsNext ==
    ASSUME ~SlowSubmission
    PROVE  BooksInv /\ BooksInv' /\ [Next]_vars => [Promise!Next]_(Promise!vars)
<1> SUFFICES ASSUME BooksInv, BooksInv', [Next]_vars
             PROVE  [Promise!Next]_<<Phase, pending>>
    BY DEF Promise!vars, Phase
<1>a. /\ state = "ACTIVE" => Phase = "working"
      /\ state = "UNCERTAIN" => Phase = "frozen"
      /\ state \in {"COMPLETED", "ABORTED"} => Phase = "closed"
  BY DEF Phase
<1>b. /\ state' = "ACTIVE" => Phase' = "working"
      /\ state' = "UNCERTAIN" => Phase' = "frozen"
      /\ state' \in {"COMPLETED", "ABORTED"} => Phase' = "closed"
  BY DEF Phase
<1>1. ASSUME state' = state, pending' = pending
      PROVE  [Promise!Next]_<<Phase, pending>>
  BY <1>1 DEF Phase
<1>2. ASSUME Phase = "working", Phase' = "closed", pending = 0, pending' = 0
      PROVE  [Promise!Next]_<<Phase, pending>>
  BY <1>2 DEF Promise!Next, Promise!Close, Phase
<1>3. ASSUME Phase = "working", Phase' = "frozen", pending' = pending
      PROVE  [Promise!Next]_<<Phase, pending>>
  BY <1>3 DEF Promise!Next, Promise!Freeze, Phase
<1> USE DEF program, site, counts, Goto, Stop
<1>4. CASE Gate
  <2>1. pending = 0 /\ pending' = pending
    BY <1>4 DEF Gate, BooksInv, Settled
  <2>2. state' = state \/ (state = "ACTIVE" /\ state' = "ABORTED")
    BY <1>4 DEF Gate, BooksInv
  <2> QED
    BY <2>1, <2>2, <1>a, <1>b, <1>1, <1>2
<1>5. CASE PrepareFails \/ Arm \/ AtomicAbort \/ Refused
  BY <1>1, <1>5 DEF PrepareFails, Arm, AtomicAbort, Refused
<1>6. CASE ThrowBeforeClick
  BY <1>3, <1>6, <1>a, <1>b DEF ThrowBeforeClick, BooksInv
<1>7. CASE Click
  <2>1. pending = 0 /\ state = "ACTIVE"
    BY <1>7 DEF Click, BooksInv, Settled
  <2>2. \/ pending' = 0 /\ pending' = pending
        \/ pending' = 1
    BY <1>7, <2>1 DEF Click, ClickFate
  <2>3. state' = state \/ state' = "UNCERTAIN"
    BY <1>7 DEF Click
  <2>4. CASE pending' = pending
    BY <2>1, <2>3, <2>4, <1>a, <1>b, <1>1, <1>3
  <2>5. CASE pending' = 1 /\ state' = state
    BY <2>1, <2>5, <1>a, <1>b DEF Promise!Next, Promise!Submit, Phase
  <2>6. CASE pending' = 1 /\ state' = "UNCERTAIN"
    BY <2>1, <2>6, <1>a, <1>b DEF Promise!Next, Promise!SubmitAndFreeze, Phase
  <2> QED
    BY <2>2, <2>3, <2>4, <2>5, <2>6
<1>8. CASE SeeOutcome
  BY <1>1, <1>3, <1>8, <1>a, <1>b DEF SeeOutcome, BooksInv
<1>9. CASE GiveUp
  BY <1>1, <1>3, <1>9, <1>a, <1>b DEF GiveUp, BooksInv
<1>10. CASE AfterFailure
  <2>1. pending = 0 /\ pending' = pending
    BY <1>10 DEF AfterFailure, BooksInv, Settled
  <2>2. state' = state \/ (state = "ACTIVE" /\ state' = "ABORTED")
    BY <1>10 DEF AfterFailure, BooksInv
  <2> QED
    BY <2>1, <2>2, <1>a, <1>b, <1>1, <1>2
<1>11. CASE AfterSuccess
  <2>1. pending = 0 /\ pending' = pending
    BY <1>11 DEF AfterSuccess, BooksInv, Won
  <2>2. \/ state' = state
        \/ state = "ACTIVE" /\ state' \in {"COMPLETED", "ABORTED"}
    BY <1>11 DEF AfterSuccess, BooksInv
  <2> QED
    BY <2>1, <2>2, <1>a, <1>b, <1>1, <1>2
<1>12. ASSUME NEW enabled \in BOOLEAN, Authorize(enabled)
       PROVE  [Promise!Next]_<<Phase, pending>>
  BY <1>1, <1>12 DEF Authorize
<1>13. CASE ShowProcessing \/ LosePage
  BY <1>1, <1>13 DEF ShowProcessing, LosePage
<1>14. ASSUME NEW v \in {"accepted", "rejected"}, Decide(v)
       PROVE  [Promise!Next]_<<Phase, pending>>
  <2>1. pending = 1 /\ pending' = 0
    BY <1>14 DEF Decide, BooksInv, TypeInv, TypeOK
  <2>2. Phase' = Phase
    BY <1>14 DEF Decide, Phase
  <2> QED
    BY <2>1, <2>2 DEF Promise!Next, Promise!Decide, Phase
<1>15. CASE UNCHANGED vars
  BY <1>1, <1>15 DEF vars
<1> QED
  BY <1>4, <1>5, <1>6, <1>7, <1>8, <1>9, <1>10, <1>11, <1>12, <1>13, <1>14,
     <1>15 DEF Next, Program

-----------------------------------------------------------------------------
(* The variables keep their types: no count passes its limit.              *)
THEOREM TypeCorrect == Spec => []TypeOK
<1>1. TypeInv => TypeOK
  BY DEF TypeInv
<1> QED
  BY <1>1, TypeInit, TypeNext, PTL DEF Spec

(* An authorization that is revoked lets at most the cycle through that    *)
(* had passed the gate.                                                    *)
THEOREM Revoked == Spec => []RevocationHolds
<1>1. RevokedInv => RevocationHolds
  BY DEF RevokedInv
<1> QED
  BY <1>1, TypeCorrect, RevokedInit, RevokedNext, PTL DEF Spec

LEMMA AlwaysBooksInv ==
    ASSUME ~SlowSubmission
    PROVE  Spec => []BooksInv
<1>1. BooksInv /\ [Next]_vars => BooksInv'
  BY BooksNext
<1> QED
  BY <1>1, BooksInit, PTL DEF Spec

(* A run that ends with a known status has counted the accepted bets.      *)
THEOREM Books ==
    ASSUME ~SlowSubmission
    PROVE  Spec => []BooksAgree
<1>1. BooksInv => BooksAgree
  BY DEF BooksInv, Settled, Counts, BooksAgree
<1>2. Spec => []BooksInv
  BY AlwaysBooksInv
<1> QED
  BY <1>1, <1>2, PTL

(* No run places more bets than its policy asks for.                       *)
THEOREM Targeted ==
    ASSUME ~SlowSubmission
    PROVE  Spec => []NeverMoreThanTarget
<1>1. ASSUME BooksInv
      PROVE  NeverMoreThanTarget
  <2> USE <1>1 DEF BooksInv, TypeInv, TypeOK, Target
  <2> USE PolicyAssumption
  <2>1. CASE at \in {"gate", "prepare", "armed", "failed"}
    BY <2>1 DEF Settled, Counts, NeverMoreThanTarget
  <2>2. CASE at = "success"
    BY <2>2 DEF Won, NeverMoreThanTarget
  <2>3. CASE at = "observe"
    <3>1. accepted <= successCount + (1 - pending) /\ pending \in {0, 1}
      BY <2>3 DEF Observed, NoClick, Swallowed, Undecided, Accepted, Rejected,
                  Settled, Counts, Won
    <3>2. successCount < Target
      BY <2>3
    <3>3. accepted \in Nat /\ successCount \in Nat /\ Target \in Nat
      OBVIOUS
    <3> QED
      BY ONLY <3>1, <3>2, <3>3 DEF NeverMoreThanTarget
  <2>4. CASE at = "done"
    <3>1. state \in {"COMPLETED", "ABORTED", "UNCERTAIN"}
      BY <2>4
    <3>2. CASE state = "UNCERTAIN"
      BY <3>2 DEF NeverMoreThanTarget
    <3>3. CASE state \in {"COMPLETED", "ABORTED"}
      BY <3>3 DEF Settled, Counts, NeverMoreThanTarget
    <3> QED
      BY <3>1, <3>2, <3>3
  <2> QED
    BY <2>1, <2>2, <2>3, <2>4 DEF Places
<1>2. Spec => []BooksInv
  BY AlwaysBooksInv
<1> QED
  BY <1>1, <1>2, PTL

(* Every run keeps the promise of Transaction.                             *)
THEOREM Implements ==
    ASSUME ~SlowSubmission
    PROVE  Spec => KeepsPromise
<1>1. Spec => []BooksInv
  BY AlwaysBooksInv
<1>2. BooksInv /\ BooksInv' /\ [Next]_vars => [Promise!Next]_(Promise!vars)
  BY ImplementsNext
<1> QED
  BY <1>1, <1>2, ImplementsInit, PTL DEF Spec, KeepsPromise, Promise!Spec
=============================================================================
