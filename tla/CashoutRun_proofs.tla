--------------------------- MODULE CashoutRun_proofs ---------------------------
(***************************************************************************)
(* Theorems of CashoutRun, for any set of open bets:                       *)
(*   TypeCorrect    the types of the variables, and with them the bound on *)
(*                  the attempts and the faults;                           *)
(*   Single         one intent sells one bet, and one more for each fault  *)
(*                  or stray toast;                                        *)
(*   Sold           a COMPLETED run has sold, where the named bet is in    *)
(*                  the detailed list and no toast is a stranger's.        *)
(*                                                                         *)
(* The inductive invariant bounds, at each place of the transaction, the   *)
(* number of bets it may have sold so far.  What makes it inductive is the *)
(* first attempt: it is retried without a fault only when the page showed  *)
(* an error, and then either nothing was sold or the toast was a stray.    *)
(***************************************************************************)
EXTENDS CashoutRun, FiniteSetTheorems, TLAPS

TypeInv ==
    /\ TypeOK
    /\ at = "cycle" => attempt < MaxPreBoundaryRetries /\ faults <= attempt
    /\ at \in {"dispatched", "awaiting"} => attempt >= 1 /\ faults < attempt
    /\ at \in {"caught", "aborted"} => attempt >= 1 /\ faults <= attempt
    /\ at = "caught" => error.kind # "none"
    /\ state = "COMPLETED" => at = "done"

(* What was confirmed and not refused: sold, or still undecided.           *)
Submitted == sold \cup pending

Few(n) == Cardinality(Submitted) <= n

(* Will the transaction try again?                                         *)
Retried == attempt < MaxPreBoundaryRetries /\ CycleStatus(error) = "ABORTED"

SalesInv ==
    /\ IsFiniteSet(Submitted)
    /\ sold \cap (pending \cup openBets) = {}
    /\ Few(1 + faults + strays)
    /\ at \in {"cycle", "dispatched"} => Few(faults + strays)
    /\ at = "cycle" /\ attempt = 0 => Submitted = {}
    /\ at = "dispatched" /\ attempt = 1 => Submitted = {}
    /\ at = "cycle" /\ attempt = 0 /\ strays = 0 => shown = "none"
    /\ at = "dispatched" /\ attempt = 1 /\ strays = 0 => shown = "none"
    /\ at = "awaiting" /\ attempt = 1 => Few(1)
    /\ at = "awaiting" /\ attempt = 1 /\ strays = 0 /\ shown = "error" => Submitted = {}
    /\ at = "caught" /\ Retried => Few(faults + strays)
    /\ at = "aborted" /\ attempt < MaxPreBoundaryRetries => Few(faults + strays)

SoldInv ==
    /\ Bets \ openBets \subseteq sold
    /\ strays = 0 /\ shown = "success" => sold # {}
    /\ CompletedIsSold

-----------------------------------------------------------------------------
LEMMA TypeInit == Init => TypeInv
<1>1. NoError \in Errors
  BY DEF NoError, Error, Errors, Kinds
<1> QED
  BY <1>1, SiteAssumption DEF Init, TypeInv, TypeOK, MaxPreBoundaryRetries

LEMMA TypeNext == TypeInv /\ [Next]_vars => TypeInv'
<1> SUFFICES ASSUME TypeInv, [Next]_vars
             PROVE  TypeInv'
    OBVIOUS
<1> USE SiteAssumption
    DEF TypeInv, TypeOK, MaxPreBoundaryRetries, program, given, site, counts, Stop
<1>1. CASE BeginCycle
  <2>1. NoError \in Errors
    BY DEF NoError, Error, Errors, Kinds
  <2> QED
    BY <1>1, <2>1 DEF BeginCycle
<1>2. CASE Refused
  BY <1>2 DEF Refused
<1>a. ASSUME NEW kind \in Kinds \ {"none"}, NEW crossed \in BOOLEAN, Throw(kind, crossed)
      PROVE  /\ error' \in Errors /\ error'.kind # "none"
             /\ at' = "caught" /\ UNCHANGED <<state, attempt, given>>
  BY <1>a DEF Throw, Wrapped, Error, Errors, Kinds
<1>3. CASE AbortBeforeConfirm
  <2>1. Resolved \subseteq Bets \cup {NoBet}
    BY DEF Resolved, OnPage
  <2>2. PICK kind \in {"ABORT", "DISABLED", "OTHER"} : Throw(kind, FALSE)
    BY <1>3 DEF AbortBeforeConfirm
  <2>3. /\ error' \in Errors /\ error'.kind # "none"
       /\ at' = "caught" /\ UNCHANGED <<state, attempt, given>>
    BY <1>a, <2>2 DEF Kinds
  <2>4. modal' \in Bets \cup {NoBet}
    BY <1>3, <2>1 DEF AbortBeforeConfirm
  <2> QED
    BY <1>3, <2>3, <2>4 DEF AbortBeforeConfirm
<1>4. ASSUME NEW b \in Bets, Confirm(b)
      PROVE  TypeInv'
  BY <1>4 DEF Confirm
<1>5. CASE SeeSuccess
  BY <1>5 DEF SeeSuccess
<1>6. CASE SeeFailure
  <2>1. PICK kind \in {"FAILED", "UNKNOWN"} : Throw(kind, TRUE)
    BY <1>6 DEF SeeFailure
  <2>2. /\ error' \in Errors /\ error'.kind # "none"
       /\ at' = "caught" /\ UNCHANGED <<state, attempt, given>>
    BY <1>a, <2>1 DEF Kinds
  <2> QED
    BY <1>6, <2>2 DEF SeeFailure
<1>7. CASE FaultAfterConfirm
  <2>1. Throw("OTHER", TRUE)
    BY <1>7 DEF FaultAfterConfirm
  <2>2. /\ error' \in Errors /\ error'.kind # "none"
       /\ at' = "caught" /\ UNCHANGED <<state, attempt, given>>
    BY <1>a, <2>1 DEF Kinds
  <2> QED
    BY <1>7, <2>2 DEF FaultAfterConfirm
<1>8. CASE Catch
  <2>1. /\ error.kind \in Kinds \ {"none"}
        /\ error.boundaryCrossed \in BOOLEAN
    BY <1>8 DEF Catch, Errors
  <2>2. CycleStatus(error) # "ABORTED" =>
          CycleStatus(error) \in {"FAILED", "UNCERTAIN"}
    BY <2>1 DEF CycleStatus, Kinds
  <2> QED
    BY <1>8, <2>2 DEF Catch
<1>9. CASE RetryOrStop
  BY <1>9 DEF RetryOrStop
<1>10. ASSUME NEW b \in Bets, Decide(b)
       PROVE  TypeInv'
  BY <1>10 DEF Decide
<1>11. CASE Fade
  BY <1>11 DEF Fade
<1>12. CASE Stray
  BY <1>12 DEF Stray
<1>13. CASE UNCHANGED vars
  BY <1>13 DEF vars
<1> QED
  BY <1>1, <1>2, <1>3, <1>4, <1>5, <1>6, <1>7, <1>8, <1>9, <1>10, <1>11,
     <1>12, <1>13 DEF Next, Program

-----------------------------------------------------------------------------
(* Three facts about small sets.                                           *)
LEMMA Shrink ==
    ASSUME NEW S, NEW T, NEW n \in Nat,
           IsFiniteSet(S), T \subseteq S, Cardinality(S) <= n
    PROVE  IsFiniteSet(T) /\ Cardinality(T) <= n
<1>1. IsFiniteSet(T) /\ Cardinality(T) <= Cardinality(S)
  BY FS_Subset
<1>2. Cardinality(S) \in Nat /\ Cardinality(T) \in Nat
  BY <1>1, FS_CardinalityType
<1> QED
  BY <1>1, <1>2

LEMMA Grow ==
    ASSUME NEW S, NEW x, NEW n \in Nat, IsFiniteSet(S), Cardinality(S) <= n
    PROVE  IsFiniteSet(S \cup {x}) /\ Cardinality(S \cup {x}) <= n + 1
<1>1. /\ IsFiniteSet(S \cup {x})
      /\ Cardinality(S \cup {x}) =
           IF x \in S THEN Cardinality(S) ELSE Cardinality(S) + 1
  BY FS_AddElement
<1>2. Cardinality(S) \in Nat
  BY FS_CardinalityType
<1> QED
  BY <1>1, <1>2

LEMMA Remove ==
    ASSUME NEW S, NEW x \in S, NEW n \in Nat, IsFiniteSet(S), Cardinality(S) <= n + 1
    PROVE  IsFiniteSet(S \ {x}) /\ Cardinality(S \ {x}) <= n
<1>1. /\ IsFiniteSet(S \ {x})
      /\ Cardinality(S \ {x}) = Cardinality(S) - 1
  BY FS_RemoveElement
<1>2. Cardinality(S) \in Nat
  BY FS_CardinalityType
<1> QED
  BY <1>1, <1>2

LEMMA NoneLeft ==
    ASSUME NEW S, IsFiniteSet(S), Cardinality(S) <= 0
    PROVE  S = {}
<1>1. Cardinality(S) \in Nat
  BY FS_CardinalityType
<1>2. Cardinality(S) = 0
  BY <1>1
<1> QED
  BY <1>2, FS_EmptySet

-----------------------------------------------------------------------------
LEMMA SalesInit == Init => SalesInv
<1> SUFFICES ASSUME Init
             PROVE  SalesInv
    OBVIOUS
<1>1. Submitted = {} /\ faults = 0 /\ strays = 0 /\ at = "cycle" /\ sold = {}
      /\ attempt = 0 /\ shown = "none"
  BY DEF Init, Submitted
<1>2. IsFiniteSet(Submitted) /\ Few(0) /\ Few(1)
  BY <1>1, FS_EmptySet DEF Few
<1> QED
  BY <1>1, <1>2 DEF SalesInv

(* Sufficient for a step that confirms and decides nothing.                *)
Unsold ==
    /\ UNCHANGED <<sold, pending, openBets, shown, strays>>
    /\ faults' \in Nat /\ faults' >= faults
    /\ at' \in {"cycle", "dispatched"} => Few(faults' + strays)
    /\ at' = "cycle" => attempt' # 0
    /\ at' = "dispatched" /\ attempt' = 1 => at = "cycle" /\ attempt = 0
    /\ at' = "awaiting" => at = "awaiting" /\ attempt' = attempt
    /\ at' = "caught" /\ Retried' => Few(faults' + strays)
    /\ at' = "aborted" /\ attempt' < MaxPreBoundaryRetries => Few(faults' + strays)

LEMMA SalesUnsold == SalesInv /\ TypeInv /\ Unsold => SalesInv'
<1> SUFFICES ASSUME SalesInv, TypeInv, Unsold
             PROVE  SalesInv'
    OBVIOUS
<1>1. Submitted' = Submitted
  BY DEF Submitted, Unsold
<1>2. /\ Cardinality(Submitted) \in Nat
      /\ Cardinality(Submitted) <= 1 + faults + strays
      /\ faults \in Nat /\ faults' \in Nat /\ faults' >= faults
      /\ strays \in Nat
  BY FS_CardinalityType DEF SalesInv, Few, TypeInv, TypeOK, Unsold
<1>3. Cardinality(Submitted) <= 1 + faults' + strays
  BY ONLY <1>2
<1> QED
  BY <1>1, <1>3 DEF SalesInv, Few, Unsold

(* A step that leaves the program where it is and adds no sale.            *)
Elsewhere ==
    /\ UNCHANGED <<at, attempt, error, faults>>
    /\ strays' \in Nat /\ strays' >= strays
    /\ IsFiniteSet(Submitted') /\ Cardinality(Submitted') <= Cardinality(Submitted)
    /\ sold' \cap (pending' \cup openBets') = {}
    /\ at = "cycle" /\ attempt = 0 => Submitted' = {}
    /\ at = "dispatched" /\ attempt = 1 => Submitted' = {}
    /\ at = "cycle" /\ attempt = 0 /\ strays' = 0 => shown' = "none"
    /\ at = "dispatched" /\ attempt = 1 /\ strays' = 0 => shown' = "none"
    /\ at = "awaiting" /\ attempt = 1 /\ strays' = 0 /\ shown' = "error" => Submitted' = {}

LEMMA SalesElsewhere == SalesInv /\ TypeInv /\ Elsewhere => SalesInv'
<1> SUFFICES ASSUME SalesInv, TypeInv, Elsewhere
             PROVE  SalesInv'
    OBVIOUS
<1>1. /\ Cardinality(Submitted) \in Nat /\ Cardinality(Submitted') \in Nat
      /\ Cardinality(Submitted') <= Cardinality(Submitted)
      /\ faults \in Nat /\ faults' = faults
      /\ strays \in Nat /\ strays' \in Nat /\ strays' >= strays
  BY FS_CardinalityType DEF SalesInv, TypeInv, TypeOK, Elsewhere
<1>2. /\ Cardinality(Submitted) <= 1 + faults + strays =>
           Cardinality(Submitted') <= 1 + faults + strays'
      /\ Cardinality(Submitted) <= faults + strays =>
           Cardinality(Submitted') <= faults + strays'
      /\ Cardinality(Submitted) <= 1 => Cardinality(Submitted') <= 1
  BY ONLY <1>1
<1>3. /\ Few(1 + faults + strays) => Few(1 + faults + strays)'
      /\ Few(faults + strays) => Few(faults + strays)'
      /\ Few(1) => Few(1)'
  BY <1>1, <1>2 DEF Few
<1>4. /\ Retried' <=> Retried
      /\ at' = at /\ attempt' = attempt
  BY DEF Elsewhere, Retried
<1> QED
  BY <1>3, <1>4 DEF SalesInv, Elsewhere

LEMMA SalesNext == SalesInv /\ TypeInv /\ [Next]_vars => SalesInv'
<1> SUFFICES ASSUME SalesInv, TypeInv, [Next]_vars
             PROVE  SalesInv'
    OBVIOUS
<1> USE DEF MaxPreBoundaryRetries
<1>t. /\ attempt \in 0..2 /\ faults \in Nat /\ strays \in Nat
      /\ Cardinality(Submitted) \in Nat
      /\ faults + strays \in Nat /\ faults + strays + 1 \in Nat
  BY FS_CardinalityType DEF TypeInv, TypeOK, SalesInv
<1>1. CASE BeginCycle
  <2>1. Unsold
    BY <1>1, <1>t DEF BeginCycle, Unsold, SalesInv, site, counts
  <2> QED
    BY <2>1, SalesUnsold
<1>2. CASE Refused
  <2>1. Unsold
    BY <1>2, <1>t DEF Refused, Unsold, site, Stop
  <2> QED
    BY <2>1, SalesUnsold
<1>3. CASE AbortBeforeConfirm
  <2>1. at' = "caught" /\ Few(faults + strays) /\ faults' = faults
    BY <1>3 DEF AbortBeforeConfirm, Throw, SalesInv, counts
  <2>2. Unsold
    BY <1>3, <1>t, <2>1 DEF AbortBeforeConfirm, Unsold, counts
  <2> QED
    BY <2>2, SalesUnsold
<1>4. ASSUME NEW b \in Bets, Confirm(b)
      PROVE  SalesInv'
  <2>1. /\ at = "dispatched" /\ at' = "awaiting"
        /\ UNCHANGED <<attempt, shown, openBets, sold, faults, strays>>
        /\ pending' = IF b \in openBets THEN pending \cup {b} ELSE pending
    BY <1>4 DEF Confirm, counts
  <2>2. Submitted' = Submitted \/ Submitted' = Submitted \cup {b}
    BY <2>1 DEF Submitted
  <2>a. ASSUME NEW n \in Nat, Few(n)
        PROVE  IsFiniteSet(Submitted') /\ Cardinality(Submitted') <= n + 1
    <3>0. IsFiniteSet(Submitted) /\ Cardinality(Submitted) <= n
      BY <2>a DEF SalesInv, Few
    <3>1. IsFiniteSet(Submitted \cup {b}) /\ Cardinality(Submitted \cup {b}) <= n + 1
      BY <3>0, Grow
    <3>3. CASE Submitted' = Submitted
      BY ONLY <1>t, <3>0, <3>3, n \in Nat
    <3>4. CASE Submitted' = Submitted \cup {b}
      BY ONLY <3>1, <3>4
    <3> QED
      BY <2>2, <3>3, <3>4
  <2>3. Few(faults + strays)
    BY <2>1 DEF SalesInv
  <2>4. IsFiniteSet(Submitted') /\ Cardinality(Submitted') <= faults + strays + 1
    BY <1>t, <2>a, <2>3
  <2>5. sold \cap (pending' \cup openBets) = {}
    BY <2>1 DEF SalesInv
  <2>6. attempt = 1 => Few(1)' /\ (strays = 0 => shown = "none")
    <3> SUFFICES ASSUME attempt = 1
                 PROVE  Few(1)' /\ (strays = 0 => shown = "none")
      OBVIOUS
    <3>1. Submitted = {} /\ (strays = 0 => shown = "none")
      BY <2>1 DEF SalesInv
    <3>2. Few(0)
      BY <3>1, FS_EmptySet DEF Few
    <3> QED
      BY <2>a, <3>1, <3>2 DEF Few
  <2>7. Cardinality(Submitted') <= 1 + faults' + strays'
    BY <1>t, <2>1, <2>4, FS_CardinalityType
  <2> QED
    BY <2>1, <2>4, <2>5, <2>6, <2>7 DEF SalesInv, Few
<1>5. CASE SeeSuccess
  <2>1. Unsold
    BY <1>5, <1>t DEF SeeSuccess, Unsold, site, counts, Stop
  <2> QED
    BY <2>1, SalesUnsold
<1>6. CASE SeeFailure
  <2>1. /\ at = "awaiting" /\ at' = "caught"
        /\ UNCHANGED <<attempt, faults, strays, sold, pending, openBets, shown>>
    BY <1>6 DEF SeeFailure, Throw, site, counts
  <2>2. ASSUME Retried'
        PROVE  Few(faults + strays)
    <3>1. error'.kind # "UNKNOWN" /\ attempt < 2
      BY <2>1, <2>2 DEF Retried, CycleStatus
    <3>2. shown = "error" /\ attempt = 1
      <4>1. attempt >= 1
        BY <2>1 DEF TypeInv
      <4>2. ~ Throw("UNKNOWN", TRUE)
        BY <3>1 DEF Throw, Wrapped, Error
      <4>3. shown = "error"
        BY <1>6, <4>2 DEF SeeFailure
      <4> QED
        BY <1>t, <3>1, <4>1, <4>3
    <3>3. CASE strays = 0
      <4>1. Submitted = {}
        BY <2>1, <3>2, <3>3 DEF SalesInv
      <4> QED
        BY <1>t, <4>1, FS_EmptySet DEF Few
    <3>4. CASE strays # 0
      <4>1. Cardinality(Submitted) <= 1
        BY <2>1, <3>2 DEF SalesInv, Few
      <4>2. 1 <= faults + strays
        BY <1>t, <3>4
      <4> QED
        BY <1>t, <4>1, <4>2 DEF Few
    <3> QED
      BY <3>3, <3>4
  <2>3. Unsold
    BY <1>t, <2>1, <2>2 DEF Unsold
  <2> QED
    BY <2>3, SalesUnsold
<1>7. CASE FaultAfterConfirm
  <2>1. Cardinality(Submitted) <= 1 + faults + strays
    BY DEF SalesInv, Few
  <2>2. /\ faults' = faults + 1 /\ at' = "caught"
        /\ UNCHANGED <<sold, pending, openBets, shown, strays>>
    BY <1>7 DEF FaultAfterConfirm, Throw, site
  <2>3. Few(faults' + strays)
    BY <1>t, <2>1, <2>2 DEF Few
  <2>4. Unsold
    BY <1>t, <2>2, <2>3 DEF Unsold
  <2> QED
    BY <2>4, SalesUnsold
<1>8. CASE Catch
  <2>1. /\ at = "caught" /\ at' \in {"aborted", "done"}
        /\ UNCHANGED <<attempt, faults, strays, sold, pending, openBets, shown>>
    BY <1>8 DEF Catch, Stop, site, counts
  <2>2. at' = "aborted" => CycleStatus(error) = "ABORTED"
    BY <1>8 DEF Catch, Stop
  <2>3. at' = "aborted" /\ attempt < 2 => Few(faults + strays)
    BY <2>1, <2>2 DEF SalesInv, Retried
  <2>4. Unsold
    BY <1>t, <2>1, <2>3 DEF Unsold
  <2> QED
    BY <2>4, SalesUnsold
<1>9. CASE RetryOrStop
  <2>1. at = "aborted" /\ attempt >= 1
    BY <1>9 DEF RetryOrStop, TypeInv
  <2>2. Unsold
    BY <1>9, <1>t, <2>1 DEF RetryOrStop, Unsold, SalesInv, site, counts, Stop
  <2> QED
    BY <2>2, SalesUnsold
<1>10. ASSUME NEW b \in Bets, Decide(b)
       PROVE  SalesInv'
  <2>1. /\ b \in pending /\ pending' = pending \ {b}
        /\ UNCHANGED <<at, attempt, error, faults, strays>>
    BY <1>10 DEF Decide, program, counts
  <2>2. \/ /\ sold' = sold \cup {b} /\ openBets' = openBets \ {b}
           /\ shown' \in {shown, "success"}
        \/ /\ sold' = sold /\ openBets' = openBets
           /\ shown' \in {shown, "error"}
    BY <1>10 DEF Decide
  <2>3. /\ Submitted' \subseteq Submitted
        /\ sold' = sold => Submitted' = Submitted \ {b}
    BY <2>1, <2>2 DEF Submitted, SalesInv
  <2>4. IsFiniteSet(Submitted') /\ Cardinality(Submitted') <= Cardinality(Submitted)
    BY <1>t, <2>3, Shrink DEF SalesInv
  <2>5. b \in Submitted
    BY <2>1 DEF Submitted
  <2>6. ~(at = "cycle" /\ attempt = 0) /\ ~(at = "dispatched" /\ attempt = 1)
    BY <2>5 DEF SalesInv
  <2>7. ASSUME at = "awaiting", attempt = 1, strays = 0, shown' = "error"
        PROVE  Submitted' = {}
    <3>1. shown # "error"
      BY <2>5, <2>7 DEF SalesInv
    <3>2. sold' = sold
      BY <2>2, <2>7, <3>1
    <3>3. Cardinality(Submitted) <= 0 + 1
      BY <2>7 DEF SalesInv, Few
    <3>5. IsFiniteSet(Submitted \ {b}) /\ Cardinality(Submitted \ {b}) <= 0
      BY <2>5, <3>3, Remove DEF SalesInv
    <3> QED
      BY <2>3, <3>2, <3>5, NoneLeft
  <2>8. sold' \cap (pending' \cup openBets') = {}
    BY <2>1, <2>2 DEF SalesInv
  <2>9. Elsewhere
    BY <1>t, <2>1, <2>4, <2>6, <2>7, <2>8 DEF Elsewhere
  <2> QED
    BY <2>9, SalesElsewhere
<1>11. CASE Fade \/ Stray \/ UNCHANGED vars
  <2>1. /\ UNCHANGED <<at, attempt, error, faults, sold, pending, openBets>>
        /\ \/ shown' \in {"none", shown} /\ strays' = strays
           \/ strays' = strays + 1
    BY <1>11 DEF Fade, Stray, vars, program, site, counts
  <2>2. Submitted' = Submitted
    BY <2>1 DEF Submitted
  <2>3. strays' \in Nat /\ strays' >= strays /\ (strays' = 0 => shown' \in {"none", shown})
    BY <1>t, <2>1
  <2>4. IsFiniteSet(Submitted)
    BY DEF SalesInv
  <2>5. strays' = 0 => strays = 0
    BY <1>t, <2>3
  <2>6. Elsewhere
    BY <1>t, <2>1, <2>2, <2>3, <2>4, <2>5 DEF Elsewhere, SalesInv
  <2> QED
    BY <2>6, SalesElsewhere
<1> QED
  BY <1>1, <1>2, <1>3, <1>4, <1>5, <1>6, <1>7, <1>8, <1>9, <1>10, <1>11
     DEF Next, Program

-----------------------------------------------------------------------------
LEMMA SoldInit == Init => SoldInv
BY DEF Init, SoldInv, CompletedIsSold

(* A success on the screen is a sale, and so is a bet off the list.        *)
LEMMA SoldNext == SoldInv /\ SalesInv /\ TypeInv /\ TypeInv' /\ [Next]_vars => SoldInv'
<1> SUFFICES ASSUME SoldInv, SalesInv, TypeInv, TypeInv', [Next]_vars
             PROVE  SoldInv'
    OBVIOUS
<1>t. /\ faults \in Nat /\ refusals \in Nat /\ strays \in Nat
      /\ Cardinality(Submitted) \in Nat
  BY FS_CardinalityType DEF TypeInv, TypeOK, SalesInv
<1>f. IsFiniteSet(Submitted) /\ pending \subseteq Submitted /\ sold \subseteq Submitted
  BY DEF SalesInv, Submitted
<1>1. CASE BeginCycle
  BY <1>1 DEF BeginCycle, SoldInv, CompletedIsSold, site, given, counts
<1>2. CASE Refused
  <2>1. strays = 0 => Cardinality(Submitted) <= faults
    BY <1>2, <1>t DEF Refused, SalesInv, Few
  <2>2. strays = 0 => Cardinality(pending) <= faults
    BY <1>t, <1>f, <2>1, Shrink
  <2>3. refusals' > 0
    BY <1>2, <1>t DEF Refused
  <2> QED
    BY <1>2, <2>2, <2>3 DEF Refused, SoldInv, CompletedIsSold, site, given, Stop
<1>3. CASE SeeSuccess
  <2>0. /\ UNCHANGED <<shown, openBets, pending, sold, strays, refusals, faults>>
        /\ UNCHANGED <<betId, listed, simple>>
    BY <1>3 DEF SeeSuccess, site, given, counts
  <2>1. ASSUME strays = 0, betId # NoBet => betId \in listed /\ ~simple
        PROVE  sold # {} /\ Cardinality(pending) <= faults
    <3>1. sold # {}
      BY <1>3, <2>1 DEF SeeSuccess, SoldInv, TypeInv, TypeOK, OnPage
    <3>2. PICK b : b \in sold
      BY <3>1
    <3>3. pending \subseteq Submitted \ {b} /\ b \in Submitted
      BY <3>2 DEF SalesInv, Submitted
    <3>4. Cardinality(Submitted) <= faults + 1
      BY <1>t, <2>1 DEF SalesInv, Few
    <3>5. IsFiniteSet(Submitted \ {b}) /\ Cardinality(Submitted \ {b}) <= faults
      BY <1>t, <1>f, <3>3, <3>4, Remove
    <3>6. Cardinality(pending) <= faults
      BY <1>t, <3>3, <3>5, Shrink
    <3> QED
      BY <3>1, <3>6
  <2> QED
    BY <2>0, <2>1 DEF SoldInv, CompletedIsSold
<1>4. CASE Catch
  <2>1. at = "caught" /\ error.kind \in Kinds \ {"none"} /\ error.boundaryCrossed \in BOOLEAN
    BY <1>4 DEF Catch, TypeInv, TypeOK, Errors
  <2>2. CycleStatus(error) # "COMPLETED"
    BY <2>1 DEF CycleStatus, Kinds
  <2>3. state' = "COMPLETED" => state = "COMPLETED"
    BY <1>4, <2>2 DEF Catch, Stop
  <2> QED
    BY <1>4, <2>3 DEF Catch, SoldInv, CompletedIsSold, site, given, counts
<1>5. CASE AbortBeforeConfirm \/ SeeFailure \/ RetryOrStop
  <2>1. /\ state' = state \/ state' = "ABORTED"
        /\ UNCHANGED <<shown, openBets, pending, sold, faults, refusals, strays>>
        /\ UNCHANGED <<betId, listed, simple>>
    BY <1>5 DEF AbortBeforeConfirm, SeeFailure, RetryOrStop, Throw, Stop, site,
                given, counts
  <2> QED
    BY <2>1 DEF SoldInv, CompletedIsSold
<1>6. CASE FaultAfterConfirm \/ \E b \in Bets : Confirm(b)
  <2>1. /\ at \in {"awaiting", "dispatched"} /\ state' = state
        /\ UNCHANGED <<shown, openBets, sold, strays>>
    BY <1>6 DEF FaultAfterConfirm, Confirm, Throw, site, counts
  <2>2. state # "COMPLETED"
    BY <2>1 DEF TypeInv
  <2> QED
    BY <2>1, <2>2 DEF SoldInv, CompletedIsSold
<1>7. ASSUME NEW b \in Bets, Decide(b)
      PROVE  SoldInv'
  <2>1. /\ b \in pending /\ pending' = pending \ {b}
        /\ UNCHANGED <<state, refusals, faults, strays, betId, listed, simple>>
    BY <1>7 DEF Decide, program, counts, given
  <2>2. \/ /\ sold' = sold \cup {b} /\ openBets' = openBets \ {b}
           /\ shown' \in {shown, "success"}
        \/ /\ sold' = sold /\ openBets' = openBets
           /\ shown' \in {shown, "error"}
    BY <1>7 DEF Decide
  <2>3. IsFiniteSet(pending) /\ Cardinality(pending) \in Nat
    BY <1>f, FS_Subset, FS_CardinalityType
  <2>4. Cardinality(pending') <= Cardinality(pending) /\ Cardinality(pending') \in Nat
    BY <2>1, <2>3, FS_Subset, FS_CardinalityType
  <2>5. CompletedIsSold'
    BY <1>t, <2>1, <2>2, <2>3, <2>4 DEF SoldInv, CompletedIsSold
  <2> QED
    BY <2>1, <2>2, <2>5 DEF SoldInv
<1>8. CASE Fade
  BY <1>8 DEF Fade, SoldInv, CompletedIsSold, program, given, counts
<1>9. CASE Stray
  <2>1. strays' # 0 /\ UNCHANGED <<openBets, sold>>
    BY <1>9, <1>t DEF Stray
  <2> QED
    BY <2>1 DEF SoldInv, CompletedIsSold
<1>10. CASE UNCHANGED vars
  BY <1>10 DEF vars, SoldInv, CompletedIsSold, program, site, given, counts
<1> QED
  BY <1>1, <1>2, <1>3, <1>4, <1>5, <1>6, <1>7, <1>8, <1>9, <1>10 DEF Next, Program

-----------------------------------------------------------------------------
LEMMA AlwaysTypeInv == Spec => []TypeInv
BY TypeInit, TypeNext, PTL DEF Spec

LEMMA AlwaysSalesInv == Spec => []SalesInv
BY AlwaysTypeInv, SalesInit, SalesNext, PTL DEF Spec

(* The variables keep their types; two attempts are the most.              *)
THEOREM TypeCorrect == Spec => []TypeOK
<1>1. TypeInv => TypeOK
  BY DEF TypeInv
<1> QED
  BY <1>1, AlwaysTypeInv, PTL

(* One intent sells one bet, and one more for each fault or stray toast.   *)
THEOREM Single == Spec => []SalesAreSingle
<1>1. SalesInv => SalesAreSingle
  BY DEF SalesInv, SalesAreSingle, Few, Submitted
<1> QED
  BY <1>1, AlwaysSalesInv, PTL

(* COMPLETED is a sale and leaves nothing undecided, whatever the page     *)
(* lists and in either of its lists, with the conditions the property      *)
(* names: the named bet in the detailed list, no stray toast.              *)
THEOREM Sold == Spec => []CompletedIsSold
<1>1. SoldInv => CompletedIsSold
  BY DEF SoldInv
<1> QED
  BY <1>1, SoldInit, SoldNext, AlwaysTypeInv, AlwaysSalesInv, PTL DEF Spec
=============================================================================
