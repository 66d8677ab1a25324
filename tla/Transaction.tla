----------------------------- MODULE Transaction -----------------------------
(***************************************************************************)
(* What a run under one lease promises about money, whatever it buys or    *)
(* sells: its submissions follow each other one at a time, each after the  *)
(* outcome of the one before is known; a run that ends, and so gives its   *)
(* lease back, leaves nothing undecided behind; and a run that lost track  *)
(* of a submission is frozen and submits nothing more.                     *)
(*                                                                         *)
(* BetRun (AutomationRun, BetCycle) and CashoutRun (CashoutTransaction,    *)
(* CashoutCycle) are compared with this specification.                     *)
(***************************************************************************)
EXTENDS Naturals

VARIABLES
    phase,  \* "working"; "closed": the lease may go; "frozen": it must stay
    open    \* submissions the bookmaker has not decided yet

vars == <<phase, open>>

Init == phase = "working" /\ open = 0

Submit == phase = "working" /\ open = 0 /\ open' = 1 /\ UNCHANGED phase

Decide == open = 1 /\ open' = 0 /\ UNCHANGED phase

Close  == phase = "working" /\ open = 0 /\ phase' = "closed" /\ UNCHANGED open

Freeze == phase = "working" /\ phase' = "frozen" /\ UNCHANGED open

(* A fault right after the submission: nobody saw it leave.                *)
SubmitAndFreeze ==
    phase = "working" /\ open = 0 /\ open' = 1 /\ phase' = "frozen"

Next == Submit \/ Decide \/ Close \/ Freeze \/ SubmitAndFreeze

Spec == Init /\ [][Next]_vars
=============================================================================
