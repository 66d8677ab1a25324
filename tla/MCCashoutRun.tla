----------------------------- MODULE MCCashoutRun -----------------------------
(* Instances of CashoutRun for TLC: the bets are in the .cfg files.        *)
EXTENDS CashoutRun
=============================================================================
