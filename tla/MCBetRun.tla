------------------------------- MODULE MCBetRun -------------------------------
(* Instances of BetRun for TLC: the policy is in the .cfg files.           *)
EXTENDS BetRun
=============================================================================
