---------------------------- MODULE MCStakePolicy ----------------------------
(* Policies for TLC: every combination of the switches, with amounts that  *)
(* are and are not multiples of the increment, within and beyond what the  *)
(* balance and the limits allow.                                           *)
EXTENDS StakePolicy

MCPolicies ==
    [mode : {"FIXED", "PROFIT_TARGET"}, amount : {4, 7}, minimumProfit : {0, 3},
            clamps : BOOLEAN, increment : {1, 3}, rounds : BOOLEAN,
            minimumStake : {0, 3}, maxStake : {6, 20}, rebetIncrement : {0, 2}]
=============================================================================
