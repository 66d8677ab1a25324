\* Is the engine's MaxStake a hard limit of the stake placed?
CONSTANTS
    Policies <- MCPolicies
    Balances = {5, 10, 40}
    Odds = {0, 10, 14, 35}
    MaxRebets = 3
SPECIFICATION Spec
INVARIANT MaxStakeIsHard
CHECK_DEADLOCK FALSE
