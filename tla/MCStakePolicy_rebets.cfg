\* Three rebets; unreadable, even, short and long odds; balances that run out.
CONSTANTS
    Policies <- MCPolicies
    Balances = {5, 10, 40}
    Odds = {0, 10, 14, 35}
    MaxRebets = 3
SPECIFICATION Spec
INVARIANTS TypeOK BaseIsBest OvershootIsBounded ProfitFloor
CHECK_DEADLOCK FALSE
