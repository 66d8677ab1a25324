\* Does a cashout keep the promise of Transaction?
CONSTANTS
    Bets = {b1, b2}
    NoBet = NoBet
    ListsAll = TRUE
    MaxRefusals = 0
    MaxStrays = 0
SPECIFICATION Spec
PROPERTY KeepsPromise
CHECK_DEADLOCK FALSE
