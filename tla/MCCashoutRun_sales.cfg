\* Three open bets, listed or not, two attempts, one refused command, one stray toast.
CONSTANTS
    Bets = {b1, b2, b3}
    NoBet = NoBet
    ListsAll = FALSE
    MaxRefusals = 1
    MaxStrays = 1
SPECIFICATION Spec
INVARIANTS TypeOK SalesAreSingle CompletedIsSold
PROPERTIES TransactionEnds
CHECK_DEADLOCK FALSE
