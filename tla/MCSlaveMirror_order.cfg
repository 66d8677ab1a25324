\* One slave, three events of any kind, two corrective navigations, one heal.
SPECIFICATION Spec
CONSTANTS
    Kinds = {"click", "wheel", "hover"}
    DiscreteLimit = 1
    MaxGaps = 1
    MaxTries = 1
    ReloadAt = 1
    MaxEvents = 3
    MaxNavs = 2
    MaxHeals = 1
CHECK_DEADLOCK FALSE
INVARIANTS
    TypeOK
    NumbersKept
    CounterWithinIssued
    NothingGoesStale
    OnlyFullIsStranded
PROPERTIES
    KeepsOrder
    QueueDrains
