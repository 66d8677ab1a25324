\* The main frame and one inside it, three DOM events, one more document.
SPECIFICATION Spec
CONSTANTS
    Children = {"widget"}
    Capacity = 2
    UsedEvents <- MCUsedEvents
    MaxActs = 3
    MaxReading = 2
    MaxDocs = 1
CHECK_DEADLOCK FALSE
INVARIANTS
    TypeOK
    Accounted
    LateOnlyForOthers
    ImmediateInOrder
    RingIsUnderWay
PROPERTIES
    SequencesInOrder
    OldestIsNumbered
