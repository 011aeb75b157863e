SPECIFICATION FairLoopSpec
CONSTANTS
    QUEUE_SIZE = 3
    MaxNid = 4
INVARIANTS
    LoopTypeOK
    RingWindow
    WorkConserving
    NoMotionWhileLocked
    EngineMatchesQueue
    PendingIsFresh
    PlacesCounted
    NoPrematureReport
    NoMotionUnconfigured
PROPERTIES
    ImplementsQueue
    NoOverwrite
    BlankedOnlyOutOfStep
    QueueDrains
    ChangesSeen
