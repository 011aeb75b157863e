SPECIFICATION HandoffSpec
CONSTANTS
    QUEUE_SIZE = 3
    MaxNid = 3
    Boards = {"mega2560", "stm32f103", "stm32f302", "emulation"}
INVARIANTS
    StartsIdle
    AtRest
    NoPremature
    
PROPERTIES
    HalfOnlyByInterrupt
    KeepsPromise
