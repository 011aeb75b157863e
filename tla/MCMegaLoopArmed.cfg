SPECIFICATION LoopSpec
CONSTANTS
    QUEUE_SIZE = 3
    MaxNid = 4
INVARIANT
    EndstopArmed
