SPECIFICATION HandoffSpec
CONSTANTS
    QUEUE_SIZE = 3
    MaxNid = 2
    Boards = {"mega2560"}
INVARIANT
    Moving
