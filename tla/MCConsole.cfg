SPECIFICATION FairSpec
CONSTANTS
    SHELL_RING_LEN = 8
    SHELL_MSG_LEN = 2
    QUEUE_SIZE = 2
    Window = 2
    MaxLines = 3
    MaxLength = 3
INVARIANTS
    NoneLost
PROPERTIES
    CommandWhole
    ExecutedOnce
    LineAnswered
