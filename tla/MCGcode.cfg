SPECIFICATION Spec
CONSTANTS
    Alphabet = {"G", "F", "2", ".", "-", " ", ";"}
    BufferLen = 5
    MAX_CMDS = 2
INVARIANTS
    StaleIgnored
    NothingSkipped
    NumbersRead
CHECK_DEADLOCK FALSE
