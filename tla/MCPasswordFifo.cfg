SPECIFICATION Spec
CONSTANTS
    MaxSecret = 6
    Size = 5
    Tries = 4
    Polls = 6
    Sources = {"fifo", "stdin"}
INVARIANTS FifoGivesFirstLine NotGivenUpFirst
CHECK_DEADLOCK FALSE
