SPECIFICATION Spec
CONSTANTS
    Inputs <- MCInputs
    Number <- MCNumber
    MaxHost = 4
    MaxHeader = 14
    ReadSize = 14
INVARIANTS StartedAsAsked CompleteIsStarted RefusedForCause
CHECK_DEADLOCK FALSE
