SPECIFICATION Spec
CONSTANTS
    MaxSessions = 2
    Bounds <- MCQuietBounds
INVARIANTS QuitIsConfirmed
CHECK_DEADLOCK FALSE
