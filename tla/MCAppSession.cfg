SPECIFICATION FairSpec
CONSTANTS
    MaxSessions = 2
    Bounds <- MCBounds
PROPERTIES EngineDeathNoticed DisconnectEnds ConfirmedQuitEndsEngines
CHECK_DEADLOCK FALSE
