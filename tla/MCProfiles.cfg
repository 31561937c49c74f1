SPECIFICATION Spec
CONSTANTS
    Ids = {i1, i2, i3}
    Rules = {none, some, bad}
    Valid = {none, some}
    NoRules = none
    NoId = noid
    MaxCrashes = 1
INVARIANTS Durable NoPasswordLeft
CHECK_DEADLOCK FALSE
