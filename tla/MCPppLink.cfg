SPECIFICATION FairSpec
CONSTANTS
    MaxConfReq = 3
    MaxTerm = 2
    MaxRestarts = 3
CHECK_DEADLOCK FALSE
INVARIANTS InterfaceNeedsLink EncryptionNeedsKeys
PROPERTIES AdmittedWhenNegotiated ClosingEnds
