SPECIFICATION FairSpec
CONSTANTS
    MaxDump = 3
    Dumps <- MCDumps
    SigningTime <- MCSigningTime
    Ordered = FALSE
    MaxFaults = 0
INVARIANTS AssertionPasses
CHECK_DEADLOCK FALSE
