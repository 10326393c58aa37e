SPECIFICATION FairSpec
CONSTANTS
    MaxDump = 5
    Dumps <- MCDumps
    SigningTime <- MCSigningTime
    Ordered = TRUE
    MaxFaults = 3
INVARIANTS TodoCoversMissing MirrorIsPrefix
PROPERTIES EventuallyMirrored PublishedByNextDump RepeatedOnlyBehind
CHECK_DEADLOCK FALSE
