SPECIFICATION FairSpec
CONSTANTS
    Dumps = {d1, d2, d3, bad}
    Forged = {bad}
    Donors <- MCDonors
    Limit = 2
    MaxCommits = 4
INVARIANTS GuardIsFresh StuckOnlyByDuplicate
PROPERTIES ImplementsArchive ImplementsCopy CommitsReachLog DuplicateOnlyBehind
CHECK_DEADLOCK FALSE
