SPECIFICATION FairSpec
CONSTANTS
    MaxDump = 3
    Dumps <- MCDumps
    UT <- MCUT
    Bad = {1}
    Deleted = {1}
    Limit = 2
    UploadLimit = 1
    PageSizes = {1, 2}
    MaxFaults = 1
    MaxLosses = 1
INVARIANTS TypeOK DeletedStaysDeleted
PROPERTIES FullListingExact EventuallyArchived OthersUploaded
