SPECIFICATION FairSpec
CONSTANTS
    Files <- MCFiles
    Broken <- MCBroken
    MaxFaults = 3
PROPERTIES ImplementsArchive MarkerIsArchive EventuallyArchived EventuallyPushed
