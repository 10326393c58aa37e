SPECIFICATION FairSpec
CONSTANTS
    MaxId = 4
    Blobs <- MCBlobs
    Empty = ""
    Delta <- MCDelta
    Files <- MCFiles
    Pairs <- MCPairs
    MaxFaults = 2
INVARIANTS DeltaIsDifference CacheHoldsDeltas ReaderGetsContents
PROPERTIES EventuallyRead
