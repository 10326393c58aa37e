SPECIFICATION FairSpec
CONSTANTS
    MaxDump = 3
    Dumps <- MCDumps
    Zero = 0
    Time <- MCTime
    Items = {"a", "b"}
    Holds <- MCHolds
    PageSizes = {2, 3}
    MaxFaults = 0
INVARIANTS PairsAreNeighbours
CHECK_DEADLOCK FALSE
