SPECIFICATION FairSpec
CONSTANTS
    MaxDump = 4
    Dumps <- MCDumps
    Zero = 0
    Time <- MCTime
    Items = {"a", "b"}
    Holds <- MCHolds
    PageSizes = {2, 3}
    MaxFaults = 2
INVARIANTS TypeOK InOrderPairsAreNeighbours HistoryReplays
PROPERTIES KnowsAll IngestedWithNextDump
CHECK_DEADLOCK FALSE
