SPECIFICATION FairSpec
CONSTANTS
    Dumps = {d1, d2}
    Pollers = {p1, p2}
    MaxCommits = 2
    MaxMirrored = 1
PROPERTIES CatchesUp
