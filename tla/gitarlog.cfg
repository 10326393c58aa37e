SPECIFICATION FairSpec
CONSTANTS
    Dumps = {d1, d2, d3}
    Pollers = {p1, p2}
    MaxCommits = 3
    MaxMirrored = 2
INVARIANTS LogIsPrefix CacheMatchesHead
PROPERTIES PollsAreAtomic CatchesUpAlone
