SPECIFICATION ZavodFairSpec
CONSTANTS
    good = good
    forged = forged
    bad = bad
    Broken = Broken
    Names = {"a.zip", "b.zip"}
    Versions <- MCVersions
    Size <- MCSize
    Content <- MCContent
    Dumps = {good, forged}
    Forged = {forged}
    Tries = 2
    Limit = 2
    MaxChanges = 2
    MaxFaults = 1
INVARIANTS BrokenZipGivesUp GivesUpLate
PROPERTIES ZavodEventuallyArchived
