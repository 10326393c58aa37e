SPECIFICATION FairSpec
CONSTANTS
    both = both
    late = late
    forged = forged
    bad = bad
    Broken = Broken
    Names = {"a.zip"}
    Versions <- MCVersions
    Size <- MCSize
    Content <- MCContent
    Dumps = {both, late, forged}
    Forged = {forged}
    Tries = 2
    Limit = 1
    MaxChanges = 1
    MaxVersion = 4
    CheContent <- MCCheContent
    MaxFaults = 2
INVARIANTS LostOnlyByFailure XmlBelongsToEtag
PROPERTIES EachAsAlone CheEventuallyArchived
