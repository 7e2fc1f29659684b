SPECIFICATION FairSpec
CONSTANTS
    NPages = 3
    Scanned <- MixedScans
    NRegions = 3
    RegionOn <- RegionPages
    Figure <- FirstRegion
    Words <- TheWords
    Headings <- TheHeadings
    EnrichCap = 2
    MaxCrashes = 2
    MaxRuns = 4
INVARIANTS
    TypeOK
    NoPageLost
    AnswersAreKept
PROPERTIES
    RerunsAreFree
    RunsEnd
CHECK_DEADLOCK FALSE
