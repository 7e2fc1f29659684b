SPECIFICATION FairSpec
CONSTANTS
    w1 = w1
    w2 = w2
    mcp = mcp
    report = report
    scan = scan
    again = again
    notes = notes
    broken = broken
    r = r
    s = s
    t = t
    c1 = c1
    c2 = c2
    c3 = c3
    margin = margin
    revenue = revenue
    weather = weather
    Procs = {w1, w2, mcp}
    Keyed = {w1, mcp}
    Sidecars = {mcp}
    Parses = {r, s, t}
    DocOf <- TheDocOf
    Chunks = {c1, c2, c3}
    ChunksOf <- TheChunksOf
    Batch = 1
    Queries = {margin, revenue, weather}
    Shares <- TheShares
    Objects = {report, broken, notes}
    ContentOf <- TheContentOf
    Pdfs = {report, broken}
    TopK = 2
    MaxFaults = 1
CHECK_DEADLOCK FALSE
INVARIANTS
    TypeOK
    AckedIsIndexed
    NeverRefused
    AckedIsFound
PROPERTIES
    UploadsSettle
