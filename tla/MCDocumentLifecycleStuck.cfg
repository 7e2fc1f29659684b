SPECIFICATION Spec
CONSTANTS
    report = report
    sample = sample
    Docs = {report, sample}
    NoDoc = none
    Samples = {sample}
    Corrupt = {}
    Handlers = {h1}
    Threads = {t1, t2}
    Asks = {a1}
    Pages = 1
    Batches = 2
    StoreFaults = TRUE
    QdrantServer = FALSE
    McpServer = FALSE
INVARIANT
    NeverStuckParsing
