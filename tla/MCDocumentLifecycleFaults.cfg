SPECIFICATION Spec
CONSTANTS
    report = report
    sample = sample
    Docs = {report, sample}
    NoDoc = none
    Samples = {sample}
    Corrupt = {}
    Handlers = {h1}
    Threads = {t1, t2}
    Asks = {a1, a2}
    Pages = 2
    Batches = 2
    StoreFaults = TRUE
    QdrantServer = TRUE
    McpServer = FALSE
SYMMETRY SafetySymmetry
INVARIANTS
    ReadyIsIndexed
    RetrievalSeesWholeDocument
PROPERTIES
    ReadyIsFinal
    IndexImmutableOnceReady
