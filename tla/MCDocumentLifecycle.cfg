SPECIFICATION FairSpec
CONSTANTS
    report = report
    sample = sample
    Docs = {report, sample, broken}
    NoDoc = none
    Samples = {sample}
    Corrupt = {broken}
    Handlers = {h1}
    Threads = {t1, t2}
    Asks = {a1}
    Pages = 1
    Batches = 2
    StoreFaults = FALSE
    QdrantServer = FALSE
    McpServer = FALSE
INVARIANTS
    TypeOK
    OneWorkerPerDoc
    NeverStuckParsing
    AckedIsPersisted
    AckedIsServed
PROPERTIES
    RecoversAfterCrash
    ImplementsService
