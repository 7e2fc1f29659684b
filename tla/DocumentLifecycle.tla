-------------------------- MODULE DocumentLifecycle --------------------------
(***************************************************************************)
(* The document registry of the application (services/documents.py) with   *)
(* the routes that drive it (server.py): upload, load-sample, ask, and the  *)
(* recovery of persisted uploads when the process starts.                   *)
(*                                                                         *)
(* Three kinds of threads meet in DOCS:                                     *)
(*   - the event loop ("loop"), which runs /upload and the websocket's      *)
(*     gate to completion, one at a time, and load_persisted at start;      *)
(*   - the handlers of the thread pool, which run the sync /load-sample;    *)
(*   - one ingestion thread per accepted document.                          *)
(* add_document is one activation per caller, cut where another thread or a *)
(* crash of the process can be seen in between.                             *)
(***************************************************************************)
EXTENDS Naturals, FiniteSets

CONSTANTS
    Docs,          \* documents, by content hash: same bytes, same document
    NoDoc,         \* stands for no document
    Samples,       \* the documents /load-sample builds
    Corrupt,       \* the documents fitz.open refuses
    Handlers,      \* thread-pool threads that serve /load-sample
    Threads,       \* ingestion threads; the code starts them without a bound
    Asks,          \* websocket connections
    Pages,         \* pages of a document
    Batches,       \* upsert batches of a document's chunks
    StoreFaults,   \* may a write to the artifact store, or a thread start, raise?
    QdrantServer,  \* QDRANT_URL is set: collections outlive the process
    McpServer      \* MCP_SERVER_URL is set: retrieval goes to the sidecar

ASSUME DocAssumption == /\ Samples \subseteq Docs /\ Corrupt \subseteq Docs \ Samples
                        /\ NoDoc \notin Docs
ASSUME CallerAssumption == "loop" \notin Handlers
ASSUME SizeAssumption == Pages \in Nat \ {0} /\ Batches \in Nat \ {0}
ASSUME ModeAssumption == /\ StoreFaults \in BOOLEAN
                         /\ QdrantServer \in BOOLEAN
                         /\ McpServer \in BOOLEAN
ASSUME SharedAssumption == "shared" \notin Docs

VARIABLES
    phase,    \* "down", "loading" (load_persisted runs), "serving"
    docs,     \* DOCS, with status "absent" for a document it does not hold
    call,     \* the activation of add_document of each caller
    pending,  \* blob keys load_persisted has still to visit
    worker,   \* _ingest_worker in each ingestion thread
    blobs,    \* persisted: documents whose bytes are in the artifact store
    names,    \* persisted: the file name stored for a document
    points,   \* the vector store: the batches each collection holds
    ask,      \* the question each connection has in flight: the documents its
              \* engines search; did every search so far find the whole document?
    acked     \* history: documents whose summary was returned to a client

vars == <<phase, docs, call, pending, worker, blobs, names, points, ask, acked>>
durable == <<blobs, names, acked>>

-----------------------------------------------------------------------------
Callers == Handlers \cup {"loop"}
Status == {"absent", "parsing", "ready", "error"}
Name == {"none", "given", "default"}
Batch == 1..Batches

(* One collection per document for the application; the sidecar opens the
   collection of the plain configured name. *)
Collections == Docs \cup {"shared"}
MutDocIndex(d) == "shared"
DocIndex(d) == d
SearchedCollection(d) == IF McpServer THEN "shared" ELSE DocIndex(d)

Absent == [status |-> "absent", name |-> "none", parsed |-> 0,
           index |-> FALSE, engine |-> FALSE]
NewEntry(n) == [status |-> "parsing", name |-> n, parsed |-> 0,
                index |-> FALSE, engine |-> FALSE]

IdleCall == [pc |-> "idle", doc |-> NoDoc, name |-> "none"]
IdleWorker == [pc |-> "free", doc |-> NoDoc, n |-> 0]
IdleAsk == [docs |-> {}, whole |-> TRUE]

Live(t) == worker[t].pc # "free"
HasWorker(d) == \E t \in Threads : Live(t) /\ worker[t].doc = d
Active(c) == call[c].pc # "idle"
Held(k, d) == {b \in Batch : <<d, b>> \in points[k]}

DocsOK == docs \in [Docs -> [status : Status, name : Name, parsed : 0..Pages,
                             index : BOOLEAN, engine : BOOLEAN]]
CallOK == /\ call \in [Callers -> [pc : {"idle", "open", "blob", "name", "start", "join"},
                                   doc : Docs \cup {NoDoc}, name : Name]]
          /\ \A c \in Callers : Active(c) => call[c].doc \in Docs
WorkerOK == /\ worker \in [Threads -> [pc : {"free", "parse", "upsert"},
                                       doc : Docs \cup {NoDoc}, n : Nat]]
            /\ \A t \in Threads : Live(t) => worker[t].doc \in Docs
            /\ \A t \in Threads :
                 worker[t].n <= (IF worker[t].pc = "parse" THEN Pages ELSE Batches)
StoreOK == blobs \subseteq Docs /\ names \in [Docs -> Name] /\ acked \subseteq Docs
PointsOK == points \in [Collections -> SUBSET (Docs \X Batch)]
AskOK == ask \in [Asks -> [docs : SUBSET Docs, whole : BOOLEAN]]

TypeOK == /\ phase \in {"down", "loading", "serving"} /\ pending \subseteq Docs
          /\ DocsOK /\ CallOK /\ WorkerOK /\ StoreOK /\ PointsOK /\ AskOK

Init ==
    /\ phase = "down"
    /\ docs = [d \in Docs |-> Absent]
    /\ call = [c \in Callers |-> IdleCall]
    /\ pending = {}
    /\ worker = [t \in Threads |-> IdleWorker]
    /\ blobs = {}
    /\ names = [d \in Docs |-> "none"]
    /\ points = [k \in Collections |-> {}]
    /\ ask = [a \in Asks |-> IdleAsk]
    /\ acked = {}

-----------------------------------------------------------------------------
(* add_document, one activation per caller. The first test answers at once  *)
(* for a document that is ready or being parsed.                            *)
MutKnownReadyOnly(d) == docs[d].status = "ready"
MutKnownParsingOnly(d) == docs[d].status = "parsing"
Known(d) == docs[d].status \in {"ready", "parsing"}

Acknowledge(c, d) == acked' = IF phase = "serving" THEN acked \cup {d} ELSE acked

AddDocument(c, d, n) ==
    /\ ~Active(c)
    /\ IF Known(d)
         THEN Acknowledge(c, d) /\ UNCHANGED call
         ELSE /\ call' = [call EXCEPT ![c] = [pc |-> "open", doc |-> d, name |-> n]]
              /\ UNCHANGED acked
    /\ UNCHANGED <<docs, worker, blobs, names, points, ask>>

Return(c) == call' = [call EXCEPT ![c] = IdleCall]
Step(c, pc) == call' = [call EXCEPT ![c].pc = pc]

(* fitz.open raises on bytes that are no PDF: the caller reports it (400) or *)
(* goes on to the next blob, and nothing was registered.                     *)
Refuse(c) ==
    /\ call[c].pc = "open" /\ call[c].doc \in Corrupt
    /\ Return(c)
    /\ UNCHANGED <<phase, docs, pending, worker, durable, points, ask>>

Register(c) ==
    /\ call[c].pc = "open" /\ call[c].doc \notin Corrupt
    /\ docs' = [docs EXCEPT ![call[c].doc] = NewEntry(call[c].name)]
    /\ Step(c, "blob")
    /\ UNCHANGED <<phase, pending, worker, durable, points, ask>>

MutSaveBlobUncommitted(c) ==
    /\ call[c].pc = "blob"
    /\ Step(c, "name")
    /\ UNCHANGED <<phase, docs, pending, worker, durable, points, ask>>

SaveBlob(c) ==
    /\ call[c].pc = "blob"
    /\ blobs' = blobs \cup {call[c].doc}
    /\ Step(c, "name")
    /\ UNCHANGED <<phase, docs, pending, worker, names, points, ask, acked>>

SaveName(c) ==
    /\ call[c].pc = "name"
    /\ names' = [names EXCEPT ![call[c].doc] = call[c].name]
    /\ Step(c, "start")
    /\ UNCHANGED <<phase, docs, pending, worker, blobs, points, ask, acked>>

(* A write to the store (disk full, database locked) or Thread.start raises. *)
(* Each caller drops the exception; the entry stays as Register left it.     *)
Raise(c) ==
    /\ StoreFaults
    /\ \/ call[c].pc \in {"blob", "name"}
       \/ call[c].pc = "start" /\ c = "loop"
    /\ Return(c)
    /\ UNCHANGED <<phase, docs, pending, worker, durable, points, ask>>

(* background: a new thread, and the summary is returned at once; otherwise *)
(* (load-sample) the handler runs the worker itself and returns after it.    *)
Start(c) ==
    /\ call[c].pc = "start"
    /\ \E t \in Threads :
         /\ ~Live(t)
         /\ worker' = [worker EXCEPT ![t] = [pc |-> "parse", doc |-> call[c].doc, n |-> 0]]
    /\ IF c = "loop" THEN Return(c) /\ Acknowledge(c, call[c].doc)
                     ELSE Step(c, "join") /\ UNCHANGED acked
    /\ UNCHANGED <<phase, docs, pending, blobs, names, points, ask>>

Join(c) ==
    /\ call[c].pc = "join" /\ ~HasWorker(call[c].doc)
    /\ Return(c) /\ Acknowledge(c, call[c].doc)
    /\ UNCHANGED <<phase, docs, pending, worker, blobs, names, points, ask>>

AddStep(c) == Refuse(c) \/ Register(c) \/ SaveBlob(c) \/ SaveName(c)
                \/ Raise(c) \/ Start(c) \/ Join(c)

-----------------------------------------------------------------------------
(* The routes. Each build of the sample gets a fresh PDF /ID, hence bytes and *)
(* a document nobody has uploaded before.                                    *)
Upload(d) ==
    /\ phase = "serving" /\ d \notin Samples
    /\ AddDocument("loop", d, "given")
    /\ UNCHANGED <<phase, pending>>

LoadSample(h, d) ==
    /\ phase = "serving" /\ d \in Samples
    /\ docs[d].status = "absent" /\ d \notin blobs
    /\ \A g \in Handlers : call[g].doc # d
    /\ AddDocument(h, d, "given")
    /\ UNCHANGED <<phase, pending>>

(* load_persisted, in the lifespan: one persisted blob per turn, and the     *)
(* server accepts requests when it has returned.                             *)
LoadNext(d) ==
    /\ phase = "loading" /\ d \in pending
    /\ pending' = pending \ {d}
    /\ IF docs[d].status # "absent"
         THEN ~Active("loop") /\ UNCHANGED <<docs, call, worker, durable, points, ask>>
         ELSE AddDocument("loop", d, IF names[d] = "none" THEN "default" ELSE names[d])
    /\ UNCHANGED phase

MutServeAtOnce ==
    /\ phase = "loading" /\ ~Active("loop")
    /\ phase' = "serving"
    /\ UNCHANGED <<docs, call, pending, worker, durable, points, ask>>

Serve ==
    /\ phase = "loading" /\ pending = {} /\ ~Active("loop")
    /\ phase' = "serving"
    /\ UNCHANGED <<docs, call, pending, worker, durable, points, ask>>

-----------------------------------------------------------------------------
(* _ingest_worker in thread t. It writes the entry it looked up when it       *)
(* began; nobody replaces that entry while it runs (OneWorkerPerDoc).         *)
MutParsePage(t) ==
    /\ worker[t].pc = "parse" /\ worker[t].n <= Pages
    /\ worker' = [worker EXCEPT ![t].n = @ + 1]
    /\ docs' = [docs EXCEPT ![worker[t].doc].parsed = worker[t].n + 1]
    /\ UNCHANGED <<phase, call, pending, durable, points, ask>>

ParsePage(t) ==
    /\ worker[t].pc = "parse" /\ worker[t].n < Pages
    /\ worker' = [worker EXCEPT ![t].n = @ + 1]
    /\ docs' = [docs EXCEPT ![worker[t].doc].parsed = worker[t].n + 1]
    /\ UNCHANGED <<phase, call, pending, durable, points, ask>>

(* Chunking is done; doc_index opens the collection. Without a server each    *)
(* QdrantIndex brings an empty store of its own.                              *)
OpenIndex(t) ==
    /\ worker[t].pc = "parse" /\ worker[t].n = Pages
    /\ worker' = [worker EXCEPT ![t] = [pc |-> "upsert", doc |-> worker[t].doc, n |-> 0]]
    /\ LET d == worker[t].doc
       IN /\ docs' = [docs EXCEPT ![d].index = TRUE]
          /\ points' = IF docs[d].index \/ QdrantServer THEN points
                       ELSE [points EXCEPT ![DocIndex(d)] = {}]
    /\ UNCHANGED <<phase, call, pending, durable, ask>>

UpsertBatch(t) ==
    /\ worker[t].pc = "upsert" /\ worker[t].n < Batches
    /\ worker' = [worker EXCEPT ![t].n = @ + 1]
    /\ points' = [points EXCEPT ![DocIndex(worker[t].doc)] =
                     @ \cup {<<worker[t].doc, worker[t].n + 1>>}]
    /\ UNCHANGED <<phase, docs, call, pending, durable, ask>>

Settle(t, st, parsed) ==
    /\ docs' = [docs EXCEPT ![worker[t].doc] = [@ EXCEPT !.status = st, !.parsed = parsed]]
    /\ worker' = [worker EXCEPT ![t] = IdleWorker]
    /\ UNCHANGED <<phase, call, pending, durable, points, ask>>

MutFinishBeforeUpsert(t) ==
    /\ worker[t].pc = "upsert"
    /\ Settle(t, "ready", Pages)

Finish(t) ==
    /\ worker[t].pc = "upsert" /\ worker[t].n = Batches
    /\ Settle(t, "ready", Pages)

(* Any exception of parsing, enrichment, embedding or indexing.               *)
MutFailSilently(t) ==
    /\ Live(t)
    /\ worker' = [worker EXCEPT ![t] = IdleWorker]
    /\ UNCHANGED <<phase, docs, call, pending, durable, points, ask>>

IngestFails(t) ==
    /\ Live(t)
    /\ Settle(t, "error", docs[worker[t].doc].parsed)

WorkerStep(t) == ParsePage(t) \/ OpenIndex(t) \/ UpsertBatch(t) \/ Finish(t) \/ IngestFails(t)

-----------------------------------------------------------------------------
(* ws_ask up to the start of the engine runs without an await, so no upload   *)
(* comes in between. The engine of a document is built at its first question, *)
(* also when the document to compare with turns out not to be ready.          *)
MutAnswerable(d) == docs[d].status \notin {"absent", "error"}
Answerable(d) == docs[d].status = "ready"

AskQuestion(a, d, other) ==
    /\ phase = "serving" /\ ~Active("loop") /\ ask[a].docs = {}
    /\ Answerable(d)
    /\ docs' = [e \in Docs |-> IF e = d \/ (e = other /\ Answerable(e))
                                THEN [docs[e] EXCEPT !.engine = TRUE, !.index = TRUE]
                                ELSE docs[e]]
    /\ ask' = IF Answerable(other)
              THEN [ask EXCEPT ![a] = [docs |-> {d, other}, whole |-> TRUE]] ELSE ask
    /\ UNCHANGED <<phase, call, pending, worker, durable, points>>

(* A retrieval of the running engine, in a thread of the pool; a question     *)
(* makes several. Only the last event frees the connection for the next one.  *)
Retrieve(a, d) ==
    /\ d \in ask[a].docs
    /\ ask' = [ask EXCEPT ![a].whole = @ /\ Held(SearchedCollection(d), d) = Batch]
    /\ UNCHANGED <<phase, docs, call, pending, worker, durable, points>>

Answer(a) ==
    /\ ask[a].docs # {}
    /\ ask' = [ask EXCEPT ![a] = IdleAsk]
    /\ UNCHANGED <<phase, docs, call, pending, worker, durable, points>>

-----------------------------------------------------------------------------
(* The process stops: its memory is gone, with the in-process collections.    *)
Crash ==
    /\ phase # "down"
    /\ phase' = "down"
    /\ docs' = [d \in Docs |-> Absent]
    /\ call' = [c \in Callers |-> IdleCall]
    /\ pending' = {}
    /\ worker' = [t \in Threads |-> IdleWorker]
    /\ ask' = [a \in Asks |-> IdleAsk]
    /\ points' = IF QdrantServer THEN points ELSE [k \in Collections |-> {}]
    /\ UNCHANGED durable

Restart ==
    /\ phase = "down"
    /\ phase' = "loading"
    /\ pending' = blobs
    /\ UNCHANGED <<docs, call, worker, durable, points, ask>>

Load == \E d \in Docs : LoadNext(d)

Next ==
    \/ Restart \/ Load \/ Serve \/ Crash
    \/ \E d \in Docs : Upload(d)
    \/ \E h \in Handlers, d \in Docs : LoadSample(h, d)
    \/ \E c \in Callers : AddStep(c)
    \/ \E t \in Threads : WorkerStep(t)
    \/ \E a \in Asks, d, other \in Docs : AskQuestion(a, d, other)
    \/ \E a \in Asks, d \in Docs : Retrieve(a, d)
    \/ \E a \in Asks : Answer(a)

(* The threads of the process are scheduled and the container is restarted;   *)
(* nothing is assumed of clients, of faults or of crashes.                    *)
Fairness ==
    /\ WF_vars(Restart) /\ WF_vars(Load) /\ WF_vars(Serve)
    /\ \A c \in Callers : WF_vars(AddStep(c))
    /\ \A t \in Threads : WF_vars(WorkerStep(t))

Spec == Init /\ [][Next]_vars
FairSpec == Spec /\ Fairness

-----------------------------------------------------------------------------
(* Two ingestion threads never work on the same document, whatever uploads,   *)
(* sample loads and recoveries overlap (add_document's test of the status).   *)
OneWorkerPerDoc ==
    \A t, u \in Threads : Live(t) /\ Live(u) /\ worker[t].doc = worker[u].doc => t = u

(* A document is "parsing" only while somebody is going to settle it: its     *)
(* ingestion thread, or the call of add_document about to start it. The code  *)
(* says: never leave a doc stuck "parsing".                                   *)
NeverStuckParsing ==
    \A d \in Docs : docs[d].status = "parsing" =>
        \/ HasWorker(d)
        \/ \E c \in Callers : call[c].doc = d /\ call[c].pc \in {"blob", "name", "start"}

(* When a client has the summary of a document, its bytes and its name are in *)
(* the store: the promise restart recovery rests on.                          *)
AckedIsPersisted == \A d \in acked : d \in blobs /\ names[d] # "none"

(* A server that accepts requests knows every document it ever acknowledged,  *)
(* so a client polling /doc/{id}/status across a restart never gets 404.      *)
AckedIsServed == phase = "serving" => \A d \in acked : docs[d].status # "absent"

(* Every chunk of a ready document is in the collection of the document.      *)
ReadyIsIndexed == \A d \in Docs : docs[d].status = "ready" => Held(DocIndex(d), d) = Batch

(* No search of a running question ever finds a document in part: not while   *)
(* it is being indexed, and not in a collection other than the one it is in.  *)
RetrievalSeesWholeDocument == \A a \in Asks : ask[a].whole

(* Within a process "ready" is final: page blocks, the engine and the index a *)
(* client was shown are never replaced under it.                              *)
ReadyIsFinal ==
    [][\A d \in Docs : docs[d].status = "ready" /\ docs'[d].status # "ready"
          => phase' = "down"]_vars

(* Each index is immutable once built (doc_index): nobody writes the          *)
(* collection of a document that is ready.                                    *)
IndexImmutableOnceReady ==
    [][\A d \in Docs : docs[d].status = "ready" /\ phase' # "down"
          => points'[DocIndex(d)] = points[DocIndex(d)]]_vars

(* Once the process stays up, every persisted document is settled again.      *)
RecoversAfterCrash ==
    <>[](phase # "down") =>
        \A d \in Docs : (d \in blobs) ~> (docs[d].status \in {"ready", "error"})

-----------------------------------------------------------------------------
(* The lifecycle implements the service a client relies on. A client sees     *)
(* nothing while load_persisted runs.                                         *)
View == [d \in Docs |-> IF phase = "serving" THEN docs[d].status ELSE "absent"]
Searched == UNION {ask[a].docs : a \in Asks}

Service == INSTANCE DocumentService
             WITH up <- phase = "serving", view <- View, held <- acked, searched <- Searched

(* Every behaviour of the code is one DocumentService allows.                 *)
ImplementsService == Service!Spec

=============================================================================
