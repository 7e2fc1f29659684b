# FinSight in TLA+

Specifications, model-checking runs and machine-checked proofs for FinSight, the
document question-answering service in this repository: a user uploads a PDF, it is
parsed, enriched, chunked and indexed in the background, and an agent answers
questions about it with citations and verified figures.

Paths are relative to the repository root; `documents.py` and the like are files of
`src/finsight/`.

Contents: 1 inventory; 2 modules and the code; 3 runs, bounds, fairness;
4 what is proved; 5 what is only checked; 6 findings; 7 abstractions and what is left
out; 8 plan.

## 1. Inventory

### Parts, state and operations

| Part | State it keeps | Operations | What makes it correct |
|---|---|---|---|
| Document registry (`services/documents.py`, routes of `server.py`) | `DOCS` (status, parsed pages, index, engine of each document) in memory; names and bytes in the artifact store | `add_document`, `_ingest_worker` (one thread per document), `doc_index`, `get_engine`, `load_persisted` at start | one thread per document; no document stuck in "parsing"; nothing acknowledged is lost by a crash; a question sees only whole documents |
| Ingestion pipeline (`ingestion/pipeline.py`, `enrich.py`, `chunking.py`, `parsers/`) | none of its own; reads and writes the artifact store | `parse_pdf`, `enrich_blocks`, `build_chunks`, `add_context` | no page lost, no answer paid for twice, reruns free, always ends |
| Artifact store (`ingestion/artifacts.py`) | SQLite: page artifacts, key/value texts, blobs | committed single-row writes, idempotent `INSERT OR REPLACE` | what a call bought survives the process |
| Vector index (`retrieval/qdrant_index.py`, `embeddings.py`) | a Qdrant collection, the embedder of each process (dropped for good after a failure) | `_ensure`, `index_chunks` (batched), `search` | every upsert fits the schema, whoever created the collection; a document is found whole |
| Hybrid retrieval (`retrieval/hybrid.py`, `rerank.py`, `text.py`) | none | dense + sparse fusion, exact hits, rerank | order is deterministic; exact hits are not lost |
| MCP sidecar and client (`mcp_server/main.py`, `retrieval/mcp_client.py`) | the sidecar's own index | one stateless tool call per search | same results as in-process retrieval |
| LLM router (`llm/router.py`) | `_cooldown_until`, shared by threads and roles | `complete`, `complete_messages`, `available` | fallback in order, cooldowns respected, `LLMUnavailable` only as the last resort |
| Agent graph (`agent/graph.py`, `agent/nodes/`) | the checkpoint of each conversation thread | eight nodes, one conditional edge, `run`, `run_streaming` | never answers on weak evidence, bounded loop, state of one question does not leak into the next |
| Citation and verification rail (`agent/citations.py`, `verify.py`) | none | `validate_citations`, `snap_citations`, `check_claims`, `verify_numbers` | a citation points at the figure; an untraceable figure gets a caveat |
| Calculator (`agent/calculator.py`) | none | `safe_eval`, `extract_expression` | computes or skips, never fails |
| Brief and compare lanes (`agent/brief.py`, `agent/compare.py`) | none; conversation threads `{thread}:{i}` | a sequence of engine runs, figures read off the answers | a figure called verified is in a block its claim cites; a delta only between like units; the footer tells the truth |
| Pub/Sub worker (`ingest_worker.py`) | none; a second writer of store and index | `pubsub_push` | at-least-once delivery and redelivery are harmless; what is acknowledged is indexed |
| WebSocket server (`ws_ask` and `_bridge` in `server.py`) | a queue and a worker thread per question | reading, refusing, starting a lane, forwarding its events, disconnects | one run per conversation; exactly one end per question, after all else |
| Web client (`web/app.js`) | the document shown, the socket, the busy flag, the panels later events write into | `loadDoc`, the three ways to ask, `onmessage` | every event lands on the answer it is about; the client becomes usable again |
| Evaluation gate (`evals/run_agent_eval.py`, `trajectory.py`, `gate.py`) | the committed floors | scoring, `find_regressions`, ratchet | an agent that stops answering does not pass; floors never loosen and can be met |
| Prompts, guards, observability, deployment | static text; a bounded list of traces; configuration | | nothing a state machine would add |

### How they interact

A client uploads over HTTP. The event loop runs `add_document`, which registers the
document, writes its bytes and name to the store and starts an ingestion thread; the
thread runs the pipeline, which calls providers through the router and keeps each
answer in the store, and then fills the collection of the document. The client polls
the status in `DOCS`. `ws_ask` opens only for a ready document; a lane (one question, a
brief, a comparison) then runs in a worker thread, calls the retriever (in process, or
the sidecar) and the router, and streams events back over a queue that the handler
forwards to the page. At start `load_persisted` feeds every stored blob to
`add_document` again. In the cloud the bucket notifies the Pub/Sub worker, whose
instances write the same Qdrant collection and keep an artifact store each. The
gate runs the agent over a fixed list of cases and compares the scores with the floors.

### What is hard about it

- `DOCS` is shared, without a lock, by the event loop, pool threads and ingestion
  threads; the guard and the registration of `add_document` are separate steps.
- The process can die between any two writes; recovery is by re-ingestion.
- Each answer of a provider costs money, and the write that keeps it comes after it.
- Calls of several threads share the cooldown table without a lock; between the test of a
  cooldown and the request another call may record a failure.
- A conversation starts every question from the checkpoint of the last one, also from
  that of a question that failed half-way.
- Provider keys are optional and may change from process to process, and a process that
  embeds shares one collection with one that does not.
- Pub/Sub delivers at least once, also while the first delivery is still at work.
- A worker thread goes on when its socket is gone; the page replaces its socket while
  answers are out.
- Floors are floats with four digits; rounding them down twice loses a little each time.

`PROJECT.json` lists each hazard at its line, with the properties that cover it or the
reason that none does yet.

## 2. Modules and the code

| Module | Models | Role |
|---|---|---|
| `DocumentLifecycle` | `services/documents.py`, upload, load-sample and ask of `server.py`, the batches of `qdrant_index.py` | detailed specification |
| `DocumentService` | what a client of those may rely on | abstract specification, implemented by `DocumentLifecycle` |
| `LLMRouter` | `llm/router.py` | detailed specification |
| `AgentGraph` | `agent/graph.py`, `agent/nodes/*`, the use they make of `citations.py`, `verify.py`, `calculator.py` | detailed specification |
| `IngestPipeline` | `ingestion/pipeline.py`, `enrich.py`, `chunking.py` (contexts), `artifacts.py` | detailed specification |
| `VectorIndex` | `retrieval/qdrant_index.py`: one collection, several processes | component, extended by `IngestWorker` |
| `IngestWorker` | `ingest_worker.py` over `VectorIndex`, with `mcp_server/main.py` as reader | composition |
| `AskSession` | `web/app.js`, `ws_ask` and `_bridge` of `server.py`, the event streams of `graph.py`, `brief.py`, `compare.py` | detailed specification of both ends |
| `Answers` | `agent/citations.py`, `verify.py`, what `brief.py` and `compare.py` read off an answer | operators |
| `EvalGate` | `evals/trajectory.py`, `run_agent_eval.py`, `gate.py` | operators |
| `ChecklistLanes` | the loops of `brief.py`, `compare.py` and the gate over answers | state machine over `Answers` and `EvalGate` |
| `MC*` | | constants for TLC |
| `*_proofs` | | theorems |

Definitions named `Mut...` are plausible wrong versions of the definition that follows
them. Nothing uses them; replacing the definition by its wrong version must break a
property, which shows that the property depends on that line of the code.

### DocumentLifecycle

`docs` is `DOCS`; `call` holds the activation of `add_document` of every caller (the
event loop and the pool threads that serve the sync `/load-sample`), with a `pc` for
each place where another thread, an exception or a crash can come in between: after the
status test (`open`), after the registration (`blob`), between the two store writes
(`name`), before the thread is started (`start`), and, for `/load-sample`, while the
worker runs (`join`). `worker` is `_ingest_worker` in each ingestion thread. `blobs` and
`names` survive a crash, and so do the `points` of a Qdrant server (`QdrantServer`).
The in-process store starts empty with each `QdrantIndex`. `ask` records a running
question: which documents its engines search and whether every search so far found the
documents whole; `acked` is a history variable, the documents whose summary a client
has received.

The event loop runs a handler without `await` to its end, so `Upload`, `AskQuestion`
and `LoadNext` require that the loop has no activation open. `/load-sample` builds
a PDF with a fresh `/ID` each time, so `LoadSample` takes a document not seen before.

`DocumentService` knows `up`, a `view` of statuses, the acknowledged documents and the
documents being searched. The refinement mapping shows the client nothing while
`load_persisted` runs.

### LLMRouter

One call per thread walks the chain of its role: `Pass` (no key, or cooling) or `Rested`
(line 99 found no cooldown), then `Send` (the request of line 103), which is a step of its
own because nothing keeps other calls out between the two. The reply is one of `Answer`,
`Empty` (an empty completion: next model, no cooldown), `ProviderError` (an error in
`_FALLBACK_ERRORS`: cooldown and next model) or `OtherError` (leaves the call).
`Unavailable` is `LLMUnavailable`. `now` is read once when the call begins, as in the code.
The clock advances only while requests are out.

`AsksOnlyRested` speaks of both steps: a call takes a model for rested only if nobody saw it
fail within the cooldown before the call began, and when the request goes out either that
is still so, or another call has recorded a failure in the gap.

### AgentGraph

`rag` holds the channels of `RAGState` a node reads from an earlier node. `Ask` lays the
input of `run_streaming` over the last checkpoint (`Memory`) or over a fresh state
(`CHECKPOINT=off`). One action per node, with the verdicts, replies and failures each
can meet; `Route` is the conditional edge. A node that raises ends the turn, and the
checkpoint keeps what the earlier nodes wrote (LangGraph drops the pending task when
the next input arrives).

### IngestPipeline

One run of `ingest` at a time (that is `OneWorkerPerDoc`), stage by stage: `parse`,
`enrich`, `context`. Every provider answer (`ParsePage`, `AskVision`, `AskContext`) is a
step of its own and the write that keeps it another (`SavePage`, `SaveCrop`,
`SaveContext`), so `Fail` and `Crash` can come in between. `keys` changes only in
`Crash`: keys belong to the environment of the process. `calls` counts the answers
bought, `cut` the runs that were refused, failed or died, and `complete` that some run
found everything, up to the cap. A context is kept under the content of its chunk, the label
of the document and the heading; `Headings` gives the last two from the pages the run has
parsed, because the label is the first heading of all pages and a heading repeated on
many is furniture. A chunk exists only if its page was parsed.

### VectorIndex and IngestWorker

`VectorIndex` is the shared part: `schema` of the collection ("none", "hybrid" with dense
vectors, "sparse" without), its `points`, and for each process holding a `QdrantIndex`
its `embedder` and the `call` of `index_chunks` it is in. Each remote call is a step, so
that others come in between: `Ensure` (the check), `Create` (which may find that another
process was faster), `Embed`, one `Upsert` per batch, `Return`; `ServerFails` is the
failure of any of them. Point ids derive from chunk ids: a document read twice with
other results leaves points of both readings.

`IngestWorker` adds the subscription and the instances of the worker. `Deliver` hands an
outstanding message to a free instance, also while another is at work on the same
object; `Skip`, `Parse`, `Index` and `Respond` are the handler; `JobFails` is a failing
download or parse; `Crash` loses an instance with its store; `Expire` gives up a message.
`Sidecars` only read: `SearchDocument` is the set of results a search for a query may give.
`Shares` says which chunks have a term of a query: a query that shares none has no sparse
candidates (`qdrant_index.py:113-121`), and then the search may find nothing. So
`AckedIsFound` asks for a hit only when the document has a term of the query (`Mentions`), and for
an answer without an error under every query.

### AskSession

One browser tab and the server. `page` holds the state of `app.js` (`doc`, the loads in
progress, the socket, `busy`, whether the field is enabled), `panel` the elements that
later events write into. `conn` is a connection seen from both sides: the questions on
their way, the events on their way, and where `ws_ask` stands (`receive`, `stream`,
`gone`). `ask` is a question and the thread that answers it; `queue` the queue of its
bridge. The user acts by `LoadDoc`, `WaitReady` and `Submit`, the page by `Receive`, the
network by `Drop`, the handler by `Refuse`, `Accept`, `Forward` and `Disconnect`, the
thread by `Yield`, `Exhausted` and `Raises`. `Script(q)` is the sequence of events a lane
streams when nothing goes wrong. The compare picker may be stale and offer the socket's own
document; the server takes that for a question (`server.py:187`), and so does `Submit`.

### Answers, EvalGate, ChecklistLanes

`Answers` takes an answer as a record: what was retrieved, the claims with their figures
and citations, the kind of text. `Kept`, `Snap` and `Citations` are
`validate_citations` and `snap_citations`, `Unverified` is `check_claims`, `Proven` and
`ExtractVerifiedFigure` are `compare.py`, `Section` and `FooterVerified` are `brief.py`.
`EvalGate` scores such answers, exactly, as fractions; floors are points of a grid, and
`Drifting` and `Slipping` are the points that float arithmetic rounds one step lower.
`ChecklistLanes` runs the loops: `BriefItem`, `CompareItem` and `EvalCase` take any answer
the agent may give, `Raises` ends a lane, `Gate` and `GateRatchet` compare a
finished evaluation with the floors.

## 3. Runs

Twelve runs; the states are distinct ones.

| Run | cfg | Bounds | Shows |
|---|---|---|---|
| `lifecycle` | `MCDocumentLifecycle.cfg` | an upload, a sample, a file that is no PDF; 2 ingestion threads, 1 pool thread, 1 connection, 1 page, 2 batches; 20,756 states | types, one worker per document, no stuck "parsing", acknowledged documents stored and served, recovery after crashes, the refinement of `DocumentService` |
| `lifecycle_faults` | `...Faults.cfg` | 2 documents, 2 connections, 2 pages, 2 batches, writes that raise, a Qdrant server; 55,794 states up to symmetry | ready means indexed, whole documents under questions, "ready" final, indexes immutable, all with faults |
| `lifecycle_stuck` | `...Stuck.cfg` | 2 documents, 1 connection, 1 page, writes that raise, in-process Qdrant | violation: finding 1 |
| `router` | `MCLLMRouter.cfg` | 3 models, one of them without a key, 2 chains that share models, 2 calls, cooldown 2, clock to 3; 154,512 states | the five router properties |
| `agent` | `MCAgentGraph.cfg` | 2 blocks, one with a figure, 2 turns, all keys; 31,307 states | evidence, budget, citations, claims beside a text, termination |
| `agent_stale` | `...Stale.cfg` | as `agent` | violation: finding 2 |
| `ingest` | `MCIngestPipeline.cfg` | 3 pages, 2 of them scans, 3 regions (a figure, two tables on scans), a heading that only a scan has, cap 2, 4 runs, 2 crashes; 50,895 states | no page lost, answers kept, free reruns, every run ends |
| `index` | `MCIngestWorker.cfg` | 2 instances, one with and one without an embedding key, and a sidecar; a PDF of 2 chunks, a broken PDF, a file that is no PDF; batches of 1; 1 fault; a query that both chunks share a term with, one that a single chunk does, one that none does; 38,264 states | acknowledged documents indexed and found by their terms, no refused upsert, uploads settle |
| `session` | `MCAskSession.cfg` | 2 documents, 2 sockets, 2 questions, drops; 361,112 states | one run per conversation, one end per question, every event in its place, every question answered |
| `session_ready` | `...Ready.cfg` | as `session`, without drops | violation: finding 3 |
| `lanes` | `MCChecklistLanes.cfg` | 3 blocks on 2 pages, 4 figures and a year, 2 units; 3 cases, 2 gate runs, floors on a grid of 16 with margin 2; 102,511 states | reported figures traceable, floors hold, no pass without answers |
| `lanes_cites` | `...Cites.cfg` | as `lanes` | violation: finding 4 |

Why the bounds are enough to meet the cases. Documents meet only through threads and
the event loop, and the guards speak of one document at a time: one document with two
would-be writers, next to another, is where they can go wrong; two batches make
a half-filled collection. Two router calls are the fewest that share a cooldown, and
the clock passes a whole cooldown and goes on. The third model of one chain has no key, and the chains
order their models differently. Two turns are the fewest in which one inherits from another,
and the budget of three searches is the code's. Two scanned pages and a page with text
make a mixed document; three regions against a cap of two meet the cap; a heading on a scanned page makes the
context keys of a run with a vision key other than those of a run without; four runs allow
a poor one, a broken one, a complete one and a rerun. Two instances are what the
deployment allows (`deploy.sh`, `--max-instances=2`), and the two kinds of writer, with and without a
key, meet at an empty collection; a document that takes two batches can be half in it. A
larger instance, in which a scan is read in two ways, gives some 1.3 million states; the
invariants hold there, but liveness takes too long for a routine run. Two sockets and two
questions are the fewest with an answer out on a connection that is no longer the page's.
The floats of the gate were examined outside TLA+: on the real grid of ten thousandths,
573 values come out one step lower when written and read again, no two of them
neighbours, which is what `FloatAssumption` keeps; 5, 8 and 14 stand for them on the
grid of 16. The safety properties of section 4 hold for every size.

Deadlock is checked for the lifecycle and for the router. The router's clock stops at
`Horizon`, but a call can always begin. It is not checked for the others, which stop when
a bound is used up: `MaxTurns`, `MaxRuns`, `MaxSockets` and `MaxAsks`, `MaxGates`, or when
every message of the subscription is settled. These, with `MaxCrashes`, `MaxFaults` and
`Horizon`, are the only bounds in guards. There the temporal properties say that no work
in hand stops half-way.

Fairness. Weak fairness on what the process does on its own: each ingestion thread,
each activation of `add_document`, the loader, and being started again after a crash
(by whoever runs the container; the repository leaves it to them); each router call
and its reply, because litellm has a timeout of its own; the graph's thread; the
pipeline's thread; the handler of each worker instance; the event loop's side of each
connection, each bridge thread, and the page's `onmessage`. Strong fairness on the
delivery of a message, because Pub/Sub redelivers it whenever an instance is free
and no single moment of freedom is promised to it.
Nothing is assumed of clients, of the network, of faults, of crashes, of keys, or of which
reply comes.
`RecoversAfterCrash` is stated for a process that eventually stays up, since nothing
recovers in a crash loop. An end in an error is an end: `CallEnds`, `TurnsEnd` and `RunsEnd`
say that nothing goes on for ever, not that it ends well, and `RerunsAreFree` takes a run
that stopped at the cap of enrichment for complete. The hazards of an error that leaves
a call, a calculator that raises and regions beyond the cap have therefore no property.

## 4. What is proved

All theorems hold for every value of the constants that satisfies the named
assumptions of each module (sets are disjoint where the code keeps them apart, sizes
are natural numbers, modes are Booleans). They cover all documents, threads,
connections, chains, calls, blocks, turns, pages, regions, runs, processes, chunks,
questions, checklists and gate runs, not just the instances above. All safety invariants
and action properties that the passing runs check are proved, and the safety part of the
refinement; of the liveness properties, what does not need fairness (see "Progress").

**Registry** (`DocumentLifecycle_proofs`): `TypeCorrect`, `OneWorker`, `ReadyWhole`,
`QuestionsSeeWholeDocuments`, `ReadyStays`, `IndexImmutable`, `AckedPersisted`,
`AckedServed`, `ParsingIsOwned`, `SettledPersisted`, `StoreIsServed`, `ImplementsSafety`,
`RecoveryInSight`. `OneWorkerPerDoc` is not inductive: nothing in it says
why the thread about to start is alone. `Ownership` adds that no two activations are
about the same document (uploads run in the event loop, samples are fresh), that an
activation past the registration finds the document "parsing" and without a thread, and
that a thread finds its document "parsing". Then nobody but its owner writes an entry
or a collection. `Indexed` rests on it: an upserting worker has put in its first `n`
batches, so a document that becomes ready is whole, and since only non-ready documents
have owners it stays whole and ready under every question. `Durable` follows an
activation from write to write, and gives the three theorems that assume a store that
does not fail (`~StoreFaults`); `LoaderKeepsAcked` carries the acknowledged documents
over the loading phase. `QuestionsSeeWholeDocuments` assumes retrieval in process
(`~McpServer`). Finding 1 shows that the first assumption cannot be dropped, and the first
observation of section 6 is about the second. Two things hold without it: a document
that was ever settled is in the store with its name (`SettledPersisted`; a failed write
leaves its document "parsing", never settled), and a server that takes requests knows
all that is in the store (`StoreIsServed`; `Recalled` follows it through the loading phase).

`ImplementsSafety` is the refinement of `DocumentService`, as `Service!Safety`, under
`~StoreFaults`: `Init` maps to its `Init`, and each step to one of its actions or to none.
There is one lemma for each kind of step: a step of which the client sees nothing
(`Unseen`), an acknowledgement (`HoldStep`, of a document that is known), a new status of
one document (`ViewUpdate`, which needs `Ownership`), a question or an answer (`SearchStep`,
of ready documents by `AsksReady`), and the phases (`PhaseMaps`, where the whole registry
appears at once, with all it acknowledged by `AckedServed`). `AsksServed` keeps questions
inside the serving phase.

**Router** (`LLMRouter_proofs`): `TypeCorrect`, `LastResort`, `CooldownsRespected`,
`FallsBackInOrder`, `CallsAreBounded`. `Walked` says what a call has done with the part of the chain
behind it: each keyed model there was asked or cooling (`Covered`), and nothing else
was asked (`Backward`). When the position passes the end of the chain, `Covered` is
`UnavailableIsEarned`. `CooldownKept` ties the table to the last failure of a model.
`TestKept` carries what the test found over the gap to the request.

**Agent** (`AgentGraph_proofs`): `TypeCorrect`, `AnswersRestOnEvidence`,
`EveryQuestionHasItsBudget`, `CitationsHold`, `ClaimsChecked`, `ComputedWithoutMemory`, `TurnsAreBounded`.
The checkpoint of a turn that failed anywhere may hold anything of its type, so the
invariant must not rely on it: `Counted` ties the attempts channel to the searches of
this turn from the reset on, `Graded` makes the verdict one on the last search,
`Grounded` says the reply was written on that verdict and cites only that evidence, and that a
reply with claims either has a text, which cite_check reads with them, or is empty.
`ComputedWithoutMemory` assumes `~Memory`: finding 2 is its violation with memory.

**Ingestion** (`IngestPipeline_proofs`): `TypeCorrect`, `PagesKept`,
`NothingPaidTwice`, `FreeReruns`, `RunsAreBounded`. `Pages` says that the pages behind the run are filled
in, blank only for want of a key, and never blank in the store. `Paid` is a count: an answer bought is in the
store, in hand, or was lost with its run. It needs `Staged` (an answer is sought only
where the store has none, so a write adds exactly one entry) and facts about
cardinalities. `FreeReruns` needs `Regions` (enrichment takes regions in order, so
those enriched are the interval up to the position) and `Stocked`: a complete run
leaves all pages, the crops of the regions within the cap, and a context for each chunk
under the very key a later run with the same keys computes.

**Index and worker** (`IngestWorker_proofs`): `TypeCorrect`, `Unrefused`, `AckedIndexed`,
`AckedFound`, `DeliveriesAreBounded`. The argument is that the collection is created once for good and points are
only added. `SchemaFits` follows a call that will send dense vectors from the moment it has
seen, or made, the schema; `Unrefused` is its last stage. `PointsOwned` says a
point belongs to a parse that holds its chunk, `SentIsStored` that the batches a call has
sent are there, `AckedIsPresent` that an acknowledged message left all points of some
reading. Where only one reading exists, its points are exactly the document's. For
`AckedFound` a chunk with a term of the query, in a reading that is all there, is a sparse
candidate (`MentionIsCandidate`), and of some candidates a search returns some
(`BestOfSome`); the schema stays once it is there, so no search meets an error.

**Session** (`AskSession_proofs`): `TypeCorrect`, `OneRun`. The handler reads the next
question only after the sentinel of the last, and the sentinel is the last thing a
thread says: `Fresh`, `Waiting` (questions not yet read have no thread), `Attended` (a
question being answered is served by its socket), `DoneIsLast`, `OneRunPerSocket`.

**Page** (`AskSessionPage_proofs`): `Quiet`, `Landing`, `AnswerInSight`. The page, the wire and the queue
of a question hold successive parts of one script. `Quiet` needs only where the one final
event is: `Traced` follows it from a question unread (`Unread`) to one in hand (`InHand`),
with the final event in the queue (`Queued`) or on the wire (`Arriving`): the page waits
only for a question in one of these stages; `OthersSpent` says that every other question of its
connection has said all it had to say, `Silent` that nothing is on its way to an idle page. `Landing` follows every event: `Flowing` says the rest
of the script, from the row the page has reached, is on the wire and in the queue in order.

**Lanes and gate** (`ChecklistLanes_proofs`): `ReportsTraceable`, `PassedAnswered`,
`FloorsStay`. The first two follow from what the operators return on one answer, or on one
list of rows. `FloorsHold` speaks of any number of ratchets with rounding errors:
`Drifted` bounds what a floor has lost against the highest value it ever had by one step
(two values that drift are not neighbours, so a floor drifts once and stays), and
`RatchetIsMet` says that the scores a floor came from still meet it.

**Progress.** Each liveness property has a safety core, a measure that the steps of the
component bring down; with fairness it comes to nought.

| Theorem | Measure | The liveness property |
|---|---|---|
| `CallsAreBounded` | models of the chain still to try, at most 3 steps each and one more; no other call sets it back, though they share the cooldowns | `CallEnds` |
| `TurnsAreBounded` | nodes of the graph still ahead, counted with the searches the budget leaves: at most 13 a turn, whatever the models say and the checkpoint holds | `TurnsEnd` |
| `RunsAreBounded` | 2 steps a page, 4 a region and 2 more, whatever the store holds; a failure or a crash ends the run at once | `RunsEnd` |
| `DeliveriesAreBounded` | batches still to send, after the checks of the collection; a call raises only by a fault or by losing the race to create the collection | `UploadsSettle` |
| `AnswerInSight` | 3 for an event the worker has yet to say, 2 for one on the queue, 1 on the wire, and the rest of the previous question before one that is not read yet | `AskedIsAnswered` |
| `RecoveryInSight` | the stage of whoever has the document: the loader, a call of `add_document`, its worker | `RecoversAfterCrash` |

The first four are about one thread, which always has a next step. In the last two, several
threads hand the work on, so that they also say that somebody can go on (`CanGo`): nobody
waits for a thread that waits for him. For a session this rests on `BInv`: a bridge of
an open connection has its worker, or DONE on its queue (`Bridged`), what is on a queue has
its bridge (`Fetched`), and the handler works on the awaited question when no other is left
to read (`InOrder`). For recovery it rests on `Recalled` and `NeverStuckParsing`, and assumes
`~StoreFaults` and that there is a thread at all; the code starts threads without a bound. That
a step is taken at all, and so the property itself, is left to fairness and to TLC.

## 5. What is only model-checked

- Liveness: `RecoversAfterCrash`, `CallEnds`, `TurnsEnd`, `RunsEnd`, `UploadsSettle`,
  `AskedIsAnswered`, as far as they go beyond the measures of section 4. Fairness and
  ENABLED are beyond the prover.
- The fairness of `DocumentService` in the refinement `ImplementsService`.
- The library's induction theorems cannot be instantiated by the installed provers, so
  what recursive definitions compute for every input cannot be proved; no module here
  needs one.

## 6. Findings

1. `documents.py:56`: a store write or thread start that raises after the registration
   leaves the document "parsing" for ever, against the comment at line 79; the guard at
   line 47 answers every retry with that entry. (`lifecycle_stuck`)
2. `graph.py:99`: the computation of an earlier question survives in the checkpoint and
   is stated and accepted in a later one, against `calculate.py:2-3`. (`agent_stale`)
3. `app.js:281`: loading another document while an answer is out leaves the busy flag
   set; the page then says "Document ready" (line 35) and silently refuses every question
   until it is reloaded. (`session_ready`)
4. `compare.py:103`: a figure is proved against all blocks its claim cites, but the row
   names the first of them, which need not hold it, against line 159. (`lanes_cites`)

Seen while modelling, without a run of their own. The models keep each as the code has it.

- `documents.py:96` and `mcp_server/main.py:35` use different collections, so with
  `MCP_SERVER_URL` the agent searches where the document is not (`mcp_client.py:3-5`).
- `calculate.py:25`: division by zero, overflow and complex results leave both handlers
  and end the turn (`calculate.py:2-3` promises a skip).
- `grade.py:21`: the digit test sees the digits of the evidence tags, so derived questions
  accept every context that is not empty (`grade.py:4-5`).
- `pipeline.py:80`: a fully cached scanned document is refused without a key
  (`documents.py:6-8`).
- `router.py:94`: cooldowns are compared with the time a call began, so a model is passed
  over for longer than `llm_cooldown_s` when an earlier request of the call was slow.
- `cite_check.py:18`: claims whose answer is the empty string are returned unread, so their
  figures go out without a caveat (lines 3-5: "never silently trusted"); the page shows a
  tick beside them (`app.js:265`), a brief has no flag on the section and vouches for it in
  its footer (`brief.py:113`). `TextClaimsAreChecked`, and the brief half of
  `ReportsAreTraceable`, are therefore stated for answers that have a text; without the
  exception they are false.
- `cite_check.py:23`: only claims are verified when there are any, so a figure in the
  answer text alone is not; the footer of a brief (`brief.py:117`) looks at claims alone too.
- `qdrant_index.py:81-84`: after the embedder is dropped, a document may have points with
  and without dense vectors.
- `citations.py:37`: "2,024" is a year once its comma is gone, and escapes verification.
- `compare.py:31`: the sign of a figure is dropped before the delta is taken; rows may be
  "partial", which `compare.py:16-17` does not list.
- `gate.py:135-141`: a ratchet can lose one ten-thousandth of a floor to float rounding
  although it "never loosens"; `--ratchet` exits 0 also when a metric has regressed; the
  margin is 0.10 where a note in `baseline.json` says 0.05.
- An abstain accuracy over no case is 0, while path metrics over no case are skipped.
- `app.js`: a click on a citation of an earlier answer opens that page of the
  document now loaded (line 74); the document is switched before the socket
  (29-34); a closed socket is neither noticed nor reopened.
- `brief.py:75-76`: one exception ends a brief, and the page drops its streamed
  sections; a second brief on a connection continues the threads of the first.

## 7. Abstractions, and what is not modelled

- Text is reduced to what the properties tell apart. In `AgentGraph` a figure is known
  by where it stands: in a block, in the computation, or nowhere. A reply has at most
  one claim with one figure, which is enough since claims are validated, snapped and
  checked one by one; evidence is on one page, and a block holds one figure.
- Retrieval returns any set of blocks. The verdict of the qa lane and every reply of a
  model are nondeterministic.
- Chunks are `Batches` per document, the same in each ingestion; a stage of
  `_ingest_worker` fails as a whole.
- In `IngestPipeline` only regions the vision model can add to have chunks. Plain-text
  chunks behave like a table that is never enriched. A write of the store is one
  committed step, as SQLite does it.
- In `VectorIndex` a chunk is a value and a batch some of them; dense vectors are present or
  not. A search returns any `TopK` of the candidates: ranks, fusion and exact hits are
  reduced to that choice. Of a query the model keeps which chunks it shares a term with; the
  vocabulary filter of line 115 is empty in a process that only reads.
- In `IngestWorker` each instance has a store of parses of its own. A malformed envelope is
  answered with 400 and concerns no message of the bucket.
- In `AskSession` an event keeps its type, question and row. Refusals (guards, an unknown
  document, a wrong mode) are one nondeterministic `Refuse`; blank questions are
  ignored by the page already; status and step events only touch the trace line; a socket
  still connecting counts as open; a failing `get_engine` ends the handler like `Drop`.
- In `Answers` figures are whole numbers with units; tokenising text into them is left to the
  regular expressions. An answer has a text, is the empty string, or abstains.
- In `EvalGate` the verdict of the LLM judge is nondeterministic; the reports, the retrieval
  tier and `run_benchmark.py` are left out: they compute averages and keep no state.
- External code: SQLite, Qdrant, Pub/Sub, litellm, LangGraph's checkpointer, WebSockets and
  PyMuPDF are modelled by how the code uses them, not in themselves.
- Not modelled: the text-layer parser (block geometry, deterministic per page, no state), the
  prompt registry (static text), the patterns of the question guards, observability
  (traces nothing reads back), the deployment files, the scripts, and the parts of section 8.

## 8. Plan

Built: the registry, the router, the agent, the pipeline, since everything rests on
them; then the shared index with its writers, the session between page and server, and
the lanes with the gate. What is left:

1. Composition of the registry with the pipeline as its worker (`Fail` and `Crash` of one
   are `IngestFails` and `Crash` of the other), and of `AskSession` with `AgentGraph`, so
   that finding 2 appears as an event on a page.
2. Pure operators with reference definitions: fusion and exact hits, section grouping of
   chunks, the calculator's evaluator.
3. The decisions of the text-layer parser (columns, headings, tables) as operators over a
   few boxes per page.

The number of runs stays small: new questions take the place of violation runs once
their findings are settled.
