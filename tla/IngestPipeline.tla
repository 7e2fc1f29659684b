---------------------------- MODULE IngestPipeline ----------------------------
(***************************************************************************)
(* ingest (ingestion/pipeline.py) of one document, run after run: parse the  *)
(* pages, enrich the regions the text layer cannot read, put every chunk in   *)
(* context. The artifact store keeps what each call produced, so a run that   *)
(* failed, or died with its process, resumes where it was. Provider keys come *)
(* with the environment of the process and may differ in the next one.        *)
(*                                                                         *)
(* Regions are the figures and borderless tables, of pages with a text layer   *)
(* or, in what a model read off them, of scanned ones; each becomes one chunk. *)
(* Chunks of plain text are like those of tables beyond the cap, and left out. *)
(* Every provider answer is a step of its own and the write that keeps it      *)
(* another.                                                                *)
(***************************************************************************)
EXTENDS Naturals, FiniteSets

CONSTANTS
    NPages,      \* pages of the document
    Scanned,     \* the pages without a text layer
    NRegions,    \* regions for the vision model, in reading order
    RegionOn,    \* the page of a region
    Figure,      \* the regions with no text of their own; the others are tables
    Words,       \* what a chunk is situated by: a label of the document and a heading
    Headings,    \* the pages parsed -> region -> its label and heading
    EnrichCap,   \* settings.enrich_max_blocks
    MaxCrashes,  \* bound: crashes of the process
    MaxRuns      \* bound: runs of ingest

Page == 1..NPages
Region == 1..NRegions
Role == {"vision", "fast"}

ASSUME SizeAssumption == NPages \in Nat \ {0} /\ NRegions \in Nat /\ EnrichCap \in Nat
ASSUME ScanAssumption == Scanned \subseteq Page
ASSUME RegionAssumption == Figure \subseteq Region /\ RegionOn \in [Region -> Page]
ASSUME HeadingAssumption == Headings \in [SUBSET Page -> [Region -> Words]]
ASSUME BoundAssumption == MaxCrashes \in Nat /\ MaxRuns \in Nat

VARIABLES
    pc,        \* the stage of the run: see Stage
    at,        \* the page or region the stage is at
    keys,      \* the roles the process has a provider key for
    out,       \* pages_blocks of the run: each page "none", "blank" or "parsed"
    rich,      \* the regions whose content the run took from the vision model
    page_artifacts,  \* persisted: what the store keeps as each page
    crops,     \* persisted: regions with a vlm1 entry
    contexts,  \* persisted: ctx1 entries, see ContextKey
    runs,      \* runs begun
    crashes,   \* crashes so far
    cut,       \* history: runs that failed or died
    calls,     \* history: answers bought from providers
    complete   \* history: a run has finished with nothing missing

vars == <<pc, at, keys, out, rich, page_artifacts, crops, contexts, runs, crashes, cut,
          calls, complete>>
result == <<out, rich>>
store == <<page_artifacts, crops, contexts>>
tally == <<runs, crashes, cut>>

Stage == {"idle", "parse", "save_page", "enrich", "save_crop", "context", "save_context",
          "done", "failed"}

Blocks == {"none", "blank", "parsed"}

TypeOK ==
    /\ pc \in Stage /\ at \in Nat /\ keys \subseteq Role
    /\ pc \in {"parse", "save_page"} => at \in Page
    /\ pc \in {"save_crop", "save_context"} => at \in Region
    /\ out \in [Page -> Blocks] /\ page_artifacts \in [Page -> Blocks]
    /\ rich \subseteq Region /\ crops \subseteq Region /\ contexts \subseteq Region \X BOOLEAN \X Words
    /\ runs \in 0..MaxRuns /\ crashes \in 0..MaxCrashes /\ cut \in 0..runs
    /\ calls \in Nat /\ complete \in BOOLEAN

Nothing == [p \in Page |-> "none"]

Init ==
    /\ pc = "idle" /\ at = 0 /\ keys \in SUBSET Role
    /\ out = Nothing /\ rich = {}
    /\ page_artifacts = Nothing /\ crops = {} /\ contexts = {}
    /\ runs = 0 /\ crashes = 0 /\ cut = 0
    /\ calls = 0 /\ complete = FALSE

-----------------------------------------------------------------------------
CachedPages == {p \in Page : page_artifacts[p] # "none"}

Resting == pc \in {"idle", "done", "failed"}

(* A run begins: the pages are routed by their text, and a document of scans  *)
(* is refused when there is no vision key.                                   *)
Begin ==
    /\ Resting /\ runs < MaxRuns
    /\ runs' = runs + 1
    /\ out' = Nothing /\ rich' = {}
    /\ IF Scanned = Page /\ "vision" \notin keys
         THEN pc' = "failed" /\ at' = 0 /\ cut' = cut + 1
         ELSE pc' = "parse" /\ at' = 1 /\ cut' = cut
    /\ UNCHANGED <<keys, store, crashes, calls, complete>>

MutNextPage ==
    IF at <= NPages THEN pc' = "parse" /\ at' = at + 1 ELSE pc' = "enrich" /\ at' = 1

NextPage ==
    IF at < NPages THEN pc' = "parse" /\ at' = at + 1 ELSE pc' = "enrich" /\ at' = 1

Unreadable == at \in Scanned /\ "vision" \notin keys

PageFromCache ==
    /\ pc = "parse" /\ at \in CachedPages
    /\ out' = [out EXCEPT ![at] = page_artifacts[at]]
    /\ NextPage
    /\ UNCHANGED <<keys, rich, store, calls, complete, tally>>

MutSkipPage ==
    /\ pc = "parse" /\ at \notin CachedPages /\ Unreadable
    /\ out' = [out EXCEPT ![at] = "blank"]
    /\ page_artifacts' = [page_artifacts EXCEPT ![at] = "blank"]
    /\ NextPage
    /\ UNCHANGED <<keys, rich, crops, contexts, calls, complete, tally>>

(* A scanned page of a mixed document stays blank, and uncached, without a key. *)
SkipPage ==
    /\ pc = "parse" /\ at \notin CachedPages /\ Unreadable
    /\ out' = [out EXCEPT ![at] = "blank"]
    /\ NextPage
    /\ UNCHANGED <<keys, rich, store, calls, complete, tally>>

ParsePage ==
    /\ pc = "parse" /\ at \notin CachedPages /\ ~Unreadable
    /\ pc' = "save_page"
    /\ calls' = IF at \in Scanned THEN calls + 1 ELSE calls
    /\ UNCHANGED <<at, keys, result, store, complete, tally>>

SavePage ==
    /\ pc = "save_page"
    /\ page_artifacts' = [page_artifacts EXCEPT ![at] = "parsed"]
    /\ out' = [out EXCEPT ![at] = "parsed"]
    /\ NextPage
    /\ UNCHANGED <<keys, rich, crops, contexts, calls, complete, tally>>

-----------------------------------------------------------------------------
(* enrich_blocks: in reading order, up to the cap, which counts the regions   *)
(* taken from the cache too; not at all without a key.                        *)
ToContext == pc' = "context" /\ at' = 1
Enriching ==
    pc = "enrich" /\ "vision" \in keys /\ at <= NRegions /\ Cardinality(rich) < EnrichCap

NextRegion(stage) == pc' = stage /\ at' = at + 1

MutEnrichFromCache ==
    /\ Enriching /\ at \in crops
    /\ rich' = rich \cup {at}
    /\ UNCHANGED <<pc, at, keys, out, store, calls, complete, tally>>

EnrichFromCache ==
    /\ Enriching /\ at \in crops
    /\ rich' = rich \cup {at}
    /\ NextRegion("enrich")
    /\ UNCHANGED <<keys, out, store, calls, complete, tally>>

AskVision ==
    /\ Enriching /\ at \notin crops
    /\ pc' = "save_crop"
    /\ calls' = calls + 1
    /\ UNCHANGED <<at, keys, result, store, complete, tally>>

MutSaveCrop ==
    /\ pc = "save_crop"
    /\ rich' = rich \cup {at}
    /\ NextRegion("enrich")
    /\ UNCHANGED <<keys, out, store, calls, complete, tally>>

SaveCrop ==
    /\ pc = "save_crop"
    /\ crops' = crops \cup {at}
    /\ rich' = rich \cup {at}
    /\ NextRegion("enrich")
    /\ UNCHANGED <<keys, out, page_artifacts, contexts, calls, complete, tally>>

(* The chain is exhausted: the stage ends with what it has.                   *)
VisionUnavailable ==
    /\ Enriching /\ at \notin crops
    /\ ToContext
    /\ UNCHANGED <<keys, result, store, calls, complete, tally>>

Enriched ==
    /\ pc = "enrich" /\ ~Enriching
    /\ ToContext
    /\ UNCHANGED <<keys, result, store, calls, complete, tally>>

-----------------------------------------------------------------------------
(* add_context. A page left blank has no chunks, and neither has a figure      *)
(* nobody described.                                                          *)
Situating == pc = "context" /\ "fast" \in keys /\ at <= NRegions
Parsed == {p \in Page : out[p] = "parsed"}
Chunk(r) == RegionOn[r] \in Parsed /\ (r \in rich \/ r \notin Figure)

(* The content, which is not the same before and after enrichment, and the     *)
(* label and heading. Those depend on what was parsed: the label is the first  *)
(* heading of all pages, and a heading that repeats on many is furniture.      *)
ContextKey(r) == <<r, r \in rich, Headings[Parsed][r]>>

NoChunk ==
    /\ Situating /\ ~Chunk(at)
    /\ NextRegion("context")
    /\ UNCHANGED <<keys, result, store, calls, complete, tally>>

ContextFromCache ==
    /\ Situating /\ Chunk(at) /\ ContextKey(at) \in contexts
    /\ NextRegion("context")
    /\ UNCHANGED <<keys, result, store, calls, complete, tally>>

AskContext ==
    /\ Situating /\ Chunk(at) /\ ContextKey(at) \notin contexts
    /\ pc' = "save_context"
    /\ calls' = calls + 1
    /\ UNCHANGED <<at, keys, result, store, complete, tally>>

SaveContext ==
    /\ pc = "save_context"
    /\ contexts' = contexts \cup {ContextKey(at)}
    /\ NextRegion("context")
    /\ UNCHANGED <<keys, result, page_artifacts, crops, calls, complete, tally>>

Finish(whole) ==
    /\ pc' = "done" /\ at' = 0
    /\ complete' = (complete \/ whole)
    /\ UNCHANGED <<keys, result, store, calls, tally>>

FastUnavailable ==
    Situating /\ Chunk(at) /\ ContextKey(at) \notin contexts /\ Finish(FALSE)

(* Nothing is missing: all keys, every page, every region up to the cap, and   *)
(* a context for every chunk.                                                *)
Whole ==
    /\ keys = Role
    /\ rich = {r \in Region : r <= EnrichCap}
    /\ \A r \in Region : Chunk(r) => ContextKey(r) \in contexts
Contextualized == pc = "context" /\ ~Situating /\ Finish(Whole)

-----------------------------------------------------------------------------
(* An exhausted chain while transcribing a page, or any error of the store or  *)
(* of a provider the router does not catch: the exception leaves ingest.       *)
Fail ==
    /\ ~Resting
    /\ pc' = "failed" /\ at' = 0 /\ cut' = cut + 1
    /\ UNCHANGED <<keys, result, store, runs, crashes, calls, complete>>

(* The process dies; the next one may find other keys in its environment.     *)
Crash ==
    /\ crashes < MaxCrashes
    /\ crashes' = crashes + 1
    /\ cut' = IF Resting THEN cut ELSE cut + 1
    /\ pc' = "idle" /\ at' = 0
    /\ keys' \in SUBSET Role
    /\ out' = Nothing /\ rich' = {}
    /\ UNCHANGED <<store, runs, calls, complete>>

Work ==
    \/ PageFromCache \/ SkipPage \/ ParsePage \/ SavePage
    \/ EnrichFromCache \/ AskVision \/ SaveCrop \/ VisionUnavailable \/ Enriched
    \/ NoChunk \/ ContextFromCache \/ AskContext \/ SaveContext
    \/ FastUnavailable \/ Contextualized

Next == Begin \/ Work \/ Fail \/ Crash

Spec == Init /\ [][Next]_vars

(* The thread of the run goes on; calls answer or time out.                   *)
FairSpec == Spec /\ WF_vars(Work)

-----------------------------------------------------------------------------
(* Whatever runs failed, crashed or had to do without a key before, a run with *)
(* a vision key that finishes has every page: nothing a poorer run left behind *)
(* in the store stands in for a page (parse_pdf's "NOT cached").               *)
NoPageLost == pc = "done" /\ "vision" \in keys => \A p \in Page : out[p] = "parsed"

(* No answer is paid for twice, over all runs: every answer bought is in the    *)
(* store, but for the one in hand and at most one for each run cut short        *)
(* ("a page is OCR'd exactly once; reruns resume").                            *)
Holding == pc \in {"save_crop", "save_context"} \/ (pc = "save_page" /\ at \in Scanned)
AnswersAreKept ==
    calls <= Cardinality(CachedPages \cap Scanned) + Cardinality(crops) + Cardinality(contexts)
             + cut + (IF Holding THEN 1 ELSE 0)

(* Once a run has got everything there is, no later run with the same keys      *)
(* calls a provider (artifacts.py: ingestion is idempotent).                   *)
RerunsAreFree == [][complete /\ keys = Role => calls' = calls]_vars

(* A run comes to an end.                                                     *)
RunsEnd == ~Resting ~> Resting

===============================================================================
