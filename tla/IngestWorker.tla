----------------------------- MODULE IngestWorker ----------------------------
(***************************************************************************)
(* The Pub/Sub ingest worker (ingest_worker.py) over one shared collection    *)
(* (VectorIndex), with the MCP sidecar that reads it.                         *)
(*                                                                         *)
(* Pub/Sub keeps a message until a push is answered 2xx in time and delivers  *)
(* it at least once: again after any other answer, and again while an answer  *)
(* is late. The handler awaits nothing after the body is read, so an          *)
(* instance of the service handles one delivery at a time; two instances      *)
(* (--max-instances=2) may handle the same object at once, each with the page *)
(* cache of its own container.                                                *)
(***************************************************************************)
EXTENDS VectorIndex

CONSTANTS
    Objects,    \* uploaded objects: each one message
    ContentOf,  \* the document an object holds
    Pdfs,       \* the objects whose name ends in .pdf
    Sidecars,   \* the processes among Procs that only read
    TopK,       \* results a search returns
    MaxFaults   \* bound: crashes, failed calls and late answers

Docs == {ContentOf[o] : o \in Objects}
ParsesOf(o) == {k \in Parses : DocOf[k] = ContentOf[o]}
Instances == Procs \ Sidecars

ASSUME ObjectAssumption ==
    Objects \subseteq DOMAIN ContentOf /\ Pdfs \subseteq Objects /\ None \notin Objects
ASSUME SidecarAssumption == Sidecars \subseteq Procs
ASSUME WorkerBoundAssumption == TopK \in Nat \ {0} /\ MaxFaults \in Nat

VARIABLES
    message,  \* object -> its message on the subscription
    job,      \* instance -> the delivery it handles
    cache,    \* instance -> the parses its page cache holds
    faults    \* bounded count of faults

vars == <<schema, points, embedder, call, message, job, cache, faults>>

JobStep == {"idle", "received", "index"}
Job == [pc : JobStep, object : Objects \cup {None}, parse : Parses \cup {None}]
NoJob == [pc |-> "idle", object |-> None, parse |-> None]

TypeOK ==
    /\ IndexTypeOK
    /\ message \in [Objects -> {"outstanding", "acked", "expired"}]
    /\ job \in [Instances -> Job]
    /\ cache \in [Instances -> SUBSET Parses]
    /\ faults \in 0..MaxFaults
    /\ \A w \in Instances :
         /\ job[w].pc = "index" <=> call[w].pc # "idle"
         /\ job[w].pc = "index" => call[w].parse = job[w].parse /\ job[w].parse # None
         /\ job[w].pc # "idle" => job[w].object # None

Init ==
    /\ IndexInit
    /\ message = [o \in Objects |-> "outstanding"]
    /\ job = [w \in Instances |-> NoJob]
    /\ cache = [w \in Instances |-> {}]
    /\ faults = 0

-----------------------------------------------------------------------------
Doing(w, pc) == job[w].pc = pc
Fault == faults < MaxFaults /\ faults' = faults + 1

(* A push of an outstanding message, the first or one of many.                *)
Deliver(w, o) ==
    /\ message[o] = "outstanding" /\ Doing(w, "idle")
    /\ job' = [job EXCEPT ![w] = [pc |-> "received", object |-> o, parse |-> None]]
    /\ UNCHANGED <<indexVars, message, cache, faults>>

(* 200 acknowledges the message if it is still there; after 500 it stays.     *)
Ack(w) == message' = [message EXCEPT ![job[w].object] = IF @ = "outstanding" THEN "acked" ELSE @]
Done(w) == job' = [job EXCEPT ![w] = NoJob]

MutSkip(w) ==
    /\ Doing(w, "received") /\ job[w].object \notin Pdfs
    /\ Done(w)
    /\ UNCHANGED <<indexVars, message, cache, faults>>

(* An object that is not a PDF is acknowledged and left alone.               *)
Skip(w) ==
    /\ Doing(w, "received") /\ job[w].object \notin Pdfs
    /\ Ack(w) /\ Done(w)
    /\ UNCHANGED <<indexVars, cache, faults>>

(* Download, then ingest: from the page cache where it can; what a model reads *)
(* off a scan may come out differently each time. A document with no parse     *)
(* (corrupt, or scanned without a vision key) raises IngestError.             *)
Readings(w) ==
    LET o == job[w].object
    IN  IF cache[w] \cap ParsesOf(o) # {} THEN cache[w] \cap ParsesOf(o) ELSE ParsesOf(o)

Parse(w) ==
    /\ Doing(w, "received") /\ job[w].object \in Pdfs
    /\ IF ParsesOf(job[w].object) = {} THEN Done(w) /\ UNCHANGED <<cache, indexVars>>
       ELSE \E k \in Readings(w) :
              /\ cache' = [cache EXCEPT ![w] = @ \cup {k}]
              /\ job' = [job EXCEPT ![w].pc = "index", ![w].parse = k]
              /\ IndexChunks(w, k)
    /\ UNCHANGED <<message, faults>>

(* The call of index_chunks, step by step.                                   *)
Index(w) ==
    /\ Doing(w, "index") /\ IndexStep(w)
    /\ UNCHANGED <<message, job, cache, faults>>

MutRespondAborted(w) ==
    /\ Doing(w, "index") /\ At(w, "returned")
    /\ Ack(w) /\ Done(w)
    /\ UNCHANGED <<indexVars, cache, faults>>

MutRespond(w) ==
    /\ Doing(w, "index") /\ call[w].pc \in {"returned", "raised"}
    /\ Ack(w)
    /\ Done(w) /\ EndCall(w)
    /\ UNCHANGED <<schema, points, embedder, cache, faults>>

(* After index_chunks the name of the document goes to the store of the        *)
(* instance, which nobody else reads.                                         *)
Respond(w) ==
    /\ Doing(w, "index") /\ call[w].pc \in {"returned", "raised"}
    /\ IF At(w, "returned") THEN Ack(w) ELSE UNCHANGED message
    /\ Done(w) /\ EndCall(w)
    /\ UNCHANGED <<schema, points, embedder, cache, faults>>

Handle(w) == Skip(w) \/ Parse(w) \/ Index(w) \/ Respond(w)

(* A download, a model or a store fails, or the answer comes too late: the    *)
(* delivery ends without an acknowledgement. Or the server fails a request of  *)
(* index_chunks.                                                              *)
JobFails(w) ==
    /\ Fault
    /\ \/ /\ Doing(w, "received") \/ (Doing(w, "index") /\ At(w, "returned"))
          /\ Done(w) /\ EndCall(w)
          /\ UNCHANGED <<schema, points, embedder>>
       \/ Doing(w, "index") /\ ServerFails(w) /\ UNCHANGED job
    /\ UNCHANGED <<message, cache>>

(* The instance is stopped; another comes up in its place with an empty disk.  *)
Crash(w) ==
    /\ ~Doing(w, "idle") /\ Fault
    /\ job' = [job EXCEPT ![w] = NoJob]
    /\ cache' = [cache EXCEPT ![w] = {}]
    /\ IndexRestart(w)
    /\ UNCHANGED message

(* The retention of the subscription passes.                                 *)
Expire(o) ==
    /\ message[o] = "outstanding"
    /\ message' = [message EXCEPT ![o] = "expired"]
    /\ UNCHANGED <<indexVars, job, cache, faults>>

-----------------------------------------------------------------------------
Best(cands) ==
    {S \in SUBSET cands : Cardinality(S) = IF Cardinality(cands) < TopK THEN Cardinality(cands) ELSE TopK}

Error == [status |-> "error", hits |-> {}]
Hits(S) == [status |-> "hits", hits |-> S]

MutSearchDocument(p, q, d) ==
    IF schema = "absent" \/ (embedder[p] /\ schema = "sparse") THEN {Error}
    ELSE {Hits(S) : S \in UNION {Best(cands) : cands \in Candidates(p, q, d)}}

(* What search_document can answer in process p, and so the client: it changes *)
(* nothing. An error of the retrieval goes back as text.                      *)
SearchDocument(p, q, d) ==
    IF schema = "absent" THEN {Error}
    ELSE {Hits(S) : S \in UNION {Best(cands) : cands \in Candidates(p, q, d)}}

Work ==
    \E w \in Instances :
        \/ \E o \in Objects : Deliver(w, o)
        \/ Handle(w) \/ JobFails(w) \/ Crash(w)
Next == Work \/ \E o \in Objects : Expire(o)

Spec == Init /\ [][Next]_vars

(* A handler that runs goes on, its calls answer or fail, and Pub/Sub delivers *)
(* a message again and again while an instance is free.                        *)
FairSpec ==
    /\ Spec
    /\ \A w \in Instances : WF_vars(Handle(w))
    /\ \A o \in Objects : SF_vars(\E w \in Instances : Deliver(w, o))

-----------------------------------------------------------------------------
Ingestable(o) == o \in Pdfs /\ ParsesOf(o) # {}

(* A message is acknowledged only when its object needs nothing more, and no   *)
(* delivery before, after or beside that one undoes it: some parse of the      *)
(* object has all its points. "Ingestion is idempotent": when the document     *)
(* reads the same every time, any number of deliveries, on any instances,      *)
(* crashed or not, leave exactly its points.                                  *)
AckedIsIndexed ==
    \A o \in Pdfs : message[o] = "acked" =>
        /\ \E k \in ParsesOf(o) : Present(k)
        /\ \A k \in ParsesOf(o) : ParsesOf(o) = {k} =>
             Whole(k) /\ PointsOf(ContentOf[o]) = {ChunksOf[k][i] : i \in DOMAIN ChunksOf[k]}

(* "instead of 400-ing every upsert": no process sends a dense vector to a     *)
(* collection that was created without them, whoever created it and whenever.  *)
NeverRefused == \A p \in Procs : ~Refused(p)

(* However the object reads, it has a chunk with a term of the query, in this    *)
(* and in every other reading that has this chunk.                            *)
Mentions(o, q) ==
    \A k \in ParsesOf(o) : \E i \in DOMAIN ChunksOf[k] :
        \A l \in ParsesOf(o) : \A j \in DOMAIN ChunksOf[l] :
            ChunksOf[l][j] = ChunksOf[k][i] => <<l, ChunksOf[l][j]>> \in Shares[q]

(* What was acknowledged is found by the sidecar under any query with a term of  *)
(* its text, whether the sidecar embeds queries or not, whether its dense       *)
(* queries are answered, and whatever the collection was created for. Under     *)
(* other queries it may be that nothing is found, without an error: the         *)
(* collection is there, and a refused dense query is no reason to give up.      *)
AckedIsFound ==
    \A o \in Pdfs, p \in Sidecars, q \in Queries : message[o] = "acked" =>
        \A r \in SearchDocument(p, q, ContentOf[o]) :
            r.status = "hits" /\ (Mentions(o, q) => r.hits # {})

(* Every upload that can be ingested is, before its message expires, whatever  *)
(* else the subscription delivers over and over.                              *)
UploadsSettle == \A o \in Objects :
    (Ingestable(o) \/ o \notin Pdfs) /\ message[o] = "outstanding" ~> message[o] # "outstanding"

===============================================================================
