----------------------------- MODULE VectorIndex -----------------------------
(***************************************************************************)
(* One collection of a Qdrant server and the processes that hold a           *)
(* QdrantIndex on it (retrieval/qdrant_index.py). Every process decides on   *)
(* its own whether the collection exists, whether it can take dense vectors   *)
(* and whether embeddings still work, while the others write: a call of       *)
(* index_chunks is one step per remote call.                                 *)
(*                                                                         *)
(* A point is kept under the id of its chunk, which the content of the        *)
(* document determines; of what it holds the model keeps the parse that       *)
(* wrote it and whether it has a dense vector.                                *)
(***************************************************************************)
EXTENDS Naturals, Sequences, FiniteSets

CONSTANTS
    Procs,     \* processes that hold a QdrantIndex on the collection
    Keyed,     \* the processes started with an embedding key
    Parses,    \* results of build_chunks: one per way a document can be read
    DocOf,     \* the document a parse is of: its content hash
    Chunks,    \* chunk ids
    ChunksOf,  \* the chunks of a parse, in reading order
    Batch,     \* the points one upsert carries
    Queries,   \* what is searched for
    Shares     \* query -> the chunks, each of a parse, whose text has a term of it

ASSUME ProcAssumption == Keyed \subseteq Procs
ASSUME ParseAssumption ==
    /\ ChunksOf \in [Parses -> Seq(Chunks)] /\ DOMAIN DocOf = Parses
    /\ \A k, l \in Parses : DocOf[k] # DocOf[l] =>
         \A i \in DOMAIN ChunksOf[k], j \in DOMAIN ChunksOf[l] : ChunksOf[k][i] # ChunksOf[l][j]
ASSUME ChunkAssumption == IsFiniteSet(Chunks)
ASSUME BatchAssumption == Batch \in Nat \ {0}
ASSUME QueryAssumption == Shares \in [Queries -> SUBSET (Parses \X Chunks)]

None == "none"
ASSUME NoneAssumption == None \notin Parses

VARIABLES
    schema,    \* the collection: absent, or the vectors it was created for
    points,    \* chunk id -> the point stored under it
    embedder,  \* process -> whether its index still embeds
    call       \* process -> its running call of index_chunks

indexVars == <<schema, points, embedder, call>>

NoPoint == [parse |-> None, dense |-> FALSE]
Point == [parse : Parses \cup {None}, dense : BOOLEAN]
Step == {"idle", "ensure", "create", "embed", "upsert", "returned", "raised"}
Call == [pc : Step, parse : Parses \cup {None}, dense : BOOLEAN, sent : Nat]
NoCall == [pc |-> "idle", parse |-> None, dense |-> FALSE, sent |-> 0]

IndexTypeOK ==
    /\ schema \in {"absent", "sparse", "hybrid"}
    /\ points \in [Chunks -> Point]
    /\ embedder \in [Procs -> BOOLEAN]
    /\ call \in [Procs -> Call]

IndexInit ==
    /\ schema = "absent"
    /\ points = [c \in Chunks |-> NoPoint]
    /\ embedder = [p \in Procs |-> p \in Keyed]
    /\ call = [p \in Procs |-> NoCall]

-----------------------------------------------------------------------------
At(p, pc) == call[p].pc = pc
Goto(p, pc) == call' = [call EXCEPT ![p].pc = pc]

(* A remote call that fails leaves index_chunks.                             *)
Raise(p) == Goto(p, "raised")

IndexChunks(p, k) ==
    /\ At(p, "idle")
    /\ call' = [call EXCEPT ![p] = [pc |-> "ensure", parse |-> k, dense |-> FALSE, sent |-> 0]]
    /\ UNCHANGED <<schema, points, embedder>>

MutFitsSchema(p) == embedder[p]

(* A collection created without a key takes no dense vector later: the index  *)
(* gives up its embedder.                                                     *)
FitsSchema(p) == embedder[p] /\ schema = "hybrid"

Ensure(p) ==
    /\ At(p, "ensure")
    /\ IF schema = "absent"
       THEN Goto(p, "create") /\ UNCHANGED embedder
       ELSE Goto(p, "embed") /\ embedder' = [embedder EXCEPT ![p] = FitsSchema(p)]
    /\ UNCHANGED <<schema, points>>

(* The check is stale by now: the server refuses a collection that another    *)
(* process has created meanwhile.                                             *)
Create(p) ==
    /\ At(p, "create")
    /\ IF schema # "absent" THEN Raise(p) /\ UNCHANGED schema
       ELSE /\ schema' = IF embedder[p] THEN "hybrid" ELSE "sparse"
            /\ Goto(p, "embed")
    /\ UNCHANGED <<points, embedder>>

(* embed_docs answers for every chunk or raises; after a failure the index    *)
(* stays without an embedder.                                                 *)
Embed(p) ==
    /\ At(p, "embed")
    /\ \E ok \in BOOLEAN :
         /\ ok => embedder[p]
         /\ embedder' = [embedder EXCEPT ![p] = ok]
         /\ call' = [call EXCEPT ![p].pc = "upsert", ![p].dense = ok]
    /\ UNCHANGED <<schema, points>>

Upto(k, n) == IF n < Len(ChunksOf[k]) THEN n ELSE Len(ChunksOf[k])

(* The points of the next batch, laid over what is stored under their ids.    *)
Written(p) ==
    LET k == call[p].parse
        batch == {ChunksOf[k][i] : i \in (call[p].sent + 1)..Upto(k, call[p].sent + Batch)}
    IN  [c \in Chunks |-> IF c \in batch THEN [parse |-> k, dense |-> call[p].dense]
                          ELSE points[c]]

AllSent(p) == call[p].sent >= Len(ChunksOf[call[p].parse])
Refused(p) == At(p, "upsert") /\ ~AllSent(p) /\ call[p].dense /\ schema # "hybrid"

Upsert(p) ==
    /\ At(p, "upsert") /\ ~AllSent(p)
    /\ IF Refused(p) THEN Raise(p) /\ UNCHANGED points
       ELSE points' = Written(p) /\ call' = [call EXCEPT ![p].sent = @ + Batch]
    /\ UNCHANGED <<schema, embedder>>

Return(p) ==
    /\ At(p, "upsert") /\ AllSent(p)
    /\ Goto(p, "returned")
    /\ UNCHANGED <<schema, points, embedder>>

IndexStep(p) ==
    Ensure(p) \/ Create(p) \/ Embed(p) \/ Upsert(p) \/ Return(p)

(* The server does not answer. Of a request that times out nobody knows       *)
(* whether it was carried out.                                                *)
ServerFails(p) ==
    /\ call[p].pc \in {"ensure", "create", "upsert"} /\ ~(At(p, "upsert") /\ AllSent(p))
    /\ Raise(p)
    /\ \/ UNCHANGED <<schema, points>>
       \/ /\ At(p, "create") /\ schema = "absent"
          /\ schema' = IF embedder[p] THEN "hybrid" ELSE "sparse"
          /\ UNCHANGED points
       \/ At(p, "upsert") /\ ~Refused(p) /\ points' = Written(p) /\ UNCHANGED schema
    /\ UNCHANGED embedder

EndCall(p) == call' = [call EXCEPT ![p] = NoCall]

(* A process that comes up again has forgotten that embedding failed.         *)
IndexRestart(p) ==
    /\ EndCall(p)
    /\ embedder' = [embedder EXCEPT ![p] = p \in Keyed]
    /\ UNCHANGED <<schema, points>>

-----------------------------------------------------------------------------
(* Reading. Every search has the doc_id as a filter.                          *)
PointsOf(d) == {c \in Chunks : points[c].parse # None /\ DocOf[points[c].parse] = d}

(* Sparse vectors match by their terms: a query that has none, or shares none   *)
(* with the document, has no candidates.                                       *)
SparseCandidates(q, d) == {c \in PointsOf(d) : <<points[c].parse, c>> \in Shares[q]}

(* Vectors are near or far but always match. A process that never indexed      *)
(* keeps the embedder it started with, whatever the collection was created     *)
(* for: the server refuses its dense queries.                                  *)
DenseCandidates(p, d) ==
    IF FitsSchema(p) THEN {c \in PointsOf(d) : points[c].dense} ELSE {}

(* retrieve fuses both; after a failed dense query it goes on with the sparse   *)
(* candidates.                                                                *)
Candidates(p, q, d) ==
    {SparseCandidates(q, d), SparseCandidates(q, d) \cup DenseCandidates(p, d)}

Present(k) == \A i \in DOMAIN ChunksOf[k] : points[ChunksOf[k][i]].parse # None
Whole(k) == \A i \in DOMAIN ChunksOf[k] : points[ChunksOf[k][i]].parse = k

===============================================================================
