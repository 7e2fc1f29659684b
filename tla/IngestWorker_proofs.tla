-------------------------- MODULE IngestWorker_proofs --------------------------
(***************************************************************************)
(* Theorems about the shared collection under at-least-once delivery, for any *)
(* number of instances, sidecars, objects and parses, any batch size and any   *)
(* number of faults. The collection is created once and for good, so what a    *)
(* call concludes from it stays true; a point, once stored, may be written     *)
(* over but is never removed, so what a call has sent stays stored.            *)
(***************************************************************************)
EXTENDS IngestWorker, FiniteSetTheorems, TLAPS

(* A delivery indexes a parse of its own object.                              *)
JobsKnown ==
    \A w \in Instances : job[w].pc = "index" =>
        job[w].object \in Pdfs /\ job[w].parse \in ParsesOf(job[w].object)

(* A call past the check knows a collection, and one that has dense vectors, or  *)
(* is about to make them, one that takes them.                                *)
SchemaFits ==
    \A p \in Procs :
        /\ At(p, "embed") /\ embedder[p] => schema = "hybrid"
        /\ call[p].dense => schema = "hybrid"
        /\ call[p].pc \in {"embed", "upsert", "returned"} => schema # "absent"

(* A point lies under an id of the parse that wrote it.                        *)
PointsOwned ==
    \A c \in Chunks : points[c].parse # None =>
        /\ schema # "absent"
        /\ \E i \in DOMAIN ChunksOf[points[c].parse] : ChunksOf[points[c].parse][i] = c

SentIsStored ==
    \A w \in Instances : job[w].pc = "index" =>
        /\ \A i \in 1..Upto(call[w].parse, call[w].sent) :
             points[ChunksOf[call[w].parse][i]].parse # None
        /\ At(w, "returned") => AllSent(w)

AckedIsPresent ==
    \A o \in Pdfs : message[o] = "acked" =>
        schema # "absent" /\ \E k \in ParsesOf(o) : Present(k)

IInv == TypeOK /\ JobsKnown /\ SchemaFits /\ PointsOwned /\ SentIsStored /\ AckedIsPresent

-----------------------------------------------------------------------------
LEMMA ParsesTyped ==
    ASSUME NEW k \in Parses
    PROVE  /\ ChunksOf[k] \in Seq(Chunks) /\ Len(ChunksOf[k]) \in Nat
           /\ DOMAIN ChunksOf[k] = 1..Len(ChunksOf[k])
           /\ \A i \in DOMAIN ChunksOf[k] : ChunksOf[k][i] \in Chunks
BY ParseAssumption

(* What a batch does to the collection.                                       *)
LEMMA WrittenPoints ==
    ASSUME TypeOK, NEW w \in Instances, Doing(w, "index")
    PROVE  /\ Written(w) \in [Chunks -> Point]
           /\ call[w].parse \in Parses
           /\ \A c \in Chunks :
                \/ Written(w)[c] = points[c]
                \/ /\ Written(w)[c].parse = call[w].parse
                   /\ \E i \in DOMAIN ChunksOf[call[w].parse] : ChunksOf[call[w].parse][i] = c
           /\ \A i \in (call[w].sent + 1)..Upto(call[w].parse, call[w].sent + Batch) :
                Written(w)[ChunksOf[call[w].parse][i]].parse = call[w].parse
<1> DEFINE k == call[w].parse
           batch == {ChunksOf[k][i] : i \in (call[w].sent + 1)..Upto(k, call[w].sent + Batch)}
<1>1. k \in Parses /\ call[w] \in Call /\ points \in [Chunks -> Point]
  BY DEF TypeOK, IndexTypeOK, Doing, Instances, Call
<1>2. Written(w) = [c \in Chunks |-> IF c \in batch THEN [parse |-> k, dense |-> call[w].dense]
                                     ELSE points[c]]
  BY DEF Written
<1>3. ASSUME NEW i \in (call[w].sent + 1)..Upto(k, call[w].sent + Batch)
      PROVE  i \in DOMAIN ChunksOf[k] /\ ChunksOf[k][i] \in Chunks /\ ChunksOf[k][i] \in batch
  BY <1>1, ParsesTyped, BatchAssumption DEF Upto, Call
<1>4. [parse |-> k, dense |-> call[w].dense] \in Point
  BY <1>1 DEF Point, Call
<1>5. \A c \in batch : \E i \in DOMAIN ChunksOf[k] : ChunksOf[k][i] = c
  BY <1>3
<1> HIDE DEF batch
<1> QED
  BY <1>1, <1>2, <1>3, <1>4, <1>5

(* A step of a call, or of a server that fails it.                             *)
LEMMA IndexEffect ==
    ASSUME TypeOK, NEW w \in Instances, Doing(w, "index"), IndexStep(w) \/ ServerFails(w)
    PROVE  /\ call' \in [Procs -> Call] /\ embedder' \in [Procs -> BOOLEAN]
           /\ \A p \in Procs \ {w} : call'[p] = call[p] /\ embedder'[p] = embedder[p]
           /\ call'[w].pc # "idle" /\ call'[w].parse = call[w].parse
           /\ schema' \in {"absent", "sparse", "hybrid"}
           /\ schema # "absent" => schema' = schema
           /\ points' = points \/ (At(w, "upsert") /\ points' = Written(w))
           /\ call'[w].sent = call[w].sent
                \/ (call'[w].sent = call[w].sent + Batch /\ points' = Written(w))
           /\ call'[w].pc = "returned" => AllSent(w) /\ call'[w].sent = call[w].sent
<1>0. /\ w \in Procs /\ call \in [Procs -> Call] /\ embedder \in [Procs -> BOOLEAN]
      /\ schema \in {"absent", "sparse", "hybrid"}
  BY DEF TypeOK, IndexTypeOK, Instances
<1>1. CASE Ensure(w)
  <2>1. call' = [call EXCEPT ![w].pc = "create"] \/ call' = [call EXCEPT ![w].pc = "embed"]
    BY <1>1 DEF Ensure, Goto
  <2>2. \/ embedder' = embedder
        \/ \E fits \in BOOLEAN : embedder' = [embedder EXCEPT ![w] = fits]
    BY <1>1 DEF Ensure, FitsSchema
  <2>3. UNCHANGED <<schema, points>>
    BY <1>1 DEF Ensure
  <2> QED
    BY <1>0, <2>1, <2>2, <2>3 DEF Call, Step
<1>2. CASE Create(w)
  <2>1. call' = [call EXCEPT ![w].pc = "raised"] \/ call' = [call EXCEPT ![w].pc = "embed"]
    BY <1>2 DEF Create, Goto, Raise
  <2>2. schema' = schema \/ (schema = "absent" /\ schema' \in {"hybrid", "sparse"})
    BY <1>2 DEF Create
  <2>3. UNCHANGED <<points, embedder>>
    BY <1>2 DEF Create
  <2> QED
    BY <1>0, <2>1, <2>2, <2>3 DEF Call, Step
<1>3. CASE Embed(w)
  <2>1. PICK ok \in BOOLEAN :
          /\ embedder' = [embedder EXCEPT ![w] = ok]
          /\ call' = [call EXCEPT ![w].pc = "upsert", ![w].dense = ok]
    BY <1>3 DEF Embed
  <2>2. UNCHANGED <<schema, points>>
    BY <1>3 DEF Embed
  <2> QED
    BY <1>0, <2>1, <2>2 DEF Call, Step
<1>4. CASE Upsert(w)
  <2>1. CASE Refused(w)
    BY <1>0, <1>4, <2>1 DEF Upsert, Goto, Raise, Call, Step
  <2>2. CASE ~Refused(w)
    <3>1. points' = Written(w) /\ call' = [call EXCEPT ![w].sent = @ + Batch]
      BY <1>4, <2>2 DEF Upsert
    <3>2. UNCHANGED <<schema, embedder>> /\ At(w, "upsert")
      BY <1>4 DEF Upsert
    <3> QED
      BY <1>0, <3>1, <3>2, BatchAssumption DEF Call, Step, At
  <2> QED
    BY <2>1, <2>2
<1>5. CASE Return(w)
  BY <1>0, <1>5 DEF Return, At, Goto, Call, Step
<1>6. CASE ServerFails(w)
  BY <1>0, <1>6 DEF ServerFails, At, Goto, Raise, Call, Step
<1> QED
  BY <1>1, <1>2, <1>3, <1>4, <1>5, <1>6 DEF IndexStep

(* The collection is created once, and points are never taken away.            *)
LEMMA OnlyGrows ==
    ASSUME IInv, [Next]_vars
    PROVE  /\ schema # "absent" => schema' = schema
           /\ \A c \in Chunks : points[c].parse # None => points'[c].parse # None
<1>0. TypeOK
  BY DEF IInv
<1>1. ASSUME NEW w \in Instances, Doing(w, "index"), IndexStep(w) \/ ServerFails(w)
      PROVE  /\ schema # "absent" => schema' = schema
             /\ \A c \in Chunks : points[c].parse # None => points'[c].parse # None
  <2>1. \A c \in Chunks : Written(w)[c].parse = points[c].parse \/ Written(w)[c].parse \in Parses
    BY <1>0, <1>1, WrittenPoints
  <2> QED
    BY <1>0, <1>1, <2>1, IndexEffect, NoneAssumption
<1>2. CASE \E w \in Instances : Index(w) \/ JobFails(w)
  BY <1>1, <1>2 DEF Index, JobFails
<1>3. CASE \E w \in Instances : (\E o \in Objects : Deliver(w, o)) \/ Skip(w) \/ Parse(w) \/ Respond(w) \/ Crash(w)
  BY <1>3 DEF Deliver, Skip, Parse, Respond, Crash, IndexRestart, IndexChunks, indexVars
<1>4. CASE (\E o \in Objects : Expire(o)) \/ UNCHANGED vars
  BY <1>4 DEF Expire, vars, indexVars
<1> QED
  BY <1>2, <1>3, <1>4 DEF Next, Work, Handle

-----------------------------------------------------------------------------
(* The invariant.                                                             *)

LEMMA InitIInv == Init => IInv
<1> SUFFICES ASSUME Init PROVE IInv
  OBVIOUS
<1>1. TypeOK
  BY WorkerBoundAssumption
     DEF Init, TypeOK, IndexInit, IndexTypeOK, NoJob, NoCall, NoPoint, Job, JobStep, Call, Step,
         Point, Instances
<1>2. JobsKnown /\ SentIsStored
  BY DEF Init, JobsKnown, SentIsStored, NoJob
<1>3. SchemaFits /\ PointsOwned
  BY DEF Init, IndexInit, SchemaFits, PointsOwned, At, NoCall, NoPoint
<1>4. AckedIsPresent
  BY ObjectAssumption DEF Init, AckedIsPresent
<1> QED
  BY <1>1, <1>2, <1>3, <1>4 DEF IInv

LEMMA EndCallType ==
    ASSUME TypeOK, NEW w \in Instances, Done(w), EndCall(w)
    PROVE  /\ job' \in [Instances -> Job] /\ call' \in [Procs -> Call]
           /\ \A v \in Instances \ {w} : job'[v] = job[v] /\ call'[v] = call[v]
           /\ job'[w] = NoJob /\ call'[w] = NoCall
BY DEF TypeOK, IndexTypeOK, Done, EndCall, NoJob, NoCall, Job, JobStep, Call, Step, Instances

LEMMA IndexType ==
    ASSUME TypeOK, NEW w \in Instances, Doing(w, "index"), IndexStep(w) \/ ServerFails(w),
           UNCHANGED <<message, job, cache>>, faults' \in 0..MaxFaults
    PROVE  TypeOK'
<1>1. points' \in [Chunks -> Point]
  BY IndexEffect, WrittenPoints DEF TypeOK, IndexTypeOK
<1>2. IndexTypeOK'
  BY <1>1, IndexEffect DEF IndexTypeOK
<1>3. \A v \in Instances : (call'[v].pc # "idle" <=> call[v].pc # "idle") /\ call'[v].parse = call[v].parse
  BY IndexEffect DEF TypeOK, Doing, Instances
<1> QED
  BY <1>2, <1>3 DEF TypeOK

LEMMA StepType == IInv /\ [Next]_vars => TypeOK'
<1> SUFFICES ASSUME IInv, [Next]_vars PROVE TypeOK'
  OBVIOUS
<1>0. TypeOK /\ Instances \subseteq Procs
  BY DEF IInv, Instances
<1>1. ASSUME NEW w \in Instances, NEW o \in Objects, Deliver(w, o)
      PROVE  TypeOK'
  BY <1>0, <1>1, ObjectAssumption
     DEF Deliver, TypeOK, IndexTypeOK, indexVars, Job, JobStep, Doing
<1>2. ASSUME NEW w \in Instances, Skip(w)
      PROVE  TypeOK'
  <2>1. message' \in [Objects -> {"outstanding", "acked", "expired"}]
    BY <1>0, <1>2 DEF Skip, Ack, TypeOK
  <2> QED
    BY <1>0, <1>2, <2>1 DEF Skip, Done, NoJob, TypeOK, IndexTypeOK, indexVars, Job, JobStep, Doing
<1>3. ASSUME NEW w \in Instances, Parse(w)
      PROVE  TypeOK'
  <2>1. CASE ParsesOf(job[w].object) = {}
    <3>1. UNCHANGED <<indexVars, message, cache, faults>> /\ Done(w) /\ Doing(w, "received")
      BY <1>3, <2>1 DEF Parse
    <3> QED
      BY <1>0, <3>1 DEF Done, NoJob, TypeOK, IndexTypeOK, indexVars, Job, JobStep, Doing
  <2>2. CASE ParsesOf(job[w].object) # {}
    <3>1. PICK k \in Readings(w) :
            /\ cache' = [cache EXCEPT ![w] = @ \cup {k}]
            /\ job' = [job EXCEPT ![w].pc = "index", ![w].parse = k]
            /\ IndexChunks(w, k)
      BY <1>3, <2>2 DEF Parse
    <3>2. k \in Parses /\ k # None
      BY NoneAssumption DEF Readings, ParsesOf
    <3>3. UNCHANGED <<message, faults>> /\ Doing(w, "received")
      BY <1>3 DEF Parse
    <3>4. call' \in [Procs -> Call] /\ call'[w].pc = "ensure" /\ call'[w].parse = k
      BY <1>0, <3>1, <3>2 DEF IndexChunks, TypeOK, IndexTypeOK, Call, Step
    <3>5. job' \in [Instances -> Job] /\ job'[w].pc = "index" /\ job'[w].parse = k /\ job'[w].object # None
      BY <1>0, <3>1, <3>2, <3>3 DEF TypeOK, Job, JobStep, Doing
    <3>6. cache' \in [Instances -> SUBSET Parses]
      BY <1>0, <3>1, <3>2 DEF TypeOK
    <3>7. \A v \in Instances \ {w} : call'[v] = call[v] /\ job'[v] = job[v]
      BY <1>0, <3>1 DEF IndexChunks, TypeOK, IndexTypeOK
    <3>8. IndexTypeOK'
      BY <1>0, <3>1, <3>4 DEF IndexChunks, TypeOK, IndexTypeOK
    <3> QED
      BY <1>0, <3>2, <3>3, <3>4, <3>5, <3>6, <3>7, <3>8 DEF TypeOK
  <2> QED
    BY <2>1, <2>2
<1>4. ASSUME NEW w \in Instances, Index(w)
      PROVE  TypeOK'
  BY <1>0, <1>4, IndexType DEF Index, TypeOK
<1>5. ASSUME NEW w \in Instances, Respond(w)
      PROVE  TypeOK'
  <2>1. message' \in [Objects -> {"outstanding", "acked", "expired"}]
    BY <1>0, <1>5 DEF Respond, Ack, TypeOK
  <2>2. UNCHANGED <<schema, points, embedder, cache, faults>> /\ Done(w) /\ EndCall(w)
    BY <1>5 DEF Respond
  <2> QED
    BY <1>0, <2>1, <2>2, EndCallType DEF TypeOK, IndexTypeOK, NoJob, NoCall
<1>6. ASSUME NEW w \in Instances, JobFails(w)
      PROVE  TypeOK'
  <2>1. faults' \in 0..MaxFaults /\ UNCHANGED <<message, cache>>
    BY <1>0, <1>6, WorkerBoundAssumption DEF JobFails, Fault, TypeOK
  <2>2. CASE Done(w) /\ EndCall(w) /\ UNCHANGED <<schema, points, embedder>>
    BY <1>0, <2>1, <2>2, EndCallType DEF TypeOK, IndexTypeOK, NoJob, NoCall
  <2>3. CASE Doing(w, "index") /\ ServerFails(w) /\ UNCHANGED job
    BY <1>0, <2>1, <2>3, IndexType
  <2> QED
    BY <1>6, <2>2, <2>3 DEF JobFails
<1>7. ASSUME NEW w \in Instances, Crash(w)
      PROVE  TypeOK'
  <2>1. faults' \in 0..MaxFaults /\ UNCHANGED <<message, schema, points>> /\ Done(w) /\ EndCall(w)
    BY <1>0, <1>7, WorkerBoundAssumption DEF Crash, Fault, TypeOK, Done, IndexRestart
  <2>2. cache' \in [Instances -> SUBSET Parses] /\ embedder' \in [Procs -> BOOLEAN]
    BY <1>0, <1>7 DEF Crash, IndexRestart, TypeOK, IndexTypeOK
  <2> QED
    BY <1>0, <2>1, <2>2, EndCallType DEF TypeOK, IndexTypeOK, NoJob, NoCall
<1>8. ASSUME NEW o \in Objects, Expire(o)
      PROVE  TypeOK'
  BY <1>0, <1>8 DEF Expire, TypeOK, IndexTypeOK, indexVars
<1>9. CASE UNCHANGED vars
  BY <1>0, <1>9 DEF vars, TypeOK, IndexTypeOK, indexVars
<1> QED
  BY <1>1, <1>2, <1>3, <1>4, <1>5, <1>6, <1>7, <1>8, <1>9 DEF Next, Work, Handle

LEMMA StepJobs == IInv /\ [Next]_vars => JobsKnown'
<1> SUFFICES ASSUME IInv, [Next]_vars, NEW v \in Instances, job'[v].pc = "index"
             PROVE  job'[v].object \in Pdfs /\ job'[v].parse \in ParsesOf(job'[v].object)
  BY DEF JobsKnown
<1>0. job \in [Instances -> Job] /\ JobsKnown
  BY DEF IInv, TypeOK
<1>1. CASE \E w \in Instances : Parse(w) /\ ParsesOf(job[w].object) # {}
  <2>1. PICK w \in Instances : Parse(w) /\ ParsesOf(job[w].object) # {}
    BY <1>1
  <2>2. PICK k \in Readings(w) : job' = [job EXCEPT ![w].pc = "index", ![w].parse = k]
    BY <2>1 DEF Parse
  <2>3. job[w].object \in Pdfs /\ k \in ParsesOf(job[w].object)
    BY <2>1 DEF Parse, Readings
  <2> QED
    BY <1>0, <2>2, <2>3 DEF JobsKnown, Job
<1>2. CASE \E w \in Instances : \E o \in Objects : Deliver(w, o)
  BY <1>0, <1>2 DEF Deliver, JobsKnown
<1>3. CASE job' = job \/ \E w \in Instances : Done(w)
  BY <1>0, <1>3 DEF Done, NoJob, JobsKnown
<1> QED
  BY <1>1, <1>2, <1>3
     DEF Next, Work, Handle, Parse, Skip, Index, Respond, JobFails, Crash, Done, Expire, vars

LEMMA GotoCall ==
    ASSUME call \in [Procs -> Call], NEW w \in Procs, NEW pc, Goto(w, pc)
    PROVE  /\ call'[w].pc = pc /\ call'[w].dense = call[w].dense
           /\ \A p \in Procs \ {w} : call'[p] = call[p]
BY DEF Goto, Call

LEMMA StepSchema == IInv /\ [Next]_vars => SchemaFits'
<1> SUFFICES ASSUME IInv, [Next]_vars PROVE SchemaFits'
  OBVIOUS
<1>0. /\ TypeOK /\ SchemaFits /\ Instances \subseteq Procs
      /\ call \in [Procs -> Call] /\ embedder \in [Procs -> BOOLEAN]
  BY DEF IInv, TypeOK, IndexTypeOK, Instances
<1>1. ASSUME NEW w \in Instances, Index(w)
      PROVE  SchemaFits'
  <2>1. CASE Ensure(w)
    <3>1. UNCHANGED schema
      BY <2>1 DEF Ensure
    <3>2. CASE schema = "absent"
      <4>1. Goto(w, "create") /\ embedder' = embedder
        BY <2>1, <3>2 DEF Ensure
      <4> QED
        BY <1>0, <3>1, <4>1, GotoCall DEF SchemaFits, At
    <3>3. CASE schema # "absent"
      <4>1. PICK fits \in BOOLEAN :
              /\ fits => schema = "hybrid"
              /\ embedder' = [embedder EXCEPT ![w] = fits]
        BY <2>1, <3>3 DEF Ensure, FitsSchema
      <4>2. Goto(w, "embed")
        BY <2>1, <3>3 DEF Ensure
      <4>3. embedder'[w] = fits /\ \A p \in Procs \ {w} : embedder'[p] = embedder[p]
        BY <1>0, <4>1
      <4> QED
        BY <1>0, <3>1, <3>3, <4>1, <4>2, <4>3, GotoCall DEF SchemaFits, At
    <3> QED
      BY <3>2, <3>3
  <2>2. CASE Create(w)
    <3>1. CASE schema # "absent"
      <4>1. Goto(w, "raised") /\ UNCHANGED <<schema, embedder>>
        BY <2>2, <3>1 DEF Create, Raise
      <4> QED
        BY <1>0, <4>1, GotoCall DEF SchemaFits, At
    <3>2. CASE schema = "absent"
      <4>1. /\ Goto(w, "embed") /\ embedder' = embedder
            /\ schema' = IF embedder[w] THEN "hybrid" ELSE "sparse"
        BY <2>2, <3>2 DEF Create
      <4> QED
        BY <1>0, <3>2, <4>1, GotoCall DEF SchemaFits, At
    <3> QED
      BY <3>1, <3>2
  <2>3. CASE Embed(w)
    <3>1. PICK ok \in BOOLEAN :
            /\ ok => embedder[w]
            /\ embedder' = [embedder EXCEPT ![w] = ok]
            /\ call' = [call EXCEPT ![w].pc = "upsert", ![w].dense = ok]
      BY <2>3 DEF Embed
    <3>2. UNCHANGED schema /\ call[w].pc = "embed"
      BY <2>3 DEF Embed, At
    <3>3. \A p \in Procs \ {w} : call'[p] = call[p] /\ embedder'[p] = embedder[p]
      BY <1>0, <3>1
    <3>4. call'[w].pc = "upsert" /\ (call'[w].dense => embedder[w])
      BY <1>0, <3>1 DEF Call
    <3> QED
      BY <1>0, <3>2, <3>3, <3>4 DEF SchemaFits, At
  <2>4. CASE Upsert(w) \/ Return(w)
    <3>1. UNCHANGED <<schema, embedder>> /\ call[w].pc = "upsert"
      BY <2>4 DEF Upsert, Return, At
    <3>2. CASE Goto(w, "raised") \/ Goto(w, "returned")
      BY <1>0, <3>1, <3>2, GotoCall DEF SchemaFits, At
    <3>3. CASE call' = [call EXCEPT ![w].sent = @ + Batch]
      <4>1. \A p \in Procs : call'[p].pc = call[p].pc /\ call'[p].dense = call[p].dense
        BY <1>0, <3>3 DEF Call
      <4> QED
        BY <1>0, <3>1, <4>1 DEF SchemaFits, At
    <3> QED
      BY <2>4, <3>2, <3>3 DEF Upsert, Return, Raise
  <2> QED
    BY <1>1, <2>1, <2>2, <2>3, <2>4 DEF Index, IndexStep
<1>2. ASSUME NEW w \in Instances, ServerFails(w)
      PROVE  SchemaFits'
  <2>1. /\ Goto(w, "raised") /\ embedder' = embedder
        /\ schema' = schema \/ schema = "absent"
    BY <1>2 DEF ServerFails, Raise
  <2> QED
    BY <1>0, <2>1, GotoCall DEF SchemaFits, At
<1>3. ASSUME NEW w \in Instances, EndCall(w), UNCHANGED schema,
             \A p \in Procs \ {w} : embedder'[p] = embedder[p]
      PROVE  SchemaFits'
  BY <1>0, <1>3 DEF EndCall, NoCall, SchemaFits, At
<1>4. ASSUME NEW w \in Instances, NEW k, IndexChunks(w, k)
      PROVE  SchemaFits'
  BY <1>0, <1>4 DEF IndexChunks, SchemaFits, At
<1>5. CASE UNCHANGED indexVars
  BY <1>0, <1>5 DEF indexVars, SchemaFits, At
<1>6. ASSUME NEW w \in Instances, Parse(w)
      PROVE  SchemaFits'
  BY <1>4, <1>5, <1>6 DEF Parse
<1>7. ASSUME NEW w \in Instances, Respond(w) \/ JobFails(w) \/ Crash(w)
      PROVE  SchemaFits'
  <2>1. CASE Respond(w)
    BY <1>3, <2>1 DEF Respond
  <2>2. CASE JobFails(w)
    BY <1>2, <1>3, <2>2 DEF JobFails
  <2>3. CASE Crash(w)
    <3>1. \A p \in Procs \ {w} : embedder'[p] = embedder[p]
      BY <1>0, <2>3 DEF Crash, IndexRestart
    <3> QED
      BY <1>3, <2>3, <3>1 DEF Crash, IndexRestart
  <2> QED
    BY <1>7, <2>1, <2>2, <2>3
<1> QED
  BY <1>1, <1>5, <1>6, <1>7 DEF Next, Work, Handle, Deliver, Skip, Expire, vars, indexVars

(* Only an upsert touches the points, and they lie under the ids of its parse.  *)
LEMMA StepPoints == IInv /\ [Next]_vars => PointsOwned'
<1> SUFFICES ASSUME IInv, [Next]_vars PROVE PointsOwned'
  OBVIOUS
<1>0. TypeOK /\ PointsOwned /\ SchemaFits /\ (schema # "absent" => schema' = schema)
  BY OnlyGrows DEF IInv
<1>1. ASSUME NEW w \in Instances, Doing(w, "index"), IndexStep(w) \/ ServerFails(w)
      PROVE  PointsOwned'
  <2>1. CASE points' = points
    BY <1>0, <2>1 DEF PointsOwned
  <2>2. CASE At(w, "upsert") /\ points' = Written(w)
    <3>1. schema # "absent"
      BY <1>0, <2>2 DEF SchemaFits, At, Instances
    <3>2. ASSUME NEW c \in Chunks, points'[c].parse # None
          PROVE  \E i \in DOMAIN ChunksOf[points'[c].parse] : ChunksOf[points'[c].parse][i] = c
      BY <1>0, <1>1, <2>2, <3>2, WrittenPoints DEF PointsOwned
    <3> QED
      BY <1>0, <3>1, <3>2 DEF PointsOwned
  <2> QED
    BY <1>0, <1>1, <2>1, <2>2, IndexEffect
<1>2. CASE UNCHANGED points
  BY <1>0, <1>2 DEF PointsOwned
<1> QED
  BY <1>1, <1>2
     DEF Next, Work, Handle, Deliver, Skip, Parse, Index, Respond, JobFails, Crash, Expire,
         IndexChunks, IndexRestart, vars, indexVars

LEMMA IndexSent ==
    ASSUME IInv, [Next]_vars, NEW w \in Instances, Doing(w, "index"),
           IndexStep(w) \/ ServerFails(w), UNCHANGED job
    PROVE  SentIsStored'
<1>0. TypeOK /\ SentIsStored /\ Instances \subseteq Procs
  BY DEF IInv, Instances
<1>1. \A v \in Instances : job[v].pc = "index" => call[v].parse \in Parses
  BY <1>0 DEF TypeOK, IndexTypeOK, Call
<1>2. ASSUME NEW v \in Instances, job[v].pc = "index", NEW i \in 1..Len(ChunksOf[call[v].parse]),
             points[ChunksOf[call[v].parse][i]].parse # None
      PROVE  points'[ChunksOf[call[v].parse][i]].parse # None
  BY <1>1, <1>2, ParsesTyped, OnlyGrows
<1>3. ASSUME NEW v \in Instances, job[v].pc = "index"
      PROVE  Upto(call[v].parse, call[v].sent) \in 0..Len(ChunksOf[call[v].parse])
  BY <1>0, <1>1, <1>3, ParsesTyped DEF Upto, TypeOK, IndexTypeOK, Call
<1>4. ASSUME NEW v \in Instances \ {w}, job[v].pc = "index"
      PROVE  /\ \A i \in 1..Upto(call'[v].parse, call'[v].sent) :
                  points'[ChunksOf[call'[v].parse][i]].parse # None
             /\ call'[v].pc = "returned" => call'[v].sent >= Len(ChunksOf[call'[v].parse])
  <2>1. call'[v] = call[v]
    BY <1>0, IndexEffect
  <2>2. Upto(call[v].parse, call[v].sent) \in 0..Len(ChunksOf[call[v].parse])
    BY <1>3, <1>4
  <2>3. \A i \in 1..Upto(call[v].parse, call[v].sent) : i \in 1..Len(ChunksOf[call[v].parse])
    BY <2>2, <1>1, <1>4, ParsesTyped
  <2> QED
    BY <1>0, <1>2, <1>4, <2>1, <2>3 DEF SentIsStored, At, AllSent
<1>5. ASSUME NEW i \in 1..Upto(call'[w].parse, call'[w].sent)
      PROVE  points'[ChunksOf[call'[w].parse][i]].parse # None
  <2> DEFINE k == call[w].parse
  <2>1. k \in Parses /\ call'[w].parse = k /\ call[w].sent \in Nat
    BY <1>0, <1>1, IndexEffect DEF Doing, TypeOK, IndexTypeOK, Call
  <2>2. Upto(k, call[w].sent) \in 0..Len(ChunksOf[k]) /\ Len(ChunksOf[k]) \in Nat
    BY <1>3, <2>1, ParsesTyped DEF Doing
  <2>3. CASE i \in 1..Upto(k, call[w].sent)
    <3>1. points[ChunksOf[k][i]].parse # None
      BY <1>0, <2>3 DEF SentIsStored, Doing
    <3>2. i \in 1..Len(ChunksOf[k])
      BY <2>2, <2>3
    <3> QED
      BY <1>2, <2>1, <3>1, <3>2 DEF Doing
  <2>4. CASE i \notin 1..Upto(k, call[w].sent)
    <3>1. call'[w].sent = call[w].sent + Batch /\ points' = Written(w)
      BY <1>0, <1>5, <2>1, <2>4, IndexEffect
    <3>2. i \in (call[w].sent + 1)..Upto(k, call[w].sent + Batch)
      BY <1>5, <2>1, <2>2, <2>4, <3>1, BatchAssumption DEF Upto
    <3>3. points'[ChunksOf[k][i]].parse = k
      BY <1>0, <3>1, <3>2, WrittenPoints
    <3> QED
      BY <2>1, <3>3, NoneAssumption
  <2> QED
    BY <2>3, <2>4
<1>6. call'[w].pc = "returned" => call'[w].sent >= Len(ChunksOf[call'[w].parse])
  BY <1>0, IndexEffect DEF AllSent
<1> QED
  BY <1>4, <1>5, <1>6 DEF SentIsStored, At, AllSent

(* What a call has sent stays stored while it goes on.                         *)
LEMMA StepSent == IInv /\ [Next]_vars => SentIsStored'
<1> SUFFICES ASSUME IInv, [Next]_vars PROVE SentIsStored'
  OBVIOUS
<1>0. TypeOK /\ SentIsStored /\ Instances \subseteq Procs
  BY DEF IInv, Instances
<1>1. ASSUME NEW w \in Instances, Index(w)
      PROVE  SentIsStored'
  BY <1>1, IndexSent DEF Index
<1>2. ASSUME NEW w \in Instances, JobFails(w), ~Done(w)
      PROVE  SentIsStored'
  BY <1>2, IndexSent DEF JobFails
<1>3. ASSUME NEW w \in Instances, Done(w), UNCHANGED points,
             \A p \in Procs \ {w} : call'[p] = call[p]
      PROVE  SentIsStored'
  BY <1>0, <1>3 DEF Done, NoJob, SentIsStored, At, AllSent, TypeOK
<1>4. CASE UNCHANGED <<points, call>> /\ \A v \in Instances : job'[v].pc = "index" => job[v] = job'[v]
  BY <1>0, <1>4 DEF SentIsStored, At, AllSent
<1>5. ASSUME NEW w \in Instances, Parse(w)
      PROVE  SentIsStored'
  <2>1. CASE ParsesOf(job[w].object) = {}
    BY <1>3, <1>5, <2>1 DEF Parse, indexVars
  <2>2. CASE ParsesOf(job[w].object) # {}
    <3>1. PICK k \in Readings(w) :
            job' = [job EXCEPT ![w].pc = "index", ![w].parse = k] /\ IndexChunks(w, k)
      BY <1>5, <2>2 DEF Parse
    <3>2. /\ call'[w] = [pc |-> "ensure", parse |-> k, dense |-> FALSE, sent |-> 0]
          /\ UNCHANGED points
          /\ \A v \in Instances \ {w} : call'[v] = call[v] /\ job'[v] = job[v]
      BY <1>0, <3>1 DEF IndexChunks, TypeOK, IndexTypeOK
    <3>3. k \in Parses
      BY DEF Readings, ParsesOf
    <3>4. 1..Upto(k, 0) = {}
      BY <3>3, ParsesTyped DEF Upto
    <3> QED
      BY <1>0, <3>2, <3>4 DEF SentIsStored, At, AllSent
  <2> QED
    BY <2>1, <2>2
<1>6. ASSUME NEW w \in Instances, Respond(w) \/ Crash(w) \/ (JobFails(w) /\ Done(w))
      PROVE  SentIsStored'
  <2>1. CASE EndCall(w) /\ UNCHANGED points
    <3>1. Done(w)
      BY <1>6 DEF Respond, Crash, Done, JobFails
    <3>2. \A p \in Procs \ {w} : call'[p] = call[p]
      BY <1>0, <2>1 DEF EndCall, TypeOK, IndexTypeOK
    <3> QED
      BY <1>3, <2>1, <3>1, <3>2
  <2>2. CASE JobFails(w) /\ ServerFails(w) /\ Doing(w, "index") /\ UNCHANGED job
    BY <2>2, IndexSent
  <2> QED
    BY <1>6, <2>1, <2>2 DEF Respond, Crash, IndexRestart, JobFails
<1>7. ASSUME NEW w \in Instances, NEW o \in Objects, Deliver(w, o)
      PROVE  SentIsStored'
  <2>1. UNCHANGED <<points, call>>
    BY <1>7 DEF Deliver, indexVars
  <2>2. \A v \in Instances : job'[v].pc = "index" => job[v] = job'[v]
    BY <1>0, <1>7 DEF Deliver, TypeOK
  <2> QED
    BY <1>4, <2>1, <2>2
<1>8. ASSUME NEW w \in Instances, Skip(w)
      PROVE  SentIsStored'
  BY <1>3, <1>8 DEF Skip, indexVars
<1>9. CASE (\E o \in Objects : Expire(o)) \/ UNCHANGED vars
  BY <1>4, <1>9 DEF Expire, vars, indexVars
<1> QED
  BY <1>1, <1>2, <1>5, <1>6, <1>7, <1>8, <1>9 DEF Next, Work, Handle

(* A message is acknowledged by a call that has sent every chunk of a parse of   *)
(* its object.                                                                *)
LEMMA StepAcked == IInv /\ [Next]_vars => AckedIsPresent'
<1> SUFFICES ASSUME IInv, [Next]_vars, NEW o \in Pdfs, message'[o] = "acked"
             PROVE  schema' # "absent" /\ \E k \in ParsesOf(o) : Present(k)'
  BY DEF AckedIsPresent
<1>0. TypeOK /\ AckedIsPresent /\ SentIsStored /\ JobsKnown /\ o \in Objects
  BY ObjectAssumption DEF IInv
<1>1. ASSUME NEW k \in ParsesOf(o), Present(k)
      PROVE  Present(k)'
  <2>1. k \in Parses
    BY DEF ParsesOf
  <2> QED
    BY <1>1, <2>1, ParsesTyped, OnlyGrows DEF Present
<1>2. CASE message[o] = "acked"
  BY <1>0, <1>1, <1>2, OnlyGrows DEF AckedIsPresent
<1>3. CASE message[o] # "acked"
  <2>1. PICK w \in Instances : (Skip(w) \/ (Respond(w) /\ At(w, "returned"))) /\ job[w].object = o
    <3>1. ASSUME NEW w \in Instances, Ack(w)
          PROVE  job[w].object = o
      BY <1>0, <1>3, <3>1 DEF Ack, TypeOK
    <3>2. message' # message
      BY <1>3
    <3>3. ~(\E q \in Objects : Expire(q))
      BY <1>0, <1>3 DEF Expire, TypeOK
    <3> QED
      BY <3>1, <3>2, <3>3
         DEF Next, Work, Handle, Deliver, Skip, Parse, Index, Respond, JobFails, Crash, vars
  <2>2. Doing(w, "index") /\ At(w, "returned") /\ o \in Pdfs
    BY <2>1 DEF Skip, Respond
  <2> DEFINE k == call[w].parse
  <2>3. k \in ParsesOf(o) /\ k \in Parses
    BY <1>0, <2>1, <2>2 DEF JobsKnown, Doing, TypeOK, ParsesOf
  <2>4. Upto(k, call[w].sent) = Len(ChunksOf[k])
    BY <1>0, <2>2, <2>3, ParsesTyped DEF SentIsStored, Doing, AllSent, Upto, TypeOK, IndexTypeOK, Call, Instances
  <2>5. Present(k)
    BY <1>0, <2>2, <2>3, <2>4, ParsesTyped DEF SentIsStored, Doing, Present
  <2>6. schema # "absent"
    BY <2>2 DEF IInv, SchemaFits, At, Instances
  <2> QED
    BY <1>1, <2>3, <2>5, <2>6, OnlyGrows
<1> QED
  BY <1>2, <1>3

(* The invariant the theorems below rest on.                                   *)
THEOREM Invariant == Spec => []IInv
<1>1. Init => IInv
  BY InitIInv
<1>2. IInv /\ [Next]_vars => IInv'
  BY StepType, StepJobs, StepSchema, StepPoints, StepSent, StepAcked DEF IInv
<1> QED
  BY <1>1, <1>2, PTL DEF Spec

-----------------------------------------------------------------------------
(* The types of the collection, the calls, the deliveries and the messages.     *)
THEOREM TypeCorrect == Spec => []TypeOK
<1>1. IInv => TypeOK
  BY DEF IInv
<1> QED
  BY <1>1, Invariant, PTL

(* Whoever created the collection and whenever, an upsert never carries a dense  *)
(* vector it cannot take (qdrant_index.py ensure_collection).                  *)
THEOREM Unrefused == Spec => []NeverRefused
<1>1. IInv => NeverRefused
  BY DEF IInv, SchemaFits, NeverRefused, Refused
<1> QED
  BY <1>1, Invariant, PTL

(* Where the points of a document lie, if one of its parses is present.         *)
LEMMA PointsOfDoc ==
    ASSUME IInv, NEW c \in Chunks, NEW k \in Parses, NEW i \in DOMAIN ChunksOf[k],
           ChunksOf[k][i] = c, points[c].parse # None
    PROVE  points[c].parse \in Parses /\ DocOf[points[c].parse] = DocOf[k]
<1>1. points[c].parse \in Parses
  BY DEF IInv, TypeOK, IndexTypeOK, Point
<1>2. PICK j \in DOMAIN ChunksOf[points[c].parse] : ChunksOf[points[c].parse][j] = c
  BY DEF IInv, PointsOwned
<1> QED
  BY <1>1, <1>2, ParseAssumption

(* An acknowledged object has its points, all and only them when it reads the    *)
(* same every time: whatever was delivered twice, crashed or ran beside it      *)
(* (ingest_worker.py pubsub_push).                                            *)
THEOREM AckedIndexed == Spec => []AckedIsIndexed
<1>1. IInv => AckedIsIndexed
  <2> SUFFICES ASSUME IInv, NEW o \in Pdfs, message[o] = "acked"
               PROVE  /\ \E k \in ParsesOf(o) : Present(k)
                      /\ \A k \in ParsesOf(o) : ParsesOf(o) = {k} =>
                           Whole(k) /\ PointsOf(ContentOf[o]) =
                                         {ChunksOf[k][i] : i \in DOMAIN ChunksOf[k]}
    BY DEF AckedIsIndexed
  <2>1. \E k \in ParsesOf(o) : Present(k)
    BY DEF IInv, AckedIsPresent
  <2>2. ASSUME NEW k \in ParsesOf(o), ParsesOf(o) = {k}
        PROVE  Whole(k) /\ PointsOf(ContentOf[o]) = {ChunksOf[k][i] : i \in DOMAIN ChunksOf[k]}
    <3>1. k \in Parses /\ DocOf[k] = ContentOf[o] /\ Present(k)
      BY <2>1, <2>2 DEF ParsesOf
    <3>2. ASSUME NEW l \in Parses, DocOf[l] = ContentOf[o]
          PROVE  l = k
      BY <2>2, <3>2 DEF ParsesOf
    <3>3. Whole(k)
      BY <3>1, <3>2, ParsesTyped, PointsOfDoc DEF Whole, Present
    <3>4. ASSUME NEW c \in PointsOf(ContentOf[o])
          PROVE  \E i \in DOMAIN ChunksOf[k] : ChunksOf[k][i] = c
      <4>1. c \in Chunks /\ points[c].parse # None /\ DocOf[points[c].parse] = ContentOf[o]
        BY <3>4 DEF PointsOf
      <4>2. points[c].parse = k
        BY <3>2, <4>1 DEF IInv, TypeOK, IndexTypeOK, Point
      <4> QED
        BY <4>1, <4>2 DEF IInv, PointsOwned
    <3>5. ASSUME NEW i \in DOMAIN ChunksOf[k]
          PROVE  ChunksOf[k][i] \in PointsOf(ContentOf[o])
      BY <3>1, <3>3, <3>5, ParsesTyped, NoneAssumption DEF Whole, PointsOf
    <3> QED
      BY <3>3, <3>4, <3>5
  <2> QED
    BY <2>1, <2>2
<1> QED
  BY <1>1, Invariant, PTL

(* A chunk that stands for the query in every reading that has it is a sparse     *)
(* candidate once it is stored, whichever reading was stored last.             *)
LEMMA MentionIsCandidate ==
    ASSUME IInv, NEW o \in Pdfs, NEW q \in Queries, Mentions(o, q),
           NEW k \in ParsesOf(o), Present(k)
    PROVE  SparseCandidates(q, ContentOf[o]) # {}
<1>1. PICK i \in DOMAIN ChunksOf[k] :
        \A l \in ParsesOf(o) : \A j \in DOMAIN ChunksOf[l] :
            ChunksOf[l][j] = ChunksOf[k][i] => <<l, ChunksOf[l][j]>> \in Shares[q]
  BY DEF Mentions
<1> DEFINE c == ChunksOf[k][i]
           l == points[c].parse
<1>2. k \in Parses /\ DocOf[k] = ContentOf[o]
  BY DEF ParsesOf
<1>3. c \in Chunks /\ l # None
  BY <1>1, <1>2, ParsesTyped DEF Present
<1>4. l \in Parses /\ DocOf[l] = ContentOf[o]
  BY <1>1, <1>2, <1>3, PointsOfDoc
<1>5. \E j \in DOMAIN ChunksOf[l] : ChunksOf[l][j] = c
  BY <1>3 DEF IInv, PointsOwned
<1>6. <<l, c>> \in Shares[q]
  BY <1>1, <1>4, <1>5 DEF ParsesOf
<1>7. c \in SparseCandidates(q, ContentOf[o])
  BY <1>3, <1>4, <1>6 DEF SparseCandidates, PointsOf
<1> QED
  BY <1>7

(* The best of some candidates are some of them.                               *)
LEMMA BestOfSome ==
    ASSUME NEW cands \in SUBSET Chunks, cands # {}, NEW S \in Best(cands)
    PROVE  S # {}
<1>1. IsFiniteSet(cands)
  BY ChunkAssumption, FS_Subset
<1>2. Cardinality(cands) \in Nat /\ Cardinality(cands) # 0
  BY <1>1, FS_CardinalityType, FS_EmptySet
<1>3. Cardinality(S) # 0
  BY <1>2, WorkerBoundAssumption DEF Best
<1> QED
  BY <1>3, FS_EmptySet

(* What was acknowledged is found under every query that has a term of it in     *)
(* common, and no query makes the search fail (mcp_server search_document over  *)
(* hybrid.py retrieve).                                                       *)
THEOREM AckedFound == Spec => []AckedIsFound
<1>1. IInv => AckedIsFound
  <2> SUFFICES ASSUME IInv, NEW o \in Pdfs, NEW p \in Sidecars, NEW q \in Queries,
                      message[o] = "acked", NEW r \in SearchDocument(p, q, ContentOf[o])
               PROVE  r.status = "hits" /\ (Mentions(o, q) => r.hits # {})
    BY DEF AckedIsFound
  <2>1. PICK k \in ParsesOf(o) : Present(k)
    BY DEF IInv, AckedIsPresent
  <2>2. schema # "absent"
    BY DEF IInv, AckedIsPresent
  <2>3. PICK cands \in Candidates(p, q, ContentOf[o]) : \E S \in Best(cands) : r = Hits(S)
    BY <2>2 DEF SearchDocument
  <2>4. PICK S \in Best(cands) : r = Hits(S)
    BY <2>3
  <2>5. /\ SparseCandidates(q, ContentOf[o]) \subseteq cands
        /\ cands \subseteq Chunks
    BY DEF Candidates, DenseCandidates, SparseCandidates, PointsOf
  <2>6. ASSUME Mentions(o, q) PROVE S # {}
    <3>1. cands # {}
      BY <2>1, <2>5, <2>6, MentionIsCandidate
    <3> QED
      BY <2>5, <3>1, BestOfSome
  <2> QED
    BY <2>4, <2>6 DEF Hits
<1> QED
  BY <1>1, Invariant, PTL

-----------------------------------------------------------------------------
(* Termination. How many steps the call of index_chunks still takes at most: one *)
(* for each point it has not sent, and one for each stage and for the response.   *)
ToSend(w) == IF AllSent(w) THEN 0 ELSE Len(ChunksOf[call[w].parse]) - call[w].sent

StepsLeft(w) ==
    CASE At(w, "ensure") -> ToSend(w) + 5
      [] At(w, "create") -> ToSend(w) + 4
      [] At(w, "embed")  -> ToSend(w) + 3
      [] At(w, "upsert") -> ToSend(w) + 2
      [] OTHER           -> 1

LEMMA ToSendType ==
    ASSUME TypeOK, NEW w \in Instances, Doing(w, "index")
    PROVE  /\ call[w].parse \in Parses /\ Len(ChunksOf[call[w].parse]) \in Nat
           /\ call[w].sent \in Nat /\ ToSend(w) \in Nat
<1>1. call[w] \in Call /\ call[w].parse \in Parses
  BY DEF TypeOK, IndexTypeOK, Doing, Instances, Call
<1> QED BY <1>1, ParsesTyped DEF ToSend, AllSent, Call

LEMMA CallGoesOn ==
    ASSUME IInv, NEW w \in Instances, Doing(w, "index"), IndexStep(w) \/ ServerFails(w)
    PROVE  StepsLeft(w)' < StepsLeft(w)
<1>0. TypeOK /\ call \in [Procs -> Call] /\ w \in Procs
  BY DEF IInv, TypeOK, IndexTypeOK, Instances
<1>1. ToSend(w) \in Nat
  BY <1>0, ToSendType
<1>2. CASE call'[w].pc \in {"returned", "raised"}
  <2>1. StepsLeft(w)' = 1
    BY <1>2 DEF StepsLeft, At
  <2>2. call[w].pc \in {"ensure", "create", "embed", "upsert"}
    BY DEF IndexStep, ServerFails, Ensure, Create, Embed, Upsert, Return, At
  <2> QED BY <1>1, <2>1, <2>2 DEF StepsLeft, At
<1>3. ASSUME NEW to \in {"create", "embed", "upsert"}, call'[w].pc = to,
             call'[w].parse = call[w].parse, call'[w].sent = call[w].sent
      PROVE  ToSend(w)' = ToSend(w)
  BY <1>3 DEF ToSend, AllSent
<1>4. CASE Ensure(w)
  <2>1. PICK to \in {"create", "embed"} : Goto(w, to)
    BY <1>4 DEF Ensure
  <2>2. At(w, "ensure") /\ call'[w].pc = to
    BY <1>0, <1>4, <2>1 DEF Ensure, Goto, Call
  <2>3. ToSend(w)' = ToSend(w)
    BY <1>0, <1>3, <2>1, <2>2 DEF Goto, Call
  <2> QED BY <1>1, <2>2, <2>3 DEF StepsLeft, At
<1>5. CASE Create(w) /\ call'[w].pc \notin {"returned", "raised"}
  <2>1. Goto(w, "embed") /\ At(w, "create")
    BY <1>0, <1>5, GotoCall DEF Create, Raise
  <2>2. ToSend(w)' = ToSend(w) /\ call'[w].pc = "embed"
    BY <1>0, <1>3, <2>1 DEF Goto, Call
  <2> QED BY <1>1, <2>1, <2>2 DEF StepsLeft, At
<1>6. CASE Embed(w)
  <2>1. PICK ok \in BOOLEAN : call' = [call EXCEPT ![w].pc = "upsert", ![w].dense = ok]
    BY <1>6 DEF Embed
  <2>2. call'[w].pc = "upsert" /\ call'[w].parse = call[w].parse /\ call'[w].sent = call[w].sent
    BY <1>0, <2>1 DEF Call
  <2>3. ToSend(w)' = ToSend(w)
    BY <1>3, <2>2
  <2> QED BY <1>1, <1>6, <2>2, <2>3 DEF Embed, StepsLeft, At
<1>7. CASE Upsert(w) /\ call'[w].pc \notin {"returned", "raised"}
  <2>1. At(w, "upsert") /\ ~AllSent(w) /\ call' = [call EXCEPT ![w].sent = @ + Batch]
    BY <1>0, <1>7, GotoCall DEF Upsert, Raise
  <2>2. /\ call'[w].pc = "upsert" /\ call'[w].parse = call[w].parse
        /\ call'[w].sent = call[w].sent + Batch
    BY <1>0, <2>1 DEF At, Call
  <2>3. ToSend(w)' < ToSend(w)
    BY <1>0, <2>1, <2>2, ToSendType, BatchAssumption DEF ToSend, AllSent
  <2> QED BY <1>1, <2>1, <2>2, <2>3, <1>0, ToSendType, BatchAssumption DEF StepsLeft, At, ToSend, AllSent
<1>8. CASE Return(w) \/ ServerFails(w)
  BY <1>0, <1>2, <1>8, GotoCall DEF Return, ServerFails, Raise
<1> QED BY <1>2, <1>4, <1>5, <1>6, <1>7, <1>8 DEF IndexStep

(* What can become of a delivery in one step.                                  *)
GoesOn(w) ==
    \/ UNCHANGED <<job[w], call[w]>>
    \/ Doing(w, "idle")'
    \/ Doing(w, "received") /\ Doing(w, "index")'
    \/ Doing(w, "index") /\ job'[w] = job[w] /\ StepsLeft(w)' < StepsLeft(w)

(* Why a call raises: a fault, or another process was faster.                    *)
RaisesFor(w) ==
    call[w].pc # "raised" /\ call'[w].pc = "raised" =>
        faults' = faults + 1 \/ (At(w, "create") /\ schema # "absent")

LEMMA DeliveryGoesOn ==
    ASSUME IInv, [Next]_vars, NEW w \in Instances, ~Doing(w, "idle")
    PROVE  GoesOn(w) /\ RaisesFor(w)
<1>0. /\ TypeOK /\ job \in [Instances -> Job] /\ call \in [Procs -> Call] /\ w \in Procs
      /\ Instances \subseteq Procs
  BY DEF IInv, TypeOK, IndexTypeOK, Instances
<1>1. CASE UNCHANGED <<job[w], call[w]>>
  BY <1>1 DEF GoesOn, RaisesFor
<1>2. ASSUME NEW v \in Instances, job' = [job EXCEPT ![v] = NoJob], v = w, call' = call \/ EndCall(v)
      PROVE  GoesOn(w) /\ RaisesFor(w)
  <2>1. Doing(w, "idle")'
    BY <1>0, <1>2 DEF Doing, NoJob
  <2>2. call'[w].pc = call[w].pc \/ call'[w].pc = "idle"
    BY <1>0, <1>2 DEF EndCall, NoCall
  <2> QED BY <2>1, <2>2 DEF GoesOn, RaisesFor
<1>3. CASE Parse(w) /\ ParsesOf(job[w].object) # {}
  <2>1. PICK k \in Readings(w) :
          job' = [job EXCEPT ![w].pc = "index", ![w].parse = k] /\ IndexChunks(w, k)
    BY <1>3 DEF Parse
  <2>2. Doing(w, "received")
    BY <1>3 DEF Parse
  <2>3. Doing(w, "index")'
    BY <1>0, <2>1 DEF Doing, Job
  <2>4. call'[w].pc = "ensure"
    BY <1>0, <2>1 DEF IndexChunks
  <2> QED BY <2>2, <2>3, <2>4 DEF GoesOn, RaisesFor
<1>4. CASE Index(w)
  <2>1. GoesOn(w)
    BY <1>4, CallGoesOn DEF Index, GoesOn
  <2>2. ~Refused(w)
    BY DEF Refused, IInv, SchemaFits, Instances
  <2>3. CASE Ensure(w) \/ Embed(w) \/ Return(w)
    <3>1. call'[w].pc # "raised"
      BY <1>0, <2>3, GotoCall DEF Ensure, Embed, Return, Call
    <3> QED BY <2>1, <3>1 DEF RaisesFor
  <2>4. CASE Create(w)
    <3>1. CASE schema # "absent"
      BY <2>1, <2>4, <3>1 DEF Create, RaisesFor
    <3>2. CASE schema = "absent"
      BY <1>0, <2>1, <2>4, <3>2, GotoCall DEF Create, RaisesFor
    <3> QED BY <3>1, <3>2
  <2>5. CASE Upsert(w)
    <3>1. call' = [call EXCEPT ![w].sent = @ + Batch] /\ call[w].pc = "upsert"
      BY <2>2, <2>5 DEF Upsert, At
    <3>2. call'[w].pc = "upsert"
      BY <1>0, <3>1 DEF Call
    <3> QED BY <2>1, <3>2 DEF RaisesFor
  <2> QED BY <1>4, <2>1, <2>3, <2>4, <2>5 DEF Index, IndexStep
<1>5. CASE JobFails(w) /\ Doing(w, "index") /\ ServerFails(w) /\ UNCHANGED job
  <2>1. GoesOn(w)
    BY <1>5, CallGoesOn DEF GoesOn
  <2>2. RaisesFor(w)
    BY <1>5 DEF JobFails, Fault, RaisesFor
  <2> QED BY <2>1, <2>2
<1>6. ASSUME NEW v \in Instances, v # w,
             Handle(v) \/ JobFails(v) \/ Crash(v) \/ \E o \in Objects : Deliver(v, o)
      PROVE  UNCHANGED <<job[w], call[w]>>
  <2>1. CASE \E o \in Objects : Deliver(v, o)
    BY <1>0, <1>6, <2>1 DEF Deliver, indexVars
  <2>2. CASE Doing(v, "index") /\ (IndexStep(v) \/ ServerFails(v)) /\ UNCHANGED job
    BY <1>0, <1>6, <2>2, IndexEffect
  <2>3. CASE Done(v) /\ (EndCall(v) \/ UNCHANGED indexVars)
    BY <1>0, <1>6, <2>3 DEF Done, EndCall, indexVars
  <2>4. ASSUME NEW k, job' = [job EXCEPT ![v].pc = "index", ![v].parse = k], IndexChunks(v, k)
        PROVE  UNCHANGED <<job[w], call[w]>>
    BY <1>0, <1>6, <2>4 DEF IndexChunks
  <2> QED
    BY <1>6, <2>1, <2>2, <2>3, <2>4
       DEF Handle, Skip, Parse, Index, Respond, JobFails, Crash, IndexRestart, Done
<1>7. CASE \E o \in Objects : Deliver(w, o)
  BY <1>7 DEF Deliver
<1>8. CASE Skip(w) \/ (Parse(w) /\ ParsesOf(job[w].object) = {}) \/ Respond(w) \/ Crash(w)
             \/ (JobFails(w) /\ Done(w) /\ EndCall(w))
  BY <1>2, <1>8 DEF Skip, Parse, Respond, Crash, IndexRestart, Done, indexVars
<1>9. CASE (\E o \in Objects : Expire(o)) \/ UNCHANGED vars
  BY <1>1, <1>9 DEF Expire, indexVars, vars
<1>10. CASE Handle(w) \/ JobFails(w) \/ Crash(w)
  BY <1>3, <1>4, <1>5, <1>8, <1>10 DEF Handle, JobFails
<1> QED BY <1>1, <1>6, <1>7, <1>9, <1>10 DEF Next, Work

(* A delivery comes to its response in a bounded number of steps: it is parsed, *)
(* then each step of its call of index_chunks brings the response nearer, for     *)
(* parses and batches of any size and whatever other instances and faults do to   *)
(* the collection. And a call raises only by a fault, or because another          *)
(* instance created the collection between its check and its own attempt.        *)
(* UploadsSettle adds the fairness of the subscription.                          *)
THEOREM DeliveriesAreBounded ==
    Spec => [][\A w \in Instances : ~Doing(w, "idle") => GoesOn(w) /\ RaisesFor(w)]_vars
<1>1. IInv /\ [Next]_vars =>
        [\A w \in Instances : ~Doing(w, "idle") => GoesOn(w) /\ RaisesFor(w)]_vars
  BY DeliveryGoesOn
<1> QED BY <1>1, Invariant, PTL DEF Spec

===============================================================================
