----------------------- MODULE DocumentLifecycle_proofs -----------------------
(***************************************************************************)
(* Theorems about the document registry, for every value of the constants.  *)
(* The argument: at most one caller and one thread ever own a document, so   *)
(* nobody but its owner writes its entry or its collection (Ownership); from *)
(* that, a ready document is whole and stays so (Indexed), and as long as    *)
(* the store does not fail an acknowledged document is in it (Durable).      *)
(* What a client sees of it is what DocumentService allows, and a persisted   *)
(* document is never out of sight of those who settle it (Recalled).         *)
(***************************************************************************)
EXTENDS DocumentLifecycle, TLAPS

(* The worker of a document finds it "parsing".                              *)
WorkersParse == \A t \in Threads : Live(t) => docs[worker[t].doc].status = "parsing"

(* No two activations of add_document are about the same document.           *)
OneCallPerDoc ==
    \A c, e \in Callers : Active(c) /\ Active(e) /\ call[c].doc = call[e].doc => c = e

(* Handlers run only while serving and only load samples; uploads never do.  *)
HandlersLoadSamples ==
    \A h \in Handlers : Active(h) => phase = "serving" /\ call[h].doc \in Samples
LoopUploads == phase = "serving" /\ Active("loop") => call["loop"].doc \notin Samples

(* Before the thread of a document starts, no other thread has it.           *)
CallsPrepare ==
    \A c \in Callers :
        /\ call[c].pc = "open" => ~Known(call[c].doc)
        /\ call[c].pc \in {"blob", "name", "start"} =>
              docs[call[c].doc].status = "parsing" /\ ~HasWorker(call[c].doc)

(* A stopped process has neither.                                            *)
DownIsIdle == phase = "down" => /\ \A t \in Threads : ~Live(t)
                                /\ ~Active("loop")
                                /\ \A d \in Docs : docs[d].status = "absent"

Ownership == /\ WorkersParse /\ OneWorkerPerDoc /\ OneCallPerDoc
             /\ HandlersLoadSamples /\ LoopUploads /\ CallsPrepare /\ DownIsIdle

(* An upserting worker has put its first n batches into the collection.      *)
UpsertProgress ==
    \A t \in Threads : worker[t].pc = "upsert" =>
        \A b \in 1..worker[t].n : <<worker[t].doc, b>> \in points[worker[t].doc]

(* A running question only searches ready documents.                         *)
AsksReady == \A a \in Asks : \A d \in ask[a].docs : docs[d].status = "ready"

Indexed == UpsertProgress /\ ReadyIsIndexed /\ AsksReady

(* What the store holds of a document: its bytes and its name.               *)
Stored(d) == d \in blobs /\ names[d] # "none"

CallsStore ==
    \A c \in Callers :
        /\ Active(c) => call[c].name # "none"
        /\ call[c].pc \in {"blob", "name", "start", "join"} => call[c].doc \notin Corrupt
        /\ call[c].pc = "name" => call[c].doc \in blobs
        /\ call[c].pc \in {"start", "join"} => Stored(call[c].doc)
        /\ call[c].pc = "join" => docs[call[c].doc].status # "absent"

RegisteredIsStored ==
    \A d \in Docs : docs[d].status # "absent" =>
        \/ Stored(d)
        \/ \E c \in Callers : call[c].doc = d /\ call[c].pc \in {"blob", "name"}

(* load_persisted has not lost a document it found in the store.             *)
LoaderKeepsAcked ==
    phase = "loading" => \A d \in acked : \/ d \in pending
                                          \/ docs[d].status # "absent"
                                          \/ call["loop"].doc = d /\ call["loop"].pc = "open"

Durable == /\ CallsStore /\ RegisteredIsStored /\ blobs \cap Corrupt = {}
           /\ AckedIsPersisted /\ LoaderKeepsAcked /\ AckedIsServed /\ NeverStuckParsing

-----------------------------------------------------------------------------
LEMMA CallTypes ==
    ASSUME CallOK, NEW c \in Callers
    PROVE  /\ call[c].pc \in {"idle", "open", "blob", "name", "start", "join"}
           /\ call[c].doc \in Docs \cup {NoDoc}
           /\ call[c].name \in Name
           /\ call[c].pc # "idle" => call[c].doc \in Docs
BY DEF CallOK, Active

LEMMA WorkerTypes ==
    ASSUME WorkerOK, NEW t \in Threads
    PROVE  /\ worker[t].pc \in {"free", "parse", "upsert"}
           /\ worker[t].doc \in Docs \cup {NoDoc}
           /\ worker[t].n \in Nat
           /\ worker[t].n <= (IF worker[t].pc = "parse" THEN Pages ELSE Batches)
           /\ worker[t].pc # "free" => worker[t].doc \in Docs
BY DEF WorkerOK, Live

(* What every action does to the parts of the type it leaves alone.          *)
LEMMA CallFrame == CallOK /\ UNCHANGED call => CallOK'
BY DEF CallOK, Active

LEMMA WorkerFrame == WorkerOK /\ UNCHANGED worker => WorkerOK'
BY DEF WorkerOK, Live

(* An activation that moves to another pc, ends, or begins keeps its type.   *)
LEMMA CallStepType ==
    ASSUME CallOK, NEW c \in Callers, Active(c),
           NEW pc \in {"open", "blob", "name", "start", "join"}, Step(c, pc)
    PROVE  CallOK'
BY CallTypes DEF CallOK, Step, Active

LEMMA CallReturnType ==
    ASSUME CallOK, NEW c \in Callers, Return(c)
    PROVE  CallOK'
BY CallTypes DEF CallOK, Return, IdleCall, Active, Name

LEMMA SettleType ==
    ASSUME TypeOK, NEW t \in Threads, Live(t), NEW st \in Status, NEW k \in 0..Pages,
           Settle(t, st, k)
    PROVE  TypeOK'
<1>1. DocsOK'
  BY WorkerTypes DEF Settle, TypeOK, DocsOK, Live
<1>2. WorkerOK'
  <2>1. worker' \in [Threads -> [pc : {"free", "parse", "upsert"},
                                 doc : Docs \cup {NoDoc}, n : Nat]]
    BY WorkerTypes DEF Settle, TypeOK, WorkerOK, IdleWorker
  <2>2. \A u \in Threads : worker'[u] = IF u = t THEN IdleWorker ELSE worker[u]
    BY DEF Settle, TypeOK, WorkerOK
  <2> QED BY <2>1, <2>2, SizeAssumption, WorkerTypes DEF TypeOK, WorkerOK, Live, IdleWorker
<1> QED
  BY <1>1, <1>2, CallFrame DEF Settle, durable, TypeOK, StoreOK, PointsOK, AskOK

LEMMA AddDocumentType ==
    ASSUME TypeOK, NEW c \in Callers, NEW d \in Docs, NEW n \in Name,
           AddDocument(c, d, n), phase' = phase, pending' \subseteq Docs
    PROVE  TypeOK'
<1>1. CallOK'
  <2>1. CASE Known(d)
    BY <2>1, CallFrame DEF AddDocument, TypeOK
  <2>2. CASE ~Known(d)
    BY <2>2, CallTypes DEF AddDocument, TypeOK, CallOK, Active
  <2> QED BY <2>1, <2>2
<1>2. acked' \subseteq Docs
  BY DEF AddDocument, Acknowledge, TypeOK, StoreOK
<1> QED
  BY <1>1, <1>2, WorkerFrame DEF AddDocument, TypeOK, DocsOK, StoreOK, PointsOK, AskOK

LEMMA AddStepType ==
    ASSUME TypeOK, NEW c \in Callers, AddStep(c)
    PROVE  TypeOK'
<1> USE CallTypes, CallFrame, WorkerFrame, CallReturnType, CallStepType
<1>1. CASE Refuse(c)
  BY <1>1 DEF Refuse, durable, TypeOK, DocsOK, StoreOK, PointsOK, AskOK
<1>2. CASE Register(c)
  <2>1. Active(c) /\ call[c].doc \in Docs /\ call[c].name \in Name
    BY <1>2 DEF Register, Active, TypeOK
  <2>2. NewEntry(call[c].name) \in [status : Status, name : Name, parsed : 0..Pages,
                                    index : BOOLEAN, engine : BOOLEAN]
    BY <2>1, SizeAssumption DEF NewEntry, Status
  <2>3. DocsOK'
    BY <1>2, <2>1, <2>2 DEF Register, TypeOK, DocsOK
  <2> QED BY <1>2, <2>1, <2>3 DEF Register, durable, TypeOK, StoreOK, PointsOK, AskOK
<1>3. CASE SaveBlob(c)
  BY <1>3 DEF SaveBlob, Active, TypeOK, DocsOK, StoreOK, PointsOK, AskOK
<1>4. CASE SaveName(c)
  BY <1>4 DEF SaveName, Active, TypeOK, DocsOK, StoreOK, PointsOK, AskOK
<1>5. CASE Raise(c)
  BY <1>5 DEF Raise, durable, TypeOK, DocsOK, StoreOK, PointsOK, AskOK
<1>6. CASE Start(c)
  <2>1. Active(c) /\ call[c].doc \in Docs
    BY <1>6 DEF Start, Active, TypeOK
  <2>2. WorkerOK'
    <3>1. PICK t \in Threads :
            worker' = [worker EXCEPT ![t] = [pc |-> "parse", doc |-> call[c].doc, n |-> 0]]
      BY <1>6 DEF Start
    <3> QED BY <2>1, <3>1, WorkerTypes, SizeAssumption DEF TypeOK, WorkerOK, Live
  <2>3. CallOK' /\ acked' \subseteq Docs
    BY <1>6, <2>1 DEF Start, Acknowledge, TypeOK, StoreOK
  <2> QED BY <1>6, <2>2, <2>3 DEF Start, TypeOK, DocsOK, StoreOK, PointsOK, AskOK
<1>7. CASE Join(c)
  BY <1>7 DEF Join, Acknowledge, TypeOK, DocsOK, StoreOK, PointsOK, AskOK
<1> QED BY <1>1, <1>2, <1>3, <1>4, <1>5, <1>6, <1>7 DEF AddStep

LEMMA WorkerStepType ==
    ASSUME TypeOK, NEW t \in Threads, WorkerStep(t)
    PROVE  TypeOK'
<1> USE WorkerTypes, CallFrame, SizeAssumption
<1>1. CASE ParsePage(t)
  <2>1. worker[t].doc \in Docs /\ worker[t].n + 1 \in 0..Pages
    BY <1>1 DEF ParsePage, TypeOK
  <2>2. DocsOK'
    BY <1>1, <2>1 DEF ParsePage, TypeOK, DocsOK
  <2>3. WorkerOK'
    BY <1>1, <2>1 DEF ParsePage, TypeOK, WorkerOK, Live
  <2> QED BY <1>1, <2>2, <2>3 DEF ParsePage, durable, TypeOK, StoreOK, PointsOK, AskOK
<1>2. CASE OpenIndex(t)
  <2>1. worker[t].doc \in Docs
    BY <1>2 DEF OpenIndex, TypeOK
  <2>2. DocsOK'
    BY <1>2, <2>1 DEF OpenIndex, TypeOK, DocsOK
  <2>3. WorkerOK'
    BY <1>2, <2>1 DEF OpenIndex, TypeOK, WorkerOK, Live
  <2>4. PointsOK'
    BY <1>2, <2>1 DEF OpenIndex, TypeOK, PointsOK, Collections, DocIndex
  <2> QED BY <1>2, <2>2, <2>3, <2>4 DEF OpenIndex, durable, TypeOK, StoreOK, AskOK
<1>3. CASE UpsertBatch(t)
  <2>1. worker[t].doc \in Docs /\ worker[t].n + 1 \in Batch
    BY <1>3 DEF UpsertBatch, TypeOK, Batch
  <2>2. WorkerOK'
    BY <1>3, <2>1 DEF UpsertBatch, TypeOK, WorkerOK, Live, Batch
  <2>3. PointsOK'
    BY <1>3, <2>1 DEF UpsertBatch, TypeOK, PointsOK, Collections, DocIndex
  <2> QED BY <1>3, <2>2, <2>3 DEF UpsertBatch, durable, TypeOK, DocsOK, StoreOK, AskOK
<1>4. CASE Finish(t)
  BY <1>4, SettleType DEF Finish, Live, Status
<1>5. CASE IngestFails(t)
  <2>1. docs[worker[t].doc].parsed \in 0..Pages
    BY <1>5 DEF IngestFails, Live, TypeOK, DocsOK
  <2> QED BY <1>5, <2>1, SettleType DEF IngestFails, Status
<1> QED BY <1>1, <1>2, <1>3, <1>4, <1>5 DEF WorkerStep

(* Every variable keeps its type.                                            *)
THEOREM TypeCorrect == Spec => []TypeOK
<1>1. Init => TypeOK
  BY SizeAssumption
     DEF Init, TypeOK, DocsOK, CallOK, WorkerOK, StoreOK, PointsOK, AskOK, Absent, IdleCall,
         IdleWorker, IdleAsk, Status, Name, Batch, Active, Live, Collections
<1>2. TypeOK /\ [Next]_vars => TypeOK'
  <2> SUFFICES ASSUME TypeOK, [Next]_vars PROVE TypeOK'
    OBVIOUS
  <2> USE CallFrame, WorkerFrame
  <2>1. CASE Restart
    BY <2>1 DEF Restart, durable, TypeOK, DocsOK, StoreOK, PointsOK, AskOK
  <2>2. ASSUME NEW d \in Docs, LoadNext(d) PROVE TypeOK'
    <3>1. CASE docs[d].status # "absent"
      BY <2>2, <3>1 DEF LoadNext, durable, TypeOK, DocsOK, StoreOK, PointsOK, AskOK
    <3>2. CASE docs[d].status = "absent"
      <4>1. (IF names[d] = "none" THEN "default" ELSE names[d]) \in Name
        BY DEF TypeOK, StoreOK, Name
      <4> QED BY <2>2, <3>2, <4>1, AddDocumentType DEF LoadNext, TypeOK, Callers
    <3> QED BY <3>1, <3>2
  <2>3. CASE Serve
    BY <2>3 DEF Serve, durable, TypeOK, DocsOK, StoreOK, PointsOK, AskOK
  <2>4. CASE Crash
    BY <2>4, SizeAssumption
       DEF Crash, durable, TypeOK, DocsOK, CallOK, WorkerOK, StoreOK, PointsOK, AskOK, Absent,
           IdleCall, IdleWorker, IdleAsk, Status, Name, Active, Live, Batch
  <2>5. ASSUME NEW d \in Docs, Upload(d) PROVE TypeOK'
    BY <2>5, AddDocumentType DEF Upload, Callers, Name, TypeOK
  <2>6. ASSUME NEW h \in Handlers, NEW d \in Docs, LoadSample(h, d) PROVE TypeOK'
    BY <2>6, AddDocumentType DEF LoadSample, Callers, Name, TypeOK
  <2>7. ASSUME NEW c \in Callers, AddStep(c) PROVE TypeOK'
    BY <2>7, AddStepType
  <2>8. ASSUME NEW t \in Threads, WorkerStep(t) PROVE TypeOK'
    BY <2>8, WorkerStepType
  <2>9. ASSUME NEW a \in Asks, NEW d \in Docs, NEW other \in Docs, AskQuestion(a, d, other)
        PROVE  TypeOK'
    <3>1. DocsOK'
      BY <2>9 DEF AskQuestion, TypeOK, DocsOK
    <3>2. AskOK'
      BY <2>9 DEF AskQuestion, TypeOK, AskOK
    <3> QED BY <2>9, <3>1, <3>2 DEF AskQuestion, durable, TypeOK, StoreOK, PointsOK
  <2>10. ASSUME NEW a \in Asks, NEW d \in Docs, Retrieve(a, d) PROVE TypeOK'
    BY <2>10 DEF Retrieve, durable, TypeOK, DocsOK, StoreOK, PointsOK, AskOK
  <2>11. ASSUME NEW a \in Asks, Answer(a) PROVE TypeOK'
    BY <2>11 DEF Answer, IdleAsk, durable, TypeOK, DocsOK, StoreOK, PointsOK, AskOK
  <2>12. CASE UNCHANGED vars
    BY <2>12 DEF vars, TypeOK, DocsOK, StoreOK, PointsOK, AskOK
  <2> QED
    BY <2>1, <2>2, <2>3, <2>4, <2>5, <2>6, <2>7, <2>8, <2>9, <2>10, <2>11, <2>12
       DEF Next, Load
<1> QED BY <1>1, <1>2, PTL DEF Spec

-----------------------------------------------------------------------------
(* Nothing of Ownership depends on the store, the collections or the asks.   *)
LEMMA OwnershipFrame ==
    ASSUME Ownership, UNCHANGED <<phase, docs, call, worker>>
    PROVE  Ownership'
BY DEF Ownership, WorkersParse, OneWorkerPerDoc, OneCallPerDoc, HandlersLoadSamples, LoopUploads,
       CallsPrepare, DownIsIdle, Live, Active, Known, HasWorker

(* A caller whose document no other caller has may begin.                    *)
LEMMA AddDocumentOwnership ==
    ASSUME TypeOK, Ownership, NEW c \in Callers, NEW d \in Docs, NEW n \in Name,
           AddDocument(c, d, n), phase' = phase, phase # "down",
           \A e \in Callers : Active(e) => call[e].doc # d,
           c \in Handlers => phase = "serving" /\ d \in Samples,
           c = "loop" /\ phase = "serving" => d \notin Samples
    PROVE  Ownership'
<1>1. CASE Known(d)
  BY <1>1, OwnershipFrame DEF AddDocument
<1>2. CASE ~Known(d)
  <2>1. /\ call'[c] = [pc |-> "open", doc |-> d, name |-> n]
        /\ \A e \in Callers : e # c => call'[e] = call[e]
        /\ UNCHANGED <<docs, worker>> /\ ~Active(c)
    BY <1>2 DEF AddDocument, TypeOK, CallOK
  <2>2. OneCallPerDoc'
    BY <2>1 DEF Ownership, OneCallPerDoc, Active
  <2>3. CallsPrepare'
    BY <2>1, <1>2 DEF Ownership, CallsPrepare, Known, HasWorker, Live
  <2>4. HandlersLoadSamples' /\ LoopUploads'
    BY <2>1, CallerAssumption DEF Ownership, HandlersLoadSamples, LoopUploads, Active, Callers
  <2> QED
    BY <2>1, <2>2, <2>3, <2>4
       DEF Ownership, WorkersParse, OneWorkerPerDoc, DownIsIdle, Live
<1> QED BY <1>1, <1>2

(* A caller that ends, or moves on past the registration of its document.    *)
LEMMA CallEndOwnership ==
    ASSUME TypeOK, Ownership, NEW c \in Callers, Active(c), UNCHANGED <<phase, docs, worker>>,
           Return(c) \/ (call[c].pc = "blob" /\ Step(c, "name"))
                     \/ (call[c].pc = "name" /\ Step(c, "start"))
    PROVE  Ownership'
<1>1. /\ \A e \in Callers : e # c => call'[e] = call[e]
      /\ \/ call'[c] = IdleCall
         \/ /\ call'[c].doc = call[c].doc /\ call'[c].pc \in {"name", "start"}
            /\ call[c].pc \in {"blob", "name"}
  BY DEF Return, Step, TypeOK, CallOK
<1>2. OneCallPerDoc' /\ HandlersLoadSamples' /\ LoopUploads'
  BY <1>1 DEF Ownership, OneCallPerDoc, HandlersLoadSamples, LoopUploads, Active, Callers,
              IdleCall
<1>3. CallsPrepare'
  BY <1>1 DEF Ownership, CallsPrepare, Known, HasWorker, Live, IdleCall
<1> QED
  BY <1>1, <1>2, <1>3
     DEF Ownership, WorkersParse, OneWorkerPerDoc, DownIsIdle, Live, Active, IdleCall, Callers

LEMMA AddStepOwnership ==
    ASSUME TypeOK, Ownership, NEW c \in Callers, AddStep(c)
    PROVE  Ownership'
<1>0. Active(c) /\ call[c].doc \in Docs
  BY CallTypes DEF AddStep, Refuse, Register, SaveBlob, SaveName, Raise, Start, Join, Active,
                   TypeOK
<1>1. CASE Refuse(c) \/ SaveBlob(c) \/ SaveName(c) \/ Raise(c) \/ Join(c)
  BY <1>0, <1>1, CallEndOwnership DEF Refuse, SaveBlob, SaveName, Raise, Join
<1>2. CASE Register(c)
  <2> DEFINE d == call[c].doc
  <2>1. /\ call[c].pc = "open" /\ ~Known(d)
        /\ \A e \in Callers : e # c => call'[e] = call[e]
        /\ call'[c].pc = "blob" /\ call'[c].doc = d
        /\ docs'[d].status = "parsing"
        /\ \A e \in Docs : e # d => docs'[e] = docs[e]
        /\ UNCHANGED <<phase, worker>>
    BY <1>0, <1>2 DEF Register, Step, NewEntry, TypeOK, DocsOK, CallOK, Ownership, CallsPrepare
  <2>2. ~HasWorker(d)
    BY <2>1 DEF Ownership, WorkersParse, HasWorker, Known
  <2>3. \A e \in Callers : e # c /\ Active(e) => call[e].doc # d /\ call[e].doc \in Docs
    BY <1>0, CallTypes DEF Ownership, OneCallPerDoc, Active, TypeOK
  <2>4. CallsPrepare'
    BY <1>0, <2>1, <2>2, <2>3 DEF Ownership, CallsPrepare, Known, HasWorker, Live, Active
  <2>5. OneCallPerDoc' /\ HandlersLoadSamples' /\ LoopUploads'
    BY <2>1, <1>0 DEF Ownership, OneCallPerDoc, HandlersLoadSamples, LoopUploads, Active,
                      Callers
  <2>6. WorkersParse' /\ OneWorkerPerDoc'
    BY <1>0, <2>1, <2>2, WorkerTypes
       DEF Ownership, WorkersParse, OneWorkerPerDoc, HasWorker, Live, TypeOK
  <2>7. phase # "down"
    BY <1>0, <2>1 DEF Ownership, DownIsIdle, HandlersLoadSamples, Callers
  <2> QED BY <2>1, <2>4, <2>5, <2>6, <2>7 DEF Ownership, DownIsIdle
<1>3. CASE Start(c)
  <2> DEFINE d == call[c].doc
  <2>1. PICK t \in Threads :
          /\ ~Live(t)
          /\ worker' = [worker EXCEPT ![t] = [pc |-> "parse", doc |-> d, n |-> 0]]
    BY <1>3 DEF Start
  <2>2. /\ worker'[t].pc = "parse" /\ worker'[t].doc = d
        /\ \A u \in Threads : u # t => worker'[u] = worker[u]
        /\ UNCHANGED <<phase, docs>>
    BY <1>3, <2>1 DEF Start, TypeOK, WorkerOK
  <2>3. docs[d].status = "parsing" /\ ~HasWorker(d)
    BY <1>3 DEF Start, Ownership, CallsPrepare
  <2>4. /\ \A e \in Callers : e # c => call'[e] = call[e]
        /\ call'[c] = IdleCall \/ (call'[c].pc = "join" /\ call'[c].doc = d)
    BY <1>3 DEF Start, Return, Step, TypeOK, CallOK
  <2>5. WorkersParse' /\ OneWorkerPerDoc'
    BY <2>2, <2>3 DEF Ownership, WorkersParse, OneWorkerPerDoc, HasWorker, Live
  <2>6. OneCallPerDoc' /\ HandlersLoadSamples' /\ LoopUploads'
    BY <1>0, <2>2, <2>4 DEF Ownership, OneCallPerDoc, HandlersLoadSamples, LoopUploads, Active,
                      Callers, IdleCall
  <2>7. CallsPrepare'
    <3>1. \A e \in Callers : e # c /\ Active(e) => call[e].doc # d
      BY <1>0 DEF Ownership, OneCallPerDoc
    <3> QED
      BY <2>2, <2>4, <3>1
         DEF Ownership, CallsPrepare, Known, HasWorker, Live, Active, IdleCall
  <2>8. phase # "down"
    BY <1>0 DEF Ownership, DownIsIdle, HandlersLoadSamples, Callers
  <2> QED BY <2>2, <2>5, <2>6, <2>7, <2>8 DEF Ownership, DownIsIdle
<1> QED BY <1>1, <1>2, <1>3, AddStep(c) DEF AddStep

(* A worker only writes the entry of its own document.                       *)
LEMMA WorkerStepOwnership ==
    ASSUME TypeOK, Ownership, NEW t \in Threads, WorkerStep(t)
    PROVE  Ownership'
<1> DEFINE d == worker[t].doc
<1>1. Live(t) /\ d \in Docs /\ docs[d].status = "parsing" /\ UNCHANGED <<phase, call>>
  BY WorkerTypes DEF WorkerStep, ParsePage, OpenIndex, UpsertBatch, Finish, IngestFails, Settle,
                     Live, TypeOK, Ownership, WorkersParse
<1>2. \A u \in Threads : u # t => worker'[u] = worker[u]
  BY DEF WorkerStep, ParsePage, OpenIndex, UpsertBatch, Finish, IngestFails, Settle, TypeOK,
         WorkerOK
<1>3. \A e \in Docs : e # d => docs'[e] = docs[e]
  BY DEF WorkerStep, ParsePage, OpenIndex, UpsertBatch, Finish, IngestFails, Settle, TypeOK,
         DocsOK
<1>4. \/ worker'[t].pc # "free" /\ worker'[t].doc = d /\ docs'[d].status = "parsing"
      \/ worker'[t].pc = "free" /\ docs'[d].status \in {"ready", "error"}
  <2>1. CASE ParsePage(t) \/ OpenIndex(t) \/ UpsertBatch(t)
    <3>1. worker'[t].pc # "free" /\ worker'[t].doc = d
      BY <1>1, <2>1 DEF ParsePage, OpenIndex, UpsertBatch, TypeOK, WorkerOK
    <3>2. docs'[d].status = docs[d].status
      BY <1>1, <2>1 DEF ParsePage, OpenIndex, UpsertBatch, TypeOK, DocsOK
    <3> QED BY <1>1, <3>1, <3>2
  <2>2. CASE Finish(t) \/ IngestFails(t)
    <3>1. worker'[t].pc = "free"
      BY <2>2 DEF Finish, IngestFails, Settle, IdleWorker, TypeOK, WorkerOK
    <3>2. ASSUME NEW st, NEW k, Settle(t, st, k) PROVE docs'[d].status = st
      BY <1>1, <3>2 DEF Settle, TypeOK, DocsOK
    <3> QED BY <2>2, <3>1, <3>2 DEF Finish, IngestFails
  <2> QED BY <2>1, <2>2, WorkerStep(t) DEF WorkerStep
<1>5. \A u \in Threads : u # t /\ Live(u) => worker[u].doc # d /\ worker[u].doc \in Docs
  BY <1>1, WorkerTypes DEF Ownership, OneWorkerPerDoc, Live, TypeOK
<1>6. WorkersParse' /\ OneWorkerPerDoc'
  BY <1>1, <1>2, <1>3, <1>4, <1>5 DEF Ownership, WorkersParse, OneWorkerPerDoc, Live
<1>7. CallsPrepare'
  <2>1. \A c \in Callers : call[c].pc \in {"open", "blob", "name", "start"} =>
                             call[c].doc # d /\ call[c].doc \in Docs
    BY <1>1, CallTypes DEF Ownership, CallsPrepare, Known, HasWorker, TypeOK
  <2>2. \A e \in Docs : e # d /\ HasWorker(e)' => HasWorker(e)
    BY <1>2, <1>4 DEF HasWorker, Live
  <2> QED BY <1>1, <1>3, <2>1, <2>2 DEF Ownership, CallsPrepare, Known
<1>8. phase # "down"
  BY <1>1 DEF Ownership, DownIsIdle
<1> QED
  BY <1>1, <1>6, <1>7, <1>8
     DEF Ownership, OneCallPerDoc, HandlersLoadSamples, LoopUploads, DownIsIdle, Active

LEMMA AskOwnership ==
    ASSUME TypeOK, Ownership, NEW a \in Asks, NEW d \in Docs, NEW e \in Docs,
           AskQuestion(a, d, e)
    PROVE  Ownership'
<1>1. \A f \in Docs : docs'[f].status = docs[f].status
  BY DEF AskQuestion, TypeOK, DocsOK
<1>2. UNCHANGED <<phase, call, worker>> /\ phase # "down"
  BY DEF AskQuestion
<1>3. CallsPrepare'
  BY <1>1, <1>2, CallTypes DEF Ownership, CallsPrepare, Known, HasWorker, Live, TypeOK
<1>4. WorkersParse'
  BY <1>1, <1>2, WorkerTypes DEF Ownership, WorkersParse, Live, TypeOK
<1> QED
  BY <1>2, <1>3, <1>4
     DEF Ownership, OneWorkerPerDoc, OneCallPerDoc, HandlersLoadSamples, LoopUploads,
         DownIsIdle, Live, Active

LEMMA OwnershipInit == Init => Ownership
BY DEF Init, Ownership, WorkersParse, OneWorkerPerDoc, OneCallPerDoc, HandlersLoadSamples,
       LoopUploads, CallsPrepare, DownIsIdle, Live, Active, HasWorker, Absent, IdleCall,
       IdleWorker, Callers

LEMMA OwnershipNext == TypeOK /\ Ownership /\ [Next]_vars => Ownership'
<1> SUFFICES ASSUME TypeOK, Ownership, [Next]_vars PROVE Ownership'
  OBVIOUS
<1>1. CASE Restart
  BY <1>1 DEF Restart, Ownership, WorkersParse, OneWorkerPerDoc, OneCallPerDoc,
              HandlersLoadSamples, LoopUploads, CallsPrepare, DownIsIdle, Live, Active, Known,
              HasWorker, Callers
<1>2. ASSUME NEW d \in Docs, LoadNext(d) PROVE Ownership'
  <2>1. CASE docs[d].status # "absent"
    BY <1>2, <2>1, OwnershipFrame DEF LoadNext
  <2>2. CASE docs[d].status = "absent"
    <3> DEFINE n == IF names[d] = "none" THEN "default" ELSE names[d]
    <3>1. n \in Name
      BY DEF TypeOK, StoreOK, Name
    <3>2. /\ AddDocument("loop", d, n) /\ phase = "loading" /\ phase' = phase
          /\ \A e \in Callers : ~Active(e)
      BY <1>2, <2>2 DEF LoadNext, AddDocument, Ownership, HandlersLoadSamples, Callers
    <3> HIDE DEF n
    <3> QED BY <3>1, <3>2, AddDocumentOwnership, CallerAssumption DEF Callers
  <2> QED BY <2>1, <2>2
<1>3. CASE Serve
  BY <1>3 DEF Serve, Ownership, WorkersParse, OneWorkerPerDoc, OneCallPerDoc,
              HandlersLoadSamples, LoopUploads, CallsPrepare, DownIsIdle, Live, Active, Known,
              HasWorker
<1>4. CASE Crash
  BY <1>4 DEF Crash, Ownership, WorkersParse, OneWorkerPerDoc, OneCallPerDoc,
              HandlersLoadSamples, LoopUploads, CallsPrepare, DownIsIdle, Live, Active, Absent,
              IdleCall, IdleWorker, Callers
<1>5. ASSUME NEW d \in Docs, Upload(d) PROVE Ownership'
  <2>1. \A e \in Callers : Active(e) => call[e].doc # d
    BY <1>5 DEF Upload, AddDocument, Ownership, HandlersLoadSamples, Callers
  <2> QED BY <1>5, <2>1, AddDocumentOwnership, CallerAssumption DEF Upload, Callers, Name
<1>6. ASSUME NEW h \in Handlers, NEW d \in Docs, LoadSample(h, d) PROVE Ownership'
  <2>1. \A e \in Callers : Active(e) => call[e].doc # d
    BY <1>6 DEF LoadSample, Ownership, LoopUploads, Callers
  <2> QED BY <1>6, <2>1, AddDocumentOwnership, CallerAssumption DEF LoadSample, Callers, Name
<1>7. ASSUME NEW c \in Callers, AddStep(c) PROVE Ownership'
  BY <1>7, AddStepOwnership
<1>8. ASSUME NEW t \in Threads, WorkerStep(t) PROVE Ownership'
  BY <1>8, WorkerStepOwnership
<1>9. ASSUME NEW a \in Asks, NEW d \in Docs, NEW other \in Docs, AskQuestion(a, d, other)
      PROVE  Ownership'
  BY <1>9, AskOwnership
<1>10. ASSUME NEW a \in Asks, NEW d \in Docs, Retrieve(a, d) PROVE Ownership'
  BY <1>10, OwnershipFrame DEF Retrieve
<1>11. ASSUME NEW a \in Asks, Answer(a) PROVE Ownership'
  BY <1>11, OwnershipFrame DEF Answer
<1>12. CASE UNCHANGED vars
  BY <1>12, OwnershipFrame DEF vars
<1> QED
  BY <1>1, <1>2, <1>3, <1>4, <1>5, <1>6, <1>7, <1>8, <1>9, <1>10, <1>11, <1>12 DEF Next, Load

(* No document ever has two ingestion threads.                               *)
THEOREM OneWorker == Spec => []OneWorkerPerDoc
<1>1. Spec => []Ownership
  BY TypeCorrect, OwnershipInit, OwnershipNext, PTL DEF Spec
<1>2. Ownership => OneWorkerPerDoc
  BY DEF Ownership
<1> QED BY <1>1, <1>2, PTL

-----------------------------------------------------------------------------
LEMMA HeldAll ==
    ASSUME NEW d
    PROVE  Held(DocIndex(d), d) = Batch <=> \A b \in Batch : <<d, b>> \in points[d]
BY DEF Held, DocIndex

LEMMA ReadyIsIndexedUnfolded ==
    ReadyIsIndexed <=> \A d \in Docs : docs[d].status = "ready" =>
                                          \A b \in Batch : <<d, b>> \in points[d]
BY HeldAll DEF ReadyIsIndexed

LEMMA IndexedFrame ==
    ASSUME Indexed, UNCHANGED <<worker, points>>, AsksReady',
           \A d \in Docs : docs'[d].status = "ready" => docs[d].status = "ready"
    PROVE  Indexed'
BY DEF Indexed, UpsertProgress, ReadyIsIndexed, Held, DocIndex

LEMMA IndexedWorkerStep ==
    ASSUME TypeOK, Ownership, Indexed, NEW t \in Threads, WorkerStep(t)
    PROVE  Indexed'
<1> DEFINE d == worker[t].doc
<1>1. Live(t) /\ d \in Docs /\ docs[d].status = "parsing" /\ UNCHANGED ask
  BY WorkerTypes DEF WorkerStep, ParsePage, OpenIndex, UpsertBatch, Finish, IngestFails, Settle,
                     Live, TypeOK, Ownership, WorkersParse
<1>2. \A u \in Threads : u # t => worker'[u] = worker[u] /\ (Live(u) => worker[u].doc # d)
  BY <1>1 DEF WorkerStep, ParsePage, OpenIndex, UpsertBatch, Finish, IngestFails, Settle, TypeOK,
              WorkerOK, Ownership, OneWorkerPerDoc
<1>3. \A e \in Docs : e # d => docs'[e] = docs[e] /\ points'[e] = points[e]
  <2>1. \A e \in Docs : e # d => docs'[e] = docs[e]
    BY DEF WorkerStep, ParsePage, OpenIndex, UpsertBatch, Finish, IngestFails, Settle, TypeOK,
           DocsOK
  <2>2. \A e \in Docs : e # d => points'[e] = points[e]
    BY DEF WorkerStep, ParsePage, OpenIndex, UpsertBatch, Finish, IngestFails, Settle, TypeOK,
           PointsOK, DocIndex, Collections
  <2> QED BY <2>1, <2>2
<1>4. AsksReady'
  <2>1. \A a \in Asks : ask[a].docs \subseteq Docs
    BY DEF TypeOK, AskOK
  <2> QED BY <1>1, <1>3, <2>1 DEF Indexed, AsksReady
<1>5. \A u \in Threads : u # t /\ worker[u].pc = "upsert" =>
                          worker[u].doc \in Docs /\ worker[u].doc # d
  BY <1>2, WorkerTypes DEF Live, TypeOK
<1>6. SUFFICES /\ worker'[t].pc = "upsert" =>
                    \A b \in 1..worker'[t].n : <<worker'[t].doc, b>> \in points'[worker'[t].doc]
               /\ docs'[d].status = "ready" => \A b \in Batch : <<d, b>> \in points'[d]
  <2>1. UpsertProgress'
    BY <1>2, <1>3, <1>5, <1>6 DEF Indexed, UpsertProgress
  <2>2. \A e \in Docs : docs'[e].status = "ready" => \A b \in Batch : <<e, b>> \in points'[e]
    BY <1>3, <1>6, ReadyIsIndexedUnfolded DEF Indexed
  <2>3. ReadyIsIndexed'
    BY <2>2 DEF ReadyIsIndexed, Held, DocIndex
  <2> QED BY <1>4, <2>1, <2>3 DEF Indexed
<1>7. CASE ParsePage(t)
  BY <1>1, <1>7 DEF ParsePage, TypeOK, WorkerOK, DocsOK
<1>8. CASE OpenIndex(t)
  <2>1. worker'[t].n = 0
    BY <1>8 DEF OpenIndex, TypeOK, WorkerOK
  <2>2. docs'[d].status = "parsing"
    BY <1>1, <1>8 DEF OpenIndex, TypeOK, DocsOK
  <2> QED BY <2>1, <2>2
<1>9. CASE UpsertBatch(t)
  <2>1. /\ worker'[t].n = worker[t].n + 1 /\ worker'[t].doc = d /\ worker[t].pc = "upsert"
        /\ worker[t].n \in Nat
    BY <1>9, WorkerTypes DEF UpsertBatch, TypeOK, WorkerOK
  <2>2. points'[d] = points[d] \cup {<<d, worker[t].n + 1>>}
    BY <1>1, <1>9 DEF UpsertBatch, TypeOK, PointsOK, Collections, DocIndex
  <2>3. docs'[d].status = "parsing"
    BY <1>1, <1>9 DEF UpsertBatch
  <2>4. \A b \in 1..(worker[t].n + 1) : b \in 1..worker[t].n \/ b = worker[t].n + 1
    BY <2>1
  <2> QED BY <2>1, <2>2, <2>3, <2>4 DEF Indexed, UpsertProgress
<1>10. CASE Finish(t)
  <2>1. worker'[t].pc = "free" /\ worker[t].pc = "upsert" /\ worker[t].n = Batches
    BY <1>10 DEF Finish, Settle, IdleWorker, TypeOK, WorkerOK
  <2>2. points' = points
    BY <1>10 DEF Finish, Settle
  <2> QED BY <2>1, <2>2 DEF Indexed, UpsertProgress, Batch
<1>11. CASE IngestFails(t)
  <2>1. worker'[t].pc = "free"
    BY <1>11 DEF IngestFails, Settle, IdleWorker, TypeOK, WorkerOK
  <2>2. docs'[d].status = "error"
    BY <1>1, <1>11 DEF IngestFails, Settle, TypeOK, DocsOK
  <2> QED BY <2>1, <2>2
<1> QED BY <1>7, <1>8, <1>9, <1>10, <1>11, WorkerStep(t) DEF WorkerStep

(* Registering, storing and starting touch no ready document.                *)
LEMMA IndexedAddStep ==
    ASSUME TypeOK, Ownership, Indexed, NEW c \in Callers, AddStep(c)
    PROVE  Indexed'
<1>1. CASE Register(c)
  <2> DEFINE d == call[c].doc
  <2>1. d \in Docs /\ docs[d].status # "ready"
    BY <1>1, CallTypes DEF Register, Ownership, CallsPrepare, Known, TypeOK
  <2>2. docs'[d].status = "parsing" /\ \A e \in Docs : e # d => docs'[e] = docs[e]
    BY <1>1, <2>1 DEF Register, NewEntry, TypeOK, DocsOK
  <2>3. UNCHANGED <<worker, points, ask>>
    BY <1>1 DEF Register
  <2>4. AsksReady'
    BY <2>1, <2>2, <2>3 DEF Indexed, AsksReady, TypeOK, AskOK
  <2> QED BY <2>2, <2>3, <2>4, IndexedFrame
<1>2. CASE Start(c)
  <2>1. PICK t \in Threads :
          worker' = [worker EXCEPT ![t] = [pc |-> "parse", doc |-> call[c].doc, n |-> 0]]
    BY <1>2 DEF Start
  <2>2. \A u \in Threads : worker'[u].pc = "upsert" => worker'[u] = worker[u]
    BY <2>1 DEF TypeOK, WorkerOK
  <2>3. UNCHANGED <<docs, points, ask>>
    BY <1>2 DEF Start
  <2> QED
    BY <2>2, <2>3 DEF Indexed, UpsertProgress, ReadyIsIndexed, AsksReady, Held, DocIndex
<1>3. CASE ~Register(c) /\ ~Start(c)
  <2>1. UNCHANGED <<docs, worker, points, ask>>
    BY <1>3, AddStep(c) DEF AddStep, Refuse, SaveBlob, SaveName, Raise, Join
  <2> QED BY <2>1, IndexedFrame DEF Indexed, AsksReady
<1> QED BY <1>1, <1>2, <1>3

LEMMA IndexedAsk ==
    ASSUME TypeOK, Indexed, NEW a \in Asks, NEW d \in Docs, NEW e \in Docs,
           AskQuestion(a, d, e)
    PROVE  Indexed'
<1>1. \A f \in Docs : docs'[f].status = docs[f].status
  BY DEF AskQuestion, TypeOK, DocsOK
<1>2. UNCHANGED <<worker, points>>
  BY DEF AskQuestion
<1>3. \A b \in Asks : \A f \in ask'[b].docs :
          f \in Docs /\ (f \in ask[b].docs \/ docs[f].status = "ready")
  BY DEF AskQuestion, Answerable, TypeOK, AskOK
<1>4. AsksReady'
  BY <1>1, <1>3 DEF Indexed, AsksReady
<1> QED BY <1>1, <1>2, <1>4, IndexedFrame

LEMMA IndexedInit == Init => Indexed
BY DEF Init, Indexed, UpsertProgress, ReadyIsIndexed, AsksReady, Absent, IdleWorker, IdleAsk

LEMMA IndexedNext == TypeOK /\ Ownership /\ Indexed /\ [Next]_vars => Indexed'
<1> SUFFICES ASSUME TypeOK, Ownership, Indexed, [Next]_vars PROVE Indexed'
  OBVIOUS
<1>1. CASE Restart \/ Load \/ Serve \/ UNCHANGED vars
  <2>1. UNCHANGED <<docs, worker, points, ask>>
    BY <1>1 DEF Restart, Load, LoadNext, AddDocument, Serve, vars
  <2> QED BY <2>1, IndexedFrame DEF Indexed, AsksReady
<1>2. CASE Crash
  BY <1>2 DEF Crash, Indexed, UpsertProgress, ReadyIsIndexed, AsksReady, Absent, IdleWorker,
              IdleAsk
<1>3. CASE (\E d \in Docs : Upload(d)) \/ (\E h \in Handlers, d \in Docs : LoadSample(h, d))
  <2>1. UNCHANGED <<docs, worker, points, ask>>
    BY <1>3 DEF Upload, LoadSample, AddDocument
  <2> QED BY <2>1, IndexedFrame DEF Indexed, AsksReady
<1>4. ASSUME NEW c \in Callers, AddStep(c) PROVE Indexed'
  BY <1>4, IndexedAddStep
<1>5. ASSUME NEW t \in Threads, WorkerStep(t) PROVE Indexed'
  BY <1>5, IndexedWorkerStep
<1>6. ASSUME NEW a \in Asks, NEW d \in Docs, NEW other \in Docs, AskQuestion(a, d, other)
      PROVE  Indexed'
  BY <1>6, IndexedAsk
<1>7. ASSUME NEW a \in Asks, Answer(a) \/ \E d \in Docs : Retrieve(a, d) PROVE Indexed'
  <2>1. UNCHANGED <<docs, worker, points>>
    BY <1>7 DEF Answer, Retrieve
  <2>2. \A b \in Asks : ask'[b].docs \subseteq ask[b].docs
    BY <1>7 DEF Answer, Retrieve, IdleAsk, TypeOK, AskOK
  <2> QED BY <2>1, <2>2, IndexedFrame DEF Indexed, AsksReady
<1> QED BY <1>1, <1>2, <1>3, <1>4, <1>5, <1>6, <1>7 DEF Next

LEMMA Invariants == Spec => [](TypeOK /\ Ownership /\ Indexed)
<1>1. Init => Ownership /\ Indexed
  BY OwnershipInit, IndexedInit
<1>2. (TypeOK /\ Ownership /\ Indexed) /\ TypeOK' /\ [Next]_vars => (Ownership /\ Indexed)'
  BY OwnershipNext, IndexedNext
<1> QED BY <1>1, <1>2, TypeCorrect, PTL DEF Spec

(* A ready document is in its collection, whole, also after failed and       *)
(* repeated ingestions and after restarts, whatever the store does.          *)
THEOREM ReadyWhole == Spec => []ReadyIsIndexed
<1>1. Indexed => ReadyIsIndexed
  BY DEF Indexed
<1> QED BY <1>1, Invariants, PTL

(* With in-process retrieval no question ever searches a document in part.   *)
THEOREM QuestionsSeeWholeDocuments ==
    ASSUME ~McpServer PROVE Spec => []RetrievalSeesWholeDocument
<1>1. Init => RetrievalSeesWholeDocument
  BY DEF Init, RetrievalSeesWholeDocument, IdleAsk
<1>2. TypeOK /\ Indexed /\ RetrievalSeesWholeDocument /\ [Next]_vars
        => RetrievalSeesWholeDocument'
  <2> SUFFICES ASSUME TypeOK, Indexed, RetrievalSeesWholeDocument, [Next]_vars,
                      NEW a \in Asks
               PROVE  ask'[a].whole
    BY DEF RetrievalSeesWholeDocument
  <2>1. ask[a].whole
    BY DEF RetrievalSeesWholeDocument
  <2>2. CASE UNCHANGED ask
    BY <2>1, <2>2
  <2>3. ASSUME NEW b \in Asks, NEW d \in Docs, Retrieve(b, d) PROVE ask'[a].whole
    <3>1. docs[d].status = "ready"
      BY <2>3 DEF Retrieve, Indexed, AsksReady
    <3>2. Held(SearchedCollection(d), d) = Batch
      BY <3>1 DEF SearchedCollection, Indexed, ReadyIsIndexed
    <3> QED BY <2>1, <2>3, <3>2 DEF Retrieve, TypeOK, AskOK
  <2>4. ASSUME NEW b \in Asks, NEW d \in Docs, NEW e \in Docs, AskQuestion(b, d, e)
        PROVE  ask'[a].whole
    BY <2>1, <2>4 DEF AskQuestion, TypeOK, AskOK
  <2>5. ASSUME NEW b \in Asks, Answer(b) PROVE ask'[a].whole
    BY <2>1, <2>5 DEF Answer, IdleAsk, TypeOK, AskOK
  <2>6. CASE Crash
    BY <2>6 DEF Crash, IdleAsk
  <2> QED
    BY <2>2, <2>3, <2>4, <2>5, <2>6
       DEF Next, Restart, Load, LoadNext, AddDocument, Serve, Upload, LoadSample, AddStep,
           Refuse, Register, SaveBlob, SaveName, Raise, Start, Join, WorkerStep, ParsePage,
           OpenIndex, UpsertBatch, Finish, IngestFails, Settle, vars
<1> QED BY <1>1, <1>2, Invariants, PTL DEF Spec

(* The steps that write a document's entry or collection.                    *)
LEMMA ReadyUntouched ==
    ASSUME TypeOK, Ownership, [Next]_vars, phase' # "down",
           NEW d \in Docs, docs[d].status = "ready"
    PROVE  docs'[d].status = "ready" /\ points'[d] = points[d]
<1>1. ASSUME NEW c \in Callers, AddStep(c) PROVE docs'[d].status = "ready" /\ points' = points
  <2>1. call[c].pc = "open" => call[c].doc # d
    BY DEF Ownership, CallsPrepare, Known
  <2> QED
    BY <1>1, <2>1 DEF AddStep, Refuse, Register, SaveBlob, SaveName, Raise, Start, Join, TypeOK,
                      DocsOK
<1>2. ASSUME NEW t \in Threads, WorkerStep(t)
      PROVE  docs'[d].status = "ready" /\ points'[d] = points[d]
  <2>1. worker[t].doc # d
    BY <1>2 DEF WorkerStep, ParsePage, OpenIndex, UpsertBatch, Finish, IngestFails, Live,
                Ownership, WorkersParse
  <2>2. docs'[d] = docs[d]
    BY <1>2, <2>1 DEF WorkerStep, ParsePage, OpenIndex, UpsertBatch, Finish, IngestFails, Settle,
                      TypeOK, DocsOK
  <2>3. points'[d] = points[d]
    BY <1>2, <2>1 DEF WorkerStep, ParsePage, OpenIndex, UpsertBatch, Finish, IngestFails, Settle,
                      TypeOK, PointsOK, DocIndex, Collections
  <2> QED BY <2>2, <2>3
<1>3. ASSUME NEW a \in Asks, NEW e \in Docs, NEW f \in Docs, AskQuestion(a, e, f)
      PROVE  docs'[d].status = "ready" /\ points' = points
  BY <1>3 DEF AskQuestion, TypeOK, DocsOK
<1>4. CASE UNCHANGED <<docs, points>>
  BY <1>4
<1> QED
  BY <1>1, <1>2, <1>3, <1>4
     DEF Next, Restart, Load, LoadNext, AddDocument, Serve, Upload, LoadSample, Crash, Retrieve,
         Answer, vars

(* Within a process a ready document stays ready.                            *)
THEOREM ReadyStays == Spec => ReadyIsFinal
<1>1. TypeOK /\ Ownership /\ [Next]_vars =>
        [\A d \in Docs : docs[d].status = "ready" /\ docs'[d].status # "ready"
            => phase' = "down"]_vars
  BY ReadyUntouched
<1> QED BY <1>1, Invariants, PTL DEF Spec, ReadyIsFinal

(* Nobody writes the collection of a ready document.                         *)
THEOREM IndexImmutable == Spec => IndexImmutableOnceReady
<1>1. TypeOK /\ Ownership /\ [Next]_vars =>
        [\A d \in Docs : docs[d].status = "ready" /\ phase' # "down"
            => points'[DocIndex(d)] = points[DocIndex(d)]]_vars
  BY ReadyUntouched DEF DocIndex
<1> QED BY <1>1, Invariants, PTL DEF Spec, IndexImmutableOnceReady

-----------------------------------------------------------------------------
(* Durability and recovery, as long as no write to the store raises.         *)
LEMMA DurableFrame ==
    ASSUME TypeOK, Durable, UNCHANGED <<phase, call, pending, worker, blobs, names, acked>>,
           \A d \in Docs : docs'[d].status = docs[d].status
    PROVE  Durable'
<1>1. CallsStore' /\ RegisteredIsStored' /\ NeverStuckParsing'
  BY CallTypes DEF Durable, CallsStore, RegisteredIsStored, NeverStuckParsing, Stored, Active,
                   HasWorker, Live, TypeOK
<1>2. AckedIsPersisted' /\ AckedIsServed' /\ LoaderKeepsAcked'
  BY DEF Durable, AckedIsPersisted, AckedIsServed, LoaderKeepsAcked, TypeOK, StoreOK
<1> QED BY <1>1, <1>2 DEF Durable

(* A known document nobody is registering is in the store, so add_document   *)
(* may acknowledge it.                                                       *)
LEMMA DurableAdd ==
    ASSUME TypeOK, Ownership, Durable, NEW c \in Callers, NEW d \in Docs, NEW n \in Name,
           n # "none", AddDocument(c, d, n), phase' = phase,
           \A e \in Callers : Active(e) => call[e].doc # d,
           \/ pending' = pending /\ phase = "serving"
           \/ pending' = pending \ {d} /\ phase = "loading" /\ c = "loop" /\ ~Known(d)
    PROVE  Durable'
<1>0. UNCHANGED <<docs, worker, blobs, names>>
  BY DEF AddDocument
<1>1. CASE Known(d)
  <2>1. Stored(d)
    BY <1>1 DEF Durable, RegisteredIsStored, Known, Active
  <2>2. acked' = acked \cup {d} /\ UNCHANGED <<call, pending>> /\ phase = "serving"
    BY <1>1 DEF AddDocument, Acknowledge
  <2>3. AckedIsPersisted' /\ AckedIsServed' /\ LoaderKeepsAcked'
    BY <1>0, <1>1, <2>1, <2>2
       DEF Durable, AckedIsPersisted, AckedIsServed, LoaderKeepsAcked, Stored, Known
  <2> QED
    BY <1>0, <2>2, <2>3
       DEF Durable, CallsStore, RegisteredIsStored, NeverStuckParsing, Stored, Active, HasWorker,
           Live
<1>2. CASE ~Known(d)
  <2>1. /\ call'[c] = [pc |-> "open", doc |-> d, name |-> n]
        /\ \A e \in Callers : e # c => call'[e] = call[e]
        /\ acked' = acked /\ ~Active(c)
    BY <1>2 DEF AddDocument, TypeOK, CallOK
  <2>2. CallsStore'
    BY <1>0, <2>1 DEF Durable, CallsStore, Stored, Active
  <2>3. RegisteredIsStored' /\ NeverStuckParsing'
    BY <1>0, <2>1
       DEF Durable, RegisteredIsStored, NeverStuckParsing, Stored, Active, HasWorker, Live
  <2>4. AckedIsPersisted' /\ AckedIsServed' /\ LoaderKeepsAcked'
    BY <1>0, <2>1
       DEF Durable, AckedIsPersisted, AckedIsServed, LoaderKeepsAcked, Stored, Active
  <2> QED BY <1>0, <2>2, <2>3, <2>4 DEF Durable
<1> QED BY <1>1, <1>2

(* Every step of an activation, in the order open, blob, name, start, join.  *)
LEMMA DurableAddStep ==
    ASSUME ~StoreFaults, TypeOK, Ownership, Durable, NEW c \in Callers, AddStep(c)
    PROVE  Durable'
<1> DEFINE d == call[c].doc
<1>0. /\ Active(c) /\ d \in Docs /\ UNCHANGED <<phase, pending>> /\ "loop" \in Callers
      /\ \A e \in Callers : e # c => call'[e] = call[e] /\ (Active(e) => call[e].doc # d)
  <2>1. Active(c) /\ d \in Docs /\ UNCHANGED <<phase, pending>>
    BY CallTypes DEF AddStep, Refuse, Register, SaveBlob, SaveName, Raise, Start, Join, Active,
                     TypeOK
  <2>2. \A e \in Callers : e # c => call'[e] = call[e]
    BY DEF AddStep, Refuse, Register, SaveBlob, SaveName, Raise, Start, Join, Return, Step,
           TypeOK, CallOK
  <2> QED BY <2>1, <2>2 DEF Ownership, OneCallPerDoc, Callers
<1>1. CASE Refuse(c)
  <2>1. /\ UNCHANGED <<docs, worker, blobs, names, acked>> /\ call'[c] = IdleCall
        /\ call[c].pc = "open" /\ d \in Corrupt
    BY <1>1 DEF Refuse, Return, durable, TypeOK, CallOK
  <2>2. CallsStore' /\ RegisteredIsStored' /\ NeverStuckParsing'
    BY <1>0, <2>1 DEF Durable, CallsStore, RegisteredIsStored, NeverStuckParsing, Stored, Active,
                      HasWorker, Live, IdleCall
  <2>3. AckedIsPersisted' /\ AckedIsServed' /\ LoaderKeepsAcked'
    BY <1>0, <2>1 DEF Durable, AckedIsPersisted, AckedIsServed, LoaderKeepsAcked
  <2> QED BY <2>1, <2>2, <2>3 DEF Durable
<1>2. CASE Register(c)
  <2>1. /\ UNCHANGED <<worker, blobs, names, acked>>
        /\ call'[c].pc = "blob" /\ call'[c].doc = d /\ call'[c].name = call[c].name
        /\ docs'[d].status = "parsing" /\ call[c].pc = "open" /\ d \notin Corrupt
        /\ \A e \in Docs : e # d => docs'[e] = docs[e]
    BY <1>0, <1>2 DEF Register, Step, NewEntry, durable, TypeOK, CallOK, DocsOK
  <2>2. CallsStore'
    BY <1>0, <2>1, CallTypes DEF Durable, CallsStore, Stored, Active, TypeOK
  <2>3. RegisteredIsStored' /\ NeverStuckParsing'
    BY <1>0, <2>1 DEF Durable, RegisteredIsStored, NeverStuckParsing, Stored, Active, HasWorker,
                      Live
  <2>4. AckedIsPersisted' /\ AckedIsServed' /\ LoaderKeepsAcked'
    BY <1>0, <2>1 DEF Durable, AckedIsPersisted, AckedIsServed, LoaderKeepsAcked, TypeOK, StoreOK
  <2> QED BY <2>1, <2>2, <2>3, <2>4 DEF Durable
<1>3. CASE SaveBlob(c)
  <2>1. /\ UNCHANGED <<docs, worker, names, acked>> /\ blobs' = blobs \cup {d}
        /\ call'[c].pc = "name" /\ call'[c].doc = d /\ call'[c].name = call[c].name
        /\ call[c].pc = "blob"
    BY <1>3 DEF SaveBlob, Step, TypeOK, CallOK
  <2>2. d \notin Corrupt
    BY <2>1 DEF Durable, CallsStore
  <2>3. CallsStore'
    BY <1>0, <2>1 DEF Durable, CallsStore, Stored, Active
  <2>4. RegisteredIsStored' /\ NeverStuckParsing'
    BY <1>0, <2>1 DEF Durable, RegisteredIsStored, NeverStuckParsing, Stored, Active, HasWorker,
                      Live
  <2>5. AckedIsPersisted' /\ AckedIsServed' /\ LoaderKeepsAcked'
    BY <1>0, <2>1 DEF Durable, AckedIsPersisted, AckedIsServed, LoaderKeepsAcked
  <2>6. blobs' \cap Corrupt = {}
    BY <2>1, <2>2 DEF Durable
  <2> QED BY <2>3, <2>4, <2>5, <2>6 DEF Durable
<1>4. CASE SaveName(c)
  <2>1. /\ UNCHANGED <<docs, worker, blobs, acked>>
        /\ names'[d] = call[c].name /\ \A e \in Docs : e # d => names'[e] = names[e]
        /\ call'[c].pc = "start" /\ call'[c].doc = d /\ call'[c].name = call[c].name
        /\ call[c].pc = "name"
    BY <1>0, <1>4 DEF SaveName, Step, TypeOK, CallOK, StoreOK
  <2>2. d \in blobs /\ call[c].name # "none"
    BY <1>0, <2>1 DEF Durable, CallsStore
  <2>3. \A e \in Docs : Stored(e) => Stored(e)'
    BY <2>1, <2>2 DEF Stored
  <2>4. CallsStore'
    BY <1>0, <2>1, <2>2, <2>3, CallTypes DEF Durable, CallsStore, Stored, Active, TypeOK
  <2>5. RegisteredIsStored' /\ NeverStuckParsing'
    BY <1>0, <2>1, <2>2, <2>3 DEF Durable, RegisteredIsStored, NeverStuckParsing, Stored, Active,
                      HasWorker, Live
  <2>6. AckedIsPersisted' /\ AckedIsServed' /\ LoaderKeepsAcked'
    BY <1>0, <2>1, <2>2 DEF Durable, AckedIsPersisted, AckedIsServed, LoaderKeepsAcked, TypeOK,
                            StoreOK
  <2> QED BY <2>1, <2>4, <2>5, <2>6 DEF Durable
<1>5. CASE Raise(c)
  BY <1>5 DEF Raise
<1>6. CASE Start(c) \/ Join(c)
  <2>1. /\ UNCHANGED <<docs, blobs, names>> /\ call[c].pc \in {"start", "join"}
        /\ call'[c] = IdleCall \/ (/\ call'[c].pc = "join" /\ call'[c].doc = d
                                   /\ call'[c].name = call[c].name)
        /\ acked' = acked \/ (phase = "serving" /\ acked' = acked \cup {d})
    BY <1>6 DEF Start, Join, Return, Step, Acknowledge, TypeOK, CallOK
  <2>2. Stored(d)
    BY <2>1 DEF Durable, CallsStore
  <2>3. \A e \in Docs : HasWorker(e) \/ (Start(c) /\ e = d) => HasWorker(e)'
    <3>1. CASE Start(c)
      <4>1. PICK t \in Threads :
              /\ ~Live(t)
              /\ worker' = [worker EXCEPT ![t] = [pc |-> "parse", doc |-> d, n |-> 0]]
        BY <3>1 DEF Start
      <4>2. Live(t)' /\ worker'[t].doc = d /\ \A u \in Threads : Live(u) => worker'[u] = worker[u]
        BY <4>1 DEF Live, TypeOK, WorkerOK
      <4> QED BY <4>2 DEF HasWorker, Live
    <3>2. CASE Join(c)
      BY <3>2 DEF Join, Start, HasWorker, Live
    <3> QED BY <1>6, <3>1, <3>2
  <2>4. docs[d].status # "absent"
    BY <2>1, <1>0 DEF Ownership, CallsPrepare, Durable, CallsStore
  <2>5. CallsStore'
    BY <1>0, <2>1, <2>2, <2>4 DEF Durable, CallsStore, Stored, Active, IdleCall
  <2>6. RegisteredIsStored'
    BY <1>0, <2>1, <2>2 DEF Durable, RegisteredIsStored, Stored, Active, IdleCall
  <2>7. NeverStuckParsing'
    <3>1. ASSUME NEW e \in Docs, docs[e].status = "parsing", e # d
          PROVE  \/ HasWorker(e)'
                 \/ \E g \in Callers : call'[g].doc = e /\ call'[g].pc \in {"blob", "name", "start"}
      BY <1>0, <2>3, <3>1 DEF Durable, NeverStuckParsing
    <3>2. \A e \in Docs : e = d /\ docs[e].status = "parsing" => HasWorker(e)'
      <4>1. CASE Start(c)
        BY <2>3, <4>1
      <4>2. CASE Join(c)
        <5>1. call[c].pc = "join" /\ ~HasWorker(d)
          BY <4>2 DEF Join
        <5> QED BY <1>0, <5>1 DEF Durable, NeverStuckParsing, Active
      <4> QED BY <1>6, <4>1, <4>2
    <3> QED BY <2>1, <3>1, <3>2 DEF NeverStuckParsing
  <2>8. AckedIsPersisted' /\ AckedIsServed' /\ LoaderKeepsAcked'
    BY <1>0, <2>1, <2>2, <2>4
       DEF Durable, AckedIsPersisted, AckedIsServed, LoaderKeepsAcked, Stored, IdleCall
  <2> QED BY <2>1, <2>5, <2>6, <2>7, <2>8 DEF Durable
<1> QED BY <1>1, <1>2, <1>3, <1>4, <1>5, <1>6, AddStep(c) DEF AddStep

(* A worker settles its document, or keeps it; it never forgets it.          *)
LEMMA DurableWorkerStep ==
    ASSUME TypeOK, Ownership, Durable, NEW t \in Threads, WorkerStep(t)
    PROVE  Durable'
<1> DEFINE d == worker[t].doc
<1>1. /\ d \in Docs /\ docs[d].status = "parsing"
      /\ UNCHANGED <<phase, call, pending, blobs, names, acked>>
  BY WorkerTypes DEF WorkerStep, ParsePage, OpenIndex, UpsertBatch, Finish, IngestFails, Settle,
                     durable, Live, TypeOK, Ownership, WorkersParse
<1>2. \A u \in Threads : u # t => worker'[u] = worker[u]
  BY DEF WorkerStep, ParsePage, OpenIndex, UpsertBatch, Finish, IngestFails, Settle, TypeOK,
         WorkerOK
<1>3. \A e \in Docs : e # d => docs'[e] = docs[e]
  BY DEF WorkerStep, ParsePage, OpenIndex, UpsertBatch, Finish, IngestFails, Settle, TypeOK,
         DocsOK
<1>4. \A e \in Docs : e = d => \/ HasWorker(e)' /\ docs'[e].status = "parsing"
                               \/ docs'[e].status \in {"ready", "error"}
  <2>1. CASE ParsePage(t) \/ OpenIndex(t) \/ UpsertBatch(t)
    <3>1. worker'[t].pc # "free" /\ worker'[t].doc = d
      BY <1>1, <2>1 DEF ParsePage, OpenIndex, UpsertBatch, TypeOK, WorkerOK
    <3>2. docs'[d].status = docs[d].status
      BY <1>1, <2>1 DEF ParsePage, OpenIndex, UpsertBatch, TypeOK, DocsOK
    <3> QED BY <1>1, <3>1, <3>2 DEF HasWorker, Live
  <2>2. CASE Finish(t) \/ IngestFails(t)
    <3>1. ASSUME NEW st, NEW k, Settle(t, st, k) PROVE docs'[d].status = st
      BY <1>1, <3>1 DEF Settle, TypeOK, DocsOK
    <3> QED BY <2>2, <3>1 DEF Finish, IngestFails
  <2> QED BY <2>1, <2>2, WorkerStep(t) DEF WorkerStep
<1>5. \A e \in Docs : docs'[e].status # "absent" <=> docs[e].status # "absent"
  BY <1>1, <1>3, <1>4
<1>6. CallsStore' /\ RegisteredIsStored'
  BY <1>1, <1>5, CallTypes DEF Durable, CallsStore, RegisteredIsStored, Stored, Active, TypeOK
<1>7. AckedIsPersisted' /\ AckedIsServed' /\ LoaderKeepsAcked'
  BY <1>1, <1>5 DEF Durable, AckedIsPersisted, AckedIsServed, LoaderKeepsAcked, TypeOK, StoreOK
<1>8. NeverStuckParsing'
  <2>1. \A e \in Docs : e # d /\ HasWorker(e) => HasWorker(e)'
    BY <1>2 DEF HasWorker, Live
  <2> QED BY <1>1, <1>3, <1>4, <2>1 DEF Durable, NeverStuckParsing
<1> QED BY <1>1, <1>6, <1>7, <1>8 DEF Durable

LEMMA DurableInit == Init => Durable
BY DEF Init, Durable, CallsStore, RegisteredIsStored, AckedIsPersisted, LoaderKeepsAcked,
       AckedIsServed, NeverStuckParsing, Stored, Active, HasWorker, Live, Absent, IdleCall

LEMMA DurableNext ==
    ASSUME ~StoreFaults
    PROVE  TypeOK /\ Ownership /\ Durable /\ [Next]_vars => Durable'
<1> SUFFICES ASSUME TypeOK, Ownership, Durable, [Next]_vars PROVE Durable'
  OBVIOUS
<1>0. "loop" \in Callers
  BY DEF Callers
<1>1. CASE Restart
  <2>1. /\ UNCHANGED <<docs, call, worker, blobs, names, acked>>
        /\ phase' = "loading" /\ pending' = blobs
    BY <1>1 DEF Restart, durable
  <2> QED
    BY <2>1 DEF Durable, CallsStore, RegisteredIsStored, AckedIsPersisted, LoaderKeepsAcked,
                AckedIsServed, NeverStuckParsing, Stored, Active, HasWorker, Live
<1>2. ASSUME NEW d \in Docs, LoadNext(d) PROVE Durable'
  <2>1. CASE docs[d].status # "absent"
    <3>1. /\ UNCHANGED <<phase, docs, call, worker, blobs, names, acked>>
          /\ pending' = pending \ {d}
      BY <1>2, <2>1 DEF LoadNext, durable
    <3> QED
      BY <2>1, <3>1
         DEF Durable, CallsStore, RegisteredIsStored, AckedIsPersisted, LoaderKeepsAcked,
             AckedIsServed, NeverStuckParsing, Stored, Active, HasWorker, Live
  <2>2. CASE docs[d].status = "absent"
    <3> DEFINE n == IF names[d] = "none" THEN "default" ELSE names[d]
    <3>1. n \in Name /\ n # "none"
      BY DEF TypeOK, StoreOK, Name
    <3>2. /\ AddDocument("loop", d, n) /\ phase = "loading" /\ phase' = phase
          /\ pending' = pending \ {d} /\ ~Known(d)
          /\ \A e \in Callers : ~Active(e)
      BY <1>2, <2>2
         DEF LoadNext, AddDocument, Known, Ownership, HandlersLoadSamples, Callers
    <3> HIDE DEF n
    <3> QED BY <1>0, <2>2, <3>1, <3>2, DurableAdd
  <2> QED BY <2>1, <2>2
<1>3. CASE Serve
  <2>1. /\ UNCHANGED <<docs, call, pending, worker, blobs, names, acked>>
        /\ phase = "loading" /\ phase' = "serving" /\ pending = {} /\ ~Active("loop")
    BY <1>3 DEF Serve, durable
  <2> QED
    BY <2>1 DEF Durable, CallsStore, RegisteredIsStored, AckedIsPersisted, LoaderKeepsAcked,
                AckedIsServed, NeverStuckParsing, Stored, Active, HasWorker, Live
<1>4. CASE Crash
  BY <1>4 DEF Crash, durable, Durable, CallsStore, RegisteredIsStored, AckedIsPersisted,
              LoaderKeepsAcked, AckedIsServed, NeverStuckParsing, Stored, Active, Absent,
              IdleCall
<1>5. ASSUME NEW d \in Docs, Upload(d) PROVE Durable'
  <2>1. \A e \in Callers : Active(e) => call[e].doc # d
    BY <1>5 DEF Upload, AddDocument, Ownership, HandlersLoadSamples, Callers
  <2> QED BY <1>0, <1>5, <2>1, DurableAdd DEF Upload, Name
<1>6. ASSUME NEW h \in Handlers, NEW d \in Docs, LoadSample(h, d) PROVE Durable'
  <2>1. \A e \in Callers : Active(e) => call[e].doc # d
    BY <1>6 DEF LoadSample, Ownership, LoopUploads, Callers
  <2> QED BY <1>6, <2>1, DurableAdd DEF LoadSample, Name, Callers
<1>7. ASSUME NEW c \in Callers, AddStep(c) PROVE Durable'
  BY <1>7, DurableAddStep
<1>8. ASSUME NEW t \in Threads, WorkerStep(t) PROVE Durable'
  BY <1>8, DurableWorkerStep
<1>9. ASSUME NEW a \in Asks, NEW d \in Docs, NEW other \in Docs, AskQuestion(a, d, other)
      PROVE  Durable'
  <2>1. /\ UNCHANGED <<phase, call, pending, worker, blobs, names, acked>>
        /\ \A e \in Docs : docs'[e].status = docs[e].status
    BY <1>9 DEF AskQuestion, durable, TypeOK, DocsOK
  <2> QED BY <2>1, DurableFrame
<1>10. ASSUME NEW a \in Asks, Answer(a) \/ \E d \in Docs : Retrieve(a, d) PROVE Durable'
  BY <1>10, DurableFrame DEF Answer, Retrieve, durable
<1>11. CASE UNCHANGED vars
  BY <1>11, DurableFrame DEF vars
<1> QED
  BY <1>1, <1>2, <1>3, <1>4, <1>5, <1>6, <1>7, <1>8, <1>9, <1>10, <1>11 DEF Next, Load

LEMMA DurableInvariant == ASSUME ~StoreFaults PROVE Spec => []Durable
BY Invariants, DurableInit, DurableNext, PTL DEF Spec

(* While the store works, an acknowledged document is in it, name and bytes. *)
THEOREM AckedPersisted == ASSUME ~StoreFaults PROVE Spec => []AckedIsPersisted
<1>1. Durable => AckedIsPersisted
  BY DEF Durable
<1> QED BY <1>1, DurableInvariant, PTL

(* ... and a server that answers knows it, however often it was restarted.   *)
THEOREM AckedServed == ASSUME ~StoreFaults PROVE Spec => []AckedIsServed
<1>1. Durable => AckedIsServed
  BY DEF Durable
<1> QED BY <1>1, DurableInvariant, PTL

(* ... and a document that is "parsing" has somebody to settle it.           *)
THEOREM ParsingIsOwned == ASSUME ~StoreFaults PROVE Spec => []NeverStuckParsing
<1>1. Durable => NeverStuckParsing
  BY DEF Durable
<1> QED BY <1>1, DurableInvariant, PTL

-----------------------------------------------------------------------------
(* Whatever the store does: what is settled is in it. A write that raises      *)
(* keeps the thread from starting, so nothing that can become ready was lost.  *)
Settled(d) == docs[d].status \in {"ready", "error"}

SettledIsStored ==
    /\ \A d \in Docs : Settled(d) => Stored(d)
    /\ \A t \in Threads : Live(t) => Stored(worker[t].doc)
    /\ \A c \in Callers : /\ Active(c) => call[c].name # "none"
                          /\ call[c].pc = "name" => call[c].doc \in blobs
                          /\ call[c].pc = "start" => Stored(call[c].doc)

StoreGrowing == \A d \in Docs : Stored(d) => Stored(d)'

(* Nothing leaves the store, and no name is written over by "none".              *)
LEMMA StoreGrows ==
    ASSUME TypeOK, SettledIsStored, [Next]_vars
    PROVE  StoreGrowing
<1>1. ASSUME NEW c \in Callers, SaveName(c) PROVE \A d \in Docs : Stored(d) => Stored(d)'
  <2>1. call[c].name # "none"
    BY <1>1 DEF SaveName, SettledIsStored, Active
  <2> QED BY <1>1, <2>1 DEF SaveName, Stored, TypeOK, StoreOK
<1>2. ASSUME NEW c \in Callers, AddStep(c), ~SaveName(c) PROVE names' = names /\ blobs \subseteq blobs'
  BY <1>2 DEF AddStep, Refuse, Register, SaveBlob, Raise, Start, Join, durable
<1>3. ASSUME NEW t \in Threads, WorkerStep(t) PROVE UNCHANGED <<names, blobs>>
  BY <1>3 DEF WorkerStep, ParsePage, OpenIndex, UpsertBatch, Finish, IngestFails, Settle, durable
<1>4. ASSUME NEW a \in Asks, NEW d \in Docs, NEW other \in Docs,
             AskQuestion(a, d, other) \/ Retrieve(a, d) \/ Answer(a)
      PROVE  UNCHANGED <<names, blobs>>
  BY <1>4 DEF AskQuestion, Retrieve, Answer, durable
<1>5. CASE \/ Restart \/ Load \/ Serve \/ Crash \/ UNCHANGED vars
           \/ (\E d \in Docs : Upload(d)) \/ (\E h \in Handlers, d \in Docs : LoadSample(h, d))
  <2>1. UNCHANGED <<names, blobs>>
    BY <1>5 DEF Restart, Load, LoadNext, Serve, Crash, Upload, LoadSample, AddDocument, durable,
                vars
  <2> QED BY <2>1 DEF Stored, StoreGrowing
<1>6. ASSUME NEW a \in Asks, Answer(a) PROVE UNCHANGED <<names, blobs>>
  BY <1>6 DEF Answer, durable
<1> QED BY <1>1, <1>2, <1>3, <1>4, <1>5, <1>6 DEF Next, Stored, StoreGrowing

LEMMA SettledAdd ==
    ASSUME TypeOK, SettledIsStored, NEW c \in Callers, NEW d \in Docs, NEW n \in Name,
           n # "none", AddDocument(c, d, n)
    PROVE  SettledIsStored'
<1>1. /\ UNCHANGED <<docs, worker, blobs, names>>
      /\ call' = call \/ call' = [call EXCEPT ![c] = [pc |-> "open", doc |-> d, name |-> n]]
  BY DEF AddDocument
<1> QED BY <1>1 DEF SettledIsStored, Settled, Stored, Live, Active, TypeOK, CallOK

LEMMA SettledAddStep ==
    ASSUME TypeOK, SettledIsStored, StoreGrowing, NEW c \in Callers, AddStep(c)
    PROVE  SettledIsStored'
<1> DEFINE d == call[c].doc
<1>1. /\ Active(c) /\ d \in Docs /\ call[c].name # "none"
      /\ \A e \in Callers : e # c => call'[e] = call[e]
  BY CallTypes DEF AddStep, Refuse, Register, SaveBlob, SaveName, Raise, Start, Join, Return, Step,
                   Active, SettledIsStored, TypeOK, CallOK
<1>2. \A e \in Docs : Settled(e)' => Settled(e)
  BY <1>1 DEF AddStep, Refuse, Register, SaveBlob, SaveName, Raise, Start, Join, Settled, NewEntry,
              TypeOK, DocsOK
<1>3. \A e \in Callers : (call[e].pc = "start" => Stored(call[e].doc))'
  <2>1. ASSUME call'[c].pc = "start" PROVE Stored(call[c].doc)'
    <3>1. SaveName(c)
      BY <2>1, <1>1 DEF AddStep, Refuse, Register, SaveBlob, Raise, Start, Join, Return, Step,
                        IdleCall, TypeOK, CallOK
    <3>2. call'[c].doc = d /\ d \in blobs' /\ names'[d] # "none"
      BY <1>1, <3>1 DEF SaveName, Step, SettledIsStored, TypeOK, CallOK, StoreOK
    <3> QED BY <3>2 DEF Stored
  <2>2. ASSUME NEW e \in Callers, e # c, call'[e].pc = "start" PROVE Stored(call[e].doc)'
    <3>1. call'[e] = call[e] /\ Stored(call[e].doc) /\ call[e].doc \in Docs
      BY <1>1, <2>2, CallTypes DEF SettledIsStored, TypeOK
    <3> QED BY <3>1 DEF StoreGrowing, Stored
  <2> QED BY <2>1, <2>2
<1>4. \A t \in Threads : (Live(t) => Stored(worker[t].doc))'
  <2>1. CASE Start(c)
    <3>1. Stored(d) /\ UNCHANGED <<blobs, names>>
      BY <1>1, <2>1 DEF Start, SettledIsStored
    <3>2. PICK t \in Threads :
            worker' = [worker EXCEPT ![t] = [pc |-> "parse", doc |-> d, n |-> 0]]
      BY <2>1 DEF Start
    <3> QED BY <3>1, <3>2 DEF Live, Stored, TypeOK, WorkerOK, SettledIsStored
  <2>2. CASE ~Start(c)
    <3>1. UNCHANGED worker
      BY <2>2 DEF AddStep, Refuse, Register, SaveBlob, SaveName, Raise, Join
    <3> QED BY <3>1, WorkerTypes DEF Live, SettledIsStored, StoreGrowing, Stored, TypeOK
  <2> QED BY <2>1, <2>2
<1>5. \A e \in Callers : /\ Active(e)' => call'[e].name # "none"
                         /\ call'[e].pc = "name" => call'[e].doc \in blobs'
  <2>1. blobs \subseteq blobs'
    BY DEF AddStep, Refuse, Register, SaveBlob, SaveName, Raise, Start, Join, durable
  <2>2. Active(c)' => call'[c].name # "none"
    BY <1>1 DEF AddStep, Refuse, Register, SaveBlob, SaveName, Raise, Start, Join, Return, Step,
                Active, IdleCall, TypeOK, CallOK
  <2>3. call'[c].pc = "name" => call'[c].doc \in blobs'
    BY <1>1 DEF AddStep, Refuse, Register, SaveBlob, SaveName, Raise, Start, Join, Return, Step,
                IdleCall, TypeOK, CallOK
  <2> QED BY <1>1, <2>1, <2>2, <2>3 DEF SettledIsStored, Active
<1>6. (\A e \in Docs : Settled(e) => Stored(e))'
  BY <1>2 DEF SettledIsStored, StoreGrowing
<1> QED
  BY <1>3, <1>4, <1>5, <1>6 DEF SettledIsStored, Active

(* A document that was ready, or given up, in any process is in the store with  *)
(* its name, whatever writes failed: the next process takes it in again.        *)
THEOREM SettledPersisted == Spec => [](\A d \in Docs : Settled(d) => Stored(d))
<1>1. Init => SettledIsStored
  BY DEF Init, SettledIsStored, Settled, Live, Active, Absent, IdleCall, IdleWorker
<1>2. TypeOK /\ Ownership /\ SettledIsStored /\ [Next]_vars => SettledIsStored'
  <2> SUFFICES ASSUME TypeOK, Ownership, SettledIsStored, [Next]_vars PROVE SettledIsStored'
    OBVIOUS
  <2>0. StoreGrowing /\ "loop" \in Callers /\ \A h \in Handlers : h \in Callers
    BY StoreGrows DEF Callers
  <2>1. CASE Restart \/ Serve \/ UNCHANGED vars
    BY <2>1 DEF Restart, Serve, durable, vars, SettledIsStored, Settled, Stored, Live, Active
  <2>2. CASE Crash
    BY <2>2 DEF Crash, durable, SettledIsStored, Settled, Stored, Live, Active, Absent, IdleCall,
                IdleWorker
  <2>3. ASSUME NEW d \in Docs, LoadNext(d) PROVE SettledIsStored'
    <3>1. CASE docs[d].status # "absent"
      BY <2>3, <3>1 DEF LoadNext, durable, SettledIsStored, Settled, Stored, Live, Active
    <3>2. CASE docs[d].status = "absent"
      <4> DEFINE n == IF names[d] = "none" THEN "default" ELSE names[d]
      <4>1. n \in Name /\ n # "none" /\ AddDocument("loop", d, n)
        BY <2>3, <3>2 DEF LoadNext, TypeOK, StoreOK, Name
      <4> HIDE DEF n
      <4> QED BY <2>0, <4>1, SettledAdd
    <3> QED BY <3>1, <3>2
  <2>4. ASSUME NEW d \in Docs, Upload(d) PROVE SettledIsStored'
    BY <2>0, <2>4, SettledAdd DEF Upload, Name
  <2>5. ASSUME NEW h \in Handlers, NEW d \in Docs, LoadSample(h, d) PROVE SettledIsStored'
    BY <2>0, <2>5, SettledAdd DEF LoadSample, Name
  <2>6. ASSUME NEW c \in Callers, AddStep(c) PROVE SettledIsStored'
    BY <2>0, <2>6, SettledAddStep
  <2>7. ASSUME NEW t \in Threads, WorkerStep(t) PROVE SettledIsStored'
    <3>1. worker[t].doc \in Docs /\ Stored(worker[t].doc) /\ UNCHANGED <<call, blobs, names>>
      BY <2>7, WorkerTypes
         DEF WorkerStep, ParsePage, OpenIndex, UpsertBatch, Finish, IngestFails, Settle, durable,
             SettledIsStored, Live, TypeOK
    <3>2. \A e \in Docs : e # worker[t].doc => docs'[e] = docs[e]
      BY <2>7, <3>1
         DEF WorkerStep, ParsePage, OpenIndex, UpsertBatch, Finish, IngestFails, Settle, TypeOK,
             DocsOK
    <3>3. \A u \in Threads : Live(u)' => Live(u) /\ worker'[u].doc = worker[u].doc
      BY <2>7
         DEF WorkerStep, ParsePage, OpenIndex, UpsertBatch, Finish, IngestFails, Settle, Live,
             IdleWorker, TypeOK, WorkerOK
    <3> QED BY <3>1, <3>2, <3>3 DEF SettledIsStored, Settled, Stored, Live, Active
  <2>8. ASSUME NEW a \in Asks, NEW d \in Docs, NEW other \in Docs, AskQuestion(a, d, other)
        PROVE  SettledIsStored'
    <3>1. /\ UNCHANGED <<call, worker, blobs, names>>
          /\ \A e \in Docs : docs'[e].status = docs[e].status
      BY <2>8 DEF AskQuestion, durable, TypeOK, DocsOK
    <3> QED BY <3>1 DEF SettledIsStored, Settled, Stored, Live, Active
  <2>9. ASSUME NEW a \in Asks, Answer(a) \/ \E d \in Docs : Retrieve(a, d)
        PROVE  SettledIsStored'
    BY <2>9 DEF Answer, Retrieve, durable, SettledIsStored, Settled, Stored, Live, Active
  <2> QED
    BY <2>1, <2>2, <2>3, <2>4, <2>5, <2>6, <2>7, <2>8, <2>9 DEF Next, Load
<1>3. SettledIsStored => \A d \in Docs : Settled(d) => Stored(d)
  BY DEF SettledIsStored
<1> QED BY <1>1, <1>2, <1>3, Invariants, PTL DEF Spec

-----------------------------------------------------------------------------
(* The registry implements DocumentService, step by step.                     *)

(* A question runs only in a server that accepts requests.                     *)
AsksWhileServing == \A a \in Asks : ask[a].docs # {} => phase = "serving"

LEMMA AsksServed == Spec => []AsksWhileServing
<1>1. Init => AsksWhileServing
  BY DEF Init, AsksWhileServing, IdleAsk
<1>2. TypeOK /\ AsksWhileServing /\ [Next]_vars => AsksWhileServing'
  <2> SUFFICES ASSUME TypeOK, AsksWhileServing, [Next]_vars PROVE AsksWhileServing'
    OBVIOUS
  <2>1. CASE Restart \/ Load \/ Serve \/ UNCHANGED vars
    BY <2>1 DEF Restart, Load, LoadNext, AddDocument, Serve, vars, AsksWhileServing
  <2>2. CASE Crash
    BY <2>2 DEF Crash, AsksWhileServing, IdleAsk
  <2>3. CASE (\E d \in Docs : Upload(d)) \/ (\E h \in Handlers, d \in Docs : LoadSample(h, d))
    BY <2>3 DEF Upload, LoadSample, AddDocument, AsksWhileServing
  <2>4. ASSUME NEW c \in Callers, AddStep(c) PROVE AsksWhileServing'
    BY <2>4 DEF AddStep, Refuse, Register, SaveBlob, SaveName, Raise, Start, Join, AsksWhileServing
  <2>5. ASSUME NEW t \in Threads, WorkerStep(t) PROVE AsksWhileServing'
    BY <2>5 DEF WorkerStep, ParsePage, OpenIndex, UpsertBatch, Finish, IngestFails, Settle,
                AsksWhileServing
  <2>6. ASSUME NEW a \in Asks, NEW d \in Docs, NEW other \in Docs, AskQuestion(a, d, other)
        PROVE  AsksWhileServing'
    BY <2>6 DEF AskQuestion, AsksWhileServing
  <2>7. ASSUME NEW a \in Asks, Answer(a) \/ \E d \in Docs : Retrieve(a, d)
        PROVE  AsksWhileServing'
    BY <2>7 DEF Answer, Retrieve, AsksWhileServing, IdleAsk, TypeOK, AskOK
  <2> QED BY <2>1, <2>2, <2>3, <2>4, <2>5, <2>6, <2>7 DEF Next
<1> QED BY <1>1, <1>2, TypeCorrect, PTL DEF Spec

(* A step of which a client sees nothing.                                      *)
LEMMA Unseen ==
    ASSUME UNCHANGED <<acked, Searched>>, (phase = "serving") <=> (phase' = "serving"),
           phase = "serving" => \A d \in Docs : docs'[d].status = docs[d].status
    PROVE  UNCHANGED Service!vars
<1>1. View' = View
  BY DEF View
<1> QED BY <1>1 DEF Service!vars

LEMMA UnseenDocs ==
    ASSUME UNCHANGED <<acked, ask>>, phase # "serving", phase' # "serving"
    PROVE  UNCHANGED Service!vars
BY Unseen DEF Searched

(* An acknowledgement.                                                         *)
LEMMA HoldStep ==
    ASSUME NEW c \in Callers, NEW d \in Docs, Acknowledge(c, d), UNCHANGED <<phase, docs, ask>>,
           phase = "serving" => docs[d].status # "absent"
    PROVE  [Service!Next]_(Service!vars)
<1>1. CASE phase = "serving"
  <2>1. UNCHANGED <<phase, View, Searched>> /\ acked' = acked \cup {d} /\ View[d] # "absent"
    BY <1>1 DEF Acknowledge, View, Searched
  <2>2. Service!Hold(d)
    BY <1>1, <2>1 DEF Service!Hold
  <2> QED BY <2>2 DEF Service!Next
<1>2. CASE phase # "serving"
  BY <1>2, UnseenDocs DEF Acknowledge
<1> QED BY <1>1, <1>2

(* The status of one document changes, and nothing else a client sees.          *)
LEMMA ViewUpdate ==
    ASSUME NEW d \in Docs, NEW st, phase = "serving", UNCHANGED <<phase, acked, ask>>,
           \A e \in Docs : docs'[e].status = IF e = d THEN st ELSE docs[e].status
    PROVE  /\ View' = [View EXCEPT ![d] = st] /\ View[d] = docs[d].status
           /\ UNCHANGED <<phase, acked, Searched>>
BY DEF View, Searched

LEMMA AddStepMaps ==
    ASSUME TypeOK, Ownership, Durable, ~StoreFaults, NEW c \in Callers, AddStep(c)
    PROVE  [Service!Next]_(Service!vars)
<1> DEFINE d == call[c].doc
<1>0. d \in Docs
  BY CallTypes DEF AddStep, Refuse, Register, SaveBlob, SaveName, Raise, Start, Join, TypeOK
<1>1. CASE Refuse(c) \/ SaveBlob(c) \/ SaveName(c)
  BY <1>1, Unseen DEF Refuse, SaveBlob, SaveName, durable, Searched
<1>2. CASE Register(c)
  <2>1. /\ UNCHANGED <<phase, acked, ask>> /\ docs[d].status \in {"absent", "error"}
        /\ \A e \in Docs : docs'[e].status = IF e = d THEN "parsing" ELSE docs[e].status
    BY <1>0, <1>2 DEF Register, durable, Ownership, CallsPrepare, Known, TypeOK, DocsOK, NewEntry,
                      Status
  <2>2. CASE phase = "serving"
    <3>1. Service!Take(d)
      BY <1>0, <2>1, <2>2, ViewUpdate DEF Service!Take
    <3> QED BY <1>0, <3>1 DEF Service!Next
  <2>3. CASE phase # "serving"
    BY <2>1, <2>3, UnseenDocs
  <2> QED BY <2>2, <2>3
<1>3. CASE Start(c) /\ c = "loop"
  <2>1. UNCHANGED <<phase, docs, ask>> /\ Acknowledge(c, d) /\ docs[d].status = "parsing"
    BY <1>3 DEF Start, Ownership, CallsPrepare
  <2> QED BY <1>0, <2>1, HoldStep
<1>4. CASE Start(c) /\ c # "loop"
  BY <1>4, Unseen DEF Start, Searched
<1>5. CASE Join(c)
  <2>1. UNCHANGED <<phase, docs, ask>> /\ Acknowledge(c, d) /\ docs[d].status # "absent"
    BY <1>5 DEF Join, Durable, CallsStore
  <2> QED BY <1>0, <2>1, HoldStep
<1> QED BY <1>1, <1>2, <1>3, <1>4, <1>5 DEF AddStep, Raise

LEMMA WorkerStepMaps ==
    ASSUME TypeOK, Ownership, NEW t \in Threads, WorkerStep(t)
    PROVE  [Service!Next]_(Service!vars)
<1> DEFINE d == worker[t].doc
<1>1. d \in Docs /\ docs[d].status = "parsing" /\ UNCHANGED <<phase, acked, ask>>
  BY WorkerTypes
     DEF WorkerStep, ParsePage, OpenIndex, UpsertBatch, Finish, IngestFails, Settle, durable,
         TypeOK, Ownership, WorkersParse, Live
<1>2. CASE ParsePage(t) \/ OpenIndex(t) \/ UpsertBatch(t)
  <2>1. \A e \in Docs : docs'[e].status = docs[e].status
    BY <1>1, <1>2 DEF ParsePage, OpenIndex, UpsertBatch, TypeOK, DocsOK
  <2> QED BY <1>1, <2>1, Unseen DEF Searched
<1>3. ASSUME NEW st \in {"ready", "error"}, NEW k, Settle(t, st, k)
      PROVE  [Service!Next]_(Service!vars)
  <2>1. \A e \in Docs : docs'[e].status = IF e = d THEN st ELSE docs[e].status
    BY <1>1, <1>3 DEF Settle, TypeOK, DocsOK
  <2>2. CASE phase = "serving"
    <3>1. Service!Settle(d)
      BY <1>1, <2>1, <2>2, ViewUpdate DEF Service!Settle
    <3> QED BY <1>1, <3>1 DEF Service!Next
  <2>3. CASE phase # "serving"
    BY <1>1, <2>3, UnseenDocs
  <2> QED BY <2>2, <2>3
<1> QED BY <1>2, <1>3 DEF WorkerStep, Finish, IngestFails

(* Whatever the connections do, they search ready documents.                    *)
LEMMA SearchStep ==
    ASSUME phase = "serving", UNCHANGED <<phase, acked>>, AsksReady', TypeOK',
           \A d \in Docs : docs'[d].status = docs[d].status
    PROVE  [Service!Next]_(Service!vars)
<1>1. UNCHANGED View
  BY DEF View
<1>2. Searched' \in SUBSET {d \in Docs : View[d] = "ready"}
  BY DEF View, Searched, AsksReady, TypeOK, AskOK
<1>3. Service!Search
  BY <1>1, <1>2 DEF Service!Search
<1> QED BY <1>3 DEF Service!Next

LEMMA AskMaps ==
    ASSUME TypeOK, TypeOK', Indexed', AsksWhileServing, NEW a \in Asks,
           \/ \E d, other \in Docs : AskQuestion(a, d, other) \/ Retrieve(a, d)
           \/ Answer(a)
    PROVE  [Service!Next]_(Service!vars)
<1>1. ASSUME NEW d \in Docs, NEW other \in Docs, AskQuestion(a, d, other)
      PROVE  /\ phase = "serving" /\ UNCHANGED <<phase, acked>>
             /\ \A e \in Docs : docs'[e].status = docs[e].status
  BY <1>1 DEF AskQuestion, durable, TypeOK, DocsOK
<1>2. ASSUME Answer(a) \/ \E d \in Docs : Retrieve(a, d)
      PROVE  phase = "serving" /\ UNCHANGED <<phase, acked, docs>>
  BY <1>2 DEF Retrieve, Answer, AsksWhileServing, durable
<1> QED BY <1>1, <1>2, SearchStep DEF Indexed

LEMMA PhaseMaps ==
    ASSUME TypeOK, TypeOK', AsksWhileServing, AckedIsServed',
           Restart \/ Load \/ Serve \/ Crash
    PROVE  [Service!Next]_(Service!vars)
<1>1. CASE Restart
  BY <1>1, UnseenDocs DEF Restart, durable
<1>2. CASE Load
  BY <1>2, UnseenDocs DEF Load, LoadNext, AddDocument, Acknowledge, durable
<1>3. CASE Serve
  <2>1. /\ phase = "loading" /\ phase' = "serving" /\ UNCHANGED <<acked, Searched>>
    BY <1>3 DEF Serve, durable, Searched
  <2>2. /\ View' \in [Docs -> Service!Status]
        /\ \A d \in acked : View'[d] # "absent"
    BY <2>1 DEF View, AckedIsServed, TypeOK, DocsOK, StoreOK, Status, Service!Status
  <2>3. Service!Up
    BY <2>1, <2>2 DEF Service!Up
  <2> QED BY <2>3 DEF Service!Next
<1>4. CASE Crash /\ phase = "serving"
  <2>1. /\ View' = [d \in Docs |-> "absent"] /\ Searched' = {}
        /\ phase' = "down" /\ UNCHANGED acked
    BY <1>4 DEF Crash, View, Searched, durable, IdleAsk
  <2>2. Service!Down
    BY <1>4, <2>1 DEF Service!Down
  <2> QED BY <2>2 DEF Service!Next
<1>5. CASE Crash /\ phase # "serving"
  <2>1. Searched = {} /\ Searched' = {} /\ phase' # "serving" /\ UNCHANGED acked
    BY <1>5 DEF Crash, AsksWhileServing, Searched, durable, IdleAsk
  <2> QED BY <1>5, <2>1, Unseen
<1> QED BY <1>1, <1>2, <1>3, <1>4, <1>5

LEMMA RouteMaps ==
    ASSUME TypeOK, NEW c \in Callers, NEW d \in Docs, NEW n, AddDocument(c, d, n),
           UNCHANGED phase
    PROVE  [Service!Next]_(Service!vars)
<1>1. CASE Known(d)
  BY <1>1, HoldStep DEF AddDocument, Known
<1>2. CASE ~Known(d)
  BY <1>2, Unseen DEF AddDocument, Searched
<1> QED BY <1>1, <1>2

(* While the store works, the registry never does what the service a client    *)
(* relies on rules out: documents are known once acknowledged, also across     *)
(* crashes, ready ones stay ready, and only ready ones are searched.           *)
THEOREM ImplementsSafety == ASSUME ~StoreFaults PROVE Spec => Service!Safety
<1>1. Init => Service!Init
  <2>1. ASSUME Init
        PROVE  View = [d \in Docs |-> "absent"] /\ Searched = {} /\ (phase = "serving") = FALSE
    BY <2>1 DEF Init, View, Searched, IdleAsk
  <2> QED BY <2>1 DEF Init, Service!Init
<1>2. /\ TypeOK /\ Ownership /\ Durable /\ AsksWhileServing /\ [Next]_vars
      /\ TypeOK' /\ Indexed' /\ Durable'
      => [Service!Next]_(Service!vars)
  <2> SUFFICES ASSUME TypeOK, Ownership, Durable, AsksWhileServing, [Next]_vars,
                      TypeOK', Indexed', Durable'
               PROVE  [Service!Next]_(Service!vars)
    OBVIOUS
  <2>0. "loop" \in Callers /\ \A h \in Handlers : h \in Callers
    BY DEF Callers
  <2>1. CASE Restart \/ Load \/ Serve \/ Crash
    BY <2>1, PhaseMaps DEF Durable
  <2>2. ASSUME NEW d \in Docs, Upload(d) PROVE [Service!Next]_(Service!vars)
    BY <2>0, <2>2, RouteMaps DEF Upload
  <2>3. ASSUME NEW h \in Handlers, NEW d \in Docs, LoadSample(h, d)
        PROVE  [Service!Next]_(Service!vars)
    BY <2>0, <2>3, RouteMaps DEF LoadSample
  <2>4. ASSUME NEW c \in Callers, AddStep(c) PROVE [Service!Next]_(Service!vars)
    BY <2>4, AddStepMaps
  <2>5. ASSUME NEW t \in Threads, WorkerStep(t) PROVE [Service!Next]_(Service!vars)
    BY <2>5, WorkerStepMaps
  <2>6. ASSUME NEW a \in Asks,
               \/ \E d, other \in Docs : AskQuestion(a, d, other) \/ Retrieve(a, d)
               \/ Answer(a)
        PROVE  [Service!Next]_(Service!vars)
    BY <2>6, AskMaps
  <2>7. CASE UNCHANGED vars
    BY <2>7, Unseen DEF vars, Searched
  <2> QED BY <2>1, <2>2, <2>3, <2>4, <2>5, <2>6, <2>7 DEF Next
<1> QED BY <1>1, <1>2, Invariants, DurableInvariant, AsksServed, PTL DEF Spec, Service!Safety

-----------------------------------------------------------------------------
(* Recovery. The process knows what is in the store, whatever failed before: it  *)
(* is in the registry, or load_persisted has still to come to it.               *)
Opens(d) == call["loop"].doc = d /\ call["loop"].pc = "open"

Recalled ==
    /\ phase = "loading" => \A d \in blobs : d \in pending \/ docs[d].status # "absent" \/ Opens(d)
    /\ phase = "serving" => \A d \in blobs : docs[d].status # "absent"
    /\ blobs \cap Corrupt = {}
    /\ \A c \in Callers : call[c].pc = "blob" => call[c].doc \notin Corrupt
    /\ call["loop"].pc # "join"

(* Who is going to settle a document, and how many steps that takes at most.     *)
Preparing(c) == call[c].pc \in {"open", "blob", "name", "start"}
InSight(d) ==
    \/ HasWorker(d)
    \/ \E c \in Callers : call[c].doc = d /\ Preparing(c)
    \/ phase = "loading" /\ d \in pending

WorkLeft(t) ==
    IF worker[t].pc = "parse" THEN Pages - worker[t].n + Batches + 2 ELSE Batches - worker[t].n + 1
Ahead(c) ==
    CASE call[c].pc = "open" -> 4 [] call[c].pc = "blob" -> 3 [] call[c].pc = "name" -> 2
      [] OTHER -> 1

(* Somebody can go on: a worker, a call that has no thread to wait for, or        *)
(* load_persisted when its last call is done.                                  *)
CanGo ==
    \/ \E t \in Threads : Live(t)
    \/ \E c \in Callers : Preparing(c) /\ (call[c].pc = "start" => \E t \in Threads : ~Live(t))
    \/ phase = "loading" /\ pending # {} /\ ~Active("loop")

WorkerAdvances(t, d) ==
    Live(t) /\ worker[t].doc = d =>
      \/ worker'[t] = worker[t]
      \/ Settled(d)'
      \/ Live(t)' /\ worker'[t].doc = d /\ WorkLeft(t)' < WorkLeft(t)
CallAdvances(c, d) ==
    Preparing(c) /\ call[c].doc = d =>
      \/ call'[c] = call[c]
      \/ HasWorker(d)' \/ d \in Corrupt
      \/ Preparing(c)' /\ call'[c].doc = d /\ Ahead(c)' < Ahead(c)
LoaderAdvances ==
    phase = "loading" =>
      \/ pending' = pending
      \/ \E d \in pending : pending' = pending \ {d} /\ (docs[d].status # "absent" \/ InSight(d)')

LEMMA RecalledAdd ==
    ASSUME TypeOK, Recalled, NEW c \in Callers, NEW d \in Docs, NEW n \in Name,
           AddDocument(c, d, n), phase' = phase,
           \/ pending' = pending /\ phase = "serving"
           \/ pending' = pending \ {d} /\ phase = "loading" /\ c = "loop" /\ ~Known(d)
    PROVE  Recalled'
<1>1. /\ UNCHANGED <<docs, blobs>> /\ ~Active(c)
      /\ \A e \in Callers : \/ call'[e] = call[e] /\ (e = c => Known(d))
                            \/ e = c /\ call'[e] = [pc |-> "open", doc |-> d, name |-> n]
  BY DEF AddDocument, TypeOK, CallOK
<1>2. "loop" \in Callers
  BY DEF Callers
<1> QED BY <1>1, <1>2 DEF Recalled, Opens, Active

LEMMA RecalledAddStep ==
    ASSUME TypeOK, Ownership, Recalled, NEW c \in Callers, AddStep(c)
    PROVE  Recalled'
<1> DEFINE d == call[c].doc
<1>0. /\ Active(c) /\ d \in Docs /\ UNCHANGED <<phase, pending>> /\ "loop" \in Callers
      /\ \A e \in Callers : e # c => call'[e] = call[e]
  BY CallTypes DEF AddStep, Refuse, Register, SaveBlob, SaveName, Raise, Start, Join, Return, Step,
                   Active, TypeOK, CallOK, Callers
<1>1. CASE Refuse(c)
  <2>1. call[c].pc = "open" /\ d \in Corrupt /\ UNCHANGED <<docs, blobs>> /\ call'[c] = IdleCall
    BY <1>1 DEF Refuse, Return, durable, TypeOK, CallOK
  <2> QED BY <1>0, <2>1 DEF Recalled, Opens, IdleCall
<1>2. CASE Register(c)
  <2>1. /\ d \notin Corrupt /\ UNCHANGED blobs /\ docs'[d].status # "absent"
        /\ \A e \in Docs : e # d => docs'[e] = docs[e]
        /\ call'[c].pc = "blob" /\ call'[c].doc = d
    BY <1>0, <1>2 DEF Register, Step, NewEntry, durable, TypeOK, CallOK, DocsOK
  <2>2. blobs \subseteq Docs
    BY DEF TypeOK, StoreOK
  <2> QED BY <1>0, <2>1, <2>2 DEF Recalled, Opens
<1>3. CASE SaveBlob(c)
  <2>1. /\ call[c].pc = "blob" /\ blobs' = blobs \cup {d} /\ UNCHANGED docs
        /\ call'[c].pc = "name" /\ call'[c].doc = d
    BY <1>0, <1>3 DEF SaveBlob, Step, TypeOK, CallOK
  <2>2. docs[d].status = "parsing" /\ d \notin Corrupt
    BY <2>1 DEF Ownership, CallsPrepare, Recalled
  <2> QED BY <1>0, <2>1, <2>2 DEF Recalled, Opens
<1>4. CASE SaveName(c) \/ Raise(c) \/ Start(c) \/ Join(c)
  <2>1. /\ call[c].pc \notin {"idle", "open"} /\ UNCHANGED <<docs, blobs>>
        /\ call'[c].pc \notin {"open", "blob"} /\ (c = "loop" => call'[c].pc # "join")
    BY <1>4 DEF SaveName, Raise, Start, Join, Return, Step, IdleCall, durable, TypeOK, CallOK
  <2> QED BY <1>0, <2>1 DEF Recalled, Opens
<1> QED BY <1>1, <1>2, <1>3, <1>4, AddStep(c) DEF AddStep

LEMMA RecalledNext == TypeOK /\ Ownership /\ Recalled /\ [Next]_vars => Recalled'
<1> SUFFICES ASSUME TypeOK, Ownership, Recalled, [Next]_vars PROVE Recalled'
  OBVIOUS
<1>0. /\ "loop" \in Callers /\ blobs \subseteq Docs /\ \A h \in Handlers : h \in Callers
  BY DEF Callers, TypeOK, StoreOK
<1>1. CASE Restart
  BY <1>0, <1>1 DEF Restart, durable, Recalled, Opens
<1>2. ASSUME NEW d \in Docs, LoadNext(d) PROVE Recalled'
  <2>1. CASE docs[d].status # "absent"
    BY <1>2, <2>1 DEF LoadNext, durable, Recalled, Opens
  <2>2. CASE docs[d].status = "absent"
    <3> DEFINE n == IF names[d] = "none" THEN "default" ELSE names[d]
    <3>1. /\ n \in Name /\ AddDocument("loop", d, n) /\ ~Known(d) /\ phase = "loading"
          /\ phase' = phase /\ pending' = pending \ {d}
      BY <1>2, <2>2 DEF LoadNext, Known, TypeOK, StoreOK, Name
    <3> HIDE DEF n
    <3> QED BY <1>0, <3>1, RecalledAdd
  <2> QED BY <2>1, <2>2
<1>3. CASE Serve
  BY <1>0, <1>3 DEF Serve, durable, Recalled, Opens, Active
<1>4. CASE Crash
  BY <1>0, <1>4 DEF Crash, durable, Recalled, Opens, IdleCall
<1>5. ASSUME NEW d \in Docs, Upload(d) PROVE Recalled'
  BY <1>0, <1>5, RecalledAdd DEF Upload, Name
<1>6. ASSUME NEW h \in Handlers, NEW d \in Docs, LoadSample(h, d) PROVE Recalled'
  BY <1>0, <1>6, RecalledAdd DEF LoadSample, Name
<1>7. ASSUME NEW c \in Callers, AddStep(c) PROVE Recalled'
  BY <1>7, RecalledAddStep
<1>8. ASSUME NEW t \in Threads, WorkerStep(t) PROVE Recalled'
  <2>1. /\ worker[t].doc \in Docs /\ docs[worker[t].doc].status = "parsing"
        /\ UNCHANGED <<phase, call, pending, blobs>>
    BY <1>8, WorkerTypes
       DEF WorkerStep, ParsePage, OpenIndex, UpsertBatch, Finish, IngestFails, Settle, durable,
           Live, TypeOK, Ownership, WorkersParse
  <2>2. \A e \in Docs : docs[e].status # "absent" => docs'[e].status # "absent"
    <3>1. CASE ParsePage(t)
      BY <2>1, <3>1 DEF ParsePage, TypeOK, DocsOK
    <3>2. CASE OpenIndex(t)
      BY <2>1, <3>2 DEF OpenIndex, TypeOK, DocsOK
    <3>3. CASE UpsertBatch(t)
      BY <3>3 DEF UpsertBatch
    <3>4. CASE Finish(t)
      BY <2>1, <3>4 DEF Finish, Settle, TypeOK, DocsOK
    <3>5. CASE IngestFails(t)
      BY <2>1, <3>5 DEF IngestFails, Settle, TypeOK, DocsOK
    <3> QED BY <1>8, <3>1, <3>2, <3>3, <3>4, <3>5 DEF WorkerStep
  <2> QED BY <1>0, <2>1, <2>2 DEF Recalled, Opens
<1>9. ASSUME NEW a \in Asks, NEW d \in Docs, NEW other \in Docs, AskQuestion(a, d, other)
      PROVE  Recalled'
  <2>1. /\ UNCHANGED <<phase, call, pending, blobs>>
        /\ \A e \in Docs : docs'[e].status = docs[e].status
    BY <1>9 DEF AskQuestion, durable, TypeOK, DocsOK
  <2> QED BY <1>0, <2>1 DEF Recalled, Opens
<1>10. ASSUME NEW a \in Asks, Answer(a) \/ \E d \in Docs : Retrieve(a, d) PROVE Recalled'
  BY <1>10 DEF Answer, Retrieve, durable, Recalled, Opens
<1>11. CASE UNCHANGED vars
  BY <1>11 DEF vars, Recalled, Opens
<1> QED
  BY <1>1, <1>2, <1>3, <1>4, <1>5, <1>6, <1>7, <1>8, <1>9, <1>10, <1>11 DEF Next, Load

LEMMA RecalledInvariant == Spec => []Recalled
<1>1. Init => Recalled
  BY DEF Init, Recalled, IdleCall, Callers
<1> QED BY <1>1, RecalledNext, Invariants, PTL DEF Spec

(* A server that takes requests knows every document whose bytes are in the      *)
(* store, acknowledged or not, whatever writes failed and whenever it crashed.   *)
THEOREM StoreIsServed ==
    Spec => [](phase = "serving" => \A d \in blobs : docs[d].status # "absent")
<1>1. Recalled => (phase = "serving" => \A d \in blobs : docs[d].status # "absent")
  BY DEF Recalled
<1> QED BY <1>1, RecalledInvariant, PTL

-----------------------------------------------------------------------------
(* No persisted document is ever out of sight, and nobody waits for anybody.      *)
LEMMA InSightNow ==
    ASSUME Threads # {}, TypeOK, Recalled, NeverStuckParsing, phase # "down",
           NEW d \in blobs, ~Settled(d)
    PROVE  InSight(d) /\ CanGo
<1>1. /\ d \in Docs /\ docs[d].status \in Status /\ phase \in {"loading", "serving"}
      /\ "loop" \in Callers
  BY DEF TypeOK, StoreOK, DocsOK, Callers
<1>2. InSight(d)
  <2>1. CASE docs[d].status = "parsing"
    BY <1>1, <2>1 DEF NeverStuckParsing, InSight, Preparing
  <2>2. CASE docs[d].status = "absent"
    BY <1>1, <2>2 DEF Recalled, Opens, InSight, Preparing
  <2> QED BY <1>1, <2>1, <2>2 DEF Status, Settled
<1>3. CanGo
  <2>1. ASSUME NEW c \in Callers, Preparing(c) PROVE CanGo
    BY <2>1 DEF CanGo
  <2>2. CASE HasWorker(d)
    BY <2>2 DEF HasWorker, CanGo
  <2>3. CASE phase = "loading" /\ d \in pending
    <3>1. Active("loop") => Preparing("loop")
      BY <1>1, CallTypes DEF Recalled, Active, Preparing, TypeOK
    <3>2. CASE Active("loop")
      BY <1>1, <2>1, <3>1, <3>2
    <3>3. CASE ~Active("loop")
      BY <2>3, <3>3 DEF CanGo
    <3> QED BY <3>2, <3>3
  <2> QED BY <1>2, <2>1, <2>2, <2>3 DEF InSight
<1> QED BY <1>2, <1>3

LEMMA WorkersAdvance ==
    ASSUME TypeOK, [Next]_vars, phase' # "down", NEW t \in Threads, NEW d \in Docs
    PROVE  WorkerAdvances(t, d)
<1> SUFFICES ASSUME Live(t), worker[t].doc = d, worker'[t] # worker[t]
             PROVE  \/ Settled(d)'
                    \/ Live(t)' /\ worker'[t].doc = d /\ WorkLeft(t)' < WorkLeft(t)
  BY DEF WorkerAdvances
<1>1. /\ worker[t].pc \in {"parse", "upsert"} /\ worker[t].n \in Nat
      /\ worker[t].n <= (IF worker[t].pc = "parse" THEN Pages ELSE Batches)
      /\ Pages \in Nat /\ Batches \in Nat
  BY WorkerTypes, SizeAssumption DEF TypeOK, Live
<1>2. CASE ParsePage(t)
  <2>1. /\ worker[t].pc = "parse" /\ worker'[t].pc = "parse" /\ worker'[t].doc = d
        /\ worker'[t].n = worker[t].n + 1
    BY <1>2 DEF ParsePage, TypeOK, WorkerOK
  <2> QED BY <1>1, <2>1 DEF WorkLeft, Live
<1>3. CASE OpenIndex(t)
  <2>1. /\ worker[t].pc = "parse" /\ worker'[t].pc = "upsert" /\ worker'[t].doc = d
        /\ worker'[t].n = 0 /\ worker[t].n = Pages
    BY <1>3 DEF OpenIndex, TypeOK, WorkerOK
  <2> QED BY <1>1, <2>1 DEF WorkLeft, Live
<1>4. CASE UpsertBatch(t)
  <2>1. /\ worker[t].pc = "upsert" /\ worker'[t].pc = "upsert" /\ worker'[t].doc = d
        /\ worker'[t].n = worker[t].n + 1
    BY <1>4 DEF UpsertBatch, TypeOK, WorkerOK
  <2> QED BY <1>1, <2>1 DEF WorkLeft, Live
<1>5. CASE Finish(t) \/ IngestFails(t)
  <2>1. ASSUME NEW st, NEW k, Settle(t, st, k) PROVE docs'[d].status = st
    BY <2>1 DEF Settle, TypeOK, DocsOK
  <2> QED BY <1>5, <2>1 DEF Finish, IngestFails, Settled
<1>6. ASSUME NEW u \in Threads, WorkerStep(u), u # t PROVE FALSE
  BY <1>6 DEF WorkerStep, ParsePage, OpenIndex, UpsertBatch, Finish, IngestFails, Settle, TypeOK,
              WorkerOK
<1>7. ASSUME NEW c \in Callers, AddStep(c) PROVE FALSE
  BY <1>7 DEF AddStep, Refuse, Register, SaveBlob, SaveName, Raise, Start, Join, TypeOK, WorkerOK
<1>8. CASE \/ Restart \/ Load \/ Serve \/ Crash \/ UNCHANGED vars
           \/ (\E e \in Docs : Upload(e)) \/ (\E h \in Handlers, e \in Docs : LoadSample(h, e))
           \/ (\E a \in Asks, e, o \in Docs : AskQuestion(a, e, o))
           \/ (\E a \in Asks, e \in Docs : Retrieve(a, e)) \/ (\E a \in Asks : Answer(a))
  <2>1. UNCHANGED worker
    BY <1>8 DEF Restart, Load, LoadNext, Serve, Crash, Upload, LoadSample, AddDocument, AskQuestion,
                Retrieve, Answer, vars
  <2> QED BY <2>1
<1> QED BY <1>2, <1>3, <1>4, <1>5, <1>6, <1>7, <1>8 DEF Next, WorkerStep

LEMMA CallsAdvance ==
    ASSUME ~StoreFaults, TypeOK, [Next]_vars, phase' # "down", NEW c \in Callers, NEW d \in Docs
    PROVE  CallAdvances(c, d)
<1> SUFFICES ASSUME Preparing(c), call[c].doc = d, call'[c] # call[c]
             PROVE  \/ HasWorker(d)' \/ d \in Corrupt
                    \/ Preparing(c)' /\ call'[c].doc = d /\ Ahead(c)' < Ahead(c)
  BY DEF CallAdvances
<1>1. Active(c)
  BY DEF Preparing, Active
<1>2. CASE Refuse(c)
  BY <1>2 DEF Refuse
<1>3. CASE Register(c) \/ SaveBlob(c) \/ SaveName(c)
  <2>1. /\ call'[c].doc = d
        /\ \/ call[c].pc = "open" /\ call'[c].pc = "blob"
           \/ call[c].pc = "blob" /\ call'[c].pc = "name"
           \/ call[c].pc = "name" /\ call'[c].pc = "start"
    BY <1>3 DEF Register, SaveBlob, SaveName, Step, TypeOK, CallOK
  <2> QED BY <2>1 DEF Preparing, Ahead
<1>4. CASE Start(c)
  <2>1. PICK t \in Threads : worker' = [worker EXCEPT ![t] = [pc |-> "parse", doc |-> d, n |-> 0]]
    BY <1>4 DEF Start
  <2>2. worker'[t] = [pc |-> "parse", doc |-> d, n |-> 0]
    BY <2>1 DEF TypeOK, WorkerOK
  <2> QED BY <2>2 DEF HasWorker, Live
<1>5. ASSUME Raise(c) \/ Join(c) PROVE FALSE
  BY <1>5 DEF Raise, Join, Preparing
<1>6. ASSUME NEW e \in Callers, AddStep(e), e # c PROVE FALSE
  BY <1>6 DEF AddStep, Refuse, Register, SaveBlob, SaveName, Raise, Start, Join, Return, Step,
              TypeOK, CallOK
<1>7. ASSUME NEW e \in Callers, NEW o \in Docs, NEW n, AddDocument(e, o, n) PROVE FALSE
  BY <1>1, <1>7 DEF AddDocument, TypeOK, CallOK
<1>8. ASSUME NEW o \in Docs, LoadNext(o) \/ Upload(o) PROVE FALSE
  <2>1. UNCHANGED call \/ \E n : AddDocument("loop", o, n)
    BY <1>8 DEF LoadNext, Upload
  <2> QED BY <1>7, <2>1 DEF Callers
<1>9. ASSUME NEW h \in Handlers, NEW o \in Docs, LoadSample(h, o) PROVE FALSE
  BY <1>7, <1>9 DEF LoadSample, Callers
<1>10. CASE \/ Restart \/ Serve \/ Crash \/ UNCHANGED vars
            \/ (\E t \in Threads : WorkerStep(t))
            \/ (\E a \in Asks, e, o \in Docs : AskQuestion(a, e, o))
            \/ (\E a \in Asks, e \in Docs : Retrieve(a, e)) \/ (\E a \in Asks : Answer(a))
  <2>1. UNCHANGED call
    BY <1>10 DEF Restart, Serve, Crash, WorkerStep, ParsePage, OpenIndex, UpsertBatch, Finish,
                 IngestFails, Settle, AskQuestion, Retrieve, Answer, vars
  <2> QED BY <2>1
<1> QED
  BY <1>2, <1>3, <1>4, <1>5, <1>6, <1>8, <1>9, <1>10 DEF Next, Load, AddStep

LEMMA LoaderAdvance ==
    ASSUME TypeOK, [Next]_vars, phase' # "down"
    PROVE  LoaderAdvances
<1> SUFFICES ASSUME phase = "loading", pending' # pending
             PROVE  \E d \in pending : /\ pending' = pending \ {d}
                                       /\ docs[d].status # "absent" \/ InSight(d)'
  BY DEF LoaderAdvances
<1>1. ASSUME NEW d \in Docs, LoadNext(d)
      PROVE  d \in pending /\ pending' = pending \ {d} /\ (docs[d].status # "absent" \/ InSight(d)')
  <2>1. d \in pending /\ pending' = pending \ {d}
    BY <1>1 DEF LoadNext
  <2>2. CASE docs[d].status = "absent"
    <3>1. call'["loop"].pc = "open" /\ call'["loop"].doc = d /\ "loop" \in Callers
      BY <1>1, <2>2 DEF LoadNext, AddDocument, Known, TypeOK, CallOK, Callers
    <3> QED BY <2>1, <3>1 DEF InSight, Preparing
  <2> QED BY <2>1, <2>2
<1>2. CASE ~Load
  <2>1. UNCHANGED pending
    BY <1>2 DEF Next, Restart, Serve, Crash, Upload, LoadSample, AddStep, Refuse, Register, SaveBlob,
                SaveName, Raise, Start, Join, WorkerStep, ParsePage, OpenIndex, UpsertBatch, Finish,
                IngestFails, Settle, AskQuestion, Retrieve, Answer, vars
  <2> QED BY <2>1
<1> QED BY <1>1, <1>2 DEF Load

(* While the store works, a persisted document of a process that is up is         *)
(* settled, or has a worker, a call of add_document or load_persisted to settle    *)
(* it, and somebody can go on; and whoever has it hands it over or gets nearer to   *)
(* the end with every step, until it is settled or the process goes down.         *)
(* RecoversAfterCrash adds that the process stays up and its threads go on.        *)
THEOREM RecoveryInSight ==
    ASSUME ~StoreFaults, Threads # {}
    PROVE  Spec => /\ [](phase # "down" => \A d \in blobs : Settled(d) \/ (InSight(d) /\ CanGo))
                   /\ [][phase' # "down" =>
                           /\ LoaderAdvances
                           /\ \A d \in Docs : /\ \A t \in Threads : WorkerAdvances(t, d)
                                              /\ \A c \in Callers : CallAdvances(c, d)]_vars
<1>1. TypeOK /\ Recalled /\ NeverStuckParsing =>
        (phase # "down" => \A d \in blobs : Settled(d) \/ (InSight(d) /\ CanGo))
  BY InSightNow
<1>2. TypeOK /\ [Next]_vars =>
        [phase' # "down" =>
           /\ LoaderAdvances
           /\ \A d \in Docs : /\ \A t \in Threads : WorkerAdvances(t, d)
                              /\ \A c \in Callers : CallAdvances(c, d)]_vars
  BY LoaderAdvance, WorkersAdvance, CallsAdvance
<1> QED BY <1>1, <1>2, TypeCorrect, RecalledInvariant, ParsingIsOwned, PTL DEF Spec

===============================================================================
