------------------------ MODULE IngestPipeline_proofs ------------------------
(***************************************************************************)
(* Theorems about ingestion for every document, cap, key history and number *)
(* of runs. The invariant says what each stage has behind it (Staged, Pages, *)
(* Regions), what is owed for the answers bought (Paid), and what a complete *)
(* run leaves in the store (Stocked).                                        *)
(***************************************************************************)
EXTENDS IngestPipeline, FiniteSetTheorems, TLAPS

Reading == pc \in {"parse", "save_page"}
Looking == pc \in {"enrich", "save_crop"}
Placing == pc \in {"context", "save_context"}

(* A chunk's position, and what a step that is to keep an answer lacks.       *)
Staged ==
    /\ Looking \/ Placing => at \in Nat \ {0}
    /\ pc = "save_page" => at \notin CachedPages
    /\ pc = "save_crop" => at \notin crops
    /\ pc = "save_context" => ContextKey(at) \notin contexts
    /\ IsFiniteSet(contexts)
    /\ ~Resting => cut < runs

(* The pages behind the run are filled in; blanks are for want of a key, and   *)
(* never in the store.                                                       *)
Pages ==
    /\ Reading => \A p \in Page : p < at => out[p] # "none"
    /\ Looking \/ Placing \/ pc = "done" => \A p \in Page : out[p] # "none"
    /\ "vision" \in keys => \A p \in Page : out[p] # "blank"
    /\ \A p \in Page : out[p] = "parsed" => p \in CachedPages
    /\ \A p \in Page : page_artifacts[p] # "blank"

(* The regions enriched are the first ones, as many as the cap allows, and     *)
(* their content is in the store.                                             *)
Target == {r \in Region : r <= EnrichCap}
Regions ==
    /\ Reading => rich = {}
    /\ Looking => rich = 1..(at - 1) /\ at <= NRegions + 1 /\ at <= EnrichCap + 1
    /\ pc = "save_crop" => at <= EnrichCap
    /\ rich \subseteq crops

Stock == Cardinality(CachedPages \cap Scanned) + Cardinality(crops) + Cardinality(contexts)
Owed == IF Holding THEN 1 ELSE 0
Paid == calls <= Stock + cut + Owed

(* After a complete run the store has all that a run with every key asks for,  *)
(* and such a run enriches the same regions again.                            *)
Stocked ==
    complete =>
        /\ CachedPages = Page /\ Target \subseteq crops
        /\ \A r \in Region : r \in Target \/ r \notin Figure =>
             <<r, r \in Target, Headings[Page][r]>> \in contexts
        /\ keys = Role /\ Placing => rich = Target

IInv == TypeOK /\ Staged /\ Pages /\ Regions /\ Paid /\ Stocked

-----------------------------------------------------------------------------
LEMMA InitIInv == Init => IInv
<1> SUFFICES ASSUME Init PROVE IInv
  OBVIOUS
<1>1. TypeOK
  <2>1. out \in [Page -> {"none", "blank", "parsed"}]
    BY DEF Init, Nothing
  <2>2. runs \in 0..MaxRuns /\ crashes \in 0..MaxCrashes /\ cut \in 0..runs
    BY BoundAssumption DEF Init
  <2> QED BY <2>1, <2>2 DEF Init, TypeOK, Stage, Blocks, Nothing
<1>2. Staged /\ Pages /\ Regions /\ Stocked
  BY FS_EmptySet DEF Init, Staged, Pages, Regions, Stocked, Resting, Reading, Looking, Placing, Nothing
<1>3. Paid
  <2>1. CachedPages \cap Scanned = {}
    BY DEF Init, CachedPages, Nothing
  <2> QED BY <2>1, FS_EmptySet DEF Init, Paid, Stock, Owed, Holding
<1> QED BY <1>1, <1>2, <1>3 DEF IInv

(* Types: positions stay inside the document, and cut does not outrun runs. *)
LEMMA TypeStep ==
    ASSUME TypeOK, Staged, [Next]_vars
    PROVE  TypeOK'
<1> USE DEF TypeOK, Staged, Resting, Looking, Placing, Stage, Page, Region, Role, store, CachedPages, result, tally, Blocks
<1>0. CASE UNCHANGED vars
  BY <1>0 DEF vars
<1>1. CASE Begin
  BY SizeAssumption, BoundAssumption, <1>1 DEF Begin, Nothing
<1>2. CASE PageFromCache
  BY SizeAssumption, BoundAssumption, <1>2 DEF PageFromCache, NextPage
<1>3. CASE SkipPage
  BY SizeAssumption, BoundAssumption, <1>3 DEF SkipPage, NextPage, Unreadable
<1>4. CASE ParsePage
  BY SizeAssumption, BoundAssumption, <1>4 DEF ParsePage, Unreadable
<1>5. CASE SavePage
  BY SizeAssumption, BoundAssumption, <1>5 DEF SavePage, NextPage
<1>6. CASE EnrichFromCache
  BY SizeAssumption, BoundAssumption, <1>6 DEF EnrichFromCache, Enriching, NextRegion
<1>7. CASE AskVision
  BY SizeAssumption, BoundAssumption, <1>7 DEF AskVision, Enriching
<1>8. CASE SaveCrop
  <2>1. at \in Region /\ pc' = "enrich" /\ at' \in Nat
    BY <1>8 DEF SaveCrop, NextRegion
  <2>2. rich' \subseteq Region /\ crops' \subseteq Region
    BY <1>8, <2>1 DEF SaveCrop
  <2>3. UNCHANGED <<keys, out, page_artifacts, contexts, calls, complete, tally>>
    BY <1>8 DEF SaveCrop
  <2> HIDE DEF Region, Page, Staged
  <2> QED BY <2>1, <2>2, <2>3
<1>9. CASE VisionUnavailable
  BY SizeAssumption, BoundAssumption, <1>9 DEF VisionUnavailable, Enriching, ToContext
<1>10. CASE Enriched
  BY SizeAssumption, BoundAssumption, <1>10 DEF Enriched, Enriching, ToContext
<1>11. CASE NoChunk
  BY SizeAssumption, BoundAssumption, <1>11 DEF NoChunk, Situating, NextRegion
<1>12. CASE ContextFromCache
  BY SizeAssumption, BoundAssumption, <1>12 DEF ContextFromCache, Situating, NextRegion
<1>13. CASE AskContext
  BY SizeAssumption, BoundAssumption, <1>13 DEF AskContext, Situating
<1>14. CASE SaveContext
  <2>1. at \in Region
    BY <1>14 DEF SaveContext
  <2>2. <<at, at \in rich, Headings[Parsed][at]>> \in Region \X BOOLEAN \X Words
    <3> HIDE DEF Region, Page
    <3>1. \A b \in BOOLEAN, h \in Words : <<at, b, h>> \in Region \X BOOLEAN \X Words
      BY <2>1, SMT
    <3>2. (at \in rich) \in BOOLEAN
      BY SMT
    <3>3. Headings[Parsed][at] \in Words
      BY <2>1, HeadingAssumption DEF Parsed
    <3> QED BY <3>1, <3>2, <3>3, Zenon
  <2>3. contexts' \subseteq Region \X BOOLEAN \X Words
    <3> HIDE DEF Region
    <3> QED BY <2>2, <1>14 DEF SaveContext, ContextKey
  <2> QED BY <2>3, <1>14 DEF SaveContext, NextRegion
<1>15. CASE FastUnavailable
  BY SizeAssumption, BoundAssumption, <1>15 DEF FastUnavailable, Situating, Finish
<1>16. CASE Contextualized
  BY SizeAssumption, BoundAssumption, <1>16 DEF Contextualized, Situating, Finish
<1>17. CASE Fail
  BY SizeAssumption, BoundAssumption, <1>17 DEF Fail
<1>18. CASE Crash
  BY SizeAssumption, BoundAssumption, <1>18 DEF Crash, Nothing
<1> QED BY <1>0, <1>1, <1>2, <1>3, <1>4, <1>5, <1>6, <1>7, <1>8, <1>9, <1>10, <1>11, <1>12, <1>13, <1>14, <1>15, <1>16, <1>17, <1>18 DEF Next, Work

(* Stages: an answer is sought only where the store has none.                *)
LEMMA StagedStep ==
    ASSUME TypeOK, Staged, [Next]_vars
    PROVE  Staged'
<1> USE DEF TypeOK, Staged, Resting, Looking, Placing, Stage, Page, Region, ContextKey, Parsed, store, CachedPages, result, tally, Blocks
<1>0. CASE UNCHANGED vars
  BY <1>0 DEF vars
<1>1. CASE Begin
  BY SizeAssumption, <1>1 DEF Begin, Nothing
<1>2. CASE PageFromCache
  BY SizeAssumption, <1>2 DEF PageFromCache, NextPage
<1>3. CASE SkipPage
  BY SizeAssumption, <1>3 DEF SkipPage, NextPage, Unreadable
<1>4. CASE ParsePage
  BY SizeAssumption, <1>4 DEF ParsePage, Unreadable
<1>5. CASE SavePage
  BY SizeAssumption, <1>5 DEF SavePage, NextPage
<1>6. CASE EnrichFromCache
  BY SizeAssumption, <1>6 DEF EnrichFromCache, Enriching, NextRegion
<1>7. CASE AskVision
  BY SizeAssumption, <1>7 DEF AskVision, Enriching
<1>8. CASE SaveCrop
  BY SizeAssumption, <1>8 DEF SaveCrop, NextRegion
<1>9. CASE VisionUnavailable
  BY SizeAssumption, <1>9 DEF VisionUnavailable, Enriching, ToContext
<1>10. CASE Enriched
  BY SizeAssumption, <1>10 DEF Enriched, Enriching, ToContext
<1>11. CASE NoChunk
  BY SizeAssumption, <1>11 DEF NoChunk, Situating, NextRegion
<1>12. CASE ContextFromCache
  BY SizeAssumption, <1>12 DEF ContextFromCache, Situating, NextRegion
<1>13. CASE AskContext
  BY SizeAssumption, <1>13 DEF AskContext, Situating
<1>14. CASE SaveContext
  <2>1. IsFiniteSet(contexts')
    BY <1>14, FS_AddElement DEF SaveContext
  <2> QED BY SizeAssumption, <1>14, <2>1 DEF SaveContext, NextRegion
<1>15. CASE FastUnavailable
  BY SizeAssumption, <1>15 DEF FastUnavailable, Situating, Finish
<1>16. CASE Contextualized
  BY SizeAssumption, <1>16 DEF Contextualized, Situating, Finish
<1>17. CASE Fail
  BY SizeAssumption, <1>17 DEF Fail
<1>18. CASE Crash
  BY SizeAssumption, <1>18 DEF Crash, Nothing
<1> QED BY <1>0, <1>1, <1>2, <1>3, <1>4, <1>5, <1>6, <1>7, <1>8, <1>9, <1>10, <1>11, <1>12, <1>13, <1>14, <1>15, <1>16, <1>17, <1>18 DEF Next, Work

(* Pages: none is passed over, and none is blank when there is a key.         *)
LEMMA PagesStep ==
    ASSUME TypeOK, Staged, Pages, [Next]_vars
    PROVE  Pages'
<1> USE DEF TypeOK, Staged, Pages, Resting, Reading, Looking, Placing, Stage, Page, store, CachedPages, result, tally
<1>0. CASE UNCHANGED vars
  BY <1>0 DEF vars
<1>1. CASE Begin
  BY SizeAssumption, <1>1 DEF Begin, Nothing
<1>2. CASE PageFromCache
  BY SizeAssumption, <1>2 DEF PageFromCache, NextPage
<1>3. CASE SkipPage
  BY SizeAssumption, <1>3 DEF SkipPage, NextPage, Unreadable
<1>4. CASE ParsePage
  BY SizeAssumption, <1>4 DEF ParsePage, Unreadable
<1>5. CASE SavePage
  BY SizeAssumption, <1>5 DEF SavePage, NextPage
<1>6. CASE EnrichFromCache
  BY SizeAssumption, <1>6 DEF EnrichFromCache, Enriching, NextRegion
<1>7. CASE AskVision
  BY SizeAssumption, <1>7 DEF AskVision, Enriching
<1>8. CASE SaveCrop
  BY SizeAssumption, <1>8 DEF SaveCrop, NextRegion
<1>9. CASE VisionUnavailable
  BY SizeAssumption, <1>9 DEF VisionUnavailable, Enriching, ToContext
<1>10. CASE Enriched
  BY SizeAssumption, <1>10 DEF Enriched, Enriching, ToContext
<1>11. CASE NoChunk
  BY SizeAssumption, <1>11 DEF NoChunk, Situating, NextRegion
<1>12. CASE ContextFromCache
  BY SizeAssumption, <1>12 DEF ContextFromCache, Situating, NextRegion
<1>13. CASE AskContext
  BY SizeAssumption, <1>13 DEF AskContext, Situating
<1>14. CASE SaveContext
  BY SizeAssumption, <1>14 DEF SaveContext, NextRegion
<1>15. CASE FastUnavailable
  BY SizeAssumption, <1>15 DEF FastUnavailable, Situating, Finish
<1>16. CASE Contextualized
  BY SizeAssumption, <1>16 DEF Contextualized, Situating, Finish
<1>17. CASE Fail
  BY SizeAssumption, <1>17 DEF Fail
<1>18. CASE Crash
  BY SizeAssumption, <1>18 DEF Crash, Nothing
<1> QED BY <1>0, <1>1, <1>2, <1>3, <1>4, <1>5, <1>6, <1>7, <1>8, <1>9, <1>10, <1>11, <1>12, <1>13, <1>14, <1>15, <1>16, <1>17, <1>18 DEF Next, Work

(* The cap has room for the next region exactly when its number is in the cap. *)
LEMMA RoomForRegion ==
    ASSUME TypeOK, Staged, Regions, pc = "enrich"
    PROVE  Cardinality(rich) < EnrichCap <=> at <= EnrichCap
<1>1. at \in Nat \ {0} /\ rich = 1..(at - 1)
  BY DEF Staged, Regions, Looking
<1>2. Cardinality(rich) = at - 1
  BY <1>1, FS_Interval
<1> QED BY <1>1, <1>2, SizeAssumption

LEMMA PageRead ==
    ASSUME TypeOK, Regions, Reading, NextPage, rich' = rich, crops' = crops
    PROVE  Regions'
<1>1. rich = {} /\ rich \subseteq crops
  BY DEF Regions
<1>2. CASE at < NPages
  BY <1>1, <1>2 DEF NextPage, Regions, Reading, Looking
<1>3. CASE ~(at < NPages)
  <2>1. pc' = "enrich" /\ at' = 1
    BY <1>3 DEF NextPage
  <2>2. 1..(at' - 1) = {}
    BY <2>1
  <2> QED BY <1>1, <2>1, <2>2, SizeAssumption DEF Regions, Reading, Looking
<1> QED BY <1>2, <1>3

(* Regions: enrichment takes them in order and stops at the cap.              *)
LEMMA RegionsStep ==
    ASSUME TypeOK, Staged, Regions, [Next]_vars
    PROVE  Regions'
<1>0. CASE UNCHANGED vars
  BY <1>0 DEF vars, Regions, Reading, Looking
<1>1. CASE Begin
  BY SizeAssumption, <1>1 DEF Begin, Nothing, Regions, Staged, TypeOK, Reading, Looking, Placing, Resting, Page, Region, store, CachedPages, result, tally
<1>2. CASE PageFromCache
  BY PageRead, <1>2 DEF PageFromCache, Reading, store, CachedPages, result, tally
<1>3. CASE SkipPage
  BY PageRead, <1>3 DEF SkipPage, Unreadable, Reading, store, CachedPages, result, tally
<1>4. CASE ParsePage
  BY SizeAssumption, <1>4 DEF ParsePage, Unreadable, Regions, Staged, TypeOK, Reading, Looking, Placing, Resting, Page, Region, store, CachedPages, result, tally
<1>5. CASE SavePage
  BY PageRead, <1>5 DEF SavePage, Reading, store, CachedPages, result, tally
<1>6. CASE EnrichFromCache
  <2>1. pc = "enrich" /\ Cardinality(rich) < EnrichCap
    BY <1>6 DEF EnrichFromCache, Enriching, NextRegion
  <2>2. at <= EnrichCap
    BY <2>1, RoomForRegion
  <2> QED BY <2>2, SizeAssumption, <1>6 DEF EnrichFromCache, Enriching, NextRegion, Regions, Staged, TypeOK, Reading, Looking, Placing, Region, store, CachedPages, result, tally
<1>7. CASE AskVision
  <2>1. pc = "enrich" /\ Cardinality(rich) < EnrichCap
    BY <1>7 DEF AskVision, Enriching
  <2>2. at <= EnrichCap
    BY <2>1, RoomForRegion
  <2> QED BY <2>2, SizeAssumption, <1>7 DEF AskVision, Enriching, Regions, Staged, TypeOK, Reading, Looking, Placing, Region, store, CachedPages, result, tally
<1>8. CASE SaveCrop
  BY SizeAssumption, <1>8 DEF SaveCrop, NextRegion, Regions, Staged, TypeOK, Reading, Looking, Placing, Resting, Page, Region, store, CachedPages, result, tally
<1>9. CASE VisionUnavailable
  BY SizeAssumption, <1>9 DEF VisionUnavailable, Enriching, ToContext, Regions, Staged, TypeOK, Reading, Looking, Placing, Resting, Page, Region, store, CachedPages, result, tally
<1>10. CASE Enriched
  BY SizeAssumption, <1>10 DEF Enriched, Enriching, ToContext, Regions, Staged, TypeOK, Reading, Looking, Placing, Resting, Page, Region, store, CachedPages, result, tally
<1>11. CASE NoChunk
  BY SizeAssumption, <1>11 DEF NoChunk, Situating, NextRegion, Regions, Staged, TypeOK, Reading, Looking, Placing, Resting, Page, Region, store, CachedPages, result, tally
<1>12. CASE ContextFromCache
  BY SizeAssumption, <1>12 DEF ContextFromCache, Situating, NextRegion, Regions, Staged, TypeOK, Reading, Looking, Placing, Resting, Page, Region, store, CachedPages, result, tally
<1>13. CASE AskContext
  BY SizeAssumption, <1>13 DEF AskContext, Situating, Regions, Staged, TypeOK, Reading, Looking, Placing, Resting, Page, Region, store, CachedPages, result, tally
<1>14. CASE SaveContext
  BY SizeAssumption, <1>14 DEF SaveContext, NextRegion, Regions, Staged, TypeOK, Reading, Looking, Placing, Resting, Page, Region, store, CachedPages, result, tally
<1>15. CASE FastUnavailable
  BY SizeAssumption, <1>15 DEF FastUnavailable, Situating, Finish, Regions, Staged, TypeOK, Reading, Looking, Placing, Resting, Page, Region, store, CachedPages, result, tally
<1>16. CASE Contextualized
  BY SizeAssumption, <1>16 DEF Contextualized, Situating, Finish, Regions, Staged, TypeOK, Reading, Looking, Placing, Resting, Page, Region, store, CachedPages, result, tally
<1>17. CASE Fail
  BY SizeAssumption, <1>17 DEF Fail, Regions, Staged, TypeOK, Reading, Looking, Placing, Resting, Page, Region, store, CachedPages, result, tally
<1>18. CASE Crash
  BY SizeAssumption, <1>18 DEF Crash, Nothing, Regions, Staged, TypeOK, Reading, Looking, Placing, Resting, Page, Region, store, CachedPages, result, tally
<1> QED BY <1>0, <1>1, <1>2, <1>3, <1>4, <1>5, <1>6, <1>7, <1>8, <1>9, <1>10, <1>11, <1>12, <1>13, <1>14, <1>15, <1>16, <1>17, <1>18 DEF Next, Work

-----------------------------------------------------------------------------
LEMMA StoreFinite ==
    ASSUME TypeOK, Staged
    PROVE  /\ IsFiniteSet(CachedPages \cap Scanned) /\ Cardinality(CachedPages \cap Scanned) \in Nat
           /\ IsFiniteSet(crops) /\ Cardinality(crops) \in Nat
           /\ IsFiniteSet(contexts) /\ Cardinality(contexts) \in Nat
<1>1. IsFiniteSet(Page) /\ IsFiniteSet(Region)
  BY SizeAssumption, FS_Interval DEF Page, Region
<1>2. CachedPages \cap Scanned \in SUBSET Page /\ crops \in SUBSET Region
  BY DEF TypeOK, CachedPages
<1>3. IsFiniteSet(CachedPages \cap Scanned) /\ IsFiniteSet(crops) /\ IsFiniteSet(contexts)
  BY <1>1, <1>2, FS_Subset DEF Staged
<1> QED BY <1>3, FS_CardinalityType

(* A write adds exactly the entry the run holds the answer for.               *)
LEMMA StockGrows ==
    ASSUME TypeOK, Staged
    PROVE  /\ Stock \in Nat
           /\ SavePage => Stock' = Stock + (IF at \in Scanned THEN 1 ELSE 0)
           /\ SaveCrop => Stock' = Stock + 1
           /\ SaveContext => Stock' = Stock + 1
<1>1. Stock \in Nat
  BY StoreFinite DEF Stock
<1>2. ASSUME SavePage PROVE Stock' = Stock + (IF at \in Scanned THEN 1 ELSE 0)
  <2>1. CachedPages' = CachedPages \cup {at} /\ crops' = crops /\ contexts' = contexts /\ at \notin CachedPages
    BY <1>2 DEF SavePage, Staged, CachedPages, TypeOK, Blocks
  <2>2. CASE at \in Scanned
    <3>1. CachedPages' \cap Scanned = (CachedPages \cap Scanned) \cup {at}
      BY <2>1, <2>2
    <3>2. Cardinality(CachedPages' \cap Scanned) = Cardinality(CachedPages \cap Scanned) + 1
      BY <2>1, <3>1, StoreFinite, FS_AddElement
    <3> QED BY <2>1, <2>2, <3>2, StoreFinite DEF Stock
  <2>3. CASE at \notin Scanned
    <3>1. CachedPages' \cap Scanned = CachedPages \cap Scanned
      BY <2>1, <2>3
    <3> QED BY <2>1, <2>3, <3>1, StoreFinite DEF Stock
  <2> QED BY <2>2, <2>3
<1>3. ASSUME SaveCrop PROVE Stock' = Stock + 1
  <2>1. crops' = crops \cup {at} /\ CachedPages' = CachedPages /\ contexts' = contexts /\ at \notin crops
    BY <1>3 DEF SaveCrop, Staged, CachedPages
  <2>2. Cardinality(crops') = Cardinality(crops) + 1
    BY <2>1, StoreFinite, FS_AddElement
  <2> QED BY <2>1, <2>2, StoreFinite DEF Stock
<1>4. ASSUME SaveContext PROVE Stock' = Stock + 1
  <2>1. contexts' = contexts \cup {ContextKey(at)} /\ CachedPages' = CachedPages /\ crops' = crops
        /\ ContextKey(at) \notin contexts
    BY <1>4 DEF SaveContext, Staged, CachedPages
  <2>2. Cardinality(contexts') = Cardinality(contexts) + 1
    BY <2>1, StoreFinite, FS_AddElement
  <2> QED BY <2>1, <2>2, StoreFinite DEF Stock
<1> QED BY <1>1, <1>2, <1>3, <1>4

(* Paid: an answer is bought, kept, or lost with the run.                     *)
LEMMA PaidStep ==
    ASSUME TypeOK, Staged, Paid, [Next]_vars
    PROVE  Paid'
<1>0. CASE UNCHANGED vars
  BY <1>0 DEF vars, Paid, Stock, Owed, Holding, CachedPages
<1>1. CASE Begin
  <2>1. Stock' = Stock
    BY <1>1 DEF Begin, Nothing, Stock, store, CachedPages, result
  <2> QED BY <2>1, StockGrows, <1>1 DEF Begin, Nothing, Paid, Owed, Holding, Resting, TypeOK, Page, Region, result, tally, store, CachedPages
<1>2. CASE PageFromCache
  <2>1. Stock' = Stock
    BY <1>2 DEF PageFromCache, NextPage, Stock, store, CachedPages, result
  <2> QED BY <2>1, StockGrows, <1>2 DEF PageFromCache, NextPage, Paid, Owed, Holding, Resting, TypeOK, Page, Region, result, tally, store, CachedPages
<1>3. CASE SkipPage
  <2>1. Stock' = Stock
    BY <1>3 DEF SkipPage, NextPage, Unreadable, Stock, store, CachedPages, result
  <2> QED BY <2>1, StockGrows, <1>3 DEF SkipPage, NextPage, Unreadable, Paid, Owed, Holding, Resting, TypeOK, Page, Region, result, tally, store, CachedPages
<1>4. CASE ParsePage
  <2>1. Stock' = Stock
    BY <1>4 DEF ParsePage, Unreadable, Stock, store, CachedPages, result
  <2> QED BY <2>1, StockGrows, <1>4 DEF ParsePage, Unreadable, Paid, Owed, Holding, Resting, TypeOK, Page, Region, result, tally, store, CachedPages
<1>5. CASE SavePage
  BY StockGrows, <1>5 DEF SavePage, NextPage, Paid, Owed, Holding, TypeOK, tally
<1>6. CASE EnrichFromCache
  <2>1. Stock' = Stock
    BY <1>6 DEF EnrichFromCache, Enriching, NextRegion, Stock, store, CachedPages, result
  <2> QED BY <2>1, StockGrows, <1>6 DEF EnrichFromCache, Enriching, NextRegion, Paid, Owed, Holding, Resting, TypeOK, Page, Region, result, tally, store, CachedPages
<1>7. CASE AskVision
  <2>1. Stock' = Stock
    BY <1>7 DEF AskVision, Enriching, Stock, store, CachedPages, result
  <2> QED BY <2>1, StockGrows, <1>7 DEF AskVision, Enriching, Paid, Owed, Holding, Resting, TypeOK, Page, Region, result, tally, store, CachedPages
<1>8. CASE SaveCrop
  BY StockGrows, <1>8 DEF SaveCrop, NextRegion, Paid, Owed, Holding, TypeOK, tally
<1>9. CASE VisionUnavailable
  <2>1. Stock' = Stock
    BY <1>9 DEF VisionUnavailable, Enriching, ToContext, Stock, store, CachedPages, result
  <2> QED BY <2>1, StockGrows, <1>9 DEF VisionUnavailable, Enriching, ToContext, Paid, Owed, Holding, Resting, TypeOK, Page, Region, result, tally, store, CachedPages
<1>10. CASE Enriched
  <2>1. Stock' = Stock
    BY <1>10 DEF Enriched, Enriching, ToContext, Stock, store, CachedPages, result
  <2> QED BY <2>1, StockGrows, <1>10 DEF Enriched, Enriching, ToContext, Paid, Owed, Holding, Resting, TypeOK, Page, Region, result, tally, store, CachedPages
<1>11. CASE NoChunk
  <2>1. Stock' = Stock
    BY <1>11 DEF NoChunk, Situating, NextRegion, Stock, store, CachedPages, result
  <2> QED BY <2>1, StockGrows, <1>11 DEF NoChunk, Situating, NextRegion, Paid, Owed, Holding, Resting, TypeOK, Page, Region, result, tally, store, CachedPages
<1>12. CASE ContextFromCache
  <2>1. Stock' = Stock
    BY <1>12 DEF ContextFromCache, Situating, NextRegion, Stock, store, CachedPages, result
  <2> QED BY <2>1, StockGrows, <1>12 DEF ContextFromCache, Situating, NextRegion, Paid, Owed, Holding, Resting, TypeOK, Page, Region, result, tally, store, CachedPages
<1>13. CASE AskContext
  <2>1. Stock' = Stock
    BY <1>13 DEF AskContext, Situating, Stock, store, CachedPages, result
  <2> QED BY <2>1, StockGrows, <1>13 DEF AskContext, Situating, Paid, Owed, Holding, Resting, TypeOK, Page, Region, result, tally, store, CachedPages
<1>14. CASE SaveContext
  BY StockGrows, <1>14 DEF SaveContext, NextRegion, Paid, Owed, Holding, TypeOK, tally
<1>15. CASE FastUnavailable
  <2>1. Stock' = Stock
    BY <1>15 DEF FastUnavailable, Situating, Finish, Stock, store, CachedPages, result
  <2> QED BY <2>1, StockGrows, <1>15 DEF FastUnavailable, Situating, Finish, Paid, Owed, Holding, Resting, TypeOK, Page, Region, result, tally, store, CachedPages
<1>16. CASE Contextualized
  <2>1. Stock' = Stock
    BY <1>16 DEF Contextualized, Situating, Finish, Stock, store, CachedPages, result
  <2> QED BY <2>1, StockGrows, <1>16 DEF Contextualized, Situating, Finish, Paid, Owed, Holding, Resting, TypeOK, Page, Region, result, tally, store, CachedPages
<1>17. CASE Fail
  <2>1. Stock' = Stock
    BY <1>17 DEF Fail, Stock, store, CachedPages, result
  <2> QED BY <2>1, StockGrows, <1>17 DEF Fail, Paid, Owed, Holding, Resting, TypeOK, Page, Region, result, tally, store, CachedPages
<1>18. CASE Crash
  <2>1. Stock' = Stock
    BY <1>18 DEF Crash, Nothing, Stock, store, CachedPages, result
  <2> QED BY <2>1, StockGrows, <1>18 DEF Crash, Nothing, Paid, Owed, Holding, Resting, TypeOK, Page, Region, result, tally, store, CachedPages
<1> QED BY <1>0, <1>1, <1>2, <1>3, <1>4, <1>5, <1>6, <1>7, <1>8, <1>9, <1>10, <1>11, <1>12, <1>13, <1>14, <1>15, <1>16, <1>17, <1>18 DEF Next, Work

-----------------------------------------------------------------------------
(* A run with a vision key has every page when it comes to its chunks.         *)
LEMMA AllParsed ==
    ASSUME TypeOK, Pages, Placing, "vision" \in keys
    PROVE  Parsed = Page
BY DEF Pages, TypeOK, Blocks, Parsed

(* A run with every key after a complete one finds each region of the cap in   *)
(* the store.                                                                *)
LEMMA NothingToAsk ==
    ASSUME TypeOK, Staged, Pages, Regions, Stocked, complete, keys = Role
    PROVE  /\ CachedPages = Page
           /\ Enriching => at \in crops
           /\ Situating /\ Chunk(at) => ContextKey(at) \in contexts
<1>1. CachedPages = Page
  BY DEF Stocked
<1>2. ASSUME Enriching PROVE at \in crops
  <2>1. at <= EnrichCap
    BY <1>2, RoomForRegion DEF Enriching
  <2>2. at \in Target
    BY <1>2, <2>1 DEF Enriching, Target, Region, Staged, Looking
  <2> QED BY <2>2 DEF Stocked
<1>3. ASSUME Situating, Chunk(at) PROVE ContextKey(at) \in contexts
  <2>1. at \in Region /\ rich = Target
    BY <1>3 DEF Situating, Staged, Stocked, Placing, Region
  <2>2. Parsed = Page
    BY <1>3, AllParsed DEF Situating, Placing, Role
  <2> QED BY <1>3, <2>1, <2>2 DEF Chunk, ContextKey, Stocked
<1> QED BY <1>1, <1>2, <1>3

(* Stocked: what a complete run has left stays, and is taken up in full.      *)
LEMMA StockedStep ==
    ASSUME TypeOK, Staged, Pages, Regions, Stocked, [Next]_vars
    PROVE  Stocked'
<1>0. CASE UNCHANGED vars
  BY <1>0 DEF vars, Stocked, Placing, CachedPages
<1>1. CASE Begin
  BY <1>1 DEF Begin, Nothing, TypeOK, Stocked, Placing, Resting, store, CachedPages, result, tally
<1>2. CASE PageFromCache
  BY <1>2 DEF PageFromCache, NextPage, TypeOK, Stocked, Placing, Resting, store, CachedPages, result, tally
<1>3. CASE SkipPage
  BY <1>3 DEF SkipPage, NextPage, Unreadable, TypeOK, Stocked, Placing, Resting, store, CachedPages, result, tally
<1>4. CASE ParsePage
  BY <1>4 DEF ParsePage, Unreadable, TypeOK, Stocked, Placing, Resting, store, CachedPages, result, tally
<1>5. CASE SavePage
  BY <1>5 DEF SavePage, NextPage, TypeOK, Stocked, Placing, Resting, store, CachedPages, result, tally
<1>6. CASE EnrichFromCache
  BY <1>6 DEF EnrichFromCache, Enriching, NextRegion, TypeOK, Stocked, Placing, Resting, store, CachedPages, result, tally
<1>7. CASE AskVision
  BY <1>7 DEF AskVision, Enriching, TypeOK, Stocked, Placing, Resting, store, CachedPages, result, tally
<1>8. CASE SaveCrop
  BY <1>8 DEF SaveCrop, NextRegion, TypeOK, Stocked, Placing, Resting, store, CachedPages, result, tally
<1>9. CASE VisionUnavailable
  <2>1. ~(complete /\ keys = Role)
    BY NothingToAsk, <1>9 DEF VisionUnavailable
  <2> QED BY <2>1, <1>9 DEF VisionUnavailable, Enriching, ToContext, Stocked, Placing, store, CachedPages, result
<1>10. CASE Enriched
  <2>1. ASSUME keys = Role PROVE rich = Target
    <3>1. pc = "enrich" /\ at \in Nat \ {0} /\ rich = 1..(at - 1)
          /\ at <= NRegions + 1 /\ at <= EnrichCap + 1
      BY <1>10 DEF Enriched, Regions, Staged, Looking
    <3>2. at > NRegions \/ at > EnrichCap
      BY <2>1, <3>1, <1>10, RoomForRegion, SizeAssumption DEF Enriched, Enriching, Role
    <3> QED BY <3>1, <3>2, SizeAssumption DEF Target, Region
  <2> QED BY <2>1, <1>10 DEF Enriched, Enriching, ToContext, Stocked, Placing, store, CachedPages, result
<1>11. CASE NoChunk
  BY <1>11 DEF NoChunk, Situating, NextRegion, TypeOK, Stocked, Placing, Resting, store, CachedPages, result, tally
<1>12. CASE ContextFromCache
  BY <1>12 DEF ContextFromCache, Situating, NextRegion, TypeOK, Stocked, Placing, Resting, store, CachedPages, result, tally
<1>13. CASE AskContext
  BY <1>13 DEF AskContext, Situating, TypeOK, Stocked, Placing, Resting, store, CachedPages, result, tally
<1>14. CASE SaveContext
  BY <1>14 DEF SaveContext, NextRegion, TypeOK, Stocked, Placing, Resting, store, CachedPages, result, tally
<1>15. CASE FastUnavailable
  BY <1>15 DEF FastUnavailable, Situating, Finish, TypeOK, Stocked, Placing, Resting, store, CachedPages, result, tally
<1>16. CASE Contextualized
  <2>1. ASSUME Whole PROVE CachedPages = Page /\ Parsed = Page
    <3>1. Parsed = Page
      BY <2>1, <1>16, AllParsed DEF Contextualized, Whole, Placing, Role
    <3> QED BY <3>1 DEF Pages, CachedPages, Parsed
  <2>2. ASSUME Whole
        PROVE  /\ Target \subseteq crops
               /\ \A r \in Region : r \in Target \/ r \notin Figure =>
                    <<r, r \in Target, Headings[Page][r]>> \in contexts
    BY <2>1, <2>2, RegionAssumption DEF Whole, Target, Regions, Chunk, ContextKey
  <2>3. complete' => complete \/ Whole
    BY <1>16 DEF Contextualized, Finish
  <2> QED BY <2>1, <2>2, <2>3, <1>16 DEF Contextualized, Finish, Stocked, Placing, store, CachedPages, result
<1>17. CASE Fail
  BY <1>17 DEF Fail, TypeOK, Stocked, Placing, Resting, store, CachedPages, result, tally
<1>18. CASE Crash
  BY <1>18 DEF Crash, Nothing, TypeOK, Stocked, Placing, Resting, store, CachedPages, result, tally
<1> QED BY <1>0, <1>1, <1>2, <1>3, <1>4, <1>5, <1>6, <1>7, <1>8, <1>9, <1>10, <1>11, <1>12, <1>13, <1>14, <1>15, <1>16, <1>17, <1>18 DEF Next, Work

-----------------------------------------------------------------------------
(* The invariant holds in every state the ingestion of a document reaches.     *)
THEOREM Invariant == Spec => []IInv
<1>1. IInv /\ [Next]_vars => IInv'
  BY TypeStep, StagedStep, PagesStep, RegionsStep, PaidStep, StockedStep DEF IInv
<1> QED BY <1>1, InitIInv, PTL DEF Spec

(* Positions, caches and counters keep their types (the runs' type invariant).  *)
THEOREM TypeCorrect == Spec => []TypeOK
<1>1. IInv => TypeOK
  BY DEF IInv
<1> QED BY <1>1, Invariant, PTL

(* parse_pdf never takes a page left blank by a run without a key for parsed:   *)
(* a run with the key that finishes has every page.                           *)
THEOREM PagesKept == Spec => []NoPageLost
<1>1. IInv => NoPageLost
  <2> SUFFICES ASSUME IInv, pc = "done", "vision" \in keys, NEW p \in Page
               PROVE  out[p] = "parsed"
    BY DEF NoPageLost
  <2>1. out[p] \in {"none", "blank", "parsed"}
    BY DEF IInv, TypeOK, Blocks
  <2>2. out[p] # "none" /\ out[p] # "blank"
    BY DEF IInv, Pages
  <2> QED BY <2>1, <2>2
<1> QED BY <1>1, Invariant, PTL

(* Every answer of a provider is kept, but for one in each run cut short.       *)
THEOREM NothingPaidTwice == Spec => []AnswersAreKept
<1>1. IInv => AnswersAreKept
  BY DEF IInv, AnswersAreKept, Paid, Stock, Owed
<1> QED BY <1>1, Invariant, PTL

(* After a complete run, a run with every key calls no provider.               *)
THEOREM FreeReruns == Spec => RerunsAreFree
<1>1. ASSUME IInv, [Next]_vars, complete, keys = Role
      PROVE  calls' = calls
  <2>1. /\ CachedPages = Page
        /\ Enriching => at \in crops
        /\ Situating /\ Chunk(at) => ContextKey(at) \in contexts
    BY <1>1, NothingToAsk DEF IInv
  <2>2. ~ParsePage /\ ~AskVision /\ ~AskContext
    BY <1>1, <2>1 DEF ParsePage, AskVision, AskContext, IInv, TypeOK
  <2>3. CASE UNCHANGED vars
    BY <2>3 DEF vars
  <2>4. CASE Next
    BY <2>2, <2>4 DEF Next, Work, Begin, PageFromCache, SkipPage, SavePage, EnrichFromCache,
       SaveCrop, VisionUnavailable, Enriched, NoChunk, ContextFromCache, SaveContext,
       FastUnavailable, Contextualized, Finish, Fail, Crash
  <2> QED BY <1>1, <2>3, <2>4
<1> QED BY <1>1, Invariant, PTL DEF Spec, RerunsAreFree

-----------------------------------------------------------------------------
(* Termination. How many steps the run still takes at most: two for each page   *)
(* it has not read, two for each region it has not looked at, two for each      *)
(* chunk it has not placed, and one that ends each of the last two stages.      *)
ToPlace == 2 * NRegions + 1
ToLook == 2 * NRegions + 1

StepsLeft ==
    CASE pc = "parse"        -> 2 * (NPages - at) + 2 + ToLook + ToPlace
      [] pc = "save_page"    -> 2 * (NPages - at) + 1 + ToLook + ToPlace
      [] pc = "enrich"       -> 2 * (NRegions + 1 - at) + 1 + ToPlace
      [] pc = "save_crop"    -> 2 * (NRegions + 1 - at) + ToPlace
      [] pc = "context"      -> 2 * (NRegions + 1 - at) + 1
      [] pc = "save_context" -> 2 * (NRegions + 1 - at)
      [] OTHER               -> 0

Bounded ==
    /\ StepsLeft \in 0..(2 * NPages + 4 * NRegions + 2)
    /\ StepsLeft = 0 <=> Resting

(* While chunks are placed there is one left or the stage is over.             *)
InRegions == Placing => at <= NRegions + 1

LEMMA InRegionsStep ==
    ASSUME IInv, InRegions, [Next]_vars
    PROVE  InRegions'
<1> USE SizeAssumption DEF IInv, TypeOK, Stage, Page, Region, InRegions, Placing, Resting
<1>1. CASE pc' \in {"context", "save_context"} /\ pc \notin {"context", "save_context"}
  BY <1>1 DEF Next, Work, Begin, PageFromCache, SkipPage, ParsePage, SavePage, NextPage,
     EnrichFromCache, AskVision, SaveCrop, NextRegion, VisionUnavailable, Enriched, ToContext,
     NoChunk, ContextFromCache, AskContext, SaveContext, FastUnavailable, Contextualized, Finish,
     Situating, Fail, Crash, vars
<1>2. CASE pc \in {"context", "save_context"}
  BY <1>2 DEF Next, Work, Begin, PageFromCache, SkipPage, ParsePage, SavePage,
     EnrichFromCache, AskVision, SaveCrop, NextRegion, VisionUnavailable, Enriched, Enriching,
     NoChunk, ContextFromCache, AskContext, SaveContext, FastUnavailable, Contextualized, Finish,
     Situating, Fail, Crash, vars
<1> QED BY <1>1, <1>2

LEMMA LeftIn ==
    /\ pc = "parse" => StepsLeft = 2 * (NPages - at) + 2 + ToLook + ToPlace
    /\ pc = "save_page" => StepsLeft = 2 * (NPages - at) + 1 + ToLook + ToPlace
    /\ pc = "enrich" => StepsLeft = 2 * (NRegions + 1 - at) + 1 + ToPlace
    /\ pc = "save_crop" => StepsLeft = 2 * (NRegions + 1 - at) + ToPlace
    /\ pc = "context" => StepsLeft = 2 * (NRegions + 1 - at) + 1
    /\ pc = "save_context" => StepsLeft = 2 * (NRegions + 1 - at)
BY DEF StepsLeft

LEMMA LeftInNext ==
    /\ pc' = "parse" => StepsLeft' = 2 * (NPages - at') + 2 + ToLook + ToPlace
    /\ pc' = "save_page" => StepsLeft' = 2 * (NPages - at') + 1 + ToLook + ToPlace
    /\ pc' = "enrich" => StepsLeft' = 2 * (NRegions + 1 - at') + 1 + ToPlace
    /\ pc' = "save_crop" => StepsLeft' = 2 * (NRegions + 1 - at') + ToPlace
    /\ pc' = "context" => StepsLeft' = 2 * (NRegions + 1 - at') + 1
    /\ pc' = "save_context" => StepsLeft' = 2 * (NRegions + 1 - at')
BY DEF StepsLeft

LEMMA RunBounded == IInv /\ InRegions => Bounded
<1> SUFFICES ASSUME IInv, InRegions PROVE Bounded
  OBVIOUS
<1>1. /\ NPages \in Nat \ {0} /\ NRegions \in Nat /\ at \in Nat
      /\ ToLook = 2 * NRegions + 1 /\ ToPlace = 2 * NRegions + 1
      /\ ~Resting /\ pc \notin {"parse", "save_page"} => at \in 1..(NRegions + 1)
      /\ pc = "save_crop" => at <= NRegions
      /\ pc \in {"parse", "save_page"} => at \in 1..NPages
      /\ pc = "save_context" => at <= NRegions
  BY SizeAssumption DEF IInv, TypeOK, ToLook, ToPlace, Staged, Looking, Placing, Page, Region,
     Regions, InRegions, Resting, Stage
<1>2. CASE Resting
  <2>1. StepsLeft = 0
    BY <1>2 DEF Resting, StepsLeft
  <2> QED BY <1>1, <1>2, <2>1 DEF Bounded
<1>3. CASE pc \in {"parse", "save_page"}
  BY <1>1, <1>3, LeftIn DEF Bounded, Resting
<1>4. CASE pc \in {"enrich", "save_crop"}
  BY <1>1, <1>4, LeftIn DEF Bounded, Resting
<1>5. CASE pc \in {"context", "save_context"}
  BY <1>1, <1>5, LeftIn DEF Bounded, Resting
<1> QED BY <1>2, <1>3, <1>4, <1>5 DEF IInv, TypeOK, Stage, Resting

LEMMA RunGoesOn ==
    ASSUME IInv, InRegions, ~Resting, Next
    PROVE  StepsLeft' < StepsLeft
<1>1. StepsLeft \in Nat /\ StepsLeft # 0
  BY RunBounded DEF Bounded
<1>2. CASE pc' \in {"idle", "done", "failed"}
  <2>1. StepsLeft' = 0
    BY <1>2 DEF StepsLeft
  <2> QED BY <1>1, <2>1
<1>3. /\ NPages \in Nat \ {0} /\ NRegions \in Nat /\ at \in Nat
      /\ ToLook = 2 * NRegions + 1 /\ ToPlace = 2 * NRegions + 1
      /\ pc \in {"enrich"} => at >= 1
  BY SizeAssumption DEF IInv, TypeOK, ToLook, ToPlace, Staged, Looking
<1>4. CASE PageFromCache \/ SkipPage \/ SavePage
  <2>1. /\ pc \in {"parse", "save_page"}
        /\ \/ at < NPages /\ pc' = "parse" /\ at' = at + 1
           \/ pc' = "enrich" /\ at' = 1
    BY <1>4 DEF PageFromCache, SkipPage, SavePage, NextPage
  <2>2. at <= NPages
    BY <2>1, <1>3 DEF IInv, TypeOK, Page
  <2> QED BY <2>1, <2>2, <1>3, LeftIn, LeftInNext
<1>5. CASE ParsePage
  <2>1. pc = "parse" /\ pc' = "save_page" /\ at' = at
    BY <1>5 DEF ParsePage
  <2> QED BY <2>1, <1>3, LeftIn, LeftInNext
<1>6. CASE EnrichFromCache \/ SaveCrop
  <2>1. pc \in {"enrich", "save_crop"} /\ pc' = "enrich" /\ at' = at + 1
    BY <1>6 DEF EnrichFromCache, SaveCrop, Enriching, NextRegion
  <2> QED BY <2>1, <1>3, LeftIn, LeftInNext
<1>7. CASE AskVision
  <2>1. pc = "enrich" /\ pc' = "save_crop" /\ at' = at
    BY <1>7 DEF AskVision, Enriching
  <2> QED BY <2>1, <1>3, LeftIn, LeftInNext
<1>8. CASE VisionUnavailable \/ Enriched
  <2>1. pc = "enrich" /\ pc' = "context" /\ at' = 1
    BY <1>8 DEF VisionUnavailable, Enriched, Enriching, ToContext
  <2>2. at <= NRegions + 1
    BY <2>1 DEF IInv, Regions, Looking
  <2> QED BY <2>1, <2>2, <1>3, LeftIn, LeftInNext
<1>9. CASE NoChunk \/ ContextFromCache \/ SaveContext
  <2>1. pc \in {"context", "save_context"} /\ pc' = "context" /\ at' = at + 1
    BY <1>9 DEF NoChunk, ContextFromCache, SaveContext, Situating, NextRegion
  <2> QED BY <2>1, <1>3, LeftIn, LeftInNext
<1>10. CASE AskContext
  <2>1. pc = "context" /\ pc' = "save_context" /\ at' = at
    BY <1>10 DEF AskContext, Situating
  <2> QED BY <2>1, <1>3, LeftIn, LeftInNext
<1>11. CASE FastUnavailable \/ Contextualized \/ Fail \/ Crash
  BY <1>2, <1>11 DEF FastUnavailable, Contextualized, Finish, Fail, Crash
<1>12. CASE Begin
  BY <1>12 DEF Begin
<1> QED
  BY <1>4, <1>5, <1>6, <1>7, <1>8, <1>9, <1>10, <1>11, <1>12 DEF Next, Work

(* A run of ingest takes at most two steps for each page and four for each       *)
(* region, and two more, whatever the store holds and whichever keys there are:  *)
(* whatever happens while it runs, its next stage, a failure or a crash, brings  *)
(* its end nearer. What RunsEnd adds is only that the thread goes on.            *)
THEOREM RunsAreBounded ==
    Spec => []Bounded /\ [][~Resting => StepsLeft' < StepsLeft]_vars
<1>1. Init => InRegions
  BY DEF Init, InRegions, Placing
<1>2. IInv /\ InRegions /\ [Next]_vars => InRegions'
  BY InRegionsStep
<1>3. IInv /\ InRegions => Bounded
  BY RunBounded
<1>4. IInv /\ InRegions /\ [Next]_vars => [~Resting => StepsLeft' < StepsLeft]_vars
  BY RunGoesOn
<1> QED BY <1>1, <1>2, <1>3, <1>4, Invariant, PTL DEF Spec

===============================================================================
