------------------------- MODULE ChecklistLanes_proofs -------------------------
(***************************************************************************)
(* Theorems about what is read off the answers, for every document, every     *)
(* reply of a model, every dataset and baseline. Nothing but the types has to  *)
(* be carried along for the reports; for the floors, that a floor which lost   *)
(* its last decimal is not one that loses another.                            *)
(***************************************************************************)
EXTENDS ChecklistLanes, FiniteSetTheorems, WellFoundedInduction, TLAPS

EvalRows ==
    {EvalRow(out, case, judged) :
        out \in Runs["eval"], case \in Elems(Cases), judged \in SUBSET BOOLEAN}

RowsOf ==
    [brief |-> {Section(out) : out \in Runs["brief"]},
     compare |-> {CompareRow(ExtractVerifiedFigure(out_a), ExtractVerifiedFigure(out_b)) :
                     out_a, out_b \in Runs["compare"]},
     eval |-> EvalRows]

RowsTyped == rows \in Seq(RowsOf[lane])

(* What the float arithmetic has taken from a floor since it was highest.       *)
Drifted ==
    /\ DOMAIN peak = DOMAIN floors
    /\ \A m \in DOMAIN floors :
         /\ floors[m] \in Nat /\ peak[m] \in Nat
         /\ floors[m] = peak[m] \/ (floors[m] = peak[m] - 1 /\ floors[m] \notin Drifting)

RatchetIsMet == verdict = "ratcheted" => Regressed(scores, floors) \subseteq regressed

IInv == TypeOK /\ RowsTyped /\ Drifted /\ RatchetIsMet

-----------------------------------------------------------------------------
(* Lemmas about the operators.                                                *)

LEMMA LeastElement ==
    ASSUME NEW S \in SUBSET Nat, S # {}
    PROVE  First(S) \in S /\ \A j \in S : First(S) <= j
<1> DEFINE R == OpToRel(<, Nat)
<1>1. IsWellFoundedOn(R, Nat)
  BY NatLessThanWellFounded, Zenon
<1>2. \E i \in S : \A j \in S : <<j, i>> \notin R
  <2> HIDE DEF R
  <2> QED
    BY <1>1, WFMin, Zenon
<1>3. PICK i \in S : \A j \in S : <<j, i>> \notin R
  BY <1>2
<1>4. \A j \in S : ~(j < i)
  BY <1>3 DEF OpToRel
<1>5. \E k \in S : \A j \in S : k <= j
  BY <1>4
<1> HIDE DEF R
<1> QED
  BY <1>5, Zenon DEF First

(* The headline is one of the proven figures.                                 *)
LEMMA HeadlineIsProven ==
    ASSUME NEW out \in Answer, Proven(out) # {}
    PROVE  Headline(out) \in Proven(out)
<1> DEFINE is == {p[1] : p \in Proven(out)}
           i == First(is)
           js == {p[2] : p \in {q \in Proven(out) : q[1] = i}}
<1>1. \A p \in Proven(out) : p[1] \in Nat /\ p[2] \in Nat /\ p = <<p[1], p[2]>>
  <2>1. out.claims \in Seq(Claim)
    BY DEF Answer
  <2>2. ASSUME NEW p \in Proven(out)
        PROVE  \E k \in DOMAIN out.claims : \E l \in DOMAIN out.claims[k].figures : p = <<k, l>>
    BY <2>2 DEF Proven, Numbers
  <2>3. ASSUME NEW k \in DOMAIN out.claims, NEW l \in DOMAIN out.claims[k].figures
        PROVE  k \in Nat /\ l \in Nat
    <3>1. out.claims[k] \in Claim /\ k \in Nat
      BY <2>1, <2>3
    <3>2. out.claims[k].figures \in Seq([n : Figures, unit : Units])
      BY <3>1 DEF Claim
    <3> QED
      BY <3>1, <3>2, <2>3
  <2> QED
    BY <2>2, <2>3
<1>2. i \in is
  <2>1. is # {} /\ is \in SUBSET Nat
    BY <1>1
  <2>2. First(is) \in is
    <3> HIDE DEF is
    <3> QED
      BY <2>1, LeastElement
  <2> QED
    BY <2>2
<1>3. js # {} /\ js \in SUBSET Nat
  BY <1>1, <1>2
<1>4. First(js) \in js
  BY <1>3, LeastElement
<1>5. PICK p \in Proven(out) : p[1] = i /\ p[2] = First(js)
  BY <1>4
<1>6. Headline(out) = <<i, First(js)>>
  BY DEF Headline
<1> QED
  BY <1>1, <1>5, <1>6

(* A proven figure stands in a block of a page its claim cites, and is none     *)
(* that check_claims lists.                                                   *)
LEMMA ProvenIsTraced ==
    ASSUME NEW out \in Answer, NEW p \in Proven(out)
    PROVE  LET claim == out.claims[p[1]]
               n == claim.figures[p[2]].n
           IN  Traced(n, claim, out) /\ n \notin Bad(claim, out)
<1> DEFINE claim == out.claims[p[1]]
           n == claim.figures[p[2]].n
<1>1. PICK b \in Elems(out.retrieved), ct \in Citations(claim, out.retrieved) :
        PointsTo(ct, b) /\ n \in Holds[b]
  BY DEF Proven
<1>2. b \in Blocks
  BY DEF Answer, Elems
<1>3. n \in Shows[b]
  BY <1>1, <1>2, TextAssumption
<1>4. PICK i \in Kept(claim, out.retrieved) : ct = Snap(claim.cites[i], claim, out.retrieved)
  BY <1>1 DEF Citations, Cited
<1>5. i \in DOMAIN claim.cites
  BY <1>4 DEF Kept
<1>6. claim.cites[i] \in Cite
  <2>1. p[1] \in DOMAIN out.claims
    BY DEF Proven, Numbers
  <2>2. claim \in Claim
    BY <2>1 DEF Answer
  <2> QED
    BY <2>2, <1>5 DEF Claim
<1>7. ct.page = claim.cites[i].page
  BY <1>4, <1>6 DEF Snap, Cite
<1>8. Traced(n, claim, out)
  BY <1>1, <1>3, <1>5, <1>7 DEF Traced, PointsTo
<1>9. n \in ShownAt(ct, out.retrieved)
  BY <1>1, <1>3 DEF ShownAt
<1>10. n \notin Bad(claim, out)
  BY <1>1, <1>9 DEF Bad
<1> QED
  BY <1>8, <1>10

(* Whatever the comparison extracts it may compare.                            *)
LEMMA ExtractedIsTraced ==
    ASSUME NEW out \in Answer, ExtractVerifiedFigure(out) # None
    PROVE  ComparedIsTraced(ExtractVerifiedFigure(out), out)
<1>1. Proven(out) # {}
  BY DEF ExtractVerifiedFigure
<1>2. Headline(out) \in Proven(out)
  BY <1>1, HeadlineIsProven
<1> DEFINE p == Headline(out)
           claim == out.claims[p[1]]
           n == claim.figures[p[2]].n
<1>3. Traced(n, claim, out) /\ n \notin Bad(claim, out)
  BY <1>2, ProvenIsTraced
<1>4. ExtractVerifiedFigure(out).value = n /\ ExtractVerifiedFigure(out).claim = claim
  BY DEF ExtractVerifiedFigure
<1> QED
  BY <1>3, <1>4 DEF ComparedIsTraced

(* A figure that check_claims does not list is traced, a year or computed.      *)
LEMMA UnlistedIsTraced ==
    ASSUME NEW out \in Answer, NEW k \in DOMAIN out.claims, NEW j \in DOMAIN out.claims[k].figures,
           out.claims[k].figures[j].n \notin Bad(out.claims[k], out)
    PROVE  LET claim == out.claims[k]
               n == claim.figures[j].n
           IN  IsYear(n) \/ n \in out.computation \/ Traced(n, claim, out)
<1> DEFINE claim == out.claims[k]
           n == claim.figures[j].n
<1> SUFFICES ASSUME ~IsYear(n), n \notin out.computation
             PROVE  Traced(n, claim, out)
  OBVIOUS
<1>1. PICK ct \in Citations(claim, out.retrieved) : n \in ShownAt(ct, out.retrieved)
  BY DEF Bad
<1>2. PICK b \in Elems(out.retrieved) : n \in Shows[b] /\ ct.page = PageOf[b]
  BY <1>1 DEF ShownAt, PointsTo
<1>3. PICK i \in Kept(claim, out.retrieved) : ct = Snap(claim.cites[i], claim, out.retrieved)
  BY <1>1 DEF Citations, Cited
<1>4. i \in DOMAIN claim.cites
  BY <1>3 DEF Kept
<1>5. claim.cites[i] \in Cite
  <2>1. claim \in Claim
    BY DEF Answer
  <2> QED
    BY <2>1, <1>4 DEF Claim
<1>6. ct.page = claim.cites[i].page
  BY <1>3, <1>5 DEF Snap, Cite
<1> QED
  BY <1>2, <1>4, <1>6 DEF Traced

-----------------------------------------------------------------------------
(* Scores and floors.                                                         *)

LEMMA ShareIsFraction ==
    ASSUME NEW part, NEW whole, IsFiniteSet(whole)
    PROVE  Share(part, whole) \in Fraction
<1>1. Cardinality(part \cap whole) \in Nat /\ Cardinality(whole) \in Nat
  BY FS_Intersection, FS_CardinalityType
<1> QED
  BY <1>1 DEF Share, AtLeastOne, Fraction

LEMMA RowsAreFinite ==
    ASSUME RowsTyped, NEW T \in SUBSET DOMAIN rows
    PROVE  IsFiniteSet(T)
<1>1. DOMAIN rows = 1..Len(rows) /\ Len(rows) \in Nat
  BY DEF RowsTyped
<1>2. IsFiniteSet(1..Len(rows))
  BY <1>1, FS_Interval
<1> QED
  BY <1>1, <1>2, FS_Subset

LEMMA ScoresAreFractions ==
    ASSUME RowsTyped
    PROVE  /\ DOMAIN Scores(rows) \subseteq Metrics
           /\ \A m \in DOMAIN Scores(rows) : Scores(rows)[m] \in Fraction
<1>1. DOMAIN Scores(rows) = Scored(rows) /\ Scored(rows) \subseteq Metrics
  BY DEF Scores, Scored, Metrics
<1>2. ASSUME NEW m \in AgentMetrics
      PROVE  AgentScore(m, rows) \in Fraction
  <2> DEFINE ins == {i \in DOMAIN rows : ~rows[i].oos}
             abstained == {i \in DOMAIN rows : rows[i].abstained}
             answered == ins \ abstained
  <2>1. IsFiniteSet(ins) /\ IsFiniteSet(answered) /\ IsFiniteSet(DOMAIN rows \ ins)
    BY RowsAreFinite
  <2>2. \A part : /\ Share(part, ins) \in Fraction /\ Share(part, answered) \in Fraction
                  /\ Share(part, DOMAIN rows \ ins) \in Fraction
    <3> HIDE DEF ins, answered
    <3> QED
      BY <2>1, ShareIsFraction
  <2> QED
    BY <2>2 DEF AgentScore, AgentMetrics
<1>3. ASSUME NEW m
      PROVE  Share(Passed(m, rows), Applicable(m, rows)) \in Fraction
  <2>1. Applicable(m, rows) \in SUBSET DOMAIN rows
    BY DEF Applicable
  <2> QED
    BY <2>1, RowsAreFinite, ShareIsFraction
<1> QED
  BY <1>1, <1>2, <1>3 DEF Scores

(* A floor as it is rounded down is one the score meets.                       *)
LEMMA ObservedIsMet ==
    ASSUME NEW m, NEW score \in Fraction
    PROVE  /\ ObservedFloor(m, score) \in Nat
           /\ ObservedFloor(m, score) * score[2] <= score[1] * Grid
<1> DEFINE a == score[1] * Grid
           d == score[2]
           k == a \div d - Margin(m)
<1>1. a \in Nat /\ d \in Nat \ {0}
  BY GridAssumption DEF Fraction
<1>2. a \div d \in Nat /\ (a \div d) * d <= a
  <2> HIDE DEF a, d
  <2> QED
    BY <1>1
<1>3. Margin(m) \in Nat
  BY GridAssumption DEF Margin
<1>4. ObservedFloor(m, score) \in Nat /\ ObservedFloor(m, score) <= a \div d
  <2>1. ObservedFloor(m, score) = 0 \/ (k > 0 /\ ObservedFloor(m, score) \in {k, k - 1})
    BY <1>2, <1>3 DEF ObservedFloor
  <2>2. k \in Int /\ k <= a \div d
    BY <1>2, <1>3
  <2> HIDE DEF k
  <2> QED
    BY <1>2, <2>1, <2>2
<1>5. ASSUME NEW x \in Nat, x <= a \div d
      PROVE  x * d <= a
  <2>1. x * d <= (a \div d) * d
    <3> HIDE DEF a, d
    <3> QED
      BY <1>1, <1>2, <1>5
  <2> HIDE DEF a, d
  <2> QED
    BY <1>1, <1>2, <2>1
<1> QED
  BY <1>4, <1>5

(* Ratcheting one metric: a score that met the old floor meets the new one,     *)
(* which is not lower but for the drift.                                      *)
LEMMA RatchetKeeps ==
    ASSUME NEW m, NEW score \in Fraction, NEW old \in Nat
    PROVE  /\ Ratchet(m, score, old) \in Nat
           /\ Ratchet(m, score, old) >= KeptFloor(old)
           /\ ~Below(score, old) => ~Below(score, Ratchet(m, score, old))
<1>1. /\ ObservedFloor(m, score) \in Nat
      /\ ObservedFloor(m, score) * score[2] <= score[1] * Grid
  BY ObservedIsMet
<1>2. KeptFloor(old) \in Nat /\ KeptFloor(old) <= old
  BY FloatAssumption, GridAssumption DEF KeptFloor
<1>3. score[1] \in Nat /\ score[2] \in Nat /\ Grid \in Nat
  BY GridAssumption DEF Fraction
<1>4. KeptFloor(old) * score[2] <= old * score[2]
  BY <1>2, <1>3
<1>5. Ratchet(m, score, old) \in {ObservedFloor(m, score), KeptFloor(old)}
  BY DEF Ratchet, Higher
<1>6. Ratchet(m, score, old) >= KeptFloor(old)
  BY <1>1, <1>2 DEF Ratchet, Higher
<1>7. ASSUME ~Below(score, old)
      PROVE  ~Below(score, Ratchet(m, score, old))
  <2>1. old * score[2] <= score[1] * Grid
    BY <1>3, <1>7 DEF Below
  <2>2. score[1] * Grid \in Nat /\ old * score[2] \in Nat /\ KeptFloor(old) * score[2] \in Nat
    BY <1>2, <1>3
  <2>3. Ratchet(m, score, old) * score[2] <= score[1] * Grid
    BY <1>1, <1>4, <1>5, <2>1, <2>2
  <2>4. Ratchet(m, score, old) * score[2] \in Nat
    BY <1>1, <1>2, <1>3, <1>5
  <2> QED
    BY <2>2, <2>3, <2>4 DEF Below
<1> QED
  BY <1>1, <1>2, <1>5, <1>6, <1>7

-----------------------------------------------------------------------------
(* The invariant.                                                             *)

LEMMA InitIInv == Init => IInv
<1> SUFFICES ASSUME Init PROVE IInv
  OBVIOUS
<1>1. TypeOK
  BY BaselineAssumption, GateAssumption DEF Init, TypeOK, NoAnswers
<1>2. RowsTyped
  BY DEF Init, RowsTyped
<1>3. Drifted /\ RatchetIsMet
  BY BaselineAssumption DEF Init, Drifted, RatchetIsMet
<1> QED
  BY <1>1, <1>2, <1>3 DEF IInv

(* A step adds one row of the lane, or starts over.                            *)
LEMMA StepRows == IInv /\ [Next]_vars => RowsTyped'
<1> SUFFICES ASSUME IInv, [Next]_vars PROVE RowsTyped'
  OBVIOUS
<1>0. rows \in Seq(RowsOf[lane])
  BY DEF IInv, RowsTyped
<1>1. CASE \E out \in Runs["brief"] : BriefItem(out)
  <2>1. PICK out \in Runs["brief"] : BriefItem(out)
    BY <1>1
  <2>2. Section(out) \in RowsOf["brief"]
    BY DEF RowsOf
  <2> QED
    BY <1>0, <2>1, <2>2 DEF BriefItem, RowsTyped
<1>2. CASE \E out_a, out_b \in Runs["compare"] : CompareItem(out_a, out_b)
  <2>1. PICK out_a \in Runs["compare"], out_b \in Runs["compare"] : CompareItem(out_a, out_b)
    BY <1>2
  <2>2. CompareRow(ExtractVerifiedFigure(out_a), ExtractVerifiedFigure(out_b)) \in RowsOf["compare"]
    BY DEF RowsOf
  <2> QED
    BY <1>0, <2>1, <2>2 DEF CompareItem, RowsTyped
<1>3. CASE \E out \in Runs["eval"] : EvalCase(out, Judge)
  <2>1. PICK out \in Runs["eval"] : EvalCase(out, Judge)
    BY <1>3
  <2> DEFINE case == Cases[Len(rows) + 1]
  <2>2. case \in Elems(Cases)
    BY <1>0, <2>1, ChecklistAssumption DEF EvalCase, Elems
  <2>3. PICK judged \in Judgements(out, case, Judge) : rows' = Append(rows, EvalRow(out, case, judged))
    BY <2>1 DEF EvalCase
  <2>4. judged \in SUBSET BOOLEAN
    BY <2>3 DEF Judgements
  <2>5. EvalRow(out, case, judged) \in EvalRows
    <3> HIDE DEF case
    <3> QED
      BY <2>2, <2>4 DEF EvalRows
  <2>6. rows \in Seq(EvalRows) /\ lane' = "eval"
    BY <1>0, <2>1 DEF EvalCase, RowsOf
  <2>7. rows' \in Seq(EvalRows)
    <3> HIDE DEF case
    <3> QED
      BY <2>3, <2>5, <2>6
  <2> QED
    BY <2>6, <2>7 DEF RowsTyped, RowsOf
<1>4. CASE Raises \/ Gate \/ GateRatchet
  <2>1. rows' = <<>>
    BY <1>4 DEF Raises, Gate, GateRatchet, Compared
  <2> QED
    BY <2>1 DEF RowsTyped
<1>5. CASE UNCHANGED vars
  BY <1>0, <1>5 DEF vars, RowsTyped
<1> QED
  BY <1>1, <1>2, <1>3, <1>4, <1>5 DEF Next

(* Only the gate touches the floors and the scores.                            *)
LEMMA RatchetedFloors ==
    ASSUME IInv, GateRatchet
    PROVE  /\ DOMAIN floors' = DOMAIN scores' \cup DOMAIN floors
           /\ DOMAIN peak' = DOMAIN floors'
           /\ \A m \in DOMAIN scores' : scores'[m] \in Fraction /\ m \in Metrics
           /\ \A m \in DOMAIN scores' :
                floors'[m] = Ratchet(m, scores'[m], IF m \in DOMAIN floors THEN floors[m] ELSE 0)
           /\ \A m \in DOMAIN floors \ DOMAIN scores' : floors'[m] = floors[m]
           /\ \A m \in DOMAIN floors' : floors'[m] \in Nat
<1>1. scores' = Scores(rows) /\ floors' = Ratcheted(scores', floors)
  BY DEF GateRatchet, Compared
<1>2. \A m \in DOMAIN scores' : scores'[m] \in Fraction /\ m \in Metrics
  BY <1>1, ScoresAreFractions DEF IInv
<1>3. /\ DOMAIN floors' = DOMAIN scores' \cup DOMAIN floors
      /\ \A m \in DOMAIN scores' :
           floors'[m] = Ratchet(m, scores'[m], IF m \in DOMAIN floors THEN floors[m] ELSE 0)
      /\ \A m \in DOMAIN floors \ DOMAIN scores' : floors'[m] = floors[m]
  BY <1>1 DEF Ratcheted
<1>4. \A m \in DOMAIN floors : floors[m] \in Nat
  BY DEF IInv, Drifted
<1>5. \A m \in DOMAIN scores' : floors'[m] \in Nat
  BY <1>2, <1>3, <1>4, RatchetKeeps
<1>6. DOMAIN peak' = DOMAIN floors'
  BY DEF GateRatchet
<1> QED
  BY <1>2, <1>3, <1>4, <1>5, <1>6

LEMMA StepType == IInv /\ [Next]_vars => TypeOK'
<1> SUFFICES ASSUME IInv, [Next]_vars PROVE TypeOK'
  OBVIOUS
<1>0. TypeOK
  BY DEF IInv
<1>1. CASE \E out \in Runs["brief"] : BriefItem(out)
  BY <1>0, <1>1, RunAssumption DEF BriefItem, TypeOK, gateVars, Lanes
<1>2. CASE \E out_a, out_b \in Runs["compare"] : CompareItem(out_a, out_b)
  BY <1>0, <1>2, RunAssumption DEF CompareItem, TypeOK, gateVars, Lanes
<1>3. CASE \E out \in Runs["eval"] : EvalCase(out, Judge)
  BY <1>0, <1>3 DEF EvalCase, TypeOK, gateVars
<1>4. CASE Raises
  BY <1>0, <1>4, GateAssumption DEF Raises, TypeOK, NoAnswers
<1>5. CASE Gate
  <2>1. scores' = Scores(rows) /\ regressed' \subseteq DOMAIN scores'
    BY <1>5 DEF Gate, Compared, Regressed
  <2>2. /\ DOMAIN scores' \subseteq Metrics
        /\ \A m \in DOMAIN scores' : scores'[m] \in Fraction
    BY <2>1, ScoresAreFractions DEF IInv
  <2>3. gates' \in 0..MaxGates /\ verdict' \in {"passed", "failed"}
    BY <1>0, <1>5, GateAssumption DEF Gate, Compared, Measured, TypeOK
  <2> QED
    BY <1>0, <1>5, <2>1, <2>2, <2>3 DEF Gate, Compared, TypeOK
<1>6. CASE GateRatchet
  <2>1. scores' = Scores(rows) /\ regressed' \subseteq DOMAIN scores'
    BY <1>6 DEF GateRatchet, Compared, Regressed
  <2>2. /\ DOMAIN scores' \subseteq Metrics
        /\ \A m \in DOMAIN scores' : scores'[m] \in Fraction
    BY <2>1, ScoresAreFractions DEF IInv
  <2>3. gates' \in 0..MaxGates /\ verdict' = "ratcheted"
    BY <1>0, <1>6, GateAssumption DEF GateRatchet, Compared, Measured, TypeOK
  <2>4. DOMAIN floors' \subseteq Metrics /\ \A m \in DOMAIN floors' : floors'[m] \in Nat
    BY <1>0, <1>6, <2>2, RatchetedFloors DEF TypeOK
  <2> QED
    BY <1>0, <1>6, <2>1, <2>2, <2>3, <2>4 DEF GateRatchet, Compared, TypeOK
<1>7. CASE UNCHANGED vars
  BY <1>0, <1>7 DEF vars, gateVars, TypeOK
<1> QED
  BY <1>1, <1>2, <1>3, <1>4, <1>5, <1>6, <1>7 DEF Next

(* A floor loses its last decimal at most once: rounded down it is no floor     *)
(* that loses another, and raised it is the highest there ever was.            *)
LEMMA StepDrifted == IInv /\ [Next]_vars => Drifted'
<1> SUFFICES ASSUME IInv, [Next]_vars PROVE Drifted'
  OBVIOUS
<1>0. Drifted
  BY DEF IInv
<1>1. CASE GateRatchet
  <2>1. ASSUME NEW m \in DOMAIN floors'
        PROVE  /\ floors'[m] \in Nat /\ peak'[m] \in Nat
               /\ floors'[m] = peak'[m] \/ (floors'[m] = peak'[m] - 1 /\ floors'[m] \notin Drifting)
    <3>1. /\ floors'[m] \in Nat
          /\ peak'[m] = IF m \in DOMAIN peak THEN Higher(peak[m], floors'[m]) ELSE floors'[m]
      BY <1>1, RatchetedFloors DEF GateRatchet
    <3>2. CASE m \notin DOMAIN floors
      BY <1>0, <3>1, <3>2 DEF Drifted
    <3>3. CASE m \in DOMAIN floors /\ m \notin DOMAIN scores'
      <4>1. floors'[m] = floors[m]
        BY <1>1, <3>3, RatchetedFloors
      <4>2. peak[m] \in Nat
        BY <1>0, <3>3, GridAssumption DEF Drifted
      <4>3. peak'[m] = peak[m]
        BY <1>0, <3>1, <3>3, <4>1, <4>2 DEF Drifted, Higher
      <4> QED
        BY <1>0, <3>1, <3>3, <4>1, <4>3 DEF Drifted
    <3>4. CASE m \in DOMAIN floors /\ m \in DOMAIN scores'
      <4>1. floors'[m] = Ratchet(m, scores'[m], floors[m]) /\ scores'[m] \in Fraction
        BY <1>1, <3>4, RatchetedFloors
      <4>2. floors[m] \in Nat /\ peak[m] \in Nat
        BY <1>0, <3>4 DEF Drifted
      <4>3. floors'[m] >= KeptFloor(floors[m])
        BY <4>1, <4>2, RatchetKeeps
      <4>4. \/ KeptFloor(floors[m]) = peak[m]
            \/ KeptFloor(floors[m]) = peak[m] - 1 /\ KeptFloor(floors[m]) \notin Drifting
        BY <1>0, <3>4, FloatAssumption DEF Drifted, KeptFloor
      <4>5. peak'[m] = Higher(peak[m], floors'[m])
        BY <1>0, <3>1, <3>4 DEF Drifted
      <4> QED
        BY <3>1, <4>2, <4>3, <4>4, <4>5 DEF Higher
    <3> QED
      BY <3>2, <3>3, <3>4
  <2>2. DOMAIN peak' = DOMAIN floors'
    BY <1>1, RatchetedFloors
  <2> QED
    BY <2>1, <2>2 DEF Drifted
<1>2. CASE ~GateRatchet
  <2>1. UNCHANGED <<floors, peak>>
    BY <1>2 DEF Next, BriefItem, CompareItem, EvalCase, Raises, Gate, vars, gateVars
  <2> QED
    BY <1>0, <2>1 DEF Drifted
<1> QED
  BY <1>1, <1>2

(* What fails after a ratchet failed before it.                                *)
LEMMA StepRatchetIsMet == IInv /\ [Next]_vars => RatchetIsMet'
<1> SUFFICES ASSUME IInv, [Next]_vars PROVE RatchetIsMet'
  OBVIOUS
<1>0. RatchetIsMet
  BY DEF IInv
<1>1. CASE GateRatchet
  <2>1. regressed' = Regressed(scores', floors)
    BY <1>1 DEF GateRatchet, Compared
  <2>2. ASSUME NEW m \in Regressed(scores', floors')
        PROVE  m \in regressed'
    <3>1. m \in DOMAIN scores' /\ Below(scores'[m], floors'[m]) /\ scores'[m] \in Fraction
      BY <1>1, <2>2, RatchetedFloors DEF Regressed
    <3>2. CASE m \in DOMAIN floors
      <4>1. floors'[m] = Ratchet(m, scores'[m], floors[m]) /\ floors[m] \in Nat
        BY <1>1, <3>1, <3>2, RatchetedFloors DEF IInv, Drifted
      <4>2. Below(scores'[m], floors[m])
        BY <3>1, <4>1, RatchetKeeps
      <4> QED
        BY <2>1, <3>1, <3>2, <4>2 DEF Regressed
    <3>3. CASE m \notin DOMAIN floors
      <4>1. floors'[m] = Ratchet(m, scores'[m], 0)
        BY <1>1, <3>1, <3>3, RatchetedFloors
      <4>2. ~Below(scores'[m], 0)
        BY <3>1, GridAssumption DEF Below, Fraction
      <4> QED
        BY <3>1, <4>1, <4>2, RatchetKeeps
    <3> QED
      BY <3>2, <3>3
  <2> QED
    BY <2>2 DEF RatchetIsMet
<1>2. CASE Gate
  BY <1>2 DEF Gate, RatchetIsMet
<1>3. CASE ~Gate /\ ~GateRatchet
  <2>1. UNCHANGED <<floors, scores, verdict, regressed>>
    BY <1>3 DEF Next, BriefItem, CompareItem, EvalCase, Raises, vars, gateVars
  <2> QED
    BY <1>0, <2>1 DEF RatchetIsMet
<1> QED
  BY <1>1, <1>2, <1>3

(* The invariant the theorems below rest on.                                   *)
THEOREM Invariant == Spec => []IInv
<1>1. Init => IInv
  BY InitIInv
<1>2. IInv /\ [Next]_vars => IInv'
  BY StepType, StepRows, StepDrifted, StepRatchetIsMet DEF IInv
<1> QED
  BY <1>1, <1>2, PTL DEF Spec

(* A floor never falls by more than one last decimal below its highest, and a   *)
(* ratchet never asks more than the scores it was made from (gate.py, --ratchet). *)
THEOREM FloorsStay == Spec => []FloorsHold
<1>1. IInv => FloorsHold
  BY DEF IInv, Drifted, RatchetIsMet, FloorsHold
<1> QED
  BY <1>1, Invariant, PTL

-----------------------------------------------------------------------------
(* The reports.                                                               *)

LEMMA CompareItemTraceable ==
    ASSUME RowsTyped, NEW out_a \in Runs["compare"], NEW out_b \in Runs["compare"],
           CompareItem(out_a, out_b), outs \in [{"a", "b"} -> Answer \cup {None}]
    PROVE  ReportsAreTraceable'
<1> DEFINE a == ExtractVerifiedFigure(out_a)
           b == ExtractVerifiedFigure(out_b)
<1>1. out_a \in Answer /\ out_b \in Answer
  BY RunAssumption DEF Lanes
<1>2. Newest' = CompareRow(a, b) /\ lane' = "compare"
  BY DEF CompareItem, Newest, RowsTyped
<1>3. outs'["a"] = out_a /\ outs'["b"] = out_b
  BY DEF CompareItem
<1>4. Newest'.a = a /\ Newest'.b = b
  BY <1>2 DEF CompareRow
<1>5. ASSUME Newest'.status = "compared"
      PROVE  a # None /\ b # None /\ a.unit = b.unit
  <2> HIDE DEF a, b
  <2> QED
    BY <1>2, <1>5 DEF CompareRow
<1>6. ASSUME Newest'.status = "compared"
      PROVE  ComparedIsTraced(a, out_a) /\ ComparedIsTraced(b, out_b)
  BY <1>1, <1>5, <1>6, ExtractedIsTraced
<1> HIDE DEF a, b
<1> QED
  BY <1>2, <1>3, <1>4, <1>5, <1>6 DEF ReportsAreTraceable

LEMMA BriefItemTraceable ==
    ASSUME RowsTyped, NEW out \in Runs["brief"], BriefItem(out),
           outs \in [{"a", "b"} -> Answer \cup {None}]
    PROVE  ReportsAreTraceable'
<1>1. out \in Answer
  BY RunAssumption DEF Lanes
<1>2. Newest' = Section(out) /\ lane' = "brief" /\ outs'["a"] = out
  BY DEF BriefItem, Newest, RowsTyped
<1>3. ASSUME FooterVerified(rows'), Newest'.answer = "given",
             NEW i \in DOMAIN Newest'.claims, NEW j \in DOMAIN Newest'.claims[i].figures
      PROVE  LET n == Newest'.claims[i].figures[j].n
             IN  IsYear(n) \/ n \in out.computation \/ Traced(n, Newest'.claims[i], out)
  <2>1. /\ Section(out).status = "answered" /\ Newest'.claims = out.claims
        /\ out.text = "given"
    BY <1>2, <1>3 DEF Section, Abstained
  <2>2. Len(rows') \in DOMAIN rows'
    BY DEF BriefItem, RowsTyped
  <2>3. Unverified(out) = {}
    <3>1. Newest'.status = "answered" /\ Newest' = rows'[Len(rows')]
      BY <1>2, <2>1 DEF Newest
    <3>2. Newest'.verified
      BY <1>3, <2>2, <3>1 DEF FooterVerified
    <3>3. Section(out).verified = (Unverified(out) = {})
      BY Zenon DEF Section
    <3> QED
      BY <1>2, <3>2, <3>3, Zenon
  <2>4. i \in DOMAIN out.claims /\ j \in DOMAIN out.claims[i].figures
    BY <1>3, <2>1
  <2>5. Sources(out) /\ out.claims # <<>>
    BY <1>1, <2>1, <2>4 DEF Sources, Answer
  <2>6. Bad(out.claims[i], out) = {}
    BY <2>1, <2>3, <2>4, <2>5 DEF Unverified
  <2> QED
    BY <1>1, <2>1, <2>4, <2>6, UnlistedIsTraced
<1> QED
  BY <1>2, <1>3 DEF ReportsAreTraceable

(* Whatever the model answers and cites, a compared figure, and in a brief       *)
(* without flags a claimed figure of a section that prints an answer, stands on  *)
(* a page that the model cited for it (compare.py extract_verified_figure,       *)
(* brief.py run_brief).                                                        *)
THEOREM ReportsTraceable == Spec => []ReportsAreTraceable
<1>1. Init => ReportsAreTraceable
  BY DEF Init, ReportsAreTraceable
<1>2. IInv /\ ReportsAreTraceable /\ [Next]_vars => ReportsAreTraceable'
  <2> SUFFICES ASSUME IInv, ReportsAreTraceable, [Next]_vars
               PROVE  ReportsAreTraceable'
    OBVIOUS
  <2>0. RowsTyped /\ outs \in [{"a", "b"} -> Answer \cup {None}]
    BY DEF IInv, TypeOK
  <2>1. CASE \E out \in Runs["brief"] : BriefItem(out)
    BY <2>0, <2>1, BriefItemTraceable
  <2>2. CASE \E out_a, out_b \in Runs["compare"] : CompareItem(out_a, out_b)
    BY <2>0, <2>2, CompareItemTraceable
  <2>3. CASE \E out \in Runs["eval"] : EvalCase(out, Judge)
    <3>1. lane' = "eval"
      BY <2>3 DEF EvalCase
    <3> QED
      BY <3>1 DEF ReportsAreTraceable
  <2>4. CASE Raises \/ Gate \/ GateRatchet
    <3>1. rows' = <<>>
      BY <2>4 DEF Raises, Gate, GateRatchet, Compared
    <3> QED
      BY <3>1 DEF ReportsAreTraceable
  <2>5. CASE UNCHANGED vars
    BY <2>5 DEF vars, ReportsAreTraceable, Newest
  <2> QED
    BY <2>1, <2>2, <2>3, <2>4, <2>5 DEF Next
<1> QED
  BY <1>1, <1>2, Invariant, PTL DEF Spec

-----------------------------------------------------------------------------
(* The gate.                                                                  *)

(* Where a case was answered, the metrics of its path are scored.              *)
LEMMA AnsweredIsScored ==
    ASSUME RowsTyped, lane = "eval",
           NEW i \in DOMAIN rows, ~rows[i].abstained
    PROVE  {"retrieved_before_answering", "citations_attached", "verification_rail_ran"}
               \subseteq Scored(rows)
<1>1. rows[i] \in EvalRows
  BY DEF RowsTyped, RowsOf
<1>2. PICK out \in Runs["eval"], case \in Elems(Cases), judged \in SUBSET BOOLEAN :
        rows[i] = EvalRow(out, case, judged)
  BY <1>1 DEF EvalRows
<1>3. ~Abstained(out) /\ rows[i].path = ScoreCase(out, case)
  BY <1>2 DEF EvalRow
<1>4. /\ rows[i].path["retrieved_before_answering"] # {}
      /\ rows[i].path["citations_attached"] # {}
      /\ rows[i].path["verification_rail_ran"] # {}
  <2>1. ASSUME NEW met
        PROVE  When(~Abstained(out), met) # {}
    BY <1>3, <2>1 DEF When
  <2>2. /\ rows[i].path["retrieved_before_answering"] = When(~Abstained(out), out.retrieved # <<>>)
        /\ rows[i].path["verification_rail_ran"] = When(~Abstained(out), TRUE)
        /\ \E attached : rows[i].path["citations_attached"] = When(~Abstained(out), attached)
    <3>1. /\ ScoreCase(out, case)["retrieved_before_answering"]
                = When(~Abstained(out), out.retrieved # <<>>)
          /\ ScoreCase(out, case)["verification_rail_ran"] = When(~Abstained(out), TRUE)
      BY DEF ScoreCase
    <3>2. ScoreCase(out, case)["citations_attached"] =
            When(~Abstained(out), \E k \in DOMAIN out.claims : Kept(out.claims[k], out.retrieved) # {})
      BY DEF ScoreCase
    <3> QED
      BY <1>3, <3>1, <3>2, Zenon
  <2> QED
    BY <2>1, <2>2
<1>5. ASSUME NEW m \in {"retrieved_before_answering", "citations_attached", "verification_rail_ran"}
      PROVE  m \in Scored(rows)
  <2>1. i \in Applicable(m, rows)
    BY <1>4 DEF Applicable, Verdicts
  <2> QED
    BY <2>1 DEF Scored, Metrics, AgentMetrics, PathMetrics, Deterministic
<1> QED
  BY <1>5

LEMMA PositiveRateAnswered ==
    ASSUME RowsTyped, NEW floor \in Nat, floor > 0,
           ~Below(Scores(rows)["answer_rate"], floor)
    PROVE  \E i \in DOMAIN rows : ~rows[i].abstained
<1> DEFINE ins == {i \in DOMAIN rows : ~rows[i].oos}
           abstained == {i \in DOMAIN rows : rows[i].abstained}
           answered == (ins \ abstained) \cap ins
           n == Cardinality(answered)
           d == AtLeastOne(Cardinality(ins))
<1>1. Scores(rows)["answer_rate"] = <<n, d>>
  BY DEF Scores, Scored, AgentMetrics, AgentScore, Share
<1>2. IsFiniteSet(ins) /\ IsFiniteSet(answered)
  BY RowsAreFinite
<1>3. n \in Nat /\ d \in Nat \ {0} /\ (answered = {} => n = 0)
  <2> HIDE DEF ins, answered
  <2> QED
    BY <1>2, FS_CardinalityType, FS_EmptySet DEF AtLeastOne
<1>4. n # 0
  <2>1. ~(n * Grid < floor * d)
    <3> HIDE DEF n, d
    <3> QED
      BY <1>1 DEF Below
  <2>2. floor * d > 0
    <3> HIDE DEF d
    <3> QED
      BY <1>3
  <2> HIDE DEF n, d
  <2> QED
    BY <1>3, <2>1, <2>2, GridAssumption
<1>5. answered # {}
  BY <1>3, <1>4
<1> QED
  BY <1>5

(* While a floor is kept under the rate of answers, a gate that passes has       *)
(* scored how answers were made (gate.py compare, trajectory.score_case).      *)
THEOREM PassedAnswered == Spec => []PassedHasAnswered
<1>1. Init => PassedHasAnswered
  BY DEF Init, PassedHasAnswered
<1>2. IInv /\ PassedHasAnswered /\ [Next]_vars => PassedHasAnswered'
  <2> SUFFICES ASSUME IInv, PassedHasAnswered, [Next]_vars
               PROVE  PassedHasAnswered'
    OBVIOUS
  <2>1. CASE Gate
    <3> SUFFICES ASSUME verdict' = "passed", "answer_rate" \in DOMAIN floors', floors'["answer_rate"] > 0
                 PROVE  {"retrieved_before_answering", "citations_attached", "verification_rail_ran"}
                            \subseteq DOMAIN scores'
      BY DEF PassedHasAnswered
    <3>1. scores' = Scores(rows) /\ regressed' = Regressed(scores', floors) /\ lane = "eval"
      BY <2>1 DEF Gate, Measured, Compared
    <3>2. regressed' = {} /\ floors' = floors
      BY <2>1 DEF Gate
    <3>3. "answer_rate" \in DOMAIN scores'
      BY <3>1 DEF Scores, Scored, AgentMetrics
    <3>4. ~Below(Scores(rows)["answer_rate"], floors["answer_rate"])
      BY <3>1, <3>2, <3>3 DEF Regressed
    <3>5. floors["answer_rate"] \in Nat /\ floors["answer_rate"] > 0
      BY <3>2 DEF IInv, TypeOK
    <3>6. PICK i \in DOMAIN rows : ~rows[i].abstained
      BY <3>4, <3>5, PositiveRateAnswered DEF IInv
    <3>7. DOMAIN scores' = Scored(rows)
      BY <3>1 DEF Scores
    <3> QED
      BY <3>1, <3>6, <3>7, AnsweredIsScored DEF IInv
  <2>2. CASE GateRatchet
    BY <2>2 DEF GateRatchet, PassedHasAnswered
  <2>3. CASE ~Gate /\ ~GateRatchet
    <3>1. UNCHANGED <<floors, scores, verdict>>
      BY <2>3 DEF Next, BriefItem, CompareItem, EvalCase, Raises, vars, gateVars
    <3> QED
      BY <3>1 DEF PassedHasAnswered
  <2> QED
    BY <2>1, <2>2, <2>3
<1> QED
  BY <1>1, <1>2, Invariant, PTL DEF Spec

===============================================================================
