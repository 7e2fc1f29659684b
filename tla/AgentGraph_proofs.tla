-------------------------- MODULE AgentGraph_proofs --------------------------
(***************************************************************************)
(* Theorems about the agent loop, for every document, every sequence of      *)
(* questions and every reply of the models. The invariant follows a turn      *)
(* through the graph: what has been searched, what the verdict was given on,  *)
(* and what the reply cites when it reaches cite_check.                       *)
(***************************************************************************)
EXTENDS AgentGraph, TLAPS

(* The budget counts the searches of this turn.                              *)
Counted ==
    /\ rag.attempts = searches
    /\ node \in {"contextualize", "supervise"} => searches = 0
    /\ node \in {"retrieve", "rewrite"} => searches < MAX_ATTEMPTS
    /\ node \in {"grade", "calculate", "generate", "cite_check"} => searches >= 1

Judged == node \in {"calculate", "generate", "cite_check"} \/ Done
Replied == node = "cite_check" \/ Done

(* The verdict is on the last search of the turn.                            *)
Graded ==
    /\ Judged => searches >= 1
    /\ Judged /\ rag.grade = "weak" => searches = MAX_ATTEMPTS
    /\ Judged => rag.grade \in {"relevant", "weak"}
    /\ Judged /\ rag.grade = "relevant" => rag.retrieved # {}
    /\ node = "calculate" => rag.grade = "relevant"

CitesWell(cl) ==
    /\ cl.cite # "none" => rag.retrieved # {}
    /\ cl.cite \in Blocks =>
         cl.cite \in rag.retrieved /\ (cl.figure # "none" => cl.figure = cl.cite)

Grounded ==
    /\ Replied /\ rag.text \in {"given", "empty"} => rag.grade = "relevant"
    /\ Replied => \A cl \in rag.claims : CitesWell(cl)
    /\ Replied /\ rag.text = "given" => rag.sources
    /\ Replied /\ rag.claims # {} => rag.text \in {"given", "empty"}

IInv == TypeOK /\ Counted /\ Graded /\ Grounded /\ TextClaimsAreChecked

-----------------------------------------------------------------------------
LEMMA InitIInv == Init => IInv
BY DEF Init, Fresh, IInv, TypeOK, State, Figure, Node, MAX_ATTEMPTS, Counted, Graded, Judged, Done,
       Grounded, Replied, TextClaimsAreChecked

(* ------------------------------ types ------------------------------ *)
LEMMA WriteType ==
    ASSUME rag \in State, NEW text \in {"abstain", "given", "empty"}, NEW f \in Figure,
           NEW claims \in SUBSET Claim, Write(text, f, claims)
    PROVE  rag' \in State
<1>1. rag.history + 1 \in Nat
  BY DEF State
<1>2. rag' = [history |-> rag.history + 1, attempts |-> rag.attempts, retrieved |-> rag.retrieved,
              grade |-> rag.grade, task |-> rag.task, computation |-> rag.computation,
              text |-> text, figure |-> f, claims |-> claims, sources |-> TRUE,
              unverified |-> rag.unverified]
  BY DEF Write, State
<1> QED BY <1>1, <1>2 DEF State

LEMMA SnapType ==
    ASSUME rag \in State, NEW cl \in Claim
    PROVE  Snap(Valid(cl)) \in Claim
<1>1. Valid(cl) \in Claim
  BY DEF Valid, Claim, Cite
<1>2. \A x \in Claim : Snap(x) \in Claim
  <2> SUFFICES ASSUME NEW x \in Claim PROVE Snap(x) \in Claim
    OBVIOUS
  <2>1. CASE x.figure \in rag.retrieved
    BY <2>1 DEF Snap, Claim, Cite, State
  <2>2. CASE x.figure \notin rag.retrieved
    BY <2>2 DEF Snap, Claim, Cite
  <2> QED BY <2>1, <2>2
<1> QED BY <1>1, <1>2

LEMMA GenerateType == TypeOK /\ Generate => rag' \in State
<1> SUFFICES ASSUME TypeOK, Generate PROVE rag' \in State
  OBVIOUS
<1>1. CASE Abstain
  <2>1. rag.history + 1 \in Nat
    BY DEF TypeOK, State
  <2>2. rag' = [history |-> rag.history + 1, attempts |-> rag.attempts, retrieved |-> rag.retrieved,
                grade |-> rag.grade, task |-> rag.task, computation |-> rag.computation,
                text |-> "abstain", figure |-> "none", claims |-> {}, sources |-> FALSE,
                unverified |-> rag.unverified]
    BY <1>1 DEF Abstain, TypeOK, State
  <2> QED BY <2>1, <2>2 DEF TypeOK, State, Figure
<1>2. CASE Extract
  <2>1. PICK b \in rag.retrieved :
          Write("given", IF b \in Figures THEN b ELSE "none",
                {[figure |-> IF b \in Figures THEN b ELSE "none", cite |-> b]})
    BY <1>2 DEF Extract
  <2>2. (IF b \in Figures THEN b ELSE "none") \in Figure
    BY DEF Figure
  <2>3. b \in Cite
    BY DEF Cite, TypeOK, State
  <2>4. {[figure |-> IF b \in Figures THEN b ELSE "none", cite |-> b]} \in SUBSET Claim
    BY <2>2, <2>3 DEF Claim
  <2> QED BY <2>1, <2>2, <2>4, WriteType DEF TypeOK
<1>3. CASE Structured
  <2>1. PICK text \in {"given", "empty"}, f \in Writable :
          \/ Write(text, f, {})
          \/ \E g \in Writable, c \in Cite :
               Write(text, f, {Snap(Valid([figure |-> g, cite |-> c]))})
    BY <1>3 DEF Structured
  <2>2. f \in Figure
    BY DEF Writable
  <2>3. CASE Write(text, f, {})
    BY <2>2, <2>3, WriteType DEF TypeOK
  <2>4. ASSUME NEW g \in Writable, NEW c \in Cite,
               Write(text, f, {Snap(Valid([figure |-> g, cite |-> c]))})
        PROVE  rag' \in State
    <3>1. [figure |-> g, cite |-> c] \in Claim
      BY DEF Writable, Claim
    <3>2. {Snap(Valid([figure |-> g, cite |-> c]))} \in SUBSET Claim
      BY <3>1, SnapType DEF TypeOK
    <3> QED BY <2>2, <2>4, <3>2, WriteType DEF TypeOK
  <2> QED BY <2>1, <2>3, <2>4
<1>4. CASE Insufficient
  BY <1>4, WriteType DEF Insufficient, TypeOK, Figure
<1>5. CASE Prose
  BY <1>5, WriteType DEF Prose, Writable, TypeOK
<1> QED BY <1>1, <1>2, <1>3, <1>4, <1>5 DEF Generate

LEMMA UnverifiedType == rag \in State => Unverified \in SUBSET Figure
BY DEF Unverified, State, Claim

LEMMA NextType == TypeOK /\ Counted /\ [Next]_vars => TypeOK'
<1> SUFFICES ASSUME TypeOK, Counted, [Next]_vars PROVE TypeOK'
  OBVIOUS
<1> USE DEF Node, MAX_ATTEMPTS
<1>1. CASE Ask
  <2>1. Fresh \in State
    BY DEF Fresh, State, Figure
  <2> QED BY <1>1, <2>1 DEF Ask, TypeOK, State
<1>2. CASE Supervise
  BY <1>2 DEF Supervise, Goto, TypeOK, State
<1>3. CASE Retrieve
  <2>1. PICK hits \in SUBSET Blocks : rag' = [rag EXCEPT !.retrieved = hits, !.attempts = @ + 1]
    BY <1>3 DEF Retrieve
  <2>2. rag.attempts + 1 \in 0..MAX_ATTEMPTS
    BY <1>3 DEF Retrieve, Counted, TypeOK, State
  <2>3. rag' \in State
    BY <2>1, <2>2 DEF TypeOK, State
  <2> QED BY <1>3, <2>3 DEF Retrieve, CountSearch, Goto, TypeOK
<1>4. CASE Grade
  BY <1>4 DEF Grade, Goto, Route, Verdicts, TypeOK, State
<1>5. CASE Calculate
  BY <1>5 DEF Calculate, Goto, TypeOK, State
<1>6. CASE Generate
  BY <1>6, GenerateType DEF Generate, Goto, TypeOK
<1>7. CASE CiteCheck
  <2>1. rag' \in State
    BY <1>7, UnverifiedType DEF CiteCheck, TypeOK, State
  <2> QED BY <1>7, <2>1 DEF CiteCheck, TypeOK
<1>8. CASE Contextualize \/ Rewrite
  BY <1>8 DEF Contextualize, Rewrite, Goto, TypeOK
<1>9. CASE CalculatorRaises \/ ProviderRaises
  BY <1>9 DEF CalculatorRaises, ProviderRaises, TypeOK
<1>10. CASE UNCHANGED vars
  BY <1>10 DEF vars, TypeOK
<1> QED
  BY <1>1, <1>2, <1>3, <1>4, <1>5, <1>6, <1>7, <1>8, <1>9, <1>10 DEF Next, Run

(* What a reply changes of the state, and what it leaves alone.              *)
LEMMA GenerateKeeps ==
    ASSUME TypeOK, Generate
    PROVE  /\ rag'.attempts = rag.attempts /\ rag'.grade = rag.grade
           /\ rag'.retrieved = rag.retrieved /\ rag'.computation = rag.computation
           /\ rag'.text \in {"given", "empty"} => ~Abstains
           /\ rag'.text = "given" => rag'.sources
           /\ rag'.claims # {} => rag'.text \in {"given", "empty"}
<1>1. CASE Abstain
  BY <1>1 DEF Abstain, TypeOK, State
<1>2. ASSUME NEW text, NEW f, NEW claims, Write(text, f, claims), ~Abstains
      PROVE  /\ rag'.attempts = rag.attempts /\ rag'.grade = rag.grade
             /\ rag'.retrieved = rag.retrieved /\ rag'.computation = rag.computation
             /\ rag'.sources /\ rag'.text = text /\ rag'.claims = claims
  BY <1>2 DEF Write, TypeOK, State
<1> QED
  BY <1>1, <1>2 DEF Generate, Extract, Structured, Insufficient, Prose, Abstain

(* --------------------------- the search budget --------------------------- *)
LEMMA NextCounted == IInv /\ [Next]_vars => Counted'
<1> SUFFICES ASSUME IInv, [Next]_vars PROVE Counted'
  OBVIOUS
<1> USE DEF IInv, Counted, MAX_ATTEMPTS
<1>1. CASE Ask
  BY <1>1 DEF Ask, TypeOK, State, Fresh
<1>2. CASE Contextualize
  BY <1>2 DEF Contextualize, Goto
<1>3. CASE Supervise
  BY <1>3 DEF Supervise, Goto, TypeOK, State
<1>4. CASE Retrieve
  BY <1>4 DEF Retrieve, CountSearch, Goto, TypeOK, State
<1>5. CASE Grade
  <2>1. rag'.attempts = rag.attempts /\ searches' = searches
    BY <1>5 DEF Grade, TypeOK, State
  <2>2. node' \in {"calculate", "generate", "rewrite"}
    BY <1>5 DEF Grade, Goto, Route
  <2>3. node' = "rewrite" => rag.attempts < MAX_ATTEMPTS
    BY <1>5 DEF Grade, Goto, Route, TypeOK, State
  <2> QED BY <1>5, <2>1, <2>2, <2>3 DEF Grade
<1>6. CASE Rewrite
  BY <1>6 DEF Rewrite, Goto
<1>7. CASE Calculate
  BY <1>7 DEF Calculate, Goto, TypeOK, State
<1>8. CASE Generate
  BY <1>8, GenerateKeeps DEF Generate, Goto
<1>9. CASE CiteCheck
  BY <1>9 DEF CiteCheck, TypeOK, State
<1>10. CASE CalculatorRaises \/ ProviderRaises
  BY <1>10 DEF CalculatorRaises, ProviderRaises
<1>11. CASE UNCHANGED vars
  BY <1>11 DEF vars
<1> QED
  BY <1>1, <1>2, <1>3, <1>4, <1>5, <1>6, <1>7, <1>8, <1>9, <1>10, <1>11 DEF Next, Run

LEMMA NextGraded == IInv /\ [Next]_vars => Graded'
<1> SUFFICES ASSUME IInv, [Next]_vars PROVE Graded'
  OBVIOUS
<1> USE DEF IInv, Graded, Judged, Done
<1>1. CASE Ask \/ Contextualize \/ Supervise \/ Retrieve \/ Rewrite
  BY <1>1 DEF Ask, Contextualize, Supervise, Retrieve, Rewrite, Goto
<1>2. CASE Grade
  <2>1. PICK verdict \in Verdicts :
          rag' = [rag EXCEPT !.grade = verdict] /\ node' = Route(verdict, rag.attempts)
    BY <1>2 DEF Grade, Goto
  <2>2. rag'.grade = verdict /\ rag'.retrieved = rag.retrieved /\ searches' = searches
    BY <1>2, <2>1 DEF Grade, TypeOK, State
  <2>3. verdict \in {"relevant", "weak"} /\ (verdict = "relevant" => rag.retrieved # {})
    BY DEF Verdicts
  <2>4. node' # "idle" /\ (node' = "calculate" => verdict = "relevant")
        /\ (node' \in {"calculate", "generate", "cite_check"} /\ verdict = "weak"
              => rag.attempts >= MAX_ATTEMPTS)
    BY <2>1, <2>3 DEF Route
  <2>5. rag.attempts = searches /\ searches >= 1 /\ rag.attempts \in 0..MAX_ATTEMPTS
    BY <1>2 DEF Grade, Counted, TypeOK, State
  <2> QED BY <2>2, <2>3, <2>4, <2>5 DEF MAX_ATTEMPTS
<1>3. CASE Calculate
  BY <1>3 DEF Calculate, Goto, TypeOK, State
<1>4. CASE Generate
  BY <1>4, GenerateKeeps DEF Generate, Goto
<1>5. CASE CiteCheck
  BY <1>5 DEF CiteCheck, TypeOK, State
<1>6. CASE CalculatorRaises \/ ProviderRaises
  BY <1>6 DEF CalculatorRaises, ProviderRaises
<1>7. CASE UNCHANGED vars
  BY <1>7 DEF vars
<1> QED BY <1>1, <1>2, <1>3, <1>4, <1>5, <1>6, <1>7 DEF Next, Run

(* --------------------------- what a reply cites --------------------------- *)
LEMMA SnapCitesWell ==
    ASSUME TypeOK, rag.retrieved # {}, NEW cl \in Claim
    PROVE  CitesWell(Snap(Valid(cl)))
<1> DEFINE v == Valid(cl)
<1>1. v \in Claim /\ v.figure = cl.figure
  BY DEF Valid, Claim, Cite
<1>2. v.cite \in Blocks => v.cite \in rag.retrieved
  BY BlockAssumption DEF Valid, Claim, Cite
<1> HIDE DEF v
<1>3. ASSUME v.cite = "none" \/ v.figure = "none" PROVE CitesWell(Snap(v))
  BY <1>2, <1>3, BlockAssumption DEF Snap, CitesWell
<1>4. ASSUME ~(v.cite = "none" \/ v.figure = "none") PROVE CitesWell(Snap(v))
  <2>1. Snap(v) = [v EXCEPT !.cite = IF v.figure \in rag.retrieved THEN v.figure ELSE "page"]
    BY <1>4 DEF Snap
  <2>2. /\ Snap(v).figure = v.figure
        /\ Snap(v).cite = IF v.figure \in rag.retrieved THEN v.figure ELSE "page"
    BY <2>1, <1>1 DEF Claim
  <2> QED BY <2>2, BlockAssumption DEF CitesWell
<1> QED BY <1>3, <1>4 DEF v

LEMMA GenerateCitesWell ==
    ASSUME TypeOK, Generate
    PROVE  \A cl \in rag'.claims : CitesWell(cl)
<1>1. CASE Abstain
  BY <1>1 DEF Abstain, TypeOK, State
<1>2. ASSUME NEW text, NEW f, Write(text, f, {}) PROVE rag'.claims = {}
  BY <1>2 DEF Write, TypeOK, State
<1>3. CASE Extract
  <2>1. PICK b \in rag.retrieved :
          Write("given", IF b \in Figures THEN b ELSE "none",
                {[figure |-> IF b \in Figures THEN b ELSE "none", cite |-> b]})
    BY <1>3 DEF Extract
  <2>2. rag'.claims = {[figure |-> IF b \in Figures THEN b ELSE "none", cite |-> b]}
    BY <2>1 DEF Write, TypeOK, State
  <2> QED BY <2>2 DEF CitesWell
<1>4. ASSUME NEW text, NEW f, NEW g \in Writable, NEW c \in Cite, ~Abstains,
             Write(text, f, {Snap(Valid([figure |-> g, cite |-> c]))})
      PROVE  \A cl \in rag'.claims : CitesWell(cl)
  <2>1. rag'.claims = {Snap(Valid([figure |-> g, cite |-> c]))}
    BY <1>4 DEF Write, TypeOK, State
  <2>2. [figure |-> g, cite |-> c] \in Claim
    BY DEF Claim, Writable
  <2> QED BY <1>4, <2>1, <2>2, SnapCitesWell DEF Abstains
<1> QED
  BY <1>1, <1>2, <1>3, <1>4 DEF Generate, Structured, Insufficient, Prose

LEMMA NextGrounded == IInv /\ [Next]_vars => Grounded'
<1> SUFFICES ASSUME IInv, [Next]_vars PROVE Grounded'
  OBVIOUS
<1> USE DEF IInv, Grounded, Replied, Done
<1>1. CASE Ask \/ Contextualize \/ Supervise \/ Retrieve \/ Grade \/ Rewrite \/ Calculate
  <2>1. node' \notin {"idle", "cite_check"}
    BY <1>1 DEF Ask, Contextualize, Supervise, Retrieve, Grade, Rewrite, Calculate, Goto, Route
  <2> QED BY <2>1
<1>2. CASE Generate
  <2>1. rag'.text \in {"given", "empty"} => rag'.grade = "relevant"
    BY <1>2, GenerateKeeps DEF Abstains, Graded, Judged, Generate
  <2>2. \A cl \in rag'.claims : CitesWell(cl)'
    BY <1>2, GenerateKeeps, GenerateCitesWell DEF CitesWell
  <2> QED BY <1>2, <2>1, <2>2, GenerateKeeps
<1>3. CASE CiteCheck
  <2>1. /\ rag'.text = rag.text /\ rag'.grade = rag.grade /\ rag'.claims = rag.claims
        /\ rag'.retrieved = rag.retrieved /\ rag'.sources = rag.sources
    BY <1>3 DEF CiteCheck, TypeOK, State
  <2> QED BY <1>3, <2>1 DEF CiteCheck, CitesWell
<1>4. CASE CalculatorRaises \/ ProviderRaises
  BY <1>4 DEF CalculatorRaises, ProviderRaises
<1>5. CASE UNCHANGED vars
  BY <1>5 DEF vars, CitesWell
<1> QED BY <1>1, <1>2, <1>3, <1>4, <1>5 DEF Next, Run

LEMMA NextChecked == IInv /\ [Next]_vars => TextClaimsAreChecked'
<1> SUFFICES ASSUME IInv, [Next]_vars PROVE TextClaimsAreChecked'
  OBVIOUS
<1> USE DEF IInv, TextClaimsAreChecked, Done
<1>1. CASE CiteCheck
  <2> SUFFICES ASSUME rag'.text # "empty", NEW cl \in rag'.claims, cl.figure # "none",
                      cl.figure \notin rag'.unverified
               PROVE  \/ cl.figure \in rag'.retrieved /\ cl.cite # "none"
                      \/ cl.figure = "computed" /\ rag'.computation # 0
    OBVIOUS
  <2>1. /\ rag'.text = rag.text /\ rag'.claims = rag.claims /\ rag'.retrieved = rag.retrieved
        /\ rag'.computation = rag.computation /\ rag'.unverified = Unverified
    BY <1>1 DEF CiteCheck, TypeOK, State
  <2>2. rag.text = "given" /\ rag.sources /\ rag.claims # {}
    BY <1>1, <2>1 DEF CiteCheck, Grounded, Replied
  <2>3. Unverified = {x.figure : x \in {y \in rag.claims : ~Supported(y.figure, y.cite)}}
    BY <2>2 DEF Unverified
  <2>4. Supported(cl.figure, cl.cite)
    BY <2>1, <2>3
  <2>5. cl \in Claim /\ CitesWell(cl)
    BY <1>1, <2>1 DEF CiteCheck, Grounded, Replied, TypeOK, State
  <2>6. cl.figure \in Figures \cup {"computed", "invented"} /\ cl.cite \in Cite
    BY <2>5 DEF Claim, Figure
  <2>7. CASE cl.figure = cl.cite
    BY <2>1, <2>5, <2>6, <2>7, BlockAssumption DEF CitesWell, Cite
  <2>8. CASE cl.cite = "page" /\ cl.figure \in rag.retrieved
    BY <2>1, <2>8
  <2> QED BY <2>1, <2>4, <2>7, <2>8 DEF Supported
<1>2. CASE Ask \/ Contextualize \/ Supervise \/ Retrieve \/ Grade \/ Rewrite \/ Calculate \/ Generate
  <2>1. node' # "idle"
    BY <1>2 DEF Ask, Contextualize, Supervise, Retrieve, Grade, Rewrite, Calculate, Generate, Goto, Route
  <2> QED BY <2>1
<1>3. CASE CalculatorRaises \/ ProviderRaises
  BY <1>3 DEF CalculatorRaises, ProviderRaises
<1>4. CASE UNCHANGED vars
  BY <1>4 DEF vars
<1> QED BY <1>1, <1>2, <1>3, <1>4 DEF Next, Run

LEMMA NextIInv == IInv /\ [Next]_vars => IInv'
BY NextType, NextCounted, NextGraded, NextGrounded, NextChecked DEF IInv

THEOREM Invariant == Spec => []IInv
BY InitIInv, NextIInv, PTL DEF Spec

-----------------------------------------------------------------------------
(* Every state of the agent is well typed, the attempts within their budget.  *)
THEOREM TypeCorrect == Spec => []TypeOK
<1>1. IInv => TypeOK
  BY DEF IInv
<1> QED BY <1>1, Invariant, PTL

(* Whatever the models reply, an answer rests on evidence retrieved and found  *)
(* relevant in the turn that gives it.                                        *)
THEOREM AnswersRestOnEvidence == Spec => []NeverAnswersOnWeak
<1>1. IInv => NeverAnswersOnWeak
  BY DEF IInv, NeverAnswersOnWeak, Grounded, Replied, Graded, Judged
<1> QED BY <1>1, Invariant, PTL

(* A question that is given up has had all its searches, however many the      *)
(* earlier turns of the conversation used.                                    *)
THEOREM EveryQuestionHasItsBudget == Spec => []WholeBudget
<1>1. IInv => WholeBudget
  BY DEF IInv, WholeBudget, Counted, Graded, Judged, TypeOK, State
<1> QED BY <1>1, Invariant, PTL

(* Whatever citations the models invent, those shown point at retrieved blocks *)
(* that hold the figure of their claim.                                       *)
THEOREM CitationsHold == Spec => []CitesTheFigure
<1>1. IInv => CitesTheFigure
  BY DEF IInv, CitesTheFigure, Grounded, Replied, CitesWell
<1> QED BY <1>1, Invariant, PTL

(* Whatever figures the models invent, beside an answer that has a text a      *)
(* claim with an untraceable one comes with the caveat.                       *)
THEOREM ClaimsChecked == Spec => []TextClaimsAreChecked
<1>1. IInv => TextClaimsAreChecked
  BY DEF IInv
<1> QED BY <1>1, Invariant, PTL

(* Without a checkpointer every calculation given out was made in the turn.    *)
Own == rag.computation \in {0, turn} \/ node = "idle"

THEOREM ComputedWithoutMemory ==
    ASSUME ~Memory
    PROVE  Spec => []ComputedInThisTurn
<1>1. Init => Own
  BY DEF Init, Own
<1>2. IInv /\ Own /\ [Next]_vars => Own'
  <2> SUFFICES ASSUME IInv, Own, [Next]_vars PROVE Own'
    OBVIOUS
  <2> USE DEF IInv, Own, TypeOK
  <2>1. CASE Ask
    BY <2>1 DEF Ask, Fresh
  <2>2. CASE Contextualize \/ Rewrite
    BY <2>2 DEF Contextualize, Rewrite, Goto
  <2>3. CASE Supervise
    BY <2>3 DEF Supervise, Goto, State
  <2>4. CASE Retrieve
    BY <2>4 DEF Retrieve, Goto, State
  <2>5. CASE Grade
    BY <2>5 DEF Grade, Goto, State
  <2>6. CASE Calculate
    BY <2>6 DEF Calculate, Goto, State
  <2>7. CASE Generate
    BY <2>7, GenerateKeeps DEF Generate, Goto
  <2>8. CASE CiteCheck \/ CalculatorRaises \/ ProviderRaises
    BY <2>8 DEF CiteCheck, CalculatorRaises, ProviderRaises
  <2>9. CASE UNCHANGED vars
    BY <2>9 DEF vars
  <2> QED BY <2>1, <2>2, <2>3, <2>4, <2>5, <2>6, <2>7, <2>8, <2>9 DEF Next, Run
<1>3. Own => ComputedInThisTurn
  BY DEF Own, ComputedInThisTurn
<1> QED BY <1>1, <1>2, <1>3, Invariant, PTL DEF Spec

-----------------------------------------------------------------------------
(* Termination. How many steps of the graph the turn still takes at most: the  *)
(* loop of rewriting, searching and grading has three.                        *)
Loop == 3 * (MAX_ATTEMPTS - searches)

StepsLeft ==
    CASE node = "contextualize" -> Loop + 4
      [] node = "supervise"     -> Loop + 3
      [] node = "retrieve"      -> Loop + 2
      [] node = "grade"         -> Loop + 4
      [] node = "rewrite"       -> Loop + 3
      [] node = "calculate"     -> 3
      [] node = "generate"      -> 2
      [] node = "cite_check"    -> 1
      [] OTHER                  -> 0

Bounded == StepsLeft \in 0..13 /\ (StepsLeft = 0 <=> node = "idle")

LEMMA TurnBounded == TypeOK /\ Counted => Bounded
<1> SUFFICES ASSUME TypeOK, Counted PROVE Bounded
  OBVIOUS
<1> USE DEF StepsLeft, Loop, Bounded, MAX_ATTEMPTS
<1>1. searches \in 0..3
  BY DEF TypeOK, State, Counted
<1>2. CASE node \in {"contextualize", "supervise"}
  BY <1>1, <1>2 DEF Counted
<1>3. CASE node = "retrieve"
  BY <1>1, <1>3 DEF Counted
<1>4. CASE node = "grade"
  BY <1>1, <1>4 DEF Counted
<1>5. CASE node = "rewrite"
  BY <1>1, <1>5 DEF Counted
<1>6. CASE node = "calculate"
  BY <1>6
<1>7. CASE node = "generate"
  BY <1>7
<1>8. CASE node = "cite_check"
  BY <1>8
<1>9. CASE node = "idle"
  BY <1>9
<1> QED BY <1>2, <1>3, <1>4, <1>5, <1>6, <1>7, <1>8, <1>9 DEF TypeOK, Node

LEMMA TurnGoesOn == IInv /\ IInv' /\ node # "idle" /\ Next => StepsLeft' < StepsLeft
<1> SUFFICES ASSUME IInv, IInv', node # "idle", Next PROVE StepsLeft' < StepsLeft
  OBVIOUS
<1>1. searches \in 0..3 /\ searches' \in 0..3
  BY DEF IInv, TypeOK, State, Counted, MAX_ATTEMPTS
<1> USE DEF StepsLeft, Loop, MAX_ATTEMPTS
<1>2. CASE Contextualize
  BY <1>1, <1>2 DEF Contextualize, Goto
<1>3. CASE Supervise
  BY <1>1, <1>3 DEF Supervise, Goto
<1>4. CASE Retrieve
  BY <1>1, <1>4 DEF Retrieve, Goto, CountSearch, IInv, Counted
<1>5. CASE Grade
  <2>1. searches' = searches /\ node' \in {"calculate", "generate", "rewrite"}
    BY <1>5 DEF Grade, Goto, Route
  <2> QED BY <1>1, <1>5, <2>1 DEF Grade
<1>6. CASE Rewrite
  BY <1>1, <1>6 DEF Rewrite, Goto
<1>7. CASE Calculate
  BY <1>7 DEF Calculate, Goto
<1>8. CASE Generate
  BY <1>8 DEF Generate, Goto
<1>9. CASE CiteCheck \/ CalculatorRaises \/ ProviderRaises
  <2>1. node' = "idle"
    BY <1>9 DEF CiteCheck, CalculatorRaises, ProviderRaises
  <2>2. StepsLeft' = 0
    BY <2>1
  <2>3. StepsLeft \in 0..13 /\ StepsLeft # 0
    BY TurnBounded DEF IInv, Bounded
  <2> HIDE DEF StepsLeft
  <2> QED BY <2>2, <2>3
<1>10. CASE Ask
  BY <1>10 DEF Ask
<1> QED
  BY <1>2, <1>3, <1>4, <1>5, <1>6, <1>7, <1>8, <1>9, <1>10 DEF Next, Run

(* A turn takes at most 13 steps of the graph, whatever the models answer and  *)
(* whatever earlier turns left in the checkpoint: nothing but the turn itself  *)
(* happens on the thread until it ends, and each of its steps brings the end   *)
(* nearer. What TurnsEnd adds is only that the thread goes on.                *)
THEOREM TurnsAreBounded ==
    Spec => []Bounded /\ [][node # "idle" => StepsLeft' < StepsLeft]_vars
<1>1. IInv => Bounded
  BY TurnBounded DEF IInv
<1>2. IInv /\ [Next]_vars => [node # "idle" => StepsLeft' < StepsLeft]_vars
  BY NextIInv, TurnGoesOn
<1> QED BY <1>1, <1>2, Invariant, PTL DEF Spec

===============================================================================
