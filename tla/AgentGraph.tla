------------------------------ MODULE AgentGraph ------------------------------
(***************************************************************************)
(* The agent loop (agent/graph.py, agent/nodes/, agent/citations.py) over    *)
(* the turns of one conversation. LangGraph checkpoints the state of the     *)
(* thread after every node; a turn starts from the last checkpoint with the  *)
(* four channels run_streaming sets, so what no node overwrites survives     *)
(* into later turns.                                                         *)
(*                                                                         *)
(* Figures and citations keep their provenance, not their text: a figure     *)
(* stands in one block of the document, or equals the result of the          *)
(* computation the state holds, or stands nowhere. Evidence is the matched   *)
(* blocks, on one page. A reply holds at most one claim with one figure:     *)
(* claims are validated, snapped and checked independently of each other.    *)
(***************************************************************************)
EXTENDS Naturals

CONSTANTS
    Blocks,     \* blocks of the document
    Figures,    \* the blocks among them that hold a figure
    FastKey,    \* router.available("fast")
    AnswerKey,  \* router.available("answer")
    MultiDoc,   \* Deps.multi_doc
    Memory,     \* CHECKPOINT is memory or sqlite, not off
    MaxTurns    \* bound: questions asked on the thread

MAX_ATTEMPTS == 3

ASSUME BlockAssumption ==
    Figures \subseteq Blocks /\ {"none", "computed", "invented", "page"} \cap Blocks = {}
ASSUME KeyAssumption == FastKey \in BOOLEAN /\ AnswerKey \in BOOLEAN
ASSUME ModeAssumption == MultiDoc \in BOOLEAN /\ Memory \in BOOLEAN
ASSUME BoundAssumption == MaxTurns \in Nat

VARIABLES
    node,      \* the node about to run; "idle" between turns
    turn,      \* the number of the turn
    rag,       \* the channels of RAGState
    searches,  \* history: retrievals of the current turn, as far as one beyond the budget
    outcome    \* how the last turn ended

vars == <<node, turn, rag, searches, outcome>>

Node == {"contextualize", "supervise", "retrieve", "grade", "rewrite",
         "calculate", "generate", "cite_check"}
Figure == Figures \cup {"none", "computed", "invented"}
Cite == Blocks \cup {"page", "none"}
Claim == [figure : Figure, cite : Cite]

State == [history : Nat, attempts : 0..MAX_ATTEMPTS, retrieved : SUBSET Blocks,
          grade : {"none", "relevant", "weak"}, task : {"none", "qa", "calc", "compare"},
          computation : Nat,  \* the turn that computed it, 0 for none
          text : {"none", "abstain", "given", "empty"}, figure : Figure,
          claims : SUBSET Claim, sources : BOOLEAN, unverified : SUBSET Figure]

Fresh == [history |-> 0, attempts |-> 0, retrieved |-> {}, grade |-> "none",
          task |-> "none", computation |-> 0, text |-> "none", figure |-> "none",
          claims |-> {}, sources |-> FALSE, unverified |-> {}]

TypeOK ==
    /\ node \in Node \cup {"idle"}
    /\ turn \in Nat
    /\ rag \in State
    /\ searches \in Nat
    /\ outcome \in {"none", "done", "provider_error", "arithmetic_error"}

Init ==
    /\ node = "idle" /\ turn = 0 /\ rag = Fresh
    /\ searches = 0 /\ outcome = "none"

-----------------------------------------------------------------------------
Goto(n) == node' = n /\ UNCHANGED <<turn, outcome>>

MutAsk ==
    /\ node = "idle" /\ turn < MaxTurns
    /\ node' = "contextualize"
    /\ turn' = turn + 1
    /\ rag' = IF Memory THEN rag ELSE Fresh
    /\ searches' = 0
    /\ UNCHANGED outcome

(* run_streaming and run: the input is laid over the checkpoint of the thread. *)
Ask ==
    /\ node = "idle" /\ turn < MaxTurns
    /\ node' = "contextualize"
    /\ turn' = turn + 1
    /\ rag' = [(IF Memory THEN rag ELSE Fresh) EXCEPT !.attempts = 0]
    /\ searches' = 0
    /\ UNCHANGED outcome

(* Only the wording of the question changes, with the history as context.    *)
Contextualize == node = "contextualize" /\ Goto("supervise") /\ UNCHANGED <<rag, searches>>

Supervise ==
    /\ node = "supervise"
    /\ \E math \in BOOLEAN :
         rag' = [rag EXCEPT !.task = IF ~math THEN "qa" ELSE IF MultiDoc THEN "compare" ELSE "calc"]
    /\ Goto("retrieve")
    /\ UNCHANGED searches

CountSearch == searches' = IF searches > MAX_ATTEMPTS THEN searches ELSE searches + 1

MutRetrieve ==
    /\ node = "retrieve"
    /\ \E hits \in SUBSET Blocks : rag' = [rag EXCEPT !.retrieved = hits]
    /\ CountSearch
    /\ Goto("grade")

Retrieve ==
    /\ node = "retrieve"
    /\ \E hits \in SUBSET Blocks :
         rag' = [rag EXCEPT !.retrieved = hits, !.attempts = @ + 1]
    /\ CountSearch
    /\ Goto("grade")

DerivedLane == rag.task \in {"calc", "compare"}

(* tag_evidence heads every entry with its page and block number, so the      *)
(* derived lanes find a digit in any context that is not empty. In the qa     *)
(* lane the model or the keyword overlap decides; no context is "weak".       *)
Verdicts ==
    IF rag.retrieved = {} THEN {"weak"}
    ELSE IF DerivedLane THEN {"relevant"} ELSE {"relevant", "weak"}

MutRoute(verdict, attempts) ==
    IF verdict = "relevant" THEN (IF DerivedLane THEN "calculate" ELSE "generate")
    ELSE IF attempts > MAX_ATTEMPTS THEN "generate" ELSE "rewrite"

Route(verdict, attempts) ==
    IF verdict = "relevant" THEN (IF DerivedLane THEN "calculate" ELSE "generate")
    ELSE IF attempts >= MAX_ATTEMPTS THEN "generate" ELSE "rewrite"

Grade ==
    /\ node = "grade"
    /\ \E verdict \in Verdicts :
         /\ rag' = [rag EXCEPT !.grade = verdict]
         /\ Goto(Route(verdict, rag.attempts))
    /\ UNCHANGED searches

(* Only the working query changes; grade and generate keep the resolved one.  *)
Rewrite == node = "rewrite" /\ Goto("retrieve") /\ UNCHANGED <<rag, searches>>

CanCalculate == FastKey /\ rag.retrieved # {}

(* The node returns {} without a key or context, when no model is available   *)
(* and when the reply holds no expression: the channel keeps its value.       *)
Calculate ==
    /\ node = "calculate"
    /\ \/ UNCHANGED rag
       \/ CanCalculate /\ rag' = [rag EXCEPT !.computation = turn]
    /\ Goto("generate")
    /\ UNCHANGED searches

(* extract_expression tries the reply with safe_eval, and both let other      *)
(* errors of the arithmetic pass than CalcError: a division by zero, say.     *)
CalculatorRaises ==
    /\ node = "calculate" /\ CanCalculate
    /\ node' = "idle" /\ outcome' = "arithmetic_error"
    /\ UNCHANGED <<turn, rag, searches>>

-----------------------------------------------------------------------------
(* What a model can write: any figure, and any citation.                     *)
Writable == IF rag.computation = 0 THEN Figure \ {"computed"} ELSE Figure

(* validate_citations: only what was retrieved can be cited.                 *)
Valid(cl) ==
    IF cl.cite \in rag.retrieved \/ (cl.cite = "page" /\ rag.retrieved # {})
    THEN cl ELSE [cl EXCEPT !.cite = "none"]

MutSnap(cl) == cl

(* snap_citations: to the retrieved block that holds the claim's figure, or   *)
(* to the page when none does.                                               *)
Snap(cl) ==
    IF cl.cite = "none" \/ cl.figure = "none" THEN cl
    ELSE [cl EXCEPT !.cite = IF cl.figure \in rag.retrieved THEN cl.figure ELSE "page"]

Write(text, figure, claims) ==
    rag' = [rag EXCEPT !.text = text, !.figure = figure, !.claims = claims,
                       !.sources = TRUE, !.history = @ + 1]

Abstain ==
    rag' = [rag EXCEPT !.text = "abstain", !.figure = "none", !.claims = {},
                       !.sources = FALSE, !.history = @ + 1]

(* Each quote of the retrieved evidence cites its own block.                 *)
Extract ==
    \E b \in rag.retrieved :
        LET f == IF b \in Figures THEN b ELSE "none"
        IN Write("given", f, {[figure |-> f, cite |-> b]})

(* A structured answer, one that says the context is insufficient, or prose   *)
(* after two replies that do not parse.                                      *)
Structured ==
    \E text \in {"given", "empty"}, f \in Writable :
        /\ text = "empty" => f = "none"
        /\ \/ Write(text, f, {})
           \/ \E g \in Writable, c \in Cite :
                Write(text, f, {Snap(Valid([figure |-> g, cite |-> c]))})
Insufficient == Write("abstain", "none", {})
Prose == \E f \in Writable : Write("given", f, {})

MutAbstains == rag.retrieved = {}
Abstains == rag.retrieved = {} \/ rag.grade = "weak"

Generate ==
    /\ node = "generate"
    /\ IF Abstains THEN Abstain
       ELSE \/ Extract
            \/ AnswerKey /\ (Structured \/ Insufficient \/ Prose)
    /\ Goto("cite_check")
    /\ UNCHANGED searches

Supported(f, cite) ==
    \/ f = "none" \/ (f = "computed" /\ rag.computation # 0)
    \/ f = cite \/ (cite = "page" /\ f \in rag.retrieved)

MutUnverified == {}

(* check_claims over the claims, or verify_numbers over the answer when there *)
(* is none.                                                                  *)
Unverified ==
    IF rag.text = "empty" \/ ~rag.sources THEN {}
    ELSE IF rag.claims # {}
         THEN {cl.figure : cl \in {x \in rag.claims : ~Supported(x.figure, x.cite)}}
         ELSE IF Supported(rag.figure, "page") THEN {} ELSE {rag.figure}

(* The caveat is appended to the answer exactly when a figure is unverified.  *)
CiteCheck ==
    /\ node = "cite_check"
    /\ rag' = [rag EXCEPT !.unverified = Unverified]
    /\ node' = "idle" /\ outcome' = "done"
    /\ UNCHANGED <<turn, searches>>

(* A failed search, or an error of a provider that is not LLMUnavailable,     *)
(* leaves the graph; the checkpoint keeps what the nodes before it wrote.     *)
CallsOut ==
    \/ node = "contextualize" /\ FastKey /\ rag.history > 0
    \/ node = "retrieve"
    \/ node = "grade" /\ FastKey /\ ~DerivedLane /\ rag.retrieved # {}
    \/ node = "rewrite" /\ FastKey
    \/ node = "calculate" /\ CanCalculate
    \/ node = "generate" /\ AnswerKey /\ ~Abstains

ProviderRaises ==
    /\ CallsOut
    /\ node' = "idle" /\ outcome' = "provider_error"
    /\ UNCHANGED <<turn, rag, searches>>

Run ==
    \/ Contextualize \/ Supervise \/ Retrieve \/ Grade \/ Rewrite \/ Calculate
    \/ Generate \/ CiteCheck \/ CalculatorRaises \/ ProviderRaises

Next == Ask \/ Run

Spec == Init /\ [][Next]_vars

(* The thread that runs the graph goes on; its calls answer or time out.      *)
FairSpec == Spec /\ WF_vars(Run)

-----------------------------------------------------------------------------
Done == node = "idle" /\ outcome = "done"

(* An answer other than the abstention rests on evidence of this turn, found  *)
(* not wanting: an answer is never given on weak evidence, and no verdict or   *)
(* passage of an earlier turn or attempt passes for one of this.              *)
NeverAnswersOnWeak ==
    Done /\ rag.text \in {"given", "empty"} =>
        rag.grade = "relevant" /\ rag.retrieved # {} /\ searches >= 1

(* A question is given up on weak evidence only after the whole budget of     *)
(* searches, whatever earlier turns of the conversation spent, and no search   *)
(* goes beyond the budget.                                                    *)
WholeBudget ==
    /\ searches <= MAX_ATTEMPTS
    /\ Done /\ rag.grade = "weak" => searches = MAX_ATTEMPTS

(* A citation that reaches the client points at evidence retrieved for this   *)
(* question, and at the very block that holds the claim's figure, so a click   *)
(* on it highlights the figure.                                               *)
CitesTheFigure ==
    Done => \A cl \in rag.claims :
        /\ cl.cite # "none" => rag.retrieved # {}
        /\ cl.cite \in Blocks =>
             cl.cite \in rag.retrieved /\ (cl.figure # "none" => cl.figure = cl.cite)

(* Beside an answer that has a text no claim shows an untraceable figure       *)
(* without the caveat: it stands in the evidence the claim cites, or is the    *)
(* computation's result, or is listed. The claims of an answer whose text is   *)
(* empty are the exception: cite_check returns before it looks at them, and    *)
(* whatever figures the model put there go out without a caveat.              *)
TextClaimsAreChecked ==
    Done => \A cl \in rag.claims :
        \/ cl.figure = "none"
        \/ cl.figure \in rag.retrieved /\ cl.cite # "none"
        \/ cl.figure = "computed" /\ rag.computation # 0
        \/ cl.figure \in rag.unverified
        \/ rag.text = "empty"

(* Every turn ends: the loop of rewriting and searching is bounded.           *)
TurnsEnd == node # "idle" ~> node = "idle"

(* The calculation generate states as verified, and cite_check accepts figures *)
(* by, was made for this question. Of its failures calculate says: "skip;      *)
(* generate falls back to its normal path".                                   *)
ComputedInThisTurn == node \in {"generate", "cite_check"} => rag.computation \in {0, turn}

===============================================================================
