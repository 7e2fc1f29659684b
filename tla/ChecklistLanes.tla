---------------------------- MODULE ChecklistLanes ----------------------------
(***************************************************************************)
(* The lanes that put a list of questions to the agent one after the other    *)
(* and read its answers: the brief (agent/brief.py), the comparison of two     *)
(* documents (agent/compare.py) and the evaluation with its gate              *)
(* (evals/run_agent_eval.py, evals/gate.py). A behaviour is one lane: a brief  *)
(* or a comparison, or any number of gate runs over one baseline file.        *)
(*                                                                         *)
(* How the events of a lane reach the page is in AskSession.                  *)
(***************************************************************************)
EXTENDS EvalGate

CONSTANTS
    Runs,      \* lane -> the answers a run of the agent may return in it
    Lines,     \* the number of questions in the checklists of brief and compare
    Cases,     \* the cases of the dataset
    Judge,     \* gate --judge, with a judge model configured
    Baseline,  \* the floors of the committed baseline
    MaxGates   \* bound: gate runs

Lanes == {"brief", "compare", "eval"}

ASSUME RunAssumption == Runs \in [Lanes -> SUBSET Answer]
ASSUME ChecklistAssumption == Lines \in [{"brief", "compare"} -> Nat] /\ Cases \in Seq(Case)
ASSUME BaselineAssumption ==
    DOMAIN Baseline \subseteq Metrics /\ \A m \in DOMAIN Baseline : Baseline[m] \in Nat
ASSUME GateAssumption == Judge \in BOOLEAN /\ MaxGates \in Nat

VARIABLES
    lane,     \* which of the lanes
    outs,     \* the last answer of each engine: "a", and "b" in a comparison
    rows,     \* what the lane has made of the answers so far
    floors,   \* the floors in the baseline file
    peak,     \* history: the highest floor a metric ever had
    scores,   \* the scores of the last gate run, and its verdict
    verdict,
    regressed,
    gates     \* bounded count of gate runs

gateVars == <<floors, peak, scores, verdict, regressed, gates>>
vars == <<lane, outs, rows, gateVars>>

Fraction == Nat \X (Nat \ {0})

TypeOK ==
    /\ lane \in Lanes
    /\ outs \in [{"a", "b"} -> Answer \cup {None}]
    /\ DOMAIN floors \subseteq Metrics /\ \A m \in DOMAIN floors : floors[m] \in Nat
    /\ DOMAIN scores \subseteq Metrics /\ \A m \in DOMAIN scores : scores[m] \in Fraction
    /\ verdict \in {"none", "passed", "failed", "ratcheted"}
    /\ regressed \subseteq Metrics /\ gates \in 0..MaxGates

NoAnswers == [engine \in {"a", "b"} |-> None]

Init ==
    /\ lane \in Lanes
    /\ outs = NoAnswers /\ rows = <<>>
    /\ floors = Baseline /\ peak = Baseline
    /\ scores = <<>> /\ verdict = "none" /\ regressed = {} /\ gates = 0

-----------------------------------------------------------------------------
(* One question of the brief.                                                 *)
BriefItem(out) ==
    /\ lane = "brief" /\ Len(rows) < Lines["brief"]
    /\ rows' = Append(rows, Section(out))
    /\ outs' = [outs EXCEPT !["a"] = out]
    /\ UNCHANGED <<lane, gateVars>>

(* One question of the comparison: the engine of the first document, then that   *)
(* of the second, then the row.                                               *)
CompareItem(out_a, out_b) ==
    /\ lane = "compare" /\ Len(rows) < Lines["compare"]
    /\ outs' = [outs EXCEPT !["a"] = out_a, !["b"] = out_b]
    /\ rows' = Append(rows, CompareRow(ExtractVerifiedFigure(out_a), ExtractVerifiedFigure(out_b)))
    /\ UNCHANGED <<lane, gateVars>>

(* One case of the dataset, on a thread of its own.                           *)
EvalCase(out, judge) ==
    /\ lane = "eval" /\ gates < MaxGates /\ Len(rows) < Len(Cases)
    /\ \E judged \in Judgements(out, Cases[Len(rows) + 1], judge) :
         rows' = Append(rows, EvalRow(out, Cases[Len(rows) + 1], judged))
    /\ UNCHANGED <<lane, outs, gateVars>>

(* An exception ends the lane: there is no report of its rows. It may be asked   *)
(* for again.                                                                 *)
Raises ==
    /\ rows # <<>> /\ rows' = <<>> /\ outs' = NoAnswers
    /\ IF lane = "eval" THEN gates < MaxGates /\ gates' = gates + 1 ELSE UNCHANGED gates
    /\ UNCHANGED <<lane, floors, peak, scores, verdict, regressed>>

-----------------------------------------------------------------------------
Measured == lane = "eval" /\ gates < MaxGates /\ Len(rows) = Len(Cases)

Compared ==
    /\ scores' = Scores(rows) /\ regressed' = Regressed(scores', floors)
    /\ rows' = <<>> /\ gates' = gates + 1
    /\ UNCHANGED <<lane, outs>>

(* gate.main: the exit code is the verdict.                                   *)
Gate ==
    /\ Measured /\ Compared
    /\ verdict' = IF regressed' = {} THEN "passed" ELSE "failed"
    /\ UNCHANGED <<floors, peak>>

(* gate --ratchet writes the baseline and exits with 0, regressed or not.       *)
GateRatchet ==
    /\ Measured /\ Compared
    /\ floors' = Ratcheted(scores', floors)
    /\ peak' = [m \in DOMAIN floors' |-> IF m \in DOMAIN peak THEN Higher(peak[m], floors'[m]) ELSE floors'[m]]
    /\ verdict' = "ratcheted"

Next ==
    \/ \E out \in Runs["brief"] : BriefItem(out)
    \/ \E out_a, out_b \in Runs["compare"] : CompareItem(out_a, out_b)
    \/ \E out \in Runs["eval"] : EvalCase(out, Judge)
    \/ Raises \/ Gate \/ GateRatchet

Spec == Init /\ [][Next]_vars

-----------------------------------------------------------------------------
(* A figure stands in evidence of a page that the model itself cited for it.    *)
Traced(n, claim, out) ==
    \E b \in Elems(out.retrieved) :
        /\ n \in Shows[b]
        /\ \E i \in DOMAIN claim.cites : claim.cites[i].page = PageOf[b]

Newest == rows[Len(rows)]

ComparedIsTraced(figure, out) ==
    Traced(figure.value, figure.claim, out) /\ figure.value \notin Bad(figure.claim, out)

(* "An unverifiable number must never enter a comparison", and "all figures     *)
(* verified against their citations" at the foot of a brief: both figures of a  *)
(* compared row have the same unit, stand on a page the model cited for them,   *)
(* before any re-anchoring, and are none that cite_check would flag. In a brief *)
(* without a flag the same holds of every figure of the claims under a section  *)
(* that has an answer to print, unless it is the computed one. Not of a section *)
(* whose answer is the empty string: cite_check lets its claims pass unread,    *)
(* the section has no flag, and the foot of the brief vouches for them.         *)
ReportsAreTraceable ==
    rows # <<>> =>
        /\ lane = "compare" /\ Newest.status = "compared" =>
             /\ Newest.a.unit = Newest.b.unit
             /\ ComparedIsTraced(Newest.a, outs["a"]) /\ ComparedIsTraced(Newest.b, outs["b"])
        /\ lane = "brief" /\ FooterVerified(rows) /\ Newest.answer = "given" =>
             \A i \in DOMAIN Newest.claims : \A j \in DOMAIN Newest.claims[i].figures :
                LET n == Newest.claims[i].figures[j].n
                IN  IsYear(n) \/ n \in outs["a"].computation \/ Traced(n, Newest.claims[i], outs["a"])

(* Ratcheting "never loosens the gate", but for the last decimal that a floor   *)
(* may lose once in the float arithmetic, however often the gate is ratcheted;  *)
(* a floor that a run cannot score stays; and no floor is one "the metric can   *)
(* never meet": a run with the very scores that were ratcheted fails no metric  *)
(* that it did not fail before.                                               *)
FloorsHold ==
    /\ \A m \in DOMAIN peak : m \in DOMAIN floors /\ floors[m] >= peak[m] - 1
    /\ verdict = "ratcheted" => Regressed(scores, floors) \subseteq regressed

(* An agent that stops answering does not slip through because the metrics of   *)
(* its path have no case left to apply to and are skipped: while there is a     *)
(* floor under the rate of answers, a gate that passes has scored the evidence, *)
(* the citations and the verification of an answer.                            *)
PassedHasAnswered ==
    verdict = "passed" /\ "answer_rate" \in DOMAIN floors /\ floors["answer_rate"] > 0 =>
        {"retrieved_before_answering", "citations_attached", "verification_rail_ran"}
            \subseteq DOMAIN scores

(* "every figure carries the page and block it came from".                     *)
Carries(figure, out) ==
    \E b \in Elems(out.retrieved) :
        /\ figure.value \in Holds[b]
        /\ PointsTo(figure.cite, b) \/ (figure.cite.block = None /\ figure.cite.page = PageOf[b])

RowCitesTheFigure ==
    lane = "compare" /\ rows # <<>> =>
        /\ Newest.a # None => Carries(Newest.a, outs["a"])
        /\ Newest.b # None => Carries(Newest.b, outs["b"])

===============================================================================
