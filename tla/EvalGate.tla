------------------------------- MODULE EvalGate -------------------------------
(***************************************************************************)
(* What the evaluation computes: the metrics of a case (evals/trajectory.py), *)
(* the scores of a run over the dataset (evals/run_agent_eval.py), and the    *)
(* gate that holds them against committed floors and raises those             *)
(* (evals/gate.py).                                                           *)
(*                                                                         *)
(* A score is a fraction <<n, d>>. A floor is a multiple of 1/Grid, which the  *)
(* file holds as a float; what the floats do to it is in Drifting and         *)
(* Slipping.                                                                  *)
(***************************************************************************)
EXTENDS Answers

CONSTANTS
    Grid,           \* 10000: floors have four decimals
    VarianceMargin, \* 0.10 of it
    Drifting,       \* the k for which floor((k / Grid) * Grid) is k - 1 in floats
    Slipping        \* the k for which floor((score - margin) * Grid) is k - 1, and not k

ASSUME GridAssumption == Grid \in Nat \ {0} /\ VarianceMargin \in 0..Grid
ASSUME FloatAssumption ==
    /\ Drifting \subseteq 1..Grid /\ Slipping \subseteq 1..Grid
    /\ \A k \in Drifting : k - 1 \notin Drifting

AgentMetrics ==
    {"abstain_accuracy", "answer_rate", "citation_hit", "verified_rate", "claim_coverage"}
Deterministic ==
    {"lane_routed_correctly", "retrieved_before_answering", "citations_attached",
     "verification_rail_ran", "retry_budget_respected"}
PathMetrics == Deterministic \cup
    {"calculator_ran_when_routed", "abstained_when_unanswerable", "answered_when_answerable"}
Metrics == AgentMetrics \cup PathMetrics \cup {"correctness"}

Case == [pages : SUBSET Pages, lane : {"qa", "calc"}]

-----------------------------------------------------------------------------
(* trajectory.score_case: the verdict of each metric; none where it does not     *)
(* apply.                                                                     *)
When(applies, verdict) == {v \in {verdict} : applies}

ScoreCase(out, case) ==
    LET answered == ~Abstained(out)
        attached == \E i \in DOMAIN out.claims : Kept(out.claims[i], out.retrieved) # {}
    IN  [lane_routed_correctly |-> {out.task = case.lane},
         calculator_ran_when_routed |-> When(out.task = "calc" /\ answered, out.computation # {}),
         retrieved_before_answering |-> When(answered, out.retrieved # <<>>),
         citations_attached |-> When(answered, attached),
         verification_rail_ran |-> When(answered, TRUE),
         retry_budget_respected |-> {out.attempts <= MAX_ATTEMPTS},
         abstained_when_unanswerable |-> When(case.pages = {}, ~answered),
         answered_when_answerable |-> When(case.pages # {}, answered)]

(* The pages of the first three pieces of evidence.                           *)
CitedPages(out) ==
    {PageOf[out.retrieved[i]] : i \in {j \in DOMAIN out.retrieved : j <= 3 /\ Sources(out)}}

(* One row of the evaluation. "judged" is the verdict of the independent model, *)
(* when there is one.                                                         *)
EvalRow(out, case, judged) ==
    [oos |-> case.pages = {}, abstained |-> Abstained(out),
     hit |-> CitedPages(out) \cap case.pages # {}, verified |-> Unverified(out) = {},
     has_claims |-> out.claims # <<>>, judged |-> judged, path |-> ScoreCase(out, case)]

Judgements(out, case, judge) ==
    IF judge /\ case.pages # {} /\ ~Abstained(out) THEN {{}, {TRUE}, {FALSE}} ELSE {{}}

-----------------------------------------------------------------------------
AtLeastOne(n) == IF n = 0 THEN 1 ELSE n
Share(part, whole) == <<Cardinality(part \cap whole), AtLeastOne(Cardinality(whole))>>

(* run_agent_eval.evaluate.                                                   *)
AgentScore(metric, rows) ==
    LET ins == {i \in DOMAIN rows : ~rows[i].oos}
        abstained == {i \in DOMAIN rows : rows[i].abstained}
        answered == ins \ abstained
    IN  CASE metric = "abstain_accuracy" -> Share(abstained, DOMAIN rows \ ins)
          [] metric = "answer_rate" -> Share(answered, ins)
          [] metric = "citation_hit" -> Share({i \in answered : rows[i].hit}, answered)
          [] metric = "verified_rate" -> Share({i \in answered : rows[i].verified}, answered)
          [] metric = "claim_coverage" -> Share({i \in answered : rows[i].has_claims}, answered)

(* Of a metric, and of the judgements, only the cases it applies to count.      *)
Verdicts(metric, row) == IF metric = "correctness" THEN row.judged ELSE row.path[metric]
Applicable(metric, rows) == {i \in DOMAIN rows : Verdicts(metric, rows[i]) # {}}
Passed(metric, rows) == {i \in DOMAIN rows : TRUE \in Verdicts(metric, rows[i])}

(* run_suites; a metric that applies to no case is not there.                  *)
Scored(rows) ==
    AgentMetrics \cup {m \in Metrics \ AgentMetrics : Applicable(m, rows) # {}}
Scores(rows) ==
    [m \in Scored(rows) |-> IF m \in AgentMetrics THEN AgentScore(m, rows)
                            ELSE Share(Passed(m, rows), Applicable(m, rows))]

-----------------------------------------------------------------------------
(* The gate. A metric without a score is skipped, one without a floor is new.    *)
Below(score, floor) == score[1] * Grid < floor * score[2]

MutRegressed(scores, floors) ==
    {m \in DOMAIN scores \cap DOMAIN floors : scores[m][1] > 0 /\ Below(scores[m], floors[m])}

Regressed(scores, floors) ==
    {m \in DOMAIN scores \cap DOMAIN floors : Below(scores[m], floors[m])}

Margin(metric) == IF metric \in Deterministic THEN 0 ELSE VarianceMargin

(* floor(max(0, score - margin) * Grid)                                       *)
ObservedFloor(metric, score) ==
    LET k == (score[1] * Grid) \div score[2] - Margin(metric)
        onGrid == (score[1] * Grid) % score[2] = 0
        slips == IF Margin(metric) = 0 THEN Drifting ELSE Slipping
    IN  IF k <= 0 THEN 0 ELSE IF onGrid /\ k \in slips THEN k - 1 ELSE k

(* floor(floor * Grid) of a floor read back from the file.                     *)
KeptFloor(k) == IF k \in Drifting THEN k - 1 ELSE k

Higher(a, b) == IF a > b THEN a ELSE b

MutRatchet(metric, score, old) ==
    Higher((score[1] * Grid + score[2] - 1) \div score[2] - Margin(metric), KeptFloor(old))

Ratchet(metric, score, old) == Higher(ObservedFloor(metric, score), KeptFloor(old))

Ratcheted(scores, floors) ==
    [m \in DOMAIN scores \cup DOMAIN floors |->
        IF m \notin DOMAIN scores THEN floors[m]
        ELSE Ratchet(m, scores[m], IF m \in DOMAIN floors THEN floors[m] ELSE 0)]

===============================================================================
