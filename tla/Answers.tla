------------------------------- MODULE Answers --------------------------------
(***************************************************************************)
(* What a run of the agent returns and what is read off it: the citations     *)
(* generate re-anchors and cite_check verifies (agent/citations.py,           *)
(* agent/verify.py), the figure a comparison extracts (agent/compare.py) and  *)
(* the section of a brief (agent/brief.py).                                   *)
(*                                                                         *)
(* Of a text the model keeps the figures that stand in it, each as a whole     *)
(* number (contains_number) and without its sign, which no reader looks at,   *)
(* and the words behind a figure that say its unit.                           *)
(***************************************************************************)
EXTENDS Integers, Sequences, FiniteSets

CONSTANTS
    Blocks,   \* blocks of the documents
    PageOf,   \* the page of a block
    Figures,  \* figures: natural numbers
    Years,    \* those of them that read as a year once commas are gone: 2024, and 2,024
    Units,    \* million, percent, per share, ..., bare
    Holds,    \* block -> the figures in its text
    Shows,    \* block -> the figures in its text and in the section printed with it
    None

ASSUME FigureAssumption == Figures \subseteq Nat /\ Years \subseteq Figures
ASSUME TextAssumption ==
    /\ Holds \in [Blocks -> SUBSET Figures] /\ Shows \in [Blocks -> SUBSET Figures]
    /\ \A b \in Blocks : Holds[b] \subseteq Shows[b]
ASSUME PageAssumption == Blocks \subseteq DOMAIN PageOf

ASSUME NoneAssumption == None \notin Blocks

MAX_ATTEMPTS == 3

Pages == {PageOf[b] : b \in Blocks}
Cite == [page : Pages, block : Blocks \cup {None}]
Claim == [figures : Seq([n : Figures, unit : Units]), cites : Seq(Cite)]

(* The final state of the graph. A claim is as the model wrote it, with its       *)
(* figures and citations in their order; "figures" are those of the answer      *)
(* itself; "computation" the figures within 1% of its result. Evidence is in    *)
(* the order of its rank.                                                     *)
Answer ==
    {out \in [text : {"abstain", "given", "empty"}, figures : SUBSET Figures,
              claims : Seq(Claim), retrieved : Seq(Blocks), computation : SUBSET Figures,
              task : {"qa", "calc", "compare"}, attempts : 1..MAX_ATTEMPTS] :
        /\ out.text = "abstain" => out.claims = <<>>
        /\ out.retrieved = <<>> => out.text = "abstain"}

-----------------------------------------------------------------------------
Elems(s) == {s[i] : i \in DOMAIN s}
First(S) == CHOOSE i \in S : \A j \in S : i <= j

IsYear(n) == n \in Years

(* validate_citations: a citation of evidence that was retrieved, or of a page   *)
(* of it.                                                                     *)
Kept(claim, retrieved) ==
    {i \in DOMAIN claim.cites :
        \E b \in Elems(retrieved) : PageOf[b] = claim.cites[i].page /\ claim.cites[i].block \in {b, None}}

Matched(b, figures, counted(_)) ==
    Cardinality({i \in DOMAIN figures : counted(figures[i].n) /\ figures[i].n \in Holds[b]})
IsValue(n) == ~IsYear(n)
IsNumber(n) == TRUE

(* _block_score: the values matched, then the numbers, then whether the model    *)
(* named the block.                                                           *)
BlockScore(b, figures, cited) ==
    <<Matched(b, figures, IsValue), Matched(b, figures, IsNumber), IF b = cited THEN 1 ELSE 0>>
Above(s, t) == \E i \in 1..3 : s[i] > t[i] /\ \A j \in 1..(i - 1) : s[j] = t[j]

(* The best block of a page: of equals the one ranked first.                   *)
Best(onPage, claim, cited, retrieved) ==
    LET score(i) == BlockScore(retrieved[i], claim.figures, cited)
    IN  retrieved[CHOOSE i \in onPage : \A j \in onPage \ {i} :
            ~Above(score(j), score(i)) /\ (j < i => Above(score(i), score(j)))]

(* snap_citations: to the block of the page that holds the claim's values, else  *)
(* to the page. Years anchor nothing. That a repeated citation is dropped       *)
(* changes neither the first nor what any of them points at.                   *)
Snap(ct, claim, retrieved) ==
    LET onPage == {i \in DOMAIN retrieved : PageOf[retrieved[i]] = ct.page}
        best == Best(onPage, claim, ct.block, retrieved)
        onlyYears == \A i \in DOMAIN claim.figures : IsYear(claim.figures[i].n)
    IN  IF claim.figures = <<>> \/ onPage = {} THEN ct
        ELSE [ct EXCEPT !.block =
                IF Matched(best, claim.figures, IsValue) > 0 THEN best
                ELSE IF Matched(best, claim.figures, IsNumber) > 0 /\ onlyYears THEN ct.block
                ELSE None]

(* The citations of a claim as they leave generate.                           *)
Cited(i, claim, retrieved) == Snap(claim.cites[i], claim, retrieved)
Citations(claim, retrieved) == {Cited(i, claim, retrieved) : i \in Kept(claim, retrieved)}

-----------------------------------------------------------------------------
(* cite_check.                                                                *)
PointsTo(ct, b) == ct.page = PageOf[b] /\ ct.block = b

ShownAt(ct, retrieved) ==
    UNION {Shows[b] : b \in {c \in Elems(retrieved) :
                                PointsTo(ct, c) \/ (ct.block = None /\ ct.page = PageOf[c])}}

(* The figures of a claim that check_claims cannot find in what it cites.        *)
Bad(claim, out) ==
    {n \in {claim.figures[i].n : i \in DOMAIN claim.figures} :
        /\ ~IsYear(n) /\ n \notin out.computation
        /\ \A ct \in Citations(claim, out.retrieved) : n \notin ShownAt(ct, out.retrieved)}

Sources(out) == out.retrieved # <<>> /\ out.text # "abstain"

(* check_claims over the claims; without any, verify_numbers over the text; an   *)
(* empty answer is not looked at.                                             *)
Unverified(out) ==
    IF out.text = "empty" \/ ~Sources(out) THEN {}
    ELSE IF out.claims # <<>> THEN UNION {Bad(out.claims[i], out) : i \in DOMAIN out.claims}
    ELSE {n \in out.figures : /\ ~IsYear(n) /\ n \notin out.computation
                              /\ \A b \in Elems(out.retrieved) : n \notin Holds[b]}

-----------------------------------------------------------------------------
(* The comparison.                                                            *)
Abstained(out) == out.text = "abstain"

(* The figures of the claims: by_block has no text for a page.                 *)
Numbers(out) == UNION {{<<i, j>> : j \in DOMAIN out.claims[i].figures} : i \in DOMAIN out.claims}

MutProven(out) ==
    {p \in Numbers(out) :
        LET claim == out.claims[p[1]]
            n == claim.figures[p[2]].n
        IN  /\ ~IsYear(n) /\ Citations(claim, out.retrieved) # {}
            /\ \E b \in Elems(out.retrieved) : n \in Holds[b]}

(* The figures that stand in a block their own claim cites.                    *)
Proven(out) ==
    {p \in Numbers(out) :
        LET claim == out.claims[p[1]]
            n == claim.figures[p[2]].n
        IN  ~IsYear(n) /\ \E b \in Elems(out.retrieved), ct \in Citations(claim, out.retrieved) :
                PointsTo(ct, b) /\ n \in Holds[b]}

(* In the order of the text.                                                  *)
Headline(out) ==
    LET i == First({p[1] : p \in Proven(out)})
    IN  <<i, First({p[2] : p \in {q \in Proven(out) : q[1] = i}})>>

(* extract_verified_figure: the first of them, with the first citation of its    *)
(* claim.                                                                     *)
ExtractVerifiedFigure(out) ==
    IF Abstained(out) \/ Proven(out) = {} THEN None
    ELSE LET claim == out.claims[Headline(out)[1]]
             f == claim.figures[Headline(out)[2]]
         IN  [value |-> f.n, unit |-> f.unit, claim |-> claim,
              cite |-> Cited(First(Kept(claim, out.retrieved)), claim, out.retrieved)]

(* compute_delta; the percentage as a fraction.                               *)
ComputeDelta(current, prior) ==
    [abs |-> current - prior,
     pct |-> IF prior = 0 THEN None ELSE <<(current - prior) * 100, prior>>,
     direction |-> IF current > prior THEN "up" ELSE IF current < prior THEN "down" ELSE "flat"]

CompareRow(a, b) ==
    LET both == a # None /\ b # None
        comparable == both /\ a.unit = b.unit
    IN  [a |-> a, b |-> b,
         delta |-> IF comparable THEN ComputeDelta(a.value, b.value) ELSE None,
         status |-> IF both /\ ~comparable THEN "unit_mismatch" ELSE IF comparable THEN "compared"
                    ELSE IF a # None \/ b # None THEN "partial" ELSE "not_disclosed"]

-----------------------------------------------------------------------------
(* The brief. Of the answer the section keeps whether there is a text.         *)
Section(out) ==
    [status |-> IF Abstained(out) THEN "not_disclosed" ELSE "answered",
     answer |-> IF Abstained(out) THEN "empty" ELSE out.text,
     claims |-> IF Abstained(out) THEN <<>> ELSE out.claims,
     computed |-> out.computation # {}, verified |-> Unverified(out) = {}, task |-> out.task]

(* The last line of the brief says: "all figures verified against their          *)
(* citations".                                                                *)
FooterVerified(sections) ==
    \A i \in DOMAIN sections : sections[i].status = "answered" => sections[i].verified

===============================================================================
