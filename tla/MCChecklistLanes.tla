--------------------------- MODULE MCChecklistLanes ---------------------------
EXTENDS ChecklistLanes, TLC
CONSTANTS b1, b2, b3
ThePageOf == (b1 :> 1) @@ (b2 :> 1) @@ (b3 :> 2)
TheHolds == (b1 :> {5, 2024}) @@ (b2 :> {7}) @@ (b3 :> {0, 7, 2024})
TheShows == (b1 :> {5, 2024}) @@ (b2 :> {5, 7}) @@ (b3 :> {0, 7, 2024})

M(n) == [n |-> n, unit |-> "million"]
P(n) == [n |-> n, unit |-> "percent"]
At(p, b) == [page |-> p, block |-> b]
(* A claim: nothing, one figure, one that stands nowhere, two in either order. *)
FigureLists == {<<>>, <<M(5)>>, <<P(7)>>, <<M(0)>>, <<M(9)>>, <<M(2024)>>, <<M(2024), M(7), M(5)>>}
CiteLists == {<<>>, <<At(1, b2)>>, <<At(1, None)>>, <<At(2, b3), At(1, b1)>>}
Evidence == {<<b1, b3>>, <<b2, b1, b3>>}

Reply(text, figures, claims, retrieved, computation, task) ==
    [text |-> text, figures |-> figures, claims |-> claims, retrieved |-> retrieved,
     computation |-> computation, task |-> task, attempts |-> 1]
Refusal == Reply("abstain", {}, <<>>, <<>>, {}, "qa")

Cl(figures, cites) == [figures |-> figures, cites |-> cites]
OneClaim ==
    {Reply(text, {}, <<Cl(f, c)>>, ev, comp, "qa") :
        text \in {"given", "empty"}, f \in FigureLists, c \in CiteLists, ev \in Evidence, comp \in {{}, {9}}}
TwoClaims == {Reply("given", {}, <<Cl(<<M(9)>>, <<At(1, b2)>>), Cl(f, c)>>, <<b1, b3>>, {}, "calc") :
                  f \in FigureLists, c \in CiteLists}
Prose == {Reply("given", {n}, <<>>, <<b2, b1, b3>>, {}, "qa") : n \in {7, 9}}

Good(task, comp) == Reply("given", {}, <<Cl(<<M(5)>>, <<At(1, b1)>>)>>, <<b1>>, comp, task)
TheRuns ==
    [brief |-> {Refusal} \cup OneClaim \cup TwoClaims \cup Prose,
     compare |-> {Refusal} \cup {r \in OneClaim : r.text = "given" /\ r.computation = {}} \cup TwoClaims,
     eval |-> {Refusal, Good("calc", {9}), Reply("given", {9}, <<>>, <<b3>>, {}, "calc")}]
TheLines == [brief |-> 2, compare |-> 1]
TheCases == <<[pages |-> {1}, lane |-> "qa"], [pages |-> {1, 2}, lane |-> "calc"],
              [pages |-> {}, lane |-> "qa"]>>
TheBaseline == ("answer_rate" :> 5) @@ ("citations_attached" :> 14) @@ ("correctness" :> 8)
===============================================================================
