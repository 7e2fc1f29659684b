---------------------------- MODULE MCIngestWorker ----------------------------
EXTENDS IngestWorker, TLC
CONSTANTS w1, w2, mcp, report, again, scan, broken, notes, r, s, t, c1, c2, c3, margin, revenue, weather
TheDocOf == (r :> "report") @@ (s :> "scan") @@ (t :> "scan")
TheChunksOf == (r :> <<c1, c2>>) @@ (s :> <<c3>>) @@ (t :> <<c3>>)
(* A term of all chunks, one of a single chunk, and one of none.              *)
TheShares ==
    (revenue :> {<<r, c1>>, <<r, c2>>, <<s, c3>>, <<t, c3>>})
    @@ (margin :> {<<r, c2>>, <<s, c3>>}) @@ (weather :> {})
TheContentOf ==
    (report :> "report") @@ (again :> "report") @@ (scan :> "scan")
    @@ (broken :> "broken") @@ (notes :> "notes")
===============================================================================
