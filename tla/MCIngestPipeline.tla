--------------------------- MODULE MCIngestPipeline ---------------------------
(* A three-page document with two scanned pages, a figure on the page that is   *)
(* not, and a table on each that is, the last beyond the cap. Without a vision  *)
(* key the heading of page 2, and with it the label of the document, is not    *)
(* read.                                                                      *)
EXTENDS IngestPipeline

MixedScans == {2, 3}
FirstRegion == {1}
RegionPages == <<1, 2, 3>>
TheWords == {"untitled", "titled"}
TheHeadings ==
    [parsed \in SUBSET Page |-> [r \in Region |-> IF 2 \in parsed THEN "titled" ELSE "untitled"]]

===============================================================================
