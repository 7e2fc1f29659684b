------------------------- MODULE MCDocumentLifecycle -------------------------
(* Small instances of DocumentLifecycle for TLC.                            *)
EXTENDS DocumentLifecycle, TLC

(* A document a client uploads, and one /load-sample builds.                *)
CONSTANTS report, sample

(* Ingestion threads are alike, and so are connections.                     *)
SafetySymmetry == Permutations(Threads) \cup Permutations(Asks)

=============================================================================
