----------------------------- MODULE MCAskSession -----------------------------
EXTENDS AskSession, TLC
CONSTANTS a, b
TheItems == ("qa" :> 1) @@ ("brief" :> 2) @@ ("compare" :> 1)
===============================================================================
