---------------------------- MODULE DocumentService ----------------------------
(***************************************************************************)
(* What the document service promises a client, whatever goes on inside:    *)
(* a document it has acknowledged is known whenever the service is up, also  *)
(* after it went down; a ready document stays ready as long as the service   *)
(* is up; parsing comes to an end; and a document is only searched while it  *)
(* is ready. DocumentLifecycle implements it.                                *)
(***************************************************************************)
CONSTANT Docs

VARIABLES
    up,       \* does the service accept requests?
    view,     \* the status a client would be told of each document
    held,     \* the documents the service has acknowledged, for good
    searched  \* the documents a question in flight searches

vars == <<up, view, held, searched>>

Status == {"absent", "parsing", "ready", "error"}

Init ==
    /\ up = FALSE
    /\ view = [d \in Docs |-> "absent"]
    /\ held = {} /\ searched = {}

Down ==
    /\ up /\ up' = FALSE
    /\ view' = [d \in Docs |-> "absent"]
    /\ searched' = {}
    /\ UNCHANGED held

Up ==
    /\ ~up /\ up' = TRUE
    /\ view' \in [Docs -> Status]
    /\ \A d \in held : view'[d] # "absent"
    /\ UNCHANGED <<held, searched>>

(* A document is taken in when it is new, and again when it had failed.      *)
Take(d) ==
    /\ up /\ view[d] \in {"absent", "error"}
    /\ view' = [view EXCEPT ![d] = "parsing"]
    /\ UNCHANGED <<up, held, searched>>

Hold(d) ==
    /\ up /\ view[d] # "absent"
    /\ held' = held \cup {d}
    /\ UNCHANGED <<up, view, searched>>

Settle(d) ==
    /\ up /\ view[d] = "parsing"
    /\ \E s \in {"ready", "error"} : view' = [view EXCEPT ![d] = s]
    /\ UNCHANGED <<up, held, searched>>

(* A question in flight searches one document, or two to compare them.       *)
Search ==
    /\ up
    /\ searched' \in SUBSET {d \in Docs : view[d] = "ready"}
    /\ UNCHANGED <<up, view, held>>

Next ==
    \/ Down \/ Up \/ Search
    \/ \E d \in Docs : Take(d) \/ Hold(d) \/ Settle(d)

(* What may never happen, and with it what must happen in the end.           *)
Safety == Init /\ [][Next]_vars
Spec == Safety /\ \A d \in Docs : WF_vars(Settle(d))

===============================================================================
