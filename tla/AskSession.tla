------------------------------ MODULE AskSession ------------------------------
(***************************************************************************)
(* A browser tab in conversation with the server: the page (web/app.js), the *)
(* WebSocket handler ws_ask with its bridge (server.py), and the lanes that   *)
(* answer a question in a worker thread (agent/graph.py run_streaming,        *)
(* agent/brief.py run_brief, agent/compare.py run_compare).                   *)
(*                                                                         *)
(* The user may load another document at any time, which replaces the socket; *)
(* a connection may drop; a worker thread goes on after its socket is gone.    *)
(* An event keeps its type, the question it belongs to and its place in the   *)
(* checklist. What a worker puts on a queue nobody reads any more is dropped.  *)
(***************************************************************************)
EXTENDS Naturals, Sequences, FiniteSets

CONSTANTS
    Docs,        \* documents
    Registered,  \* the documents the registry holds when the page is opened
    Items,       \* lane -> length of its checklist
    MaxSockets,  \* bound: connections the page opens
    MaxAsks,     \* bound: questions the user sends
    Drops        \* whether connections may drop

Lanes == {"qa", "brief", "compare"}
ASSUME ItemsAssumption == Items \in [Lanes -> Nat \ {0}]
ASSUME DocAssumption == Registered \subseteq Docs
ASSUME SessionBoundAssumption == MaxSockets \in Nat /\ MaxAsks \in Nat /\ Drops \in BOOLEAN

Sockets == 1..MaxSockets
Asks == 1..MaxAsks
None == "none"
ASSUME NoneAssumption == None \notin Docs

VARIABLES
    status,  \* document -> its status in the registry
    page,    \* the page: what it shows, its socket, whether it waits for an answer
    panel,   \* the elements later events write into: kind -> owner and rows so far
    conn,    \* socket -> the connection, on both sides
    ask,     \* question -> what was sent, and the worker thread that answers it
    queue    \* question -> the queue of its bridge

vars == <<status, page, panel, conn, ask, queue>>

Type == {"start", "item", "answer", "caveat", "done", "error", "DONE"}
Event == [ask : Asks, type : Type, i : Nat]
Page == [doc : Docs \cup {None}, loading : SUBSET Docs, ws : Sockets \cup {0},
         opened : Sockets \cup {0}, sent : Asks \cup {0}, busy : BOOLEAN, enabled : BOOLEAN]
Conn == [doc : Docs \cup {None}, open : BOOLEAN, inbox : Seq(Asks), wire : Seq(Event),
         handler : {"none", "receive", "stream", "gone"}, serving : Asks \cup {0}]
Ask == [socket : Sockets \cup {0}, lane : Lanes, other : Docs \cup {None},
        worker : {"none", "running", "ended"}, emitted : Nat]

TypeOK ==
    /\ status \in [Docs -> {"absent", "parsing", "ready", "error"}]
    /\ page \in Page
    /\ panel \in [Lanes -> [ask : Asks \cup {0}, rows : Nat]]
    /\ conn \in [Sockets -> Conn]
    /\ ask \in [Asks -> Ask]
    /\ queue \in [Asks -> Seq(Event)]
    /\ \A s \in Sockets : conn[s].open => conn[s].doc \in Docs

Init ==
    /\ status = [d \in Docs |-> IF d \in Registered THEN "ready" ELSE "absent"]
    /\ page = [doc |-> None, loading |-> {}, ws |-> 0, opened |-> 0, sent |-> 0,
               busy |-> FALSE, enabled |-> FALSE]
    /\ panel = [l \in Lanes |-> [ask |-> 0, rows |-> 0]]
    /\ conn = [s \in Sockets |-> [doc |-> None, open |-> FALSE, inbox |-> <<>>,
                                  wire |-> <<>>, handler |-> "none", serving |-> 0]]
    /\ ask = [q \in Asks |-> [socket |-> 0, lane |-> "qa", other |-> None,
                              worker |-> "none", emitted |-> 0]]
    /\ queue = [q \in Asks |-> <<>>]

-----------------------------------------------------------------------------
(* What a lane yields when nothing fails. Left out are the events that only     *)
(* move the trace line or mark a line of the checklist as running.            *)
Script(q) ==
    LET ev(type, i) == [ask |-> q, type |-> type, i |-> i]
        n == Items[ask[q].lane]
    IN  IF ask[q].lane = "qa" THEN <<ev("answer", 0), ev("caveat", 0), ev("done", 0)>>
        ELSE [p \in 1..(n + 2) |-> IF p = 1 THEN ev("start", 0)
                                   ELSE IF p = n + 2 THEN ev("done", n) ELSE ev("item", p - 1)]

Error(q) == [ask |-> q, type |-> "error", i |-> 0]
Sentinel(q) == [ask |-> q, type |-> "DONE", i |-> 0]

(* The conversation memory a question runs on: a fresh thread_id for every     *)
(* connection. The items of the checklists run on threads derived from it.    *)
MutThread(q) == <<conn[ask[q].socket].doc, ask[q].lane>>
Thread(q) == <<ask[q].socket, ask[q].lane>>

-----------------------------------------------------------------------------
(* The page: loading a document.                                              *)

MutConnect(p) ==
    /\ page.opened < MaxSockets
    /\ LET s == page.opened + 1
       IN /\ conn' = [c \in Sockets |->
                IF c = s THEN [conn[s] EXCEPT !.doc = page.doc, !.open = TRUE, !.handler = "receive"]
                ELSE IF c = page.ws THEN [conn[c] EXCEPT !.open = FALSE, !.wire = <<>>]
                ELSE conn[c]]
          /\ page' = [p EXCEPT !.ws = s, !.opened = s, !.enabled = TRUE]

(* connectWs and setAsk(true), from the page p: the old socket is closed and    *)
(* nothing it carries is looked at any more; the new one is for the document   *)
(* now shown. The accept and the new conversation thread are part of it.       *)
Connect(p) ==
    /\ page.opened < MaxSockets
    /\ LET s == page.opened + 1
       IN /\ conn' = [c \in Sockets |->
                IF c = s THEN [conn[s] EXCEPT !.doc = p.doc, !.open = TRUE, !.handler = "receive"]
                ELSE IF c = page.ws THEN [conn[c] EXCEPT !.open = FALSE, !.wire = <<>>]
                ELSE conn[c]]
          /\ page' = [p EXCEPT !.ws = s, !.opened = s, !.enabled = TRUE]

(* The answer to an upload or to the sample: the page shows the document at     *)
(* once, and connects when it is ready. A document that failed is ingested     *)
(* again; the sample is ready when the answer comes.                          *)
LoadDoc(d) ==
    LET p == [page EXCEPT !.doc = d]
    IN  /\ page.opened + Cardinality(page.loading \ {d}) < MaxSockets
        /\ IF status[d] \in {"parsing", "ready"} THEN UNCHANGED status
           ELSE \E st \in {"parsing", "ready"} : status' = [status EXCEPT ![d] = st]
        /\ IF status'[d] = "ready" THEN Connect(p)
           ELSE page' = [p EXCEPT !.loading = @ \cup {d}] /\ UNCHANGED conn
        /\ UNCHANGED <<panel, ask, queue>>

(* waitReady polls: when d is ready, loadDoc goes on with whatever document     *)
(* the page shows by then; when d failed, it throws.                          *)
WaitReady(d) ==
    LET p == [page EXCEPT !.loading = @ \ {d}]
    IN  /\ d \in page.loading
        /\ \/ status[d] = "ready" /\ Connect(p)
           \/ status[d] = "error" /\ page' = p /\ UNCHANGED conn
        /\ UNCHANGED <<status, panel, ask, queue>>

(* The ingestion thread of the registry (DocumentLifecycle).                  *)
Ingested(d) ==
    /\ status[d] = "parsing"
    /\ \E st \in {"ready", "error"} : status' = [status EXCEPT ![d] = st]
    /\ UNCHANGED <<page, panel, conn, ask, queue>>

-----------------------------------------------------------------------------
(* The page: asking, and handling what comes back.                            *)

Connected == page.ws # 0 /\ conn[page.ws].open

(* The form and the brief button, or the picker, which lists ready documents    *)
(* whatever the form does. An old list still has the document of the socket     *)
(* itself, and the server takes that for the question "compare" about it. The   *)
(* page sends no blank question.                                              *)
Submit(lane, other) ==
    /\ ~page.busy /\ Connected /\ page.sent < MaxAsks
    /\ lane = "compare" => other \notin {None, conn[page.ws].doc} /\ status[other] = "ready"
    /\ lane # "compare" => other = None
    /\ lane = "brief" => page.enabled
    /\ lane = "qa" => page.enabled \/ status[conn[page.ws].doc] = "ready"
    /\ LET q == page.sent + 1
       IN /\ ask' = [ask EXCEPT ![q].socket = page.ws, ![q].lane = lane, ![q].other = other]
          /\ conn' = [conn EXCEPT ![page.ws].inbox = Append(@, q)]
          /\ page' = [page EXCEPT !.sent = q, !.busy = TRUE, !.enabled = FALSE]
    /\ UNCHANGED <<status, panel, queue>>

Opens(ev, lane) == ev.type = (IF lane = "qa" THEN "answer" ELSE "start")

MutShown(ev, lane) ==
    IF Opens(ev, lane) THEN [panel[lane] EXCEPT !.ask = ev.ask]
    ELSE IF ev.type = "item" THEN [panel[lane] EXCEPT !.rows = @ + 1] ELSE panel[lane]

(* What an event does to the panel of its lane: an answer and the head of a     *)
(* checklist make a new one, a row goes below the last; a caveat and the final  *)
(* table go into what is there.                                               *)
Shown(ev, lane) ==
    IF Opens(ev, lane) THEN [ask |-> ev.ask, rows |-> 0]
    ELSE IF ev.type = "item" THEN [panel[lane] EXCEPT !.rows = @ + 1] ELSE panel[lane]

(* onmessage of the current socket.                                          *)
Receive ==
    /\ Connected /\ conn[page.ws].wire # <<>>
    /\ LET ev == Head(conn[page.ws].wire)
           lane == ask[ev.ask].lane
       IN /\ panel' = [panel EXCEPT ![lane] = Shown(ev, lane)]
          /\ page' = IF ev.type \in {"done", "error"}
                     THEN [page EXCEPT !.busy = FALSE, !.enabled = TRUE] ELSE page
    /\ conn' = [conn EXCEPT ![page.ws].wire = Tail(@)]
    /\ UNCHANGED <<status, ask, queue>>

(* The connection breaks, with what is on the way in either direction.         *)
Drop(s) ==
    /\ Drops /\ conn[s].open
    /\ \E left \in {<<>>, conn[s].inbox} :
         conn' = [conn EXCEPT ![s].open = FALSE, ![s].wire = <<>>, ![s].inbox = left]
    /\ UNCHANGED <<status, page, panel, ask, queue>>

-----------------------------------------------------------------------------
(* The server: ws_ask reads one question at a time and does not read the next   *)
(* before the bridge of this one is drained.                                  *)
Reading(s) == conn[s].handler = "receive" /\ conn[s].inbox # <<>>
First(s) == Head(conn[s].inbox)
Taken(s) == [conn[s] EXCEPT !.inbox = Tail(@)]

(* send_json on a connection that is gone raises WebSocketDisconnect, or is     *)
(* lost while the server does not know.                                       *)
Sent(c, ev) ==
    IF c.open THEN {[c EXCEPT !.wire = Append(@, ev)]}
    ELSE {c, [c EXCEPT !.handler = "gone", !.serving = 0]}

Answerable(s) ==
    /\ status[conn[s].doc] = "ready"
    /\ ask[First(s)].lane = "compare" => status[ask[First(s)].other] = "ready"

MutRefuse(s) ==
    /\ Reading(s)
    /\ ask[First(s)].lane = "qa" \/ ~Answerable(s)
    /\ conn' = [conn EXCEPT ![s] = Taken(s)]
    /\ UNCHANGED <<status, page, panel, ask, queue>>

(* Refused by a guard (the questions of the buttons never are), or because a    *)
(* document is not ready.                                                     *)
Refuse(s) ==
    /\ Reading(s)
    /\ ask[First(s)].lane = "qa" \/ ~Answerable(s)
    /\ \E c \in Sent(Taken(s), Error(First(s))) : conn' = [conn EXCEPT ![s] = c]
    /\ UNCHANGED <<status, page, panel, ask, queue>>

(* The engine of the document, and the lane in a thread of the executor.       *)
Accept(s) ==
    /\ Reading(s) /\ Answerable(s)
    /\ conn' = [conn EXCEPT ![s] = [Taken(s) EXCEPT !.handler = "stream", !.serving = First(s)]]
    /\ ask' = [ask EXCEPT ![First(s)].worker = "running"]
    /\ UNCHANGED <<status, page, panel, queue>>

(* One event from the bridge to the socket; DONE ends the bridge.              *)
Forward(s) ==
    /\ conn[s].handler = "stream" /\ queue[conn[s].serving] # <<>>
    /\ LET q == conn[s].serving
           ev == Head(queue[q])
       IN /\ \E c \in IF ev.type = "DONE" THEN {[conn[s] EXCEPT !.handler = "receive", !.serving = 0]}
                      ELSE Sent(conn[s], ev) :
               /\ conn' = [conn EXCEPT ![s] = c]
               /\ queue' = [queue EXCEPT ![q] = IF c.handler = "gone" THEN <<>> ELSE Tail(@)]
    /\ UNCHANGED <<status, page, panel, ask>>

(* receive_json raises WebSocketDisconnect after the last question.            *)
Disconnect(s) ==
    /\ conn[s].handler = "receive" /\ conn[s].inbox = <<>> /\ ~conn[s].open
    /\ conn' = [conn EXCEPT ![s].handler = "gone"]
    /\ UNCHANGED <<status, page, panel, ask, queue>>

Handler(s) == Refuse(s) \/ Accept(s) \/ Forward(s) \/ Disconnect(s)

-----------------------------------------------------------------------------
(* The worker thread of a question. It does not learn that its socket is gone.  *)
Running(q) == ask[q].worker = "running"
Put(q, events) ==
    queue' = IF conn[ask[q].socket].handler = "gone" THEN queue ELSE [queue EXCEPT ![q] = @ \o events]

Yield(q) ==
    /\ Running(q) /\ ask[q].emitted < Len(Script(q))
    /\ Put(q, <<Script(q)[ask[q].emitted + 1]>>)
    /\ ask' = [ask EXCEPT ![q].emitted = @ + 1]
    /\ UNCHANGED <<status, page, panel, conn>>

Exhausted(q) ==
    /\ Running(q) /\ ask[q].emitted = Len(Script(q))
    /\ Put(q, <<Sentinel(q)>>)
    /\ ask' = [ask EXCEPT ![q].worker = "ended"]
    /\ UNCHANGED <<status, page, panel, conn>>

CanRaise(q) ==
    Running(q) /\ ask[q].emitted < Len(Script(q)) /\ (ask[q].emitted > 0 \/ ask[q].lane = "qa")

MutRaises(q) ==
    /\ CanRaise(q)
    /\ Put(q, <<Error(q)>>)
    /\ ask' = [ask EXCEPT ![q].emitted = @ + 1]
    /\ UNCHANGED <<status, page, panel, conn>>

(* An exception of any item ends the whole lane; the first event of a checklist  *)
(* comes before any work.                                                     *)
Raises(q) ==
    /\ CanRaise(q)
    /\ Put(q, <<Error(q), Sentinel(q)>>)
    /\ ask' = [ask EXCEPT ![q].worker = "ended"]
    /\ UNCHANGED <<status, page, panel, conn>>

Worker(q) == Yield(q) \/ Exhausted(q) \/ Raises(q)

-----------------------------------------------------------------------------
User ==
    \/ \E d \in Docs : LoadDoc(d) \/ WaitReady(d) \/ Ingested(d)
    \/ \E lane \in Lanes, other \in Docs \cup {None} : Submit(lane, other)
    \/ Receive

Next ==
    \/ User
    \/ \E s \in Sockets : Drop(s) \/ Handler(s)
    \/ \E q \in Asks : Worker(q)

Spec == Init /\ [][Next]_vars

(* The event loop and the worker threads go on, and the page handles what       *)
(* arrives. Nothing is assumed of the user, of ingestion or of the network.     *)
FairSpec ==
    /\ Spec /\ WF_vars(Receive)
    /\ \A s \in Sockets : WF_vars(Handler(s))
    /\ \A q \in Asks : WF_vars(Worker(q))

-----------------------------------------------------------------------------
(* No two worker threads run on one conversation at a time, although the one    *)
(* of a closed socket goes on while the user asks over a new one: checkpoints   *)
(* of two runs never interleave in a thread.                                  *)
OneRunPerThread ==
    \A q, r \in Asks : Running(q) /\ Running(r) /\ Thread(q) = Thread(r) => q = r

(* A question has exactly one end, after everything else it says: once the page *)
(* has let go of it, nothing of any question is left on its connection to       *)
(* reach the page while it waits for the next answer.                          *)
QuietWhenIdle ==
    Connected /\ ~page.busy =>
        /\ conn[page.ws].inbox = <<>> /\ conn[page.ws].wire = <<>>
        /\ \A q \in Asks : ask[q].socket = page.ws =>
             /\ Running(q) => ask[q].emitted = Len(Script(q))
             /\ \A i \in DOMAIN queue[q] : queue[q][i].type = "DONE"

(* Every event lands where it belongs: the caveat on the answer it is about, a   *)
(* row on its own line of its own checklist, the final table below as many rows *)
(* as the checklist has.                                                      *)
LandsWhereItBelongs ==
    Connected /\ conn[page.ws].wire # <<>> =>
        LET ev == Head(conn[page.ws].wire)
            lane == ask[ev.ask].lane
        IN  /\ ev.type \in {"caveat", "item", "done"} => panel[lane].ask = ev.ask
            /\ ev.type = "item" => panel[lane].rows + 1 = ev.i
            /\ ev.type = "done" /\ lane # "qa" => panel[lane].rows = Items[lane]

(* A question sent over the connection the page still has is answered: with a    *)
(* result, a refusal or an error.                                             *)
Pending(s) ==
    Connected /\ page.ws = s /\ page.busy /\ page.sent # 0 /\ ask[page.sent].socket = s
AskedIsAnswered == \A s \in Sockets : Pending(s) ~> ~Pending(s)

(* "Document ready - ask me about it.": when the page takes a question, the      *)
(* question is sent.                                                          *)
ReadyToAsk == page.enabled => ~page.busy

===============================================================================
