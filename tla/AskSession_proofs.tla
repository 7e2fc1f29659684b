--------------------------- MODULE AskSession_proofs ---------------------------
(***************************************************************************)
(* Theorems about a browser tab in conversation with the server, for any       *)
(* documents and checklists and any number of connections and questions.      *)
(* Worker threads are not stopped when their socket is gone, so what keeps      *)
(* two of them out of one conversation is the handler: it reads no question     *)
(* before the bridge of the last one has given DONE, the last thing a worker    *)
(* puts on its queue, and a handler that is gone reads no more.                *)
(***************************************************************************)
EXTENDS AskSession, SequenceTheorems, TLAPS

Final == {"done", "error"}

(* Sockets not yet opened are as at first; a document being waited for is shown  *)
(* or was.                                                                    *)
Fresh ==
    /\ \A s \in Sockets : s > page.opened =>
         ~conn[s].open /\ conn[s].handler = "none" /\ conn[s].inbox = <<>> /\ conn[s].wire = <<>>
    /\ page.loading # {} => page.doc \in Docs
    /\ page.ws = page.opened

(* What waits to be read on a socket has never been accepted.                  *)
Waiting ==
    /\ \A q \in Asks : q > page.sent =>
         ask[q].worker = "none" /\ ask[q].socket = 0 /\ queue[q] = <<>>
    /\ \A s \in Sockets : \A i \in DOMAIN conn[s].inbox :
         LET q == conn[s].inbox[i]
         IN  /\ q <= page.sent /\ ask[q].socket = s /\ ask[q].worker = "none"
             /\ \A j \in DOMAIN conn[s].inbox : conn[s].inbox[j] = q => i = j

(* A worker that runs has the handler of its socket, unless that is gone.       *)
Attended ==
    /\ \A s \in Sockets : conn[s].handler = "stream" =>
         conn[s].serving \in Asks /\ ask[conn[s].serving].socket = s
    /\ \A q \in Asks : ask[q].worker # "none" => ask[q].socket \in Sockets
    /\ \A q \in Asks : Running(q) =>
         \/ conn[ask[q].socket].handler = "gone"
         \/ conn[ask[q].socket].handler = "stream" /\ conn[ask[q].socket].serving = q

(* DONE is the last thing a worker says.                                      *)
DoneIsLast ==
    \A q \in Asks : \A i \in DOMAIN queue[q] : queue[q][i].type = "DONE" => ask[q].worker = "ended"

OneRunPerSocket ==
    \A q, r \in Asks : Running(q) /\ Running(r) /\ ask[q].socket = ask[r].socket => q = r

IInv == TypeOK /\ Fresh /\ Waiting /\ Attended /\ DoneIsLast /\ OneRunPerSocket

-----------------------------------------------------------------------------
(* The events of a lane: the last one, and no other, is final.                 *)
LEMMA ScriptFacts ==
    ASSUME TypeOK, NEW q \in Asks
    PROVE  /\ Script(q) \in Seq(Event) /\ Len(Script(q)) \in Nat \ {0}
           /\ \A i \in 1..Len(Script(q)) :
                /\ Script(q)[i].type \notin {"DONE", "error"} /\ Script(q)[i].ask = q
                /\ Script(q)[i].type = "done" <=> i = Len(Script(q))
<1> DEFINE ev(type, i) == [ask |-> q, type |-> type, i |-> i]
           n == Items[ask[q].lane]
           rows == [p \in 1..(n + 2) |-> IF p = 1 THEN ev("start", 0)
                                         ELSE IF p = n + 2 THEN ev("done", n) ELSE ev("item", p - 1)]
<1>1. ask[q].lane \in Lanes /\ n \in Nat \ {0}
  BY ItemsAssumption DEF TypeOK, Ask
<1>2. \A type \in Type, i \in Nat : ev(type, i) \in Event
  BY DEF Event
<1>3. CASE ask[q].lane = "qa"
  <2>1. Script(q) = <<ev("answer", 0), ev("caveat", 0), ev("done", 0)>>
    BY <1>3 DEF Script
  <2>2. ev("answer", 0) \in Event /\ ev("caveat", 0) \in Event /\ ev("done", 0) \in Event
    BY <1>2 DEF Type
  <2> QED
    BY <2>1, <2>2
<1>4. CASE ask[q].lane # "qa"
  <2>1. Script(q) = rows
    BY <1>4 DEF Script
  <2>2. rows \in [1..(n + 2) -> Event]
    BY <1>1, <1>2 DEF Type
  <2>3. rows \in Seq(Event)
    <3>1. n + 2 \in Nat
      BY <1>1
    <3> HIDE DEF rows
    <3> QED
      BY <2>2, <3>1, SeqDef, Zenon
  <2>4. Len(rows) = n + 2
    BY <1>1, <2>2, <2>3, LenProperties
  <2> QED
    BY <1>1, <2>1, <2>3, <2>4
<1> QED
  BY <1>3, <1>4

(* The page opens its next socket and closes the one it had.                   *)
LEMMA ConnectEffect ==
    ASSUME TypeOK, NEW p \in Page, p.doc \in Docs, p.opened = page.opened, Connect(p)
    PROVE  LET s == page.opened + 1
           IN  /\ s \in Sockets /\ page' \in Page /\ conn' \in [Sockets -> Conn]
               /\ page'.doc = p.doc /\ page'.loading = p.loading /\ page'.ws = s /\ page'.opened = s
               /\ page'.sent = p.sent /\ page'.busy = p.busy
               /\ conn'[s].doc = p.doc /\ conn'[s].open /\ conn'[s].handler = "receive"
               /\ conn'[s].inbox = conn[s].inbox /\ conn'[s].wire = conn[s].wire
               /\ conn'[s].serving = conn[s].serving
               /\ \A c \in Sockets \ {s} :
                    /\ conn'[c].doc = conn[c].doc /\ conn'[c].inbox = conn[c].inbox
                    /\ conn'[c].handler = conn[c].handler /\ conn'[c].serving = conn[c].serving
                    /\ conn'[c].open => conn[c].open /\ c # page.ws
                    /\ conn'[c].wire = conn[c].wire \/ conn'[c].wire = <<>>
<1> DEFINE s == page.opened + 1
<1>1. s \in Sockets
  <2>1. page.opened \in Nat /\ page.opened < MaxSockets
    <3>1. page.opened \in Sockets \cup {0}
      BY DEF TypeOK, Page
    <3>2. page.opened < MaxSockets
      BY DEF Connect
    <3> QED
      BY <3>1, <3>2, SessionBoundAssumption DEF Sockets
  <2> QED
    <3>1. page.opened + 1 \in Nat /\ 1 <= page.opened + 1 /\ page.opened + 1 <= MaxSockets
      BY <2>1, SessionBoundAssumption
    <3> QED
      BY <3>1, SessionBoundAssumption DEF Sockets
<1>2. page' = [p EXCEPT !.ws = s, !.opened = s, !.enabled = TRUE]
  BY DEF Connect
<1>3. page' \in Page
  BY <1>1, <1>2 DEF Page
<1>4. conn' = [c \in Sockets |->
                IF c = s THEN [conn[s] EXCEPT !.doc = p.doc, !.open = TRUE, !.handler = "receive"]
                ELSE IF c = page.ws THEN [conn[c] EXCEPT !.open = FALSE, !.wire = <<>>]
                ELSE conn[c]]
  BY DEF Connect
<1>5. \A c \in Sockets : conn[c] \in Conn
  BY DEF TypeOK
<1>6. conn'[s] = [conn[s] EXCEPT !.doc = p.doc, !.open = TRUE, !.handler = "receive"]
  BY <1>1, <1>4
<1>7. /\ conn'[s] \in Conn
      /\ conn'[s].doc = p.doc /\ conn'[s].open /\ conn'[s].handler = "receive"
      /\ conn'[s].inbox = conn[s].inbox /\ conn'[s].wire = conn[s].wire
      /\ conn'[s].serving = conn[s].serving
  BY <1>1, <1>5, <1>6 DEF Conn
<1>8. ASSUME NEW c \in Sockets \ {s}
      PROVE  /\ conn'[c] \in Conn
             /\ conn'[c].doc = conn[c].doc /\ conn'[c].inbox = conn[c].inbox
             /\ conn'[c].handler = conn[c].handler /\ conn'[c].serving = conn[c].serving
             /\ conn'[c].open => conn[c].open /\ c # page.ws
             /\ conn'[c].wire = conn[c].wire \/ conn'[c].wire = <<>>
  <2>1. CASE c = page.ws
    <3>1. conn'[c] = [conn[c] EXCEPT !.open = FALSE, !.wire = <<>>]
      BY <1>4, <2>1
    <3>2. <<>> \in Seq(Event) /\ conn[c] \in Conn
      BY <1>5
    <3>3. /\ conn'[c].doc = conn[c].doc /\ conn'[c].inbox = conn[c].inbox /\ ~conn'[c].open
          /\ conn'[c].handler = conn[c].handler /\ conn'[c].serving = conn[c].serving
          /\ conn'[c].wire = <<>>
      BY <3>1, <3>2 DEF Conn
    <3>4. conn'[c] \in Conn
      BY <3>1, <3>2 DEF Conn
    <3> QED
      BY <3>3, <3>4
  <2>2. CASE c # page.ws
    BY <1>4, <1>5, <2>2
  <2> QED
    BY <2>1, <2>2
<1>9. conn' \in [Sockets -> Conn]
  BY <1>4, <1>7, <1>8
<1> QED
  BY <1>1, <1>2, <1>3, <1>7, <1>8, <1>9 DEF Page

(* send_json.                                                                 *)
LEMMA SentEffect ==
    ASSUME NEW c \in Conn, NEW ev \in Event, NEW d \in Sent(c, ev)
    PROVE  /\ d \in Conn /\ d.doc = c.doc /\ d.open = c.open /\ d.inbox = c.inbox
           /\ c.open => d.wire = Append(c.wire, ev) /\ d.handler = c.handler /\ d.serving = c.serving
           /\ ~c.open => d.wire = c.wire /\ (d = c \/ d.handler = "gone")
<1>1. CASE c.open
  <2>1. d = [c EXCEPT !.wire = Append(@, ev)]
    BY <1>1 DEF Sent
  <2>2. Append(c.wire, ev) \in Seq(Event)
    BY AppendProperties DEF Conn
  <2> QED
    BY <1>1, <2>1, <2>2 DEF Conn
<1>2. CASE ~c.open
  <2>1. d = c \/ d = [c EXCEPT !.handler = "gone", !.serving = 0]
    BY <1>2 DEF Sent
  <2> QED
    BY <1>2, <2>1 DEF Conn
<1> QED
  BY <1>1, <1>2

(* receive_json.                                                              *)
LEMMA TakenEffect ==
    ASSUME TypeOK, NEW s \in Sockets, Reading(s)
    PROVE  /\ Taken(s) \in Conn /\ First(s) \in Asks
           /\ 1 \in DOMAIN conn[s].inbox /\ conn[s].inbox[1] = First(s)
           /\ Taken(s).doc = conn[s].doc /\ Taken(s).open = conn[s].open
           /\ Taken(s).wire = conn[s].wire /\ Taken(s).handler = "receive"
           /\ Taken(s).serving = conn[s].serving /\ Taken(s).inbox = Tail(conn[s].inbox)
<1>1. conn[s] \in Conn /\ conn[s].inbox \in Seq(Asks) /\ conn[s].inbox # <<>>
  BY DEF TypeOK, Conn, Reading
<1>2. /\ Head(conn[s].inbox) \in Asks /\ Tail(conn[s].inbox) \in Seq(Asks)
      /\ 1 \in DOMAIN conn[s].inbox /\ conn[s].inbox[1] = Head(conn[s].inbox)
  BY <1>1, HeadTailProperties
<1>3. Taken(s) = [conn[s] EXCEPT !.inbox = Tail(@)] /\ conn[s].handler = "receive"
  BY DEF Taken, Reading
<1> QED
  BY <1>1, <1>2, <1>3 DEF First, Conn

LEMMA SubmitEffect ==
    ASSUME TypeOK, NEW lane \in Lanes, NEW other \in Docs \cup {None}, Submit(lane, other)
    PROVE  LET q == page.sent + 1
           IN  /\ q \in Asks /\ page.ws \in Sockets /\ conn[page.ws].open
               /\ page' \in Page /\ page'.sent = q /\ page'.busy /\ page'.doc = page.doc
               /\ page'.loading = page.loading /\ page'.ws = page.ws /\ page'.opened = page.opened
               /\ ask' \in [Asks -> Ask] /\ ask'[q].socket = page.ws
               /\ ask'[q].worker = ask[q].worker /\ ask'[q].emitted = ask[q].emitted
               /\ \A r \in Asks \ {q} : ask'[r] = ask[r]
               /\ conn' \in [Sockets -> Conn]
               /\ conn'[page.ws].inbox = Append(conn[page.ws].inbox, q)
               /\ \A s \in Sockets :
                    /\ conn'[s].doc = conn[s].doc /\ conn'[s].open = conn[s].open
                    /\ conn'[s].wire = conn[s].wire /\ conn'[s].handler = conn[s].handler
                    /\ conn'[s].serving = conn[s].serving
               /\ \A s \in Sockets \ {page.ws} : conn'[s] = conn[s]
<1> DEFINE q == page.sent + 1
<1>1. page \in Page /\ conn \in [Sockets -> Conn] /\ ask \in [Asks -> Ask]
  BY DEF TypeOK
<1>2. page.sent < MaxAsks /\ page.ws # 0 /\ conn[page.ws].open
  BY DEF Submit, Connected
<1>3. page.ws \in Sockets /\ page.sent \in Asks \cup {0}
  BY <1>1, <1>2 DEF Page
<1>4. q \in Asks
  <2>1. q \in Nat /\ 1 <= q /\ q <= MaxAsks
    BY <1>2, <1>3, SessionBoundAssumption DEF Asks
  <2> QED
    BY <2>1, SessionBoundAssumption DEF Asks
<1>5. /\ ask' = [ask EXCEPT ![q].socket = page.ws, ![q].lane = lane, ![q].other = other]
      /\ conn' = [conn EXCEPT ![page.ws].inbox = Append(@, q)]
      /\ page' = [page EXCEPT !.sent = q, !.busy = TRUE, !.enabled = FALSE]
  BY DEF Submit
<1>6. Append(conn[page.ws].inbox, q) \in Seq(Asks)
  BY <1>1, <1>3, <1>4, AppendProperties DEF Conn
<1>7. ask' \in [Asks -> Ask]
  <2> HIDE DEF q
  <2>1. ask' = [ask EXCEPT ![q] = [ask[q] EXCEPT !.socket = page.ws, !.lane = lane, !.other = other]]
    BY <1>1, <1>4, <1>5 DEF Ask
  <2>2. [ask[q] EXCEPT !.socket = page.ws, !.lane = lane, !.other = other] \in Ask
    BY <1>1, <1>3, <1>4 DEF Ask
  <2> QED
    BY <1>1, <1>4, <2>1, <2>2
<1>8. conn' \in [Sockets -> Conn]
  BY <1>1, <1>3, <1>5, <1>6 DEF Conn
<1>9. page' \in Page
  BY <1>1, <1>4, <1>5 DEF Page
<1>10. ask'[q].socket = page.ws /\ ask'[q].worker = ask[q].worker /\ ask'[q].emitted = ask[q].emitted
  BY <1>1, <1>4, <1>5 DEF Ask
<1>11. /\ conn'[page.ws].inbox = Append(conn[page.ws].inbox, q)
       /\ conn'[page.ws].doc = conn[page.ws].doc /\ conn'[page.ws].open = conn[page.ws].open
       /\ conn'[page.ws].wire = conn[page.ws].wire /\ conn'[page.ws].handler = conn[page.ws].handler
       /\ conn'[page.ws].serving = conn[page.ws].serving
  BY <1>1, <1>3, <1>5 DEF Conn
<1>12. (\A s \in Sockets \ {page.ws} : conn'[s] = conn[s]) /\ \A r \in Asks \ {q} : ask'[r] = ask[r]
  <2>1. \A s \in Sockets \ {page.ws} : conn'[s] = conn[s]
    BY <1>1, <1>5
  <2>2. \A r \in Asks \ {q} : ask'[r] = ask[r]
    <3> HIDE DEF q
    <3> QED
      BY <1>1, <1>5
  <2> QED
    BY <2>1, <2>2
<1>13. /\ page'.sent = q /\ page'.busy /\ page'.doc = page.doc
       /\ page'.loading = page.loading /\ page'.ws = page.ws /\ page'.opened = page.opened
  BY <1>1, <1>5 DEF Page
<1> QED
  BY <1>2, <1>3, <1>4, <1>7, <1>8, <1>9, <1>10, <1>11, <1>12, <1>13

(* The page looks at the next event.                                          *)
LEMMA ReceiveEffect ==
    ASSUME TypeOK, Receive
    PROVE  LET ev == Head(conn[page.ws].wire)
           IN  /\ page.ws \in Sockets /\ conn[page.ws].open /\ conn[page.ws].wire # <<>>
               /\ ev \in Event
               /\ page' \in Page /\ page'.sent = page.sent /\ page'.doc = page.doc
               /\ page'.loading = page.loading /\ page'.ws = page.ws /\ page'.opened = page.opened
               /\ page'.busy = (page.busy /\ ev.type \notin Final)
               /\ conn' \in [Sockets -> Conn] /\ conn'[page.ws].wire = Tail(conn[page.ws].wire)
               /\ \A s \in Sockets :
                    /\ conn'[s].doc = conn[s].doc /\ conn'[s].open = conn[s].open
                    /\ conn'[s].inbox = conn[s].inbox /\ conn'[s].handler = conn[s].handler
                    /\ conn'[s].serving = conn[s].serving
               /\ \A s \in Sockets \ {page.ws} : conn'[s] = conn[s]
               /\ UNCHANGED <<status, ask, queue>>
<1>1. page \in Page /\ conn \in [Sockets -> Conn]
  BY DEF TypeOK
<1>2. page.ws # 0 /\ conn[page.ws].open /\ conn[page.ws].wire # <<>>
  BY DEF Receive, Connected
<1>3. page.ws \in Sockets
  BY <1>1, <1>2 DEF Page
<1>4. conn[page.ws].wire \in Seq(Event)
  BY <1>1, <1>3 DEF Conn
<1>5. Head(conn[page.ws].wire) \in Event /\ Tail(conn[page.ws].wire) \in Seq(Event)
  BY <1>2, <1>4, HeadTailProperties
<1>6. /\ page' = IF Head(conn[page.ws].wire).type \in Final
                 THEN [page EXCEPT !.busy = FALSE, !.enabled = TRUE] ELSE page
      /\ conn' = [conn EXCEPT ![page.ws].wire = Tail(@)]
      /\ UNCHANGED <<status, ask, queue>>
  BY DEF Receive, Final
<1>7. conn' \in [Sockets -> Conn] /\ conn'[page.ws].wire = Tail(conn[page.ws].wire)
  BY <1>1, <1>3, <1>5, <1>6 DEF Conn
<1>8. \A s \in Sockets :
         /\ conn'[s].doc = conn[s].doc /\ conn'[s].open = conn[s].open
         /\ conn'[s].inbox = conn[s].inbox /\ conn'[s].handler = conn[s].handler
         /\ conn'[s].serving = conn[s].serving
  BY <1>1, <1>3, <1>6 DEF Conn
<1>9. /\ page' \in Page /\ page'.sent = page.sent /\ page'.doc = page.doc
      /\ page'.loading = page.loading /\ page'.ws = page.ws /\ page'.opened = page.opened
      /\ page'.busy = (page.busy /\ Head(conn[page.ws].wire).type \notin Final)
  <2>1. page.busy \in BOOLEAN
    BY <1>1 DEF Page
  <2>2. CASE Head(conn[page.ws].wire).type \in Final
    BY <1>1, <1>6, <2>1, <2>2 DEF Page
  <2>3. CASE Head(conn[page.ws].wire).type \notin Final
    BY <1>1, <1>6, <2>1, <2>3
  <2> QED
    BY <2>2, <2>3
<1> QED
  BY <1>1, <1>2, <1>3, <1>5, <1>6, <1>7, <1>8, <1>9

(* The next event of the bridge.                                              *)
LEMMA ForwardEffect ==
    ASSUME TypeOK, NEW s \in Sockets, conn[s].serving \in Asks, Forward(s)
    PROVE  LET q == conn[s].serving
               ev == Head(queue[q])
           IN  /\ conn[s].handler = "stream" /\ queue[q] # <<>> /\ ev \in Event
               /\ queue' \in [Asks -> Seq(Event)] /\ conn' \in [Sockets -> Conn]
               /\ \A r \in Asks \ {q} : queue'[r] = queue[r]
               /\ queue'[q] \in {Tail(queue[q]), <<>>}
               /\ \A t \in Sockets \ {s} : conn'[t] = conn[t]
               /\ conn'[s].doc = conn[s].doc /\ conn'[s].open = conn[s].open
               /\ conn'[s].inbox = conn[s].inbox
               /\ ev.type = "DONE" => /\ conn'[s].handler = "receive" /\ conn'[s].wire = conn[s].wire
                                      /\ queue'[q] = Tail(queue[q])
               /\ ev.type # "DONE" /\ conn[s].open =>
                    /\ conn'[s].handler = "stream" /\ conn'[s].serving = q
                    /\ conn'[s].wire = Append(conn[s].wire, ev) /\ queue'[q] = Tail(queue[q])
               /\ ev.type # "DONE" /\ ~conn[s].open =>
                    conn'[s] = conn[s] \/ conn'[s].handler = "gone"
<1> DEFINE q == conn[s].serving
           ev == Head(queue[q])
<1>1. /\ conn[s] \in Conn /\ conn \in [Sockets -> Conn] /\ queue \in [Asks -> Seq(Event)]
      /\ conn[s].handler = "stream" /\ queue[q] # <<>>
  BY DEF TypeOK, Forward
<1>2. ev \in Event /\ Tail(queue[q]) \in Seq(Event) /\ <<>> \in Seq(Event)
  BY <1>1, HeadTailProperties
<1>3. PICK c \in IF ev.type = "DONE" THEN {[conn[s] EXCEPT !.handler = "receive", !.serving = 0]}
                 ELSE Sent(conn[s], ev) :
        /\ conn' = [conn EXCEPT ![s] = c]
        /\ queue' = [queue EXCEPT ![q] = IF c.handler = "gone" THEN <<>> ELSE Tail(@)]
  BY DEF Forward
<1>4. queue'[q] = (IF c.handler = "gone" THEN <<>> ELSE Tail(queue[q]))
  BY <1>1, <1>3
<1>5. queue' \in [Asks -> Seq(Event)] /\ \A r \in Asks \ {q} : queue'[r] = queue[r]
  <2> HIDE DEF q
  <2>1. (IF c.handler = "gone" THEN <<>> ELSE Tail(queue[q])) \in Seq(Event)
    BY <1>2
  <2>2. queue' = [queue EXCEPT ![q] = IF c.handler = "gone" THEN <<>> ELSE Tail(queue[q])]
    BY <1>3
  <2> QED
    BY <1>1, <2>1, <2>2
<1>6. conn'[s] = c /\ \A t \in Sockets \ {s} : conn'[t] = conn[t]
  BY <1>1, <1>3
<1>7. CASE ev.type = "DONE"
  <2>1. c = [conn[s] EXCEPT !.handler = "receive", !.serving = 0]
    BY <1>3, <1>7
  <2>2. /\ c \in Conn /\ c.handler = "receive" /\ c.doc = conn[s].doc /\ c.open = conn[s].open
        /\ c.inbox = conn[s].inbox /\ c.wire = conn[s].wire
    BY <1>1, <2>1 DEF Conn
  <2>3. conn' \in [Sockets -> Conn]
    BY <1>1, <1>3, <2>2
  <2> QED
    BY <1>1, <1>2, <1>4, <1>5, <1>6, <1>7, <2>2, <2>3
<1>8. CASE ev.type # "DONE"
  <2>1. c \in Sent(conn[s], ev)
    BY <1>3, <1>8
  <2>2. /\ c \in Conn /\ c.doc = conn[s].doc /\ c.open = conn[s].open /\ c.inbox = conn[s].inbox
        /\ conn[s].open => /\ c.wire = Append(conn[s].wire, ev) /\ c.handler = conn[s].handler
                           /\ c.serving = conn[s].serving
        /\ ~conn[s].open => c = conn[s] \/ c.handler = "gone"
    BY <1>1, <1>2, <2>1, SentEffect
  <2>3. conn' \in [Sockets -> Conn]
    BY <1>1, <1>3, <2>2
  <2> QED
    BY <1>1, <1>2, <1>4, <1>5, <1>6, <1>8, <2>2, <2>3
<1> QED
  BY <1>7, <1>8

LEMMA PutEffect ==
    ASSUME TypeOK, NEW q \in Asks, NEW events \in Seq(Event), Put(q, events)
    PROVE  /\ queue' \in [Asks -> Seq(Event)] /\ \A r \in Asks \ {q} : queue'[r] = queue[r]
           /\ \/ queue'[q] = queue[q] /\ conn[ask[q].socket].handler = "gone"
              \/ queue'[q] = queue[q] \o events
<1>1. queue \in [Asks -> Seq(Event)]
  BY DEF TypeOK
<1>2. queue[q] \o events \in Seq(Event)
  BY <1>1, ConcatProperties
<1>3. \/ queue' = queue /\ conn[ask[q].socket].handler = "gone"
      \/ queue' = [queue EXCEPT ![q] = queue[q] \o events]
  BY DEF Put
<1> QED
  BY <1>1, <1>2, <1>3

(* What a worker says next, and whether it ends with it.                       *)
LEMMA WorkerEffect ==
    ASSUME TypeOK, NEW q \in Asks, Worker(q)
    PROVE  /\ Running(q) /\ ask' \in [Asks -> Ask] /\ queue' \in [Asks -> Seq(Event)]
           /\ \A r \in Asks \ {q} : ask'[r] = ask[r] /\ queue'[r] = queue[r]
           /\ ask'[q].socket = ask[q].socket /\ ask'[q].lane = ask[q].lane
           /\ UNCHANGED <<status, page, panel, conn>>
           /\ \E events \in Seq(Event) :
                /\ \/ queue'[q] = queue[q] /\ conn[ask[q].socket].handler = "gone"
                   \/ queue'[q] = queue[q] \o events
                /\ \/ /\ ask[q].emitted < Len(Script(q)) /\ ask'[q].emitted = ask[q].emitted + 1
                      /\ ask'[q].worker = "running" /\ events = <<Script(q)[ask[q].emitted + 1]>>
                   \/ /\ ask[q].emitted = Len(Script(q)) /\ ask'[q].worker = "ended"
                      /\ ask'[q].emitted = ask[q].emitted /\ events = <<Sentinel(q)>>
                   \/ /\ ask[q].emitted < Len(Script(q)) /\ ask'[q].worker = "ended"
                      /\ ask'[q].emitted = ask[q].emitted /\ events = <<Error(q), Sentinel(q)>>
<1>1. ask \in [Asks -> Ask] /\ ask[q] \in Ask /\ ask[q].emitted \in Nat
  BY DEF TypeOK, Ask
<1>2. Error(q) \in Event /\ Sentinel(q) \in Event
  BY DEF Error, Sentinel, Event, Type
<1>3. CASE Yield(q)
  <2>1. ask[q].emitted < Len(Script(q)) /\ Running(q)
    BY <1>3 DEF Yield
  <2>2. Script(q)[ask[q].emitted + 1] \in Event
    BY <1>1, <2>1, ScriptFacts
  <2>3. <<Script(q)[ask[q].emitted + 1]>> \in Seq(Event)
    BY <2>2
  <2>4. Put(q, <<Script(q)[ask[q].emitted + 1]>>) /\ ask' = [ask EXCEPT ![q].emitted = @ + 1]
    BY <1>3 DEF Yield
  <2>5. /\ ask' \in [Asks -> Ask] /\ ask'[q].emitted = ask[q].emitted + 1
        /\ ask'[q].worker = "running" /\ ask'[q].socket = ask[q].socket /\ ask'[q].lane = ask[q].lane
    BY <1>1, <2>1, <2>4 DEF Ask, Running
  <2>6. \A r \in Asks \ {q} : ask'[r] = ask[r]
    BY <1>1, <2>4
  <2>7. UNCHANGED <<status, page, panel, conn>>
    BY <1>3 DEF Yield
  <2> QED
    BY <2>1, <2>3, <2>4, <2>5, <2>6, <2>7, PutEffect
<1>4. ASSUME NEW events \in Seq(Event), Put(q, events), Running(q),
             ask' = [ask EXCEPT ![q].worker = "ended"]
      PROVE  /\ ask' \in [Asks -> Ask] /\ ask'[q].emitted = ask[q].emitted
             /\ ask'[q].worker = "ended" /\ ask'[q].socket = ask[q].socket /\ ask'[q].lane = ask[q].lane
             /\ \A r \in Asks \ {q} : ask'[r] = ask[r]
  BY <1>1, <1>4 DEF Ask
<1>5. CASE Exhausted(q)
  <2>1. <<Sentinel(q)>> \in Seq(Event)
    BY <1>2
  <2>2. /\ Put(q, <<Sentinel(q)>>) /\ Running(q) /\ ask' = [ask EXCEPT ![q].worker = "ended"]
        /\ ask[q].emitted = Len(Script(q)) /\ UNCHANGED <<status, page, panel, conn>>
    BY <1>5 DEF Exhausted
  <2> QED
    BY <1>4, <2>1, <2>2, PutEffect
<1>6. CASE Raises(q)
  <2>1. <<Error(q), Sentinel(q)>> \in Seq(Event)
    BY <1>2
  <2>2. /\ Put(q, <<Error(q), Sentinel(q)>>) /\ Running(q) /\ ask' = [ask EXCEPT ![q].worker = "ended"]
        /\ ask[q].emitted < Len(Script(q)) /\ UNCHANGED <<status, page, panel, conn>>
    BY <1>6 DEF Raises, CanRaise
  <2> QED
    BY <1>4, <2>1, <2>2, PutEffect
<1> QED
  BY <1>3, <1>5, <1>6 DEF Worker

(* The handler takes the next question and refuses it, or accepts it.           *)
LEMMA RefuseEffect ==
    ASSUME TypeOK, NEW s \in Sockets, Refuse(s)
    PROVE  /\ Reading(s) /\ conn' \in [Sockets -> Conn]
           /\ \A t \in Sockets \ {s} : conn'[t] = conn[t]
           /\ conn'[s].doc = conn[s].doc /\ conn'[s].open = conn[s].open
           /\ conn'[s].inbox = Tail(conn[s].inbox)
           /\ conn[s].open => /\ conn'[s].handler = "receive"
                              /\ conn'[s].wire = Append(conn[s].wire, Error(First(s)))
           /\ ~conn[s].open => conn'[s].handler \in {"receive", "gone"}
           /\ UNCHANGED <<status, page, panel, ask, queue>>
<1>1. Reading(s) /\ conn \in [Sockets -> Conn]
  BY DEF Refuse, TypeOK
<1>2. PICK c \in Sent(Taken(s), Error(First(s))) : conn' = [conn EXCEPT ![s] = c]
  BY DEF Refuse
<1>3. Error(First(s)) \in Event
  BY <1>1, TakenEffect DEF Error, Event, Type
<1>4. /\ c \in Conn /\ c.doc = Taken(s).doc /\ c.open = Taken(s).open /\ c.inbox = Taken(s).inbox
      /\ Taken(s).open => c.wire = Append(Taken(s).wire, Error(First(s))) /\ c.handler = Taken(s).handler
      /\ ~Taken(s).open => c = Taken(s) \/ c.handler = "gone"
  BY <1>1, <1>3, TakenEffect, SentEffect
<1>5. conn'[s] = c /\ conn' \in [Sockets -> Conn] /\ \A t \in Sockets \ {s} : conn'[t] = conn[t]
  BY <1>1, <1>2, <1>4
<1>6. UNCHANGED <<status, page, panel, ask, queue>>
  BY DEF Refuse
<1> QED
  BY <1>1, <1>4, <1>5, <1>6, TakenEffect

LEMMA AcceptEffect ==
    ASSUME TypeOK, NEW s \in Sockets, Accept(s)
    PROVE  /\ Reading(s) /\ conn' \in [Sockets -> Conn] /\ ask' \in [Asks -> Ask]
           /\ \A t \in Sockets \ {s} : conn'[t] = conn[t]
           /\ conn'[s].doc = conn[s].doc /\ conn'[s].open = conn[s].open
           /\ conn'[s].inbox = Tail(conn[s].inbox) /\ conn'[s].wire = conn[s].wire
           /\ conn'[s].handler = "stream" /\ conn'[s].serving = First(s)
           /\ ask'[First(s)].worker = "running" /\ ask'[First(s)].socket = ask[First(s)].socket
           /\ ask'[First(s)].lane = ask[First(s)].lane
           /\ ask'[First(s)].emitted = ask[First(s)].emitted
           /\ \A r \in Asks \ {First(s)} : ask'[r] = ask[r]
           /\ UNCHANGED <<status, page, panel, queue>>
<1>1. Reading(s) /\ conn \in [Sockets -> Conn] /\ ask \in [Asks -> Ask] /\ First(s) \in Asks
  BY TakenEffect DEF Accept, TypeOK
<1>2. /\ conn' = [conn EXCEPT ![s] = [Taken(s) EXCEPT !.handler = "stream", !.serving = First(s)]]
      /\ ask' = [ask EXCEPT ![First(s)].worker = "running"]
      /\ UNCHANGED <<status, page, panel, queue>>
  BY DEF Accept
<1>3. conn'[s] = [Taken(s) EXCEPT !.handler = "stream", !.serving = First(s)]
  BY <1>1, <1>2
<1>4. Taken(s) \in Conn
  BY <1>1, TakenEffect
<1>5. /\ conn'[s] \in Conn /\ conn'[s].handler = "stream" /\ conn'[s].serving = First(s)
      /\ conn'[s].doc = Taken(s).doc /\ conn'[s].open = Taken(s).open
      /\ conn'[s].inbox = Taken(s).inbox /\ conn'[s].wire = Taken(s).wire
  BY <1>1, <1>3, <1>4 DEF Conn
<1>6. conn' \in [Sockets -> Conn] /\ \A t \in Sockets \ {s} : conn'[t] = conn[t]
  BY <1>1, <1>2, <1>3, <1>5
<1>7. /\ ask' \in [Asks -> Ask] /\ \A r \in Asks \ {First(s)} : ask'[r] = ask[r]
      /\ ask'[First(s)].worker = "running" /\ ask'[First(s)].socket = ask[First(s)].socket
      /\ ask'[First(s)].lane = ask[First(s)].lane /\ ask'[First(s)].emitted = ask[First(s)].emitted
  BY <1>1, <1>2 DEF Ask
<1> QED
  BY <1>1, <1>2, <1>5, <1>6, <1>7, TakenEffect

(* A connection breaks, and the handler of a broken one ends.                   *)
LEMMA EndEffect ==
    ASSUME TypeOK, NEW s \in Sockets, Drop(s) \/ Disconnect(s)
    PROVE  /\ conn' \in [Sockets -> Conn] /\ \A t \in Sockets \ {s} : conn'[t] = conn[t]
           /\ conn'[s].doc = conn[s].doc /\ conn'[s].serving = conn[s].serving /\ ~conn'[s].open
           /\ conn'[s].inbox \in {conn[s].inbox, <<>>} /\ conn'[s].wire \in {conn[s].wire, <<>>}
           /\ conn'[s].handler = conn[s].handler \/ conn'[s].handler = "gone"
           /\ conn[s].open \/ conn[s].handler = "receive"
           /\ UNCHANGED <<status, page, panel, ask, queue>>
<1>1. conn \in [Sockets -> Conn] /\ conn[s] \in Conn
  BY DEF TypeOK
<1>2. CASE Drop(s)
  <2>1. PICK left \in {<<>>, conn[s].inbox} :
          conn' = [conn EXCEPT ![s].open = FALSE, ![s].wire = <<>>, ![s].inbox = left]
    BY <1>2 DEF Drop
  <2>2. <<>> \in Seq(Event) /\ left \in Seq(Asks)
    <3>1. conn[s].inbox \in Seq(Asks)
      BY <1>1 DEF Conn
    <3>2. <<>> \in Seq(Event) /\ <<>> \in Seq(Asks)
      OBVIOUS
    <3> QED
      BY <3>1, <3>2, Zenon
  <2>3. conn'[s] = [conn[s] EXCEPT !.open = FALSE, !.wire = <<>>, !.inbox = left]
    BY <1>1, <2>1 DEF Conn
  <2>4. /\ conn'[s] \in Conn /\ conn'[s].doc = conn[s].doc /\ conn'[s].serving = conn[s].serving
        /\ ~conn'[s].open /\ conn'[s].inbox = left /\ conn'[s].wire = <<>>
        /\ conn'[s].handler = conn[s].handler
    BY <1>1, <2>2, <2>3 DEF Conn
  <2>5. conn' \in [Sockets -> Conn] /\ \A t \in Sockets \ {s} : conn'[t] = conn[t]
    BY <1>1, <2>1, <2>4
  <2>6. conn[s].open /\ UNCHANGED <<status, page, panel, ask, queue>>
    BY <1>2 DEF Drop
  <2> QED
    BY <2>4, <2>5, <2>6
<1>3. CASE Disconnect(s)
  <2>1. /\ conn' = [conn EXCEPT ![s].handler = "gone"] /\ ~conn[s].open /\ conn[s].handler = "receive"
        /\ UNCHANGED <<status, page, panel, ask, queue>>
    BY <1>3 DEF Disconnect
  <2> QED
    BY <1>1, <2>1 DEF Conn
<1> QED
  BY <1>2, <1>3

(* A document is loaded: the page connects to it, or waits for it.              *)
LEMMA LoadEffect ==
    ASSUME TypeOK, Fresh, NEW d \in Docs, LoadDoc(d) \/ WaitReady(d)
    PROVE  /\ status' \in [Docs -> {"absent", "parsing", "ready", "error"}]
           /\ UNCHANGED <<panel, ask, queue>>
           /\ page'.sent = page.sent /\ page'.busy = page.busy
           /\ page'.loading # {} => page'.doc \in Docs
           /\ \/ \E p \in Page : /\ p.doc \in Docs /\ p.opened = page.opened /\ p.sent = page.sent
                                 /\ p.busy = page.busy /\ Connect(p)
              \/ /\ page' \in Page /\ page'.ws = page.ws /\ page'.opened = page.opened
                 /\ UNCHANGED conn
<1>1. page \in Page /\ status \in [Docs -> {"absent", "parsing", "ready", "error"}]
  BY DEF TypeOK
<1>2. CASE LoadDoc(d)
  <2> DEFINE p == [page EXCEPT !.doc = d]
  <2>1. p \in Page /\ p.doc = d /\ p.opened = page.opened /\ p.sent = page.sent /\ p.busy = page.busy
    BY <1>1 DEF Page
  <2>2. UNCHANGED <<panel, ask, queue>> /\ status' \in [Docs -> {"absent", "parsing", "ready", "error"}]
    BY <1>1, <1>2 DEF LoadDoc
  <2>3. Connect(p) \/ (page' = [p EXCEPT !.loading = @ \cup {d}] /\ UNCHANGED conn)
    BY <1>2 DEF LoadDoc
  <2>4. CASE Connect(p)
    <3>1. page'.sent = page.sent /\ page'.busy = page.busy /\ page'.doc = d
      <4> HIDE DEF p
      <4> QED
        BY <2>1, <2>4, ConnectEffect
    <3> QED
      BY <2>1, <2>2, <2>4, <3>1
  <2>5. CASE page' = [p EXCEPT !.loading = @ \cup {d}] /\ UNCHANGED conn
    BY <1>1, <2>2, <2>5 DEF Page
  <2> QED
    BY <2>3, <2>4, <2>5
<1>3. CASE WaitReady(d)
  <2> DEFINE p == [page EXCEPT !.loading = @ \ {d}]
  <2>1. page.doc \in Docs
    BY <1>3 DEF WaitReady, Fresh
  <2>2. /\ p \in Page /\ p.doc = page.doc /\ p.opened = page.opened /\ p.sent = page.sent
        /\ p.busy = page.busy /\ p.ws = page.ws
    BY <1>1 DEF Page
  <2>3. UNCHANGED <<panel, ask, queue, status>> /\ (Connect(p) \/ (page' = p /\ UNCHANGED conn))
    BY <1>3 DEF WaitReady
  <2>4. CASE Connect(p)
    <3>1. page'.sent = page.sent /\ page'.busy = page.busy /\ page'.doc = page.doc
      BY <2>1, <2>2, <2>4, ConnectEffect
    <3> QED
      BY <1>1, <2>1, <2>2, <2>3, <2>4, <3>1
  <2>5. CASE page' = p /\ UNCHANGED conn
    BY <1>1, <2>1, <2>2, <2>3, <2>5
  <2> QED
    BY <2>3, <2>4, <2>5
<1> QED
  BY <1>2, <1>3

-----------------------------------------------------------------------------
(* The invariant.                                                             *)

LEMMA InitIInv == Init => IInv
<1> SUFFICES ASSUME Init PROVE IInv
  OBVIOUS
<1>1. /\ <<>> \in Seq(Asks) /\ <<>> \in Seq(Event) /\ 0 \in Nat
      /\ None \in Docs \cup {None} /\ 0 \in Sockets \cup {0} /\ 0 \in Asks \cup {0}
  OBVIOUS
<1>2. /\ status \in [Docs -> {"absent", "parsing", "ready", "error"}]
      /\ panel \in [Lanes -> [ask : Asks \cup {0}, rows : Nat]]
      /\ queue \in [Asks -> Seq(Event)]
  BY DEF Init
<1>3. page \in Page
  BY DEF Init, Page
<1>4. conn \in [Sockets -> Conn]
  BY <1>1 DEF Init, Conn
<1>5. ask \in [Asks -> Ask]
  BY <1>1 DEF Init, Ask, Lanes
<1>6. TypeOK
  BY <1>2, <1>3, <1>4, <1>5 DEF TypeOK, Init
<1>7. Fresh /\ Waiting
  BY DEF Init, Fresh, Waiting
<1>8. Attended /\ DoneIsLast /\ OneRunPerSocket
  BY DEF Init, Attended, DoneIsLast, OneRunPerSocket, Running
<1> QED
  BY <1>6, <1>7, <1>8 DEF IInv

LEMMA StepType == IInv /\ [Next]_vars => TypeOK'
<1> SUFFICES ASSUME IInv, [Next]_vars PROVE TypeOK'
  OBVIOUS
<1>0. TypeOK /\ Fresh /\ Attended
  BY DEF IInv
<1>1. ASSUME NEW d \in Docs, LoadDoc(d) \/ WaitReady(d)
      PROVE  TypeOK'
  <2>1. CASE page' \in Page /\ UNCHANGED conn
    BY <1>0, <1>1, <2>1, LoadEffect DEF TypeOK
  <2>2. ASSUME NEW p \in Page, p.doc \in Docs, p.opened = page.opened, Connect(p)
        PROVE  TypeOK'
    <3>1. \A s \in Sockets : conn'[s].open => conn'[s].doc \in Docs
      BY <1>0, <2>2, ConnectEffect DEF TypeOK
    <3>2. page' \in Page /\ conn' \in [Sockets -> Conn]
      BY <1>0, <2>2, ConnectEffect
    <3>3. status' \in [Docs -> {"absent", "parsing", "ready", "error"}] /\ UNCHANGED <<panel, ask, queue>>
      BY <1>0, <1>1, LoadEffect
    <3> QED
      BY <1>0, <3>1, <3>2, <3>3 DEF TypeOK
  <2> QED
    BY <1>0, <1>1, <2>1, <2>2, LoadEffect
<1>2. ASSUME NEW d \in Docs, Ingested(d)
      PROVE  TypeOK'
  BY <1>0, <1>2 DEF Ingested, TypeOK
<1>3. ASSUME NEW lane \in Lanes, NEW other \in Docs \cup {None}, Submit(lane, other)
      PROVE  TypeOK'
  <2>1. UNCHANGED <<status, panel, queue>>
    BY <1>3 DEF Submit
  <2>2. \A s \in Sockets : conn'[s].open => conn'[s].doc \in Docs
    BY <1>0, <1>3, SubmitEffect DEF TypeOK
  <2> QED
    BY <1>0, <1>3, <2>1, <2>2, SubmitEffect DEF TypeOK
<1>4. ASSUME Receive
      PROVE  TypeOK'
  <2>1. panel' \in [Lanes -> [ask : Asks \cup {0}, rows : Nat]]
    <3> DEFINE ev == Head(conn[page.ws].wire)
               l == ask[ev.ask].lane
    <3>1. ev \in Event
      BY <1>0, <1>4, ReceiveEffect
    <3>2. l \in Lanes /\ ev.ask \in Asks
      <4>1. ev.ask \in Asks
        BY <3>1 DEF Event
      <4>2. ask[ev.ask] \in Ask
        BY <1>0, <4>1 DEF TypeOK
      <4> QED
        BY <4>1, <4>2 DEF Ask
    <3>3. panel' = [panel EXCEPT ![l] = Shown(ev, l)]
      BY <1>4 DEF Receive
    <3>4. panel[l] \in [ask : Asks \cup {0}, rows : Nat]
      BY <1>0, <3>2 DEF TypeOK
    <3>5. Shown(ev, l) \in [ask : Asks \cup {0}, rows : Nat]
      <4>1. Shown(ev, l) \in {[ask |-> ev.ask, rows |-> 0], [panel[l] EXCEPT !.rows = @ + 1], panel[l]}
        BY DEF Shown
      <4> HIDE DEF ev, l
      <4> QED
        BY <3>2, <3>4, <4>1
    <3> HIDE DEF l
    <3> QED
      BY <1>0, <3>3, <3>5 DEF TypeOK
  <2>2. \A s \in Sockets : conn'[s].open => conn'[s].doc \in Docs
    BY <1>0, <1>4, ReceiveEffect DEF TypeOK
  <2> QED
    BY <1>0, <1>4, <2>1, <2>2, ReceiveEffect DEF TypeOK
<1>5. ASSUME NEW s \in Sockets, Drop(s) \/ Disconnect(s)
      PROVE  TypeOK'
  <2>1. \A t \in Sockets : conn'[t].open => conn'[t].doc \in Docs
    BY <1>0, <1>5, EndEffect DEF TypeOK
  <2> QED
    BY <1>0, <1>5, <2>1, EndEffect DEF TypeOK
<1>6. ASSUME NEW s \in Sockets, Refuse(s)
      PROVE  TypeOK'
  <2>1. \A t \in Sockets : conn'[t].open => conn'[t].doc \in Docs
    BY <1>0, <1>6, RefuseEffect DEF TypeOK
  <2> QED
    BY <1>0, <1>6, <2>1, RefuseEffect DEF TypeOK
<1>7. ASSUME NEW s \in Sockets, Accept(s)
      PROVE  TypeOK'
  <2>1. \A t \in Sockets : conn'[t].open => conn'[t].doc \in Docs
    BY <1>0, <1>7, AcceptEffect DEF TypeOK
  <2> QED
    BY <1>0, <1>7, <2>1, AcceptEffect DEF TypeOK
<1>8. ASSUME NEW s \in Sockets, Forward(s)
      PROVE  TypeOK'
  <2>1. conn[s].serving \in Asks
    BY <1>0, <1>8 DEF Forward, Attended
  <2>2. \A t \in Sockets : conn'[t].open => conn'[t].doc \in Docs
    BY <1>0, <1>8, <2>1, ForwardEffect DEF TypeOK
  <2>3. UNCHANGED <<status, page, panel, ask>>
    BY <1>8 DEF Forward
  <2> QED
    BY <1>0, <1>8, <2>1, <2>2, <2>3, ForwardEffect DEF TypeOK
<1>9. ASSUME NEW q \in Asks, Worker(q)
      PROVE  TypeOK'
  BY <1>0, <1>9, WorkerEffect DEF TypeOK
<1>10. CASE UNCHANGED vars
  BY <1>0, <1>10 DEF vars, TypeOK
<1> QED
  BY <1>1, <1>2, <1>3, <1>4, <1>5, <1>6, <1>7, <1>8, <1>9, <1>10 DEF Next, User, Handler

LEMMA StepFresh == IInv /\ [Next]_vars => Fresh'
<1> SUFFICES ASSUME IInv, [Next]_vars PROVE Fresh'
  OBVIOUS
<1>0. TypeOK /\ Fresh /\ Attended
  BY DEF IInv
<1>1. ASSUME NEW d \in Docs, LoadDoc(d) \/ WaitReady(d)
      PROVE  Fresh'
  <2>1. page'.loading # {} => page'.doc \in Docs
    BY <1>0, <1>1, LoadEffect
  <2>2. CASE page'.ws = page.ws /\ page'.opened = page.opened /\ UNCHANGED conn
    BY <1>0, <2>1, <2>2 DEF Fresh
  <2>3. ASSUME NEW p \in Page, p.doc \in Docs, p.opened = page.opened, Connect(p)
        PROVE  Fresh'
    <3>1. page.opened \in Nat /\ \A s \in Sockets : s \in Nat
      BY <1>0, SessionBoundAssumption DEF TypeOK, Page, Sockets
    <3> QED
      BY <1>0, <2>1, <2>3, <3>1, ConnectEffect DEF Fresh
  <2> QED
    BY <1>0, <1>1, <2>2, <2>3, LoadEffect
<1>2. ASSUME UNCHANGED page,
             \A s \in Sockets : \/ conn'[s] = conn[s]
                                \/ conn'[s].handler # "none" /\ s <= page.opened
      PROVE  Fresh'
  <2>1. page.opened \in Nat /\ \A s \in Sockets : s \in Nat
    BY <1>0, SessionBoundAssumption DEF TypeOK, Page, Sockets
  <2> QED
    BY <1>0, <1>2, <2>1 DEF Fresh
<1>3. ASSUME NEW s \in Sockets, conn[s].open \/ conn[s].handler # "none"
      PROVE  s <= page.opened
  <2>1. page.opened \in Nat /\ s \in Nat
    BY <1>0, SessionBoundAssumption DEF TypeOK, Page, Sockets
  <2> QED
    BY <1>0, <1>3, <2>1 DEF Fresh
<1>4. ASSUME NEW lane \in Lanes, NEW other \in Docs \cup {None}, Submit(lane, other)
      PROVE  Fresh'
  <2>1. page.opened \in Nat /\ \A s \in Sockets : s \in Nat
    BY <1>0, SessionBoundAssumption DEF TypeOK, Page, Sockets
  <2> QED
    BY <1>0, <1>4, <2>1, SubmitEffect DEF Fresh
<1>5. ASSUME Receive
      PROVE  Fresh'
  <2>1. page.opened \in Nat /\ \A s \in Sockets : s \in Nat
    BY <1>0, SessionBoundAssumption DEF TypeOK, Page, Sockets
  <2> QED
    BY <1>0, <1>5, <2>1, ReceiveEffect DEF Fresh
<1>6. ASSUME NEW s \in Sockets, Drop(s) \/ Handler(s)
      PROVE  Fresh'
  <2>1. CASE Drop(s) \/ Disconnect(s)
    <3>1. s <= page.opened
      BY <1>0, <1>3, <2>1, EndEffect
    <3>2. page.opened \in Nat /\ \A t \in Sockets : t \in Nat
      BY <1>0, SessionBoundAssumption DEF TypeOK, Page, Sockets
    <3> QED
      BY <1>0, <2>1, <3>1, <3>2, EndEffect DEF Fresh
  <2>2. CASE Refuse(s)
    BY <1>0, <1>2, <1>3, <2>2, RefuseEffect DEF Reading
  <2>3. CASE Accept(s)
    BY <1>0, <1>2, <1>3, <2>3, AcceptEffect DEF Reading
  <2>4. CASE Forward(s)
    <3>1. conn[s].serving \in Asks /\ conn[s].handler = "stream"
      BY <1>0, <2>4 DEF Forward, Attended
    <3>2. conn'[s].handler # "none" \/ conn'[s] = conn[s]
      BY <1>0, <2>4, <3>1, ForwardEffect
    <3>3. UNCHANGED page /\ \A t \in Sockets \ {s} : conn'[t] = conn[t]
      BY <1>0, <2>4, <3>1, ForwardEffect DEF Forward
    <3> QED
      BY <1>2, <1>3, <3>1, <3>2, <3>3
  <2> QED
    BY <1>6, <2>1, <2>2, <2>3, <2>4 DEF Handler
<1>7. CASE UNCHANGED <<page, conn>>
  BY <1>2, <1>7
<1> QED
  BY <1>1, <1>4, <1>5, <1>6, <1>7, WorkerEffect, <1>0 DEF Next, User, Ingested, vars

LEMMA TailIndices ==
    ASSUME NEW S, NEW seq \in Seq(S), seq # <<>>
    PROVE  /\ Tail(seq) \in Seq(S) /\ 1 \in DOMAIN seq /\ seq[1] = Head(seq) /\ Head(seq) \in S
           /\ Len(Tail(seq)) = Len(seq) - 1 /\ Len(seq) \in Nat \ {0}
           /\ DOMAIN seq = 1..Len(seq) /\ DOMAIN Tail(seq) = 1..(Len(seq) - 1)
           /\ \A i \in DOMAIN Tail(seq) :
                i + 1 \in DOMAIN seq /\ i + 1 # 1 /\ Tail(seq)[i] = seq[i + 1]
<1>1. Len(seq) \in Nat \ {0} /\ DOMAIN seq = 1..Len(seq)
  BY EmptySeq, LenProperties
<1>2. Tail(seq) \in Seq(S) /\ Len(Tail(seq)) = Len(seq) - 1 /\ Head(seq) \in S /\ seq[1] = Head(seq)
  BY HeadTailProperties
<1>3. DOMAIN Tail(seq) = 1..(Len(seq) - 1)
  BY <1>2, LenProperties
<1>4. \A i \in 1..(Len(seq) - 1) : Tail(seq)[i] = seq[i + 1]
  BY <1>1, HeadTailProperties
<1> QED
  BY <1>1, <1>2, <1>3, <1>4

LEMMA AppendIndices ==
    ASSUME NEW S, NEW seq \in Seq(S), NEW x \in S
    PROVE  /\ Append(seq, x) \in Seq(S) /\ Len(Append(seq, x)) = Len(seq) + 1
           /\ Len(seq) \in Nat /\ DOMAIN seq = 1..Len(seq)
           /\ DOMAIN Append(seq, x) = 1..(Len(seq) + 1)
           /\ Append(seq, x)[Len(seq) + 1] = x
           /\ \A i \in DOMAIN seq : Append(seq, x)[i] = seq[i] /\ i \in DOMAIN Append(seq, x)
           /\ \A i \in DOMAIN Append(seq, x) : i # Len(seq) + 1 => i \in DOMAIN seq
<1>1. /\ Append(seq, x) \in Seq(S) /\ Len(Append(seq, x)) = Len(seq) + 1
      /\ Append(seq, x)[Len(seq) + 1] = x
      /\ \A i \in 1..Len(seq) : Append(seq, x)[i] = seq[i]
  BY AppendProperties
<1>2. Len(seq) \in Nat /\ DOMAIN seq = 1..Len(seq)
  BY LenProperties
<1>3. DOMAIN Append(seq, x) = 1..(Len(seq) + 1)
  BY <1>1, LenProperties
<1> QED
  BY <1>1, <1>2, <1>3

LEMMA StepWaiting == IInv /\ [Next]_vars => Waiting'
<1> SUFFICES ASSUME IInv, [Next]_vars PROVE Waiting'
  OBVIOUS
<1>0. TypeOK /\ Fresh /\ Waiting /\ Attended
  BY DEF IInv
<1>1. /\ page.sent \in Nat /\ (\A q \in Asks : q \in Nat) /\ (\A s \in Sockets : s # 0)
      /\ \A s \in Sockets : conn[s].inbox \in Seq(Asks)
      /\ queue \in [Asks -> Seq(Event)]
  BY <1>0, SessionBoundAssumption DEF TypeOK, Page, Asks, Sockets, Conn
<1>2. ASSUME UNCHANGED <<ask, queue>>, page'.sent = page.sent,
             \A s \in Sockets : conn'[s].inbox = conn[s].inbox \/ conn'[s].inbox = <<>>
      PROVE  Waiting'
  BY <1>0, <1>2 DEF Waiting
<1>3. ASSUME NEW d \in Docs, LoadDoc(d) \/ WaitReady(d)
      PROVE  Waiting'
  <2>1. UNCHANGED <<ask, queue>> /\ page'.sent = page.sent
    BY <1>0, <1>3, LoadEffect
  <2>2. \A s \in Sockets : conn'[s].inbox = conn[s].inbox
    BY <1>0, <1>3, LoadEffect, ConnectEffect
  <2> QED
    BY <1>2, <2>1, <2>2
<1>4. ASSUME NEW lane \in Lanes, NEW other \in Docs \cup {None}, Submit(lane, other)
      PROVE  Waiting'
  <2> DEFINE q == page.sent + 1
             w == page.ws
  <2>1. /\ q \in Asks /\ w \in Sockets /\ page'.sent = q /\ UNCHANGED queue
        /\ ask'[q].socket = w /\ ask'[q].worker = ask[q].worker
        /\ \A r \in Asks \ {q} : ask'[r] = ask[r]
        /\ conn'[w].inbox = Append(conn[w].inbox, q)
        /\ \A s \in Sockets \ {w} : conn'[s] = conn[s]
    <3>1. UNCHANGED queue
      BY <1>4 DEF Submit
    <3> QED
      BY <1>0, <1>4, <3>1, SubmitEffect
  <2>2. q > page.sent /\ q \in Nat
    BY <1>1
  <2> HIDE DEF q, w
  <2>3. \A r \in Asks : r > q => ask'[r].worker = "none" /\ ask'[r].socket = 0 /\ queue'[r] = <<>>
    <3>1. \A r \in Asks : r > q => r > page.sent /\ r # q
      BY <1>1, <2>2
    <3> QED
      BY <1>0, <2>1, <3>1 DEF Waiting
  <2>4. ask'[q].worker = "none"
    BY <1>0, <2>1, <2>2 DEF Waiting
  <2>5. ASSUME NEW s \in Sockets, NEW i \in DOMAIN conn[s].inbox
        PROVE  /\ conn[s].inbox[i] \in Asks \ {q} /\ conn[s].inbox[i] <= page.sent
               /\ ask'[conn[s].inbox[i]].socket = s /\ ask'[conn[s].inbox[i]].worker = "none"
    <3>1. conn[s].inbox[i] \in Asks
      BY <1>1, ElementOfSeq, LenProperties
    <3>2. conn[s].inbox[i] <= page.sent
      BY <1>0 DEF Waiting
    <3>3. conn[s].inbox[i] # q
      BY <1>1, <2>2, <3>1, <3>2
    <3> QED
      BY <1>0, <2>1, <3>1, <3>2, <3>3 DEF Waiting
  <2>6. ASSUME NEW s \in Sockets \ {w}, NEW i \in DOMAIN conn'[s].inbox
        PROVE  /\ conn'[s].inbox[i] <= q /\ ask'[conn'[s].inbox[i]].socket = s
               /\ ask'[conn'[s].inbox[i]].worker = "none"
               /\ \A j \in DOMAIN conn'[s].inbox : conn'[s].inbox[j] = conn'[s].inbox[i] => i = j
    <3>1. i \in DOMAIN conn[s].inbox /\ conn'[s].inbox = conn[s].inbox
      BY <2>1
    <3>2. conn[s].inbox[i] <= q
      <4>1. conn[s].inbox[i] \in Asks /\ conn[s].inbox[i] <= page.sent
        BY <2>5, <3>1
      <4> QED
        BY <1>1, <2>2, <4>1
    <3>3. \A j \in DOMAIN conn[s].inbox : conn[s].inbox[j] = conn[s].inbox[i] => i = j
      BY <1>0, <3>1 DEF Waiting
    <3> QED
      BY <2>5, <3>1, <3>2, <3>3
  <2>7. ASSUME NEW i \in DOMAIN conn'[w].inbox
        PROVE  /\ conn'[w].inbox[i] <= q /\ ask'[conn'[w].inbox[i]].socket = w
               /\ ask'[conn'[w].inbox[i]].worker = "none"
               /\ \A j \in DOMAIN conn'[w].inbox : conn'[w].inbox[j] = conn'[w].inbox[i] => i = j
    <3> DEFINE n == Len(conn[w].inbox) + 1
    <3>1. /\ conn'[w].inbox[n] = q
          /\ \A j \in DOMAIN conn'[w].inbox : j # n =>
               j \in DOMAIN conn[w].inbox /\ conn'[w].inbox[j] = conn[w].inbox[j]
      BY <1>1, <2>1, AppendIndices
    <3> HIDE DEF n
    <3>2. CASE i = n
      BY <2>1, <2>2, <2>4, <2>5, <3>1, <3>2
    <3>3. CASE i # n
      <4>1. /\ i \in DOMAIN conn[w].inbox /\ conn'[w].inbox[i] = conn[w].inbox[i]
            /\ conn[w].inbox[i] \in Asks \ {q} /\ conn[w].inbox[i] <= page.sent
        BY <2>1, <2>5, <3>1, <3>3
      <4>2. \A j \in DOMAIN conn[w].inbox : conn[w].inbox[j] = conn[w].inbox[i] => i = j
        BY <1>0, <2>1, <4>1 DEF Waiting
      <4>3. conn[w].inbox[i] <= q
        BY <1>1, <2>2, <4>1
      <4> QED
        BY <2>1, <2>5, <3>1, <4>1, <4>2, <4>3
    <3> QED
      BY <3>2, <3>3
  <2>8. \A s \in Sockets : \A i \in DOMAIN conn'[s].inbox :
          /\ conn'[s].inbox[i] <= q /\ ask'[conn'[s].inbox[i]].socket = s
          /\ ask'[conn'[s].inbox[i]].worker = "none"
          /\ \A j \in DOMAIN conn'[s].inbox : conn'[s].inbox[j] = conn'[s].inbox[i] => i = j
    BY <2>6, <2>7, Zenon
  <2>9. page'.sent = q
    BY <2>1
  <2> QED
    BY <2>3, <2>8, <2>9, Zenon DEF Waiting
<1>5. ASSUME Receive
      PROVE  Waiting'
  BY <1>0, <1>2, <1>5, ReceiveEffect
<1>6. ASSUME NEW s \in Sockets, Drop(s) \/ Disconnect(s)
      PROVE  Waiting'
  <2>1. \A t \in Sockets : conn'[t].inbox = conn[t].inbox \/ conn'[t].inbox = <<>>
    BY <1>0, <1>6, EndEffect
  <2> QED
    BY <1>0, <1>2, <1>6, <2>1, EndEffect
<1>7. ASSUME NEW s \in Sockets, Reading(s), NEW i \in DOMAIN Tail(conn[s].inbox)
      PROVE  LET q == Tail(conn[s].inbox)[i]
             IN  /\ q # First(s) /\ q <= page.sent /\ ask[q].socket = s /\ ask[q].worker = "none"
                 /\ \A j \in DOMAIN Tail(conn[s].inbox) : Tail(conn[s].inbox)[j] = q => i = j
  <2>1. conn[s].inbox # <<>> /\ First(s) = Head(conn[s].inbox)
    BY <1>7 DEF Reading, First
  <2>2. /\ 1 \in DOMAIN conn[s].inbox /\ conn[s].inbox[1] = First(s)
        /\ DOMAIN Tail(conn[s].inbox) \subseteq Int
        /\ \A j \in DOMAIN Tail(conn[s].inbox) :
             j + 1 \in DOMAIN conn[s].inbox /\ j + 1 # 1 /\ Tail(conn[s].inbox)[j] = conn[s].inbox[j + 1]
    <3>1. conn[s].inbox \in Seq(Asks)
      BY <1>1
    <3> QED
      BY <2>1, <3>1, TailIndices
  <2>3. /\ conn[s].inbox[i + 1] <= page.sent /\ ask[conn[s].inbox[i + 1]].socket = s
        /\ ask[conn[s].inbox[i + 1]].worker = "none" /\ conn[s].inbox[i + 1] # conn[s].inbox[1]
        /\ \A j \in DOMAIN conn[s].inbox : conn[s].inbox[j] = conn[s].inbox[i + 1] => i + 1 = j
    BY <1>0, <2>2 DEF Waiting
  <2>4. ASSUME NEW j \in DOMAIN Tail(conn[s].inbox), Tail(conn[s].inbox)[j] = Tail(conn[s].inbox)[i]
        PROVE  i = j
    <3>1. i + 1 = j + 1
      BY <2>2, <2>3, <2>4
    <3> QED
      BY <2>2, <3>1
  <2> QED
    BY <2>2, <2>3, <2>4
<1>8. ASSUME NEW s \in Sockets, Refuse(s)
      PROVE  Waiting'
  <2>1. /\ Reading(s) /\ conn'[s].inbox = Tail(conn[s].inbox) /\ UNCHANGED <<page, ask, queue>>
        /\ \A t \in Sockets \ {s} : conn'[t] = conn[t]
    BY <1>0, <1>8, RefuseEffect
  <2>2. ASSUME NEW t \in Sockets, NEW i \in DOMAIN conn'[t].inbox
        PROVE  /\ conn'[t].inbox[i] <= page.sent /\ ask[conn'[t].inbox[i]].socket = t
               /\ ask[conn'[t].inbox[i]].worker = "none"
               /\ \A j \in DOMAIN conn'[t].inbox : conn'[t].inbox[j] = conn'[t].inbox[i] => i = j
    <3>1. CASE t = s
      <4>1. i \in DOMAIN Tail(conn[s].inbox) /\ conn'[t].inbox = Tail(conn[s].inbox)
        BY <2>1, <3>1
      <4>2. /\ Tail(conn[s].inbox)[i] <= page.sent
            /\ ask[Tail(conn[s].inbox)[i]].socket = s /\ ask[Tail(conn[s].inbox)[i]].worker = "none"
            /\ \A j \in DOMAIN Tail(conn[s].inbox) : Tail(conn[s].inbox)[j] = Tail(conn[s].inbox)[i] => i = j
        BY <1>7, <2>1, <4>1
      <4> QED
        BY <3>1, <4>1, <4>2
    <3>2. CASE t # s
      BY <1>0, <2>1, <2>2, <3>2 DEF Waiting
    <3> QED
      BY <3>1, <3>2
  <2>3. \A q \in Asks : q > page.sent => ask[q].worker = "none" /\ ask[q].socket = 0 /\ queue[q] = <<>>
    BY <1>0 DEF Waiting
  <2> QED
    BY <2>1, <2>2, <2>3, Zenon DEF Waiting
<1>9. ASSUME NEW s \in Sockets, Accept(s)
      PROVE  Waiting'
  <2>1. /\ Reading(s) /\ conn'[s].inbox = Tail(conn[s].inbox) /\ UNCHANGED <<page, queue>>
        /\ \A t \in Sockets \ {s} : conn'[t] = conn[t]
        /\ \A r \in Asks \ {First(s)} : ask'[r] = ask[r]
    BY <1>0, <1>9, AcceptEffect
  <2>2. First(s) \in Asks /\ First(s) <= page.sent /\ ask[First(s)].socket = s
    BY <1>0, <2>1, TakenEffect DEF Waiting
  <2>3. ASSUME NEW t \in Sockets, NEW i \in DOMAIN conn[t].inbox
        PROVE  conn[t].inbox[i] \in Asks
    BY <1>1, ElementOfSeq, LenProperties
  <2>4. ASSUME NEW i \in DOMAIN Tail(conn[s].inbox)
        PROVE  Tail(conn[s].inbox)[i] \in Asks
    <3>1. conn[s].inbox # <<>>
      BY <2>1 DEF Reading
    <3> QED
      BY <1>1, <2>3, <3>1, TailIndices
  <2>5. \A r \in Asks : r > page.sent => r # First(s)
    BY <1>1, <2>2
  <2>6. \A t \in Sockets \ {s} : \A i \in DOMAIN conn[t].inbox : conn[t].inbox[i] # First(s)
    BY <1>0, <2>2 DEF Waiting
  <2>7. \A r \in Asks : r > page.sent =>
          ask'[r].worker = "none" /\ ask'[r].socket = 0 /\ queue'[r] = <<>>
    BY <1>0, <2>1, <2>5 DEF Waiting
  <2>8. ASSUME NEW t \in Sockets, NEW i \in DOMAIN conn'[t].inbox
        PROVE  /\ conn'[t].inbox[i] <= page.sent /\ ask'[conn'[t].inbox[i]].socket = t
               /\ ask'[conn'[t].inbox[i]].worker = "none"
               /\ \A j \in DOMAIN conn'[t].inbox : conn'[t].inbox[j] = conn'[t].inbox[i] => i = j
    <3>1. CASE t = s
      <4>1. i \in DOMAIN Tail(conn[s].inbox) /\ conn'[t].inbox = Tail(conn[s].inbox)
        BY <2>1, <2>8, <3>1
      <4>2. /\ Tail(conn[s].inbox)[i] \in Asks \ {First(s)} /\ Tail(conn[s].inbox)[i] <= page.sent
            /\ ask[Tail(conn[s].inbox)[i]].socket = s /\ ask[Tail(conn[s].inbox)[i]].worker = "none"
        BY <1>7, <2>1, <2>4, <4>1
      <4>3. \A j \in DOMAIN Tail(conn[s].inbox) : Tail(conn[s].inbox)[j] = Tail(conn[s].inbox)[i] => i = j
        BY <1>7, <2>1, <4>1
      <4> QED
        BY <2>1, <3>1, <4>1, <4>2, <4>3
    <3>2. CASE t # s
      BY <1>0, <2>1, <2>3, <2>6, <2>8, <3>2 DEF Waiting
    <3> QED
      BY <3>1, <3>2
  <2> QED
    BY <2>1, <2>7, <2>8 DEF Waiting
<1>10. ASSUME NEW q \in Asks, ask[q].worker # "none" \/ ask[q].socket # 0
       PROVE  ~(q > page.sent)
  BY <1>0, <1>10 DEF Waiting
<1>11. ASSUME NEW s \in Sockets, Forward(s)
       PROVE  Waiting'
  <2>1. conn[s].serving \in Asks /\ ask[conn[s].serving].socket = s
    BY <1>0, <1>11 DEF Forward, Attended
  <2>2. /\ \A t \in Sockets : conn'[t].inbox = conn[t].inbox
        /\ \A r \in Asks \ {conn[s].serving} : queue'[r] = queue[r]
    BY <1>0, <1>11, <2>1, ForwardEffect
  <2>3. UNCHANGED <<page, ask>>
    BY <1>11 DEF Forward
  <2>4. ~(conn[s].serving > page.sent)
    BY <1>1, <1>10, <2>1
  <2> QED
    BY <1>0, <2>2, <2>3, <2>4 DEF Waiting
<1>12. ASSUME NEW q \in Asks, Worker(q)
       PROVE  Waiting'
  <2>1. /\ ask[q].worker = "running" /\ UNCHANGED <<page, conn>>
        /\ \A r \in Asks \ {q} : ask'[r] = ask[r] /\ queue'[r] = queue[r]
    BY <1>0, <1>12, WorkerEffect DEF Running
  <2>2. ~(q > page.sent)
    BY <1>10, <2>1
  <2>3. ASSUME NEW t \in Sockets, NEW i \in DOMAIN conn[t].inbox
        PROVE  conn[t].inbox[i] \in Asks \ {q}
    <3>1. conn[t].inbox[i] \in Asks
      BY <1>1, ElementOfSeq, LenProperties
    <3> QED
      BY <1>0, <2>1, <3>1 DEF Waiting
  <2> QED
    BY <1>0, <2>1, <2>2, <2>3 DEF Waiting
<1>13. CASE UNCHANGED <<page, conn, ask, queue>>
  BY <1>2, <1>13
<1> QED
  BY <1>3, <1>4, <1>5, <1>6, <1>8, <1>9, <1>11, <1>12, <1>13 DEF Next, User, Handler, Ingested, vars

(* A worker runs only with the handler of its socket on it, or with none.       *)
LEMMA StepAttended == IInv /\ [Next]_vars => Attended'
<1> SUFFICES ASSUME IInv, [Next]_vars PROVE Attended'
  OBVIOUS
<1>0. TypeOK /\ Fresh /\ Waiting /\ Attended /\ DoneIsLast
  BY DEF IInv
<1>1. \A s \in Sockets : s # 0
  BY SessionBoundAssumption DEF Sockets
<1>2. ASSUME UNCHANGED ask,
             \A s \in Sockets :
               \/ conn'[s].handler = conn[s].handler /\ conn'[s].serving = conn[s].serving
               \/ conn[s].handler \in {"none", "receive"} /\ conn'[s].handler # "stream"
               \/ conn'[s].handler = "gone"
      PROVE  Attended'
  BY <1>0, <1>2 DEF Attended, Running
<1>3. ASSUME NEW d \in Docs, LoadDoc(d) \/ WaitReady(d)
      PROVE  Attended'
  <2>1. UNCHANGED ask
    BY <1>0, <1>3, LoadEffect
  <2>2. CASE UNCHANGED conn
    BY <1>2, <2>1, <2>2
  <2>3. CASE \E p \in Page : p.doc \in Docs /\ p.opened = page.opened /\ Connect(p)
    <3> DEFINE s == page.opened + 1
    <3>1. /\ s \in Sockets /\ conn'[s].handler = "receive"
          /\ \A c \in Sockets \ {s} :
               conn'[c].handler = conn[c].handler /\ conn'[c].serving = conn[c].serving
      BY <1>0, <2>3, ConnectEffect
    <3>2. conn[s].handler = "none"
      <4>1. page.opened \in Nat
        BY <1>0, SessionBoundAssumption DEF TypeOK, Page, Sockets
      <4> QED
        BY <1>0, <3>1, <4>1 DEF Fresh
    <3> HIDE DEF s
    <3> QED
      BY <1>2, <2>1, <3>1, <3>2
  <2> QED
    BY <1>0, <1>3, <2>2, <2>3, LoadEffect
<1>4. ASSUME NEW lane \in Lanes, NEW other \in Docs \cup {None}, Submit(lane, other)
      PROVE  Attended'
  <2> DEFINE q == page.sent + 1
             w == page.ws
  <2>1. /\ q \in Asks /\ w \in Sockets /\ ask'[q].socket = w /\ ask'[q].worker = ask[q].worker
        /\ \A r \in Asks \ {q} : ask'[r] = ask[r]
        /\ \A s \in Sockets : conn'[s].handler = conn[s].handler /\ conn'[s].serving = conn[s].serving
    BY <1>0, <1>4, SubmitEffect
  <2>2. ask[q].worker = "none" /\ ask[q].socket = 0
    <3>1. q > page.sent
      BY <1>0, SessionBoundAssumption DEF TypeOK, Page, Asks
    <3> QED
      BY <1>0, <2>1, <3>1 DEF Waiting
  <2> HIDE DEF q, w
  <2>3. \A s \in Sockets : conn[s].handler = "stream" => conn[s].serving # q
    BY <1>0, <1>1, <2>2 DEF Attended
  <2> QED
    BY <1>0, <2>1, <2>2, <2>3 DEF Attended, Running
<1>5. ASSUME Receive
      PROVE  Attended'
  BY <1>0, <1>2, <1>5, ReceiveEffect
<1>6. ASSUME NEW s \in Sockets, Drop(s) \/ Disconnect(s)
      PROVE  Attended'
  BY <1>0, <1>2, <1>6, EndEffect
<1>7. ASSUME NEW s \in Sockets, Refuse(s)
      PROVE  Attended'
  <2>1. /\ conn[s].handler = "receive" /\ conn'[s].handler \in {"receive", "gone"} /\ UNCHANGED ask
        /\ \A t \in Sockets \ {s} : conn'[t] = conn[t]
    BY <1>0, <1>7, RefuseEffect DEF Reading
  <2> QED
    BY <1>2, <2>1
<1>8. ASSUME NEW s \in Sockets, Accept(s)
      PROVE  Attended'
  <2> DEFINE q == First(s)
  <2>1. /\ conn[s].handler = "receive" /\ conn'[s].handler = "stream" /\ conn'[s].serving = q
        /\ \A t \in Sockets \ {s} : conn'[t] = conn[t]
        /\ ask'[q].worker = "running" /\ ask'[q].socket = ask[q].socket
        /\ \A r \in Asks \ {q} : ask'[r] = ask[r]
    BY <1>0, <1>8, AcceptEffect DEF Reading
  <2>2. q \in Asks /\ ask[q].socket = s
    <3>1. Reading(s)
      BY <1>8 DEF Accept
    <3>2. /\ First(s) \in Asks /\ 1 \in DOMAIN conn[s].inbox /\ conn[s].inbox[1] = First(s)
      BY <1>0, <3>1, TakenEffect
    <3> QED
      BY <1>0, <3>2 DEF Waiting
  <2> HIDE DEF q
  <2>3. ASSUME NEW r \in Asks \ {q}, Running(r)
        PROVE  ask[r].socket # s
    BY <1>0, <2>1, <2>3 DEF Attended
  <2> QED
    BY <1>0, <2>1, <2>2, <2>3 DEF Attended, Running
<1>9. ASSUME NEW s \in Sockets, Forward(s)
      PROVE  Attended'
  <2> DEFINE q == conn[s].serving
  <2>1. /\ conn[s].handler = "stream" /\ conn[s].serving = q /\ q \in Asks
        /\ ask[q].socket = s /\ UNCHANGED ask
    BY <1>0, <1>9 DEF Forward, Attended
  <2>2. /\ queue[q] # <<>>
        /\ \A t \in Sockets \ {s} : conn'[t] = conn[t]
        /\ Head(queue[q]).type = "DONE" => conn'[s].handler = "receive"
        /\ Head(queue[q]).type # "DONE" =>
             \/ conn'[s].handler = conn[s].handler /\ conn'[s].serving = conn[s].serving
             \/ conn'[s].handler = "gone"
    BY <1>0, <1>9, <2>1, ForwardEffect
  <2>3. CASE Head(queue[q]).type # "DONE"
    BY <1>2, <2>1, <2>2, <2>3
  <2>4. CASE Head(queue[q]).type = "DONE"
    <3>1. ask[q].worker = "ended"
      <4>1. queue[q] \in Seq(Event)
        BY <1>0, <2>1 DEF TypeOK
      <4>2. 1 \in DOMAIN queue[q] /\ queue[q][1] = Head(queue[q])
        BY <2>2, <4>1, TailIndices
      <4> QED
        BY <1>0, <2>1, <2>4, <4>2 DEF DoneIsLast
    <3> HIDE DEF q
    <3>2. \A r \in Asks : Running(r) => ask[r].socket # s
      BY <1>0, <2>1, <3>1 DEF Attended, Running
    <3> QED
      BY <1>0, <2>1, <2>2, <2>4, <3>2 DEF Attended, Running
  <2> QED
    BY <2>3, <2>4
<1>10. ASSUME NEW q \in Asks, Worker(q)
       PROVE  Attended'
  <2>1. /\ Running(q) /\ UNCHANGED conn /\ ask'[q].socket = ask[q].socket
        /\ \A r \in Asks \ {q} : ask'[r] = ask[r]
    BY <1>0, <1>10, WorkerEffect
  <2> QED
    BY <1>0, <2>1 DEF Attended, Running
<1>11. CASE UNCHANGED <<conn, ask>>
  BY <1>2, <1>11
<1> QED
  BY <1>3, <1>4, <1>5, <1>6, <1>7, <1>8, <1>9, <1>10, <1>11 DEF Next, User, Handler, Ingested, vars

(* Nothing is put on a queue after DONE.                                       *)
LEMMA StepDone == IInv /\ [Next]_vars => DoneIsLast'
<1> SUFFICES ASSUME IInv, [Next]_vars PROVE DoneIsLast'
  OBVIOUS
<1>0. TypeOK /\ Fresh /\ Waiting /\ Attended /\ DoneIsLast
  BY DEF IInv
<1>1. ASSUME UNCHANGED queue, \A q \in Asks : ask'[q].worker = ask[q].worker
      PROVE  DoneIsLast'
  BY <1>0, <1>1 DEF DoneIsLast
<1>2. ASSUME NEW d \in Docs, LoadDoc(d) \/ WaitReady(d)
      PROVE  DoneIsLast'
  BY <1>0, <1>1, <1>2, LoadEffect
<1>3. ASSUME NEW lane \in Lanes, NEW other \in Docs \cup {None}, Submit(lane, other)
      PROVE  DoneIsLast'
  <2> DEFINE q == page.sent + 1
  <2>1. /\ ask'[q].worker = ask[q].worker /\ \A r \in Asks \ {q} : ask'[r] = ask[r]
    BY <1>0, <1>3, SubmitEffect
  <2>2. UNCHANGED queue
    BY <1>3 DEF Submit
  <2> HIDE DEF q
  <2> QED
    BY <1>1, <2>1, <2>2
<1>4. ASSUME NEW s \in Sockets, Accept(s)
      PROVE  DoneIsLast'
  <2> DEFINE q == First(s)
  <2>1. /\ UNCHANGED queue /\ \A r \in Asks \ {q} : ask'[r] = ask[r]
    BY <1>0, <1>4, AcceptEffect
  <2>2. ask[q].worker = "none"
    <3>1. Reading(s)
      BY <1>4 DEF Accept
    <3>2. /\ First(s) \in Asks /\ 1 \in DOMAIN conn[s].inbox /\ conn[s].inbox[1] = First(s)
      BY <1>0, <3>1, TakenEffect
    <3> QED
      BY <1>0, <3>2 DEF Waiting
  <2> HIDE DEF q
  <2> QED
    BY <1>0, <2>1, <2>2 DEF DoneIsLast
<1>5. ASSUME NEW s \in Sockets, Forward(s)
      PROVE  DoneIsLast'
  <2> DEFINE q == conn[s].serving
  <2>1. q \in Asks
    BY <1>0, <1>5 DEF Forward, Attended
  <2>2. /\ queue[q] # <<>> /\ queue'[q] \in {Tail(queue[q]), <<>>}
        /\ \A r \in Asks \ {q} : queue'[r] = queue[r]
    BY <1>0, <1>5, <2>1, ForwardEffect
  <2>3. UNCHANGED ask
    BY <1>5 DEF Forward
  <2> HIDE DEF q
  <2>4. ASSUME NEW i \in DOMAIN queue'[q]
        PROVE  \E j \in DOMAIN queue[q] : queue'[q][i] = queue[q][j]
    <3>1. queue[q] \in Seq(Event)
      BY <1>0, <2>1 DEF TypeOK
    <3>2. CASE queue'[q] = Tail(queue[q])
      <4>1. i \in DOMAIN Tail(queue[q])
        BY <3>2
      <4>2. i + 1 \in DOMAIN queue[q] /\ Tail(queue[q])[i] = queue[q][i + 1]
        BY <2>2, <3>1, <4>1, TailIndices
      <4> QED
        BY <3>2, <4>2
    <3>3. CASE queue'[q] = <<>>
      BY <3>3
    <3> QED
      BY <2>2, <3>2, <3>3
  <2> QED
    BY <1>0, <2>1, <2>2, <2>3, <2>4 DEF DoneIsLast
<1>6. ASSUME NEW q \in Asks, Worker(q)
      PROVE  DoneIsLast'
  <2>1. /\ Running(q) /\ \A r \in Asks \ {q} : ask'[r] = ask[r] /\ queue'[r] = queue[r]
    BY <1>0, <1>6, WorkerEffect
  <2>2. ASSUME ask'[q].worker # "ended", NEW i \in DOMAIN queue'[q]
        PROVE  queue'[q][i].type # "DONE"
    <3>1. PICK events \in Seq(Event) :
            /\ queue'[q] = queue[q] \/ queue'[q] = queue[q] \o events
            /\ ask[q].emitted < Len(Script(q)) /\ events = <<Script(q)[ask[q].emitted + 1]>>
      BY <1>0, <1>6, <2>2, WorkerEffect
    <3>2. queue[q] \in Seq(Event) /\ ask[q].emitted \in Nat
      BY <1>0 DEF TypeOK, Ask
    <3>3. \A j \in DOMAIN queue[q] : queue[q][j].type # "DONE"
      BY <1>0, <2>1 DEF DoneIsLast, Running
    <3>4. Len(events) = 1 /\ events[1].type # "DONE"
      <4>1. Len(Script(q)) \in Nat
        BY <1>0, ScriptFacts
      <4>2. ask[q].emitted + 1 \in 1..Len(Script(q))
        BY <3>1, <3>2, <4>1
      <4>3. Script(q)[ask[q].emitted + 1].type # "DONE"
        BY <1>0, <4>2, ScriptFacts
      <4> QED
        BY <3>1, <4>3
    <3>5. CASE queue'[q] = queue[q]
      BY <2>2, <3>3, <3>5
    <3>6. CASE queue'[q] = queue[q] \o events
      <4>1. i \in DOMAIN queue[q] \/ i = Len(queue[q]) + 1
        <5>1. /\ queue[q] \o events \in Seq(Event)
              /\ Len(queue[q] \o events) = Len(queue[q]) + 1 /\ Len(queue[q]) \in Nat
          BY <3>2, <3>4, ConcatProperties, LenProperties
        <5>2. /\ DOMAIN (queue[q] \o events) = 1..(Len(queue[q]) + 1)
              /\ DOMAIN queue[q] = 1..Len(queue[q])
          BY <3>2, <5>1, LenProperties
        <5> QED
          BY <2>2, <3>6, <5>1, <5>2
      <4>2. CASE i \in DOMAIN queue[q]
        <5>1. queue'[q][i] = queue[q][i]
          BY <3>2, <3>6, <4>2, ConcatProperties, LenProperties
        <5> QED
          BY <3>3, <4>2, <5>1
      <4>3. CASE i = Len(queue[q]) + 1
        <5>1. queue'[q][i] = events[1]
          BY <3>2, <3>4, <3>6, <4>3, ConcatProperties, LenProperties
        <5> QED
          BY <3>4, <5>1
      <4> QED
        BY <4>1, <4>2, <4>3
    <3> QED
      BY <3>1, <3>5, <3>6
  <2> QED
    BY <1>0, <2>1, <2>2 DEF DoneIsLast
<1>7. CASE UNCHANGED <<ask, queue>>
  BY <1>1, <1>7
<1> QED
  BY <1>0, <1>2, <1>3, <1>4, <1>5, <1>6, <1>7, ReceiveEffect, EndEffect, RefuseEffect
     DEF Next, User, Handler, Ingested, vars

(* A worker starts only where no other one runs.                               *)
LEMMA StepOneRun == IInv /\ [Next]_vars => OneRunPerSocket'
<1> SUFFICES ASSUME IInv, [Next]_vars PROVE OneRunPerSocket'
  OBVIOUS
<1>0. TypeOK /\ Fresh /\ Waiting /\ Attended /\ OneRunPerSocket
  BY DEF IInv
<1>1. ASSUME \A q \in Asks : ask'[q].worker = "running" =>
                ask[q].worker = "running" /\ ask'[q].socket = ask[q].socket
      PROVE  OneRunPerSocket'
  BY <1>0, <1>1 DEF OneRunPerSocket, Running
<1>2. ASSUME NEW lane \in Lanes, NEW other \in Docs \cup {None}, Submit(lane, other)
      PROVE  OneRunPerSocket'
  <2> DEFINE q == page.sent + 1
  <2>1. /\ q \in Asks /\ ask'[q].worker = ask[q].worker /\ \A r \in Asks \ {q} : ask'[r] = ask[r]
    BY <1>0, <1>2, SubmitEffect
  <2>2. ask[q].worker = "none"
    <3>1. q > page.sent
      BY <1>0, SessionBoundAssumption DEF TypeOK, Page, Asks
    <3> QED
      BY <1>0, <2>1, <3>1 DEF Waiting
  <2> HIDE DEF q
  <2> QED
    BY <1>1, <2>1, <2>2
<1>3. ASSUME NEW s \in Sockets, Accept(s)
      PROVE  OneRunPerSocket'
  <2> DEFINE q == First(s)
  <2>1. /\ conn[s].handler = "receive"
        /\ ask'[q].socket = ask[q].socket /\ \A r \in Asks \ {q} : ask'[r] = ask[r]
    BY <1>0, <1>3, AcceptEffect DEF Reading
  <2>2. q \in Asks /\ ask[q].socket = s
    <3>1. Reading(s)
      BY <1>3 DEF Accept
    <3>2. /\ First(s) \in Asks /\ 1 \in DOMAIN conn[s].inbox /\ conn[s].inbox[1] = First(s)
      BY <1>0, <3>1, TakenEffect
    <3> QED
      BY <1>0, <3>2 DEF Waiting
  <2> HIDE DEF q
  <2>3. \A r \in Asks : Running(r) => ask[r].socket # s
    BY <1>0, <2>1 DEF Attended
  <2> QED
    BY <1>0, <2>1, <2>2, <2>3 DEF OneRunPerSocket, Running
<1>4. ASSUME NEW q \in Asks, Worker(q)
      PROVE  OneRunPerSocket'
  <2>1. /\ Running(q) /\ ask'[q].socket = ask[q].socket /\ \A r \in Asks \ {q} : ask'[r] = ask[r]
    BY <1>0, <1>4, WorkerEffect
  <2> QED
    BY <1>1, <2>1 DEF Running
<1>5. CASE UNCHANGED ask
  BY <1>1, <1>5
<1> QED
  BY <1>0, <1>2, <1>3, <1>4, <1>5, LoadEffect, ReceiveEffect, EndEffect, RefuseEffect
     DEF Next, User, Handler, Forward, Ingested, vars

-----------------------------------------------------------------------------
(* The inductive invariant of the session.                                     *)
THEOREM Invariant == Spec => []IInv
<1>1. Init => IInv
  BY InitIInv
<1>2. IInv /\ [Next]_vars => IInv'
  BY StepType, StepFresh, StepWaiting, StepAttended, StepDone, StepOneRun DEF IInv
<1> QED
  BY <1>1, <1>2, PTL DEF Spec

(* Whatever the user, the network and the workers do, page, sockets, questions  *)
(* and queues keep their types; every socket that is open has its document.     *)
THEOREM TypeCorrect == Spec => []TypeOK
<1>1. IInv => TypeOK
  BY DEF IInv
<1> QED
  BY <1>1, Invariant, PTL

(* No two worker threads of a session run on one conversation: the handler of   *)
(* a socket starts one only after the DONE of the last, and every socket is a    *)
(* conversation of its own.                                                   *)
THEOREM OneRun == Spec => []OneRunPerThread
<1>1. IInv => OneRunPerThread
  BY DEF IInv, OneRunPerSocket, OneRunPerThread, Thread
<1> QED
  BY <1>1, Invariant, PTL

===============================================================================
