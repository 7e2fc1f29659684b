-------------------------- MODULE AskSessionPage_proofs --------------------------
(***************************************************************************)
(* What reaches the page, for any documents, checklists, connections and        *)
(* questions. First, the page never hears of a question it has let go of: the   *)
(* argument follows the one final event of the question in hand from the worker  *)
(* over the queue and the wire to the page. Second, what it hears is shown       *)
(* where it belongs: page, wire and queue hold successive parts of the script    *)
(* of that question. Third, the answer is never out of reach: something on its   *)
(* connection can go on, and every step there brings it nearer.                *)
(***************************************************************************)
EXTENDS AskSession_proofs

NoFinal(events) == \A i \in DOMAIN events : events[i].type \notin Final
OnlyDone(events) == \A i \in DOMAIN events : events[i].type = "DONE"
FinalLast(events) ==
    \E k \in DOMAIN events : /\ events[k].type \in Final /\ k = Len(events)
                             /\ \A i \in DOMAIN events : i # k => events[i].type \notin Final
FinalThenDone(events) ==
    \E k \in DOMAIN events : /\ events[k].type \in Final
                             /\ \A i \in DOMAIN events : /\ i < k => events[i].type \notin Final
                                                         /\ i > k => events[i].type = "DONE"

(* Only DONE is still to come of a question.                                   *)
Said(q) == Running(q) => ask[q].emitted = Len(Script(q))
Spent(q) == Said(q) /\ OnlyDone(queue[q])

(* Where the question the page waits for can be, with its one final event.      *)
Unread(q, c) == c.inbox = <<q>> /\ c.wire = <<>> /\ queue[q] = <<>> /\ ask[q].worker = "none"
InHand(q, c) ==
    c.inbox = <<>> /\ Running(q) /\ ask[q].emitted < Len(Script(q))
    /\ NoFinal(queue[q]) /\ NoFinal(c.wire)
Queued(q, c) == c.inbox = <<>> /\ Said(q) /\ FinalThenDone(queue[q]) /\ NoFinal(c.wire)
Arriving(q, c) == c.inbox = <<>> /\ Spent(q) /\ FinalLast(c.wire)
Stage(q, c) == Unread(q, c) \/ InHand(q, c) \/ Queued(q, c) \/ Arriving(q, c)

(* The question the page waits for on the connection it has.                    *)
Awaited(s) == page.busy /\ page.sent # 0 /\ ask[page.sent].socket = s

(* An open connection is the current one, and its handler is there.             *)
Current ==
    /\ \A s \in Sockets : conn[s].open => s = page.ws /\ conn[s].handler \in {"receive", "stream"}
    /\ \A q \in Asks : ask[q].socket <= page.opened
    /\ \A q \in Asks : ask[q].worker = "none" => ask[q].emitted = 0

OthersSpent ==
    \A s \in Sockets, q \in Asks :
      conn[s].open /\ ask[q].socket = s /\ (q = page.sent => ~page.busy) => Spent(q)
Silent ==
    \A s \in Sockets : conn[s].open /\ ~Awaited(s) => conn[s].inbox = <<>> /\ conn[s].wire = <<>>
Traced == \A s \in Sockets : conn[s].open /\ Awaited(s) => Stage(page.sent, conn[s])

QInv == IInv /\ Current /\ OthersSpent /\ Silent /\ Traced

-----------------------------------------------------------------------------
(* The events that pass, one at a time.                                        *)
LEMMA EmptyEvents == NoFinal(<<>>) /\ OnlyDone(<<>>)
  BY DEF NoFinal, OnlyDone

(* An event goes in at the end.                                                *)
LEMMA PutIn ==
    ASSUME NEW events \in Seq(Event), NEW ev \in Event
    PROVE  /\ NoFinal(events) /\ ev.type \notin Final => NoFinal(Append(events, ev))
           /\ NoFinal(events) /\ ev.type \in Final =>
                FinalLast(Append(events, ev)) /\ FinalThenDone(Append(events, ev))
           /\ OnlyDone(events) /\ ev.type = "DONE" => OnlyDone(Append(events, ev))
           /\ FinalThenDone(events) /\ ev.type = "DONE" => FinalThenDone(Append(events, ev))
<1> DEFINE n == Len(events) + 1
           longer == Append(events, ev)
<1>1. /\ Len(events) \in Nat /\ DOMAIN events = 1..Len(events)
      /\ Len(longer) = n /\ DOMAIN longer = 1..n /\ longer[n] = ev
      /\ \A i \in DOMAIN events : longer[i] = events[i] /\ i \in DOMAIN longer
      /\ \A i \in DOMAIN longer : i # n => i \in DOMAIN events
  BY AppendIndices
<1>2. n \in DOMAIN longer /\ \A i \in DOMAIN longer : ~(i > n)
  BY <1>1
<1>3. \A i \in DOMAIN events : i < n
  BY <1>1
<1> HIDE DEF n, longer
<1>4. NoFinal(events) /\ ev.type \notin Final => NoFinal(longer)
  BY <1>1 DEF NoFinal
<1>5. NoFinal(events) /\ ev.type \in Final => FinalLast(longer) /\ FinalThenDone(longer)
  <2> SUFFICES ASSUME NoFinal(events), ev.type \in Final
               PROVE  FinalLast(longer) /\ FinalThenDone(longer)
    OBVIOUS
  <2>1. \A i \in DOMAIN longer : i # n => longer[i].type \notin Final
    BY <1>1 DEF NoFinal
  <2>2. FinalLast(longer)
    BY <1>1, <1>2, <2>1 DEF FinalLast
  <2>3. \A i \in DOMAIN longer : (i < n => i # n) /\ ~(i > n)
    BY <1>1, <1>2
  <2>4. FinalThenDone(longer)
    BY <1>1, <1>2, <2>1, <2>3 DEF FinalThenDone
  <2> QED
    BY <2>2, <2>4
<1>6. OnlyDone(events) /\ ev.type = "DONE" => OnlyDone(longer)
  BY <1>1 DEF OnlyDone
<1>7. FinalThenDone(events) /\ ev.type = "DONE" => FinalThenDone(longer)
  <2> SUFFICES ASSUME FinalThenDone(events), ev.type = "DONE" PROVE FinalThenDone(longer)
    OBVIOUS
  <2>1. PICK k \in DOMAIN events :
          /\ events[k].type \in Final
          /\ \A i \in DOMAIN events : /\ i < k => events[i].type \notin Final
                                      /\ i > k => events[i].type = "DONE"
    BY DEF FinalThenDone
  <2>2. k \in DOMAIN longer /\ longer[k].type \in Final
    BY <1>1, <2>1
  <2>3. ASSUME NEW i \in DOMAIN longer
        PROVE  /\ i < k => longer[i].type \notin Final
               /\ i > k => longer[i].type = "DONE"
    <3>1. CASE i = n
      <4>1. ~(i < k)
        BY <1>1, <1>3, <3>1 DEF n
      <4> QED
        BY <1>1, <3>1, <4>1
    <3>2. CASE i # n
      BY <1>1, <2>1, <3>2
    <3> QED
      BY <3>1, <3>2
  <2> QED
    BY <2>2, <2>3 DEF FinalThenDone
<1> QED
  BY <1>4, <1>5, <1>6, <1>7 DEF longer

(* An event is taken out at the head.                                          *)
LEMMA TakeOut ==
    ASSUME NEW events \in Seq(Event), events # <<>>
    PROVE  /\ Tail(events) \in Seq(Event) /\ Head(events) \in Event
           /\ NoFinal(events) => Head(events).type \notin Final /\ NoFinal(Tail(events))
           /\ OnlyDone(events) => Head(events).type = "DONE" /\ OnlyDone(Tail(events))
           /\ FinalLast(events) /\ Head(events).type \in Final => Tail(events) = <<>>
           /\ FinalLast(events) /\ Head(events).type \notin Final => FinalLast(Tail(events))
           /\ FinalThenDone(events) /\ Head(events).type \in Final => OnlyDone(Tail(events))
           /\ FinalThenDone(events) /\ Head(events).type \notin Final => FinalThenDone(Tail(events))
<1> DEFINE hd == Head(events)
           rest == Tail(events)
<1>1. /\ rest \in Seq(Event) /\ 1 \in DOMAIN events /\ events[1] = hd /\ hd \in Event
      /\ Len(rest) = Len(events) - 1 /\ Len(events) \in Nat \ {0}
      /\ DOMAIN events = 1..Len(events) /\ DOMAIN rest = 1..(Len(events) - 1)
      /\ \A i \in DOMAIN rest : i + 1 \in DOMAIN events /\ i + 1 # 1 /\ rest[i] = events[i + 1]
  BY TailIndices
<1>2. \A k \in DOMAIN events : k # 1 => k - 1 \in DOMAIN rest /\ rest[k - 1] = events[k]
  <2> SUFFICES ASSUME NEW k \in DOMAIN events, k # 1
               PROVE  k - 1 \in DOMAIN rest /\ rest[k - 1] = events[k]
    OBVIOUS
  <2>1. k - 1 \in DOMAIN rest /\ (k - 1) + 1 = k
    BY <1>1
  <2> QED
    BY <1>1, <2>1
<1> HIDE DEF hd, rest
<1>3. NoFinal(events) => hd.type \notin Final /\ NoFinal(rest)
  BY <1>1 DEF NoFinal
<1>4. OnlyDone(events) => hd.type = "DONE" /\ OnlyDone(rest)
  BY <1>1 DEF OnlyDone
<1>5. ASSUME FinalLast(events)
      PROVE  /\ hd.type \in Final => rest = <<>>
             /\ hd.type \notin Final => FinalLast(rest)
  <2>1. PICK k \in DOMAIN events :
          /\ events[k].type \in Final /\ k = Len(events)
          /\ \A i \in DOMAIN events : i # k => events[i].type \notin Final
    BY <1>5 DEF FinalLast
  <2>2. CASE hd.type \in Final
    <3>1. k = 1
      BY <1>1, <2>1, <2>2
    <3>2. Len(rest) = 0
      BY <1>1, <2>1, <3>1
    <3> QED
      BY <1>1, <2>2, <3>2, EmptySeq
  <2>3. CASE hd.type \notin Final
    <3>1. k # 1
      BY <1>1, <2>1, <2>3
    <3>2. k - 1 \in DOMAIN rest /\ rest[k - 1].type \in Final /\ k - 1 = Len(rest)
      BY <1>1, <1>2, <2>1, <3>1
    <3>3. ASSUME NEW i \in DOMAIN rest, i # k - 1
          PROVE  rest[i].type \notin Final
      <4>1. i + 1 # k
        BY <1>1, <2>1, <3>3
      <4> QED
        BY <1>1, <2>1, <4>1
    <3> QED
      BY <2>3, <3>2, <3>3 DEF FinalLast
  <2> QED
    BY <2>2, <2>3
<1>6. ASSUME FinalThenDone(events)
      PROVE  /\ hd.type \in Final => OnlyDone(rest)
             /\ hd.type \notin Final => FinalThenDone(rest)
  <2>1. PICK k \in DOMAIN events :
          /\ events[k].type \in Final
          /\ \A i \in DOMAIN events : /\ i < k => events[i].type \notin Final
                                      /\ i > k => events[i].type = "DONE"
    BY <1>6 DEF FinalThenDone
  <2>2. CASE hd.type \in Final
    <3>1. k = 1
      <4>1. ~(1 < k)
        BY <1>1, <2>1, <2>2
      <4> QED
        BY <1>1, <4>1
    <3>2. ASSUME NEW i \in DOMAIN rest
          PROVE  rest[i].type = "DONE"
      <4>1. i + 1 > k
        BY <1>1, <3>1
      <4> QED
        BY <1>1, <2>1, <4>1
    <3> QED
      BY <2>2, <3>2 DEF OnlyDone
  <2>3. CASE hd.type \notin Final
    <3>1. k # 1
      BY <1>1, <2>1, <2>3
    <3>2. k - 1 \in DOMAIN rest /\ rest[k - 1].type \in Final
      BY <1>2, <2>1, <3>1
    <3>3. ASSUME NEW i \in DOMAIN rest
          PROVE  /\ i < k - 1 => rest[i].type \notin Final
                 /\ i > k - 1 => rest[i].type = "DONE"
      <4>1. (i < k - 1 => i + 1 < k) /\ (i > k - 1 => i + 1 > k)
        BY <1>1, <2>1
      <4> QED
        BY <1>1, <2>1, <4>1
    <3> QED
      BY <2>3, <3>2, <3>3 DEF FinalThenDone
  <2> QED
    BY <2>2, <2>3
<1> QED
  BY <1>1, <1>3, <1>4, <1>5, <1>6 DEF hd, rest

-----------------------------------------------------------------------------
Rest == Current /\ OthersSpent /\ Silent /\ Traced

(* What a question has said depends on its worker and its queue.                *)
LEMMA SaidFrame ==
    ASSUME NEW q \in Asks, ask'[q].worker = ask[q].worker, ask'[q].emitted = ask[q].emitted,
           ask'[q].lane = ask[q].lane, queue'[q] = queue[q]
    PROVE  /\ Script(q)' = Script(q) /\ Running(q)' = Running(q)
           /\ Said(q)' = Said(q) /\ Spent(q)' = Spent(q)
<1>1. Script(q)' = Script(q)
  BY DEF Script
<1>2. Running(q)' = Running(q)
  BY DEF Running
<1>3. Said(q)' = Said(q)
  BY <1>1, <1>2 DEF Said
<1>4. OnlyDone(queue[q])' = OnlyDone(queue[q])
  BY DEF OnlyDone
<1> QED
  BY <1>1, <1>2, <1>3, <1>4 DEF Spent

LEMMA StageFrame ==
    ASSUME NEW q \in Asks, NEW s \in Sockets,
           ask'[q].worker = ask[q].worker, ask'[q].emitted = ask[q].emitted,
           ask'[q].lane = ask[q].lane, queue'[q] = queue[q],
           conn'[s].inbox = conn[s].inbox, conn'[s].wire = conn[s].wire,
           Stage(q, conn[s])
    PROVE  Stage(q, conn[s])'
<1>1. /\ Script(q)' = Script(q) /\ Running(q)' = Running(q)
      /\ Said(q)' = Said(q) /\ Spent(q)' = Spent(q)
  BY SaidFrame
<1>2. CASE Unread(q, conn[s])
  BY <1>2 DEF Unread, Stage
<1>3. CASE InHand(q, conn[s])
  BY <1>1, <1>3 DEF InHand, Stage, NoFinal
<1>4. CASE Queued(q, conn[s])
  BY <1>1, <1>4 DEF Queued, Stage, NoFinal, FinalThenDone
<1>5. CASE Arriving(q, conn[s])
  BY <1>1, <1>5 DEF Arriving, Stage, FinalLast
<1> QED
  BY <1>2, <1>3, <1>4, <1>5 DEF Stage

(* The page opens no connection, and what is open keeps what it carries.        *)
LEMMA RestFrame ==
    ASSUME QInv, UNCHANGED <<ask, queue>>, page'.sent = page.sent, page'.busy = page.busy,
           page'.ws = page.ws, page'.opened = page.opened,
           \A s \in Sockets : conn'[s].open =>
             /\ conn[s].open /\ conn'[s].inbox = conn[s].inbox /\ conn'[s].wire = conn[s].wire
             /\ conn'[s].handler = conn[s].handler
    PROVE  Rest'
<1>1. page.sent \in Asks \cup {0}
  BY DEF QInv, IInv, TypeOK, Page
<1>2. Current'
  BY DEF QInv, Current
<1>3. \A q \in Asks : Spent(q)' = Spent(q)
  BY SaidFrame
<1>4. OthersSpent'
  BY <1>3 DEF QInv, OthersSpent
<1>5. \A s \in Sockets : Awaited(s)' = Awaited(s)
  BY DEF Awaited
<1>6. Silent'
  BY <1>5 DEF QInv, Silent
<1>7. Traced'
  <2> SUFFICES ASSUME NEW s \in Sockets, conn'[s].open, Awaited(s)
               PROVE  Stage(page.sent, conn[s])'
    BY <1>5 DEF Traced
  <2>1. PICK q \in Asks : q = page.sent /\ Stage(q, conn[s])
    BY <1>1 DEF QInv, Traced, Awaited
  <2>2. conn'[s].inbox = conn[s].inbox /\ conn'[s].wire = conn[s].wire
    OBVIOUS
  <2>3. Stage(q, conn[s])'
    BY <2>1, <2>2, StageFrame
  <2> QED
    BY <2>1, <2>3
<1> QED
  BY <1>2, <1>4, <1>6, <1>7 DEF Rest

(* The page opens a connection: no question has been sent over it.              *)
LEMMA RestConnect ==
    ASSUME QInv, NEW p \in Page, p.doc \in Docs, p.opened = page.opened, p.sent = page.sent,
           p.busy = page.busy, Connect(p), UNCHANGED <<ask, queue>>
    PROVE  Rest'
<1> DEFINE s == page.opened + 1
<1>1. /\ s \in Sockets /\ page'.ws = s /\ page'.opened = s
      /\ page'.sent = page.sent /\ page'.busy = page.busy
      /\ conn'[s].handler = "receive" /\ conn'[s].inbox = conn[s].inbox
      /\ conn'[s].wire = conn[s].wire
      /\ \A c \in Sockets \ {s} : conn'[c].open => conn[c].open /\ c # page.ws
  BY ConnectEffect DEF QInv, IInv
<1>2. page.opened \in Nat /\ page.sent \in Asks \cup {0} /\ \A q \in Asks : ask[q].socket \in Nat
  <2>1. page.opened \in Sockets \cup {0} /\ page.sent \in Asks \cup {0}
    BY DEF QInv, IInv, TypeOK, Page
  <2>2. \A q \in Asks : ask[q].socket \in Sockets \cup {0}
    BY DEF QInv, IInv, TypeOK, Ask
  <2>3. Sockets \cup {0} \subseteq Nat
    BY SessionBoundAssumption DEF Sockets
  <2> QED
    BY <2>1, <2>2, <2>3
<1>3. s > page.opened /\ page.opened <= s /\ s \in Nat
  BY <1>2
<1>4. conn[s].inbox = <<>> /\ conn[s].wire = <<>>
  BY <1>1, <1>3 DEF QInv, IInv, Fresh
<1>5. \A q \in Asks : ask[q].socket <= page.opened /\ ask[q].socket # s /\ ask[q].socket <= s
  BY <1>2 DEF QInv, Current
<1> HIDE DEF s
<1>6. \A c \in Sockets \ {s} : ~conn'[c].open
  BY <1>1 DEF QInv, Current
<1>7. Current'
  <2>1. \A q \in Asks : ask'[q].socket <= page'.opened
    BY <1>1, <1>5
  <2>2. \A q \in Asks : ask'[q].worker = "none" => ask'[q].emitted = 0
    BY DEF QInv, Current
  <2> QED
    BY <1>1, <1>6, <2>1, <2>2 DEF Current
<1>8. OthersSpent'
  BY <1>5, <1>6 DEF OthersSpent
<1>9. Silent'
  BY <1>1, <1>4, <1>6 DEF Silent
<1>10. Traced'
  BY <1>1, <1>2, <1>5, <1>6 DEF Traced, Awaited
<1> QED
  BY <1>7, <1>8, <1>9, <1>10 DEF Rest

(* A question is sent only when nothing is on the connection.                  *)
LEMMA RestSubmit ==
    ASSUME QInv, NEW lane \in Lanes, NEW other \in Docs \cup {None}, Submit(lane, other)
    PROVE  Rest'
<1>1. page.sent + 1 \in Asks /\ page.sent \in Nat
  BY SubmitEffect, SessionBoundAssumption DEF QInv, IInv, TypeOK, Page, Asks
<1>2. PICK q \in Asks : q = page.sent + 1
  BY <1>1
<1>3. PICK w \in Sockets : w = page.ws
  BY SubmitEffect DEF QInv, IInv
<1>4. /\ conn[w].open /\ page'.sent = q /\ page'.busy /\ page'.ws = page.ws
      /\ page'.opened = page.opened /\ ask'[q].socket = w /\ ask'[q].worker = ask[q].worker
      /\ ask'[q].emitted = ask[q].emitted /\ \A r \in Asks \ {q} : ask'[r] = ask[r]
      /\ conn'[w].inbox = Append(conn[w].inbox, q)
      /\ \A s \in Sockets : conn'[s].open = conn[s].open /\ conn'[s].wire = conn[s].wire
                            /\ conn'[s].handler = conn[s].handler
  BY <1>2, <1>3, SubmitEffect DEF QInv, IInv
<1>5. ~page.busy /\ UNCHANGED queue
  BY DEF Submit
<1>6. q # 0 /\ q # page.sent /\ ask[q].worker = "none" /\ queue[q] = <<>>
  <2>1. q > page.sent /\ q # 0
    BY <1>1, <1>2
  <2> QED
    BY <1>1, <2>1 DEF QInv, IInv, Waiting
<1>7. conn[w].inbox = <<>> /\ conn[w].wire = <<>>
  BY <1>4, <1>5 DEF QInv, Silent, Awaited
<1>8. \A s \in Sockets : conn'[s].open => s = w
  BY <1>3, <1>4 DEF QInv, Current
<1>9. Current'
  <2>1. \A r \in Asks : ask'[r].socket <= page'.opened
    <3>1. w <= page.opened
      BY <1>3, SessionBoundAssumption DEF QInv, IInv, Fresh, TypeOK, Page, Sockets
    <3> QED
      BY <1>4, <3>1 DEF QInv, Current
  <2>2. \A r \in Asks : ask'[r].worker = "none" => ask'[r].emitted = 0
    BY <1>4 DEF QInv, Current
  <2> QED
    BY <1>4, <2>1, <2>2 DEF QInv, Current
<1>10. OthersSpent'
  <2> SUFFICES ASSUME NEW r \in Asks, ask'[r].socket = w, r # q
               PROVE  Spent(r)'
    BY <1>4, <1>8 DEF OthersSpent
  <2>1. ask'[r] = ask[r] /\ ask[r].socket = w
    BY <1>4
  <2>2. Spent(r)
    BY <1>4, <1>5, <2>1 DEF QInv, OthersSpent
  <2> QED
    BY <1>5, <2>1, <2>2, SaidFrame
<1>11. Silent'
  BY <1>4, <1>6, <1>8 DEF Silent, Awaited
<1>12. Traced'
  <2>1. conn'[w].inbox = <<q>> /\ conn'[w].wire = <<>>
    BY <1>4, <1>7
  <2>2. Stage(q, conn[w])'
    BY <1>4, <1>5, <1>6, <2>1 DEF Stage, Unread
  <2> QED
    BY <1>4, <1>8, <2>2 DEF Traced
<1> QED
  BY <1>9, <1>10, <1>11, <1>12 DEF Rest

(* The page takes an event; the final one is the last.                         *)
LEMMA RestReceive ==
    ASSUME QInv, Receive
    PROVE  Rest'
<1>1. PICK w \in Sockets : w = page.ws
  BY ReceiveEffect DEF QInv, IInv
<1> DEFINE ev == Head(conn[w].wire)
<1>2. /\ conn[w].open /\ conn[w].wire # <<>>
      /\ page'.sent = page.sent /\ page'.ws = page.ws /\ page'.opened = page.opened
      /\ page'.busy = (page.busy /\ ev.type \notin Final)
      /\ conn'[w].wire = Tail(conn[w].wire)
      /\ \A s \in Sockets : /\ conn'[s].open = conn[s].open /\ conn'[s].inbox = conn[s].inbox
                            /\ conn'[s].handler = conn[s].handler
      /\ UNCHANGED <<ask, queue>>
  BY <1>1, ReceiveEffect DEF QInv, IInv
<1>3. \A s \in Sockets : conn[s].open => s = w
  BY <1>1 DEF QInv, Current
<1>4. conn[w].wire \in Seq(Event)
  BY DEF QInv, IInv, TypeOK, Conn
<1>5. Awaited(w)
  BY <1>2 DEF QInv, Silent
<1>6. PICK q \in Asks : q = page.sent /\ Stage(q, conn[w])
  BY <1>2, <1>5 DEF QInv, IInv, TypeOK, Page, Awaited, Traced
<1>7. \A r \in Asks : Spent(r)' = Spent(r)
  BY <1>2, SaidFrame
<1>8. Current'
  BY <1>2 DEF QInv, Current
<1>9. CASE ev.type \in Final
  <2>1. Arriving(q, conn[w])
    BY <1>2, <1>4, <1>6, <1>9, TakeOut DEF Stage, Unread, InHand, Queued
  <2>2. conn'[w].wire = <<>> /\ conn'[w].inbox = <<>> /\ Spent(q) /\ ~page'.busy
    BY <1>2, <1>4, <1>9, <2>1, TakeOut DEF Arriving
  <2>3. ASSUME NEW r \in Asks, ask[r].socket = w
        PROVE  Spent(r)
    BY <1>2, <1>6, <2>2, <2>3 DEF QInv, OthersSpent
  <2>4. OthersSpent'
    BY <1>2, <1>3, <1>7, <2>3 DEF OthersSpent
  <2>5. Silent'
    BY <1>2, <1>3, <2>2 DEF Silent
  <2>6. Traced'
    BY <1>2, <1>3, <2>2 DEF Traced, Awaited
  <2> QED
    BY <1>8, <2>4, <2>5, <2>6 DEF Rest
<1>10. CASE ev.type \notin Final
  <2>1. page'.busy = page.busy
    BY <1>2, <1>5, <1>10 DEF Awaited
  <2>2. OthersSpent'
    BY <1>2, <1>7, <2>1 DEF QInv, OthersSpent
  <2>3. Awaited(w)'
    BY <1>2, <1>5, <2>1 DEF Awaited
  <2>4. Silent'
    BY <1>2, <1>3, <2>3 DEF Silent
  <2>5. Stage(q, conn[w])'
    <3>1. /\ Said(q)' = Said(q) /\ Running(q)' = Running(q) /\ Script(q)' = Script(q)
          /\ Spent(q)' = Spent(q)
      BY <1>2, SaidFrame
    <3>2. NoFinal(conn[w].wire) => NoFinal(conn'[w].wire)
      BY <1>2, <1>4, TakeOut
    <3>3. FinalLast(conn[w].wire) => FinalLast(conn'[w].wire)
      BY <1>2, <1>4, <1>10, TakeOut
    <3>4. ~Unread(q, conn[w])
      BY <1>2 DEF Unread
    <3>5. CASE InHand(q, conn[w])
      BY <1>2, <3>1, <3>2, <3>5 DEF Stage, InHand, NoFinal
    <3>6. CASE Queued(q, conn[w])
      BY <1>2, <3>1, <3>2, <3>6 DEF Stage, Queued, NoFinal, FinalThenDone
    <3>7. CASE Arriving(q, conn[w])
      BY <1>2, <3>1, <3>3, <3>7 DEF Stage, Arriving, FinalLast
    <3> QED
      BY <1>6, <3>4, <3>5, <3>6, <3>7 DEF Stage
  <2>6. Traced'
    BY <1>2, <1>3, <1>6, <2>5 DEF Traced
  <2> QED
    BY <1>8, <2>2, <2>4, <2>6 DEF Rest
<1> QED
  BY <1>9, <1>10

(* What is read from an open connection is the question the page waits for.     *)
LEMMA ReadIsAwaited ==
    ASSUME QInv, NEW s \in Sockets, Reading(s)
    PROVE  /\ First(s) \in Asks /\ ask[First(s)].socket = s /\ ask[First(s)].worker = "none"
           /\ conn[s].open => /\ Awaited(s) /\ First(s) = page.sent
                              /\ Unread(First(s), conn[s]) /\ Tail(conn[s].inbox) = <<>>
<1>1. conn[s].inbox # <<>>
  BY DEF Reading
<1>2. First(s) \in Asks /\ 1 \in DOMAIN conn[s].inbox /\ conn[s].inbox[1] = First(s)
  BY TakenEffect DEF QInv, IInv
<1>3. ask[First(s)].socket = s /\ ask[First(s)].worker = "none"
  BY <1>2 DEF QInv, IInv, Waiting
<1>4. ASSUME conn[s].open
      PROVE  /\ Awaited(s) /\ First(s) = page.sent
             /\ Unread(First(s), conn[s]) /\ Tail(conn[s].inbox) = <<>>
  <2>1. Awaited(s)
    BY <1>1, <1>4 DEF QInv, Silent
  <2>2. Unread(page.sent, conn[s])
    BY <1>1, <1>4, <2>1 DEF QInv, Traced, Stage, InHand, Queued, Arriving
  <2>3. conn[s].inbox = <<page.sent>>
    BY <2>2 DEF Unread
  <2> QED
    BY <2>1, <2>2, <2>3 DEF First
<1> QED
  BY <1>2, <1>3, <1>4

(* A refusal is the final event of the question.                               *)
LEMMA RestRefuse ==
    ASSUME QInv, NEW s \in Sockets, Refuse(s)
    PROVE  Rest'
<1>1. /\ Reading(s) /\ \A t \in Sockets \ {s} : conn'[t] = conn[t]
      /\ conn'[s].open = conn[s].open /\ conn'[s].inbox = Tail(conn[s].inbox)
      /\ conn[s].open => /\ conn'[s].handler = "receive"
                         /\ conn'[s].wire = Append(conn[s].wire, Error(First(s)))
      /\ UNCHANGED <<page, ask, queue>>
  BY RefuseEffect DEF QInv, IInv
<1>2. CASE ~conn[s].open
  BY <1>1, <1>2, RestFrame
<1>3. CASE conn[s].open
  <2>1. PICK q \in Asks : q = First(s)
    BY <1>1, ReadIsAwaited
  <2>2. /\ Awaited(s) /\ q = page.sent /\ ask[q].socket = s /\ ask[q].worker = "none"
        /\ conn[s].wire = <<>> /\ queue[q] = <<>> /\ conn'[s].inbox = <<>>
    BY <1>1, <1>3, <2>1, ReadIsAwaited DEF Unread
  <2>3. \A t \in Sockets : conn'[t].open => t = s
    BY <1>1, <1>3 DEF QInv, Current
  <2>4. \A r \in Asks : Spent(r)' = Spent(r)
    BY <1>1, SaidFrame
  <2>5. Current'
    BY <1>1, <1>3, <2>3 DEF QInv, Current
  <2>6. OthersSpent'
    BY <1>1, <1>3, <2>3, <2>4 DEF QInv, OthersSpent
  <2>7. Silent'
    BY <1>1, <2>2, <2>3 DEF Silent, Awaited
  <2>8. Stage(q, conn[s])'
    <3>1. Error(q) \in Event /\ Error(q).type \in Final
      BY DEF Error, Event, Type, Final
    <3>2. FinalLast(conn'[s].wire)
      <4>1. <<>> \in Seq(Event)
        OBVIOUS
      <4> QED
        BY <1>1, <1>3, <2>1, <2>2, <3>1, <4>1, PutIn, EmptyEvents
    <3>3. Spent(q)'
      BY <2>2, <2>4, EmptyEvents DEF Spent, Said, Running
    <3> QED
      BY <2>2, <3>2, <3>3 DEF Stage, Arriving, FinalLast
  <2>9. Traced'
    BY <1>1, <2>2, <2>3, <2>8 DEF Traced
  <2> QED
    BY <2>5, <2>6, <2>7, <2>9 DEF Rest
<1> QED
  BY <1>2, <1>3

(* A question accepted has said nothing yet.                                   *)
LEMMA RestAccept ==
    ASSUME QInv, NEW s \in Sockets, Accept(s)
    PROVE  Rest'
<1>1. PICK q \in Asks : q = First(s) /\ ask[q].socket = s /\ ask[q].worker = "none"
  BY ReadIsAwaited DEF Accept
<1>2. /\ Reading(s) /\ \A t \in Sockets \ {s} : conn'[t] = conn[t]
      /\ conn'[s].open = conn[s].open /\ conn'[s].inbox = Tail(conn[s].inbox)
      /\ conn'[s].wire = conn[s].wire /\ conn'[s].handler = "stream"
      /\ ask'[q].worker = "running" /\ ask'[q].socket = s
      /\ ask'[q].lane = ask[q].lane /\ ask'[q].emitted = ask[q].emitted
      /\ \A r \in Asks \ {q} : ask'[r] = ask[r]
      /\ UNCHANGED <<page, queue>>
  BY <1>1, AcceptEffect DEF QInv, IInv
<1>3. \A r \in Asks : ask'[r].socket = ask[r].socket
  BY <1>1, <1>2
<1>4. \A r \in Asks \ {q} : Spent(r)' = Spent(r)
  BY <1>2, SaidFrame
<1>5. Current'
  BY <1>2, <1>3 DEF QInv, Current
<1>6. CASE ~conn[s].open
  <2>1. \A t \in Sockets : conn'[t].open => t # s /\ conn'[t] = conn[t]
    BY <1>2, <1>6
  <2>2. OthersSpent'
    BY <1>1, <1>2, <1>3, <1>4, <2>1 DEF QInv, OthersSpent
  <2>3. page.sent \in Asks \cup {0}
    BY DEF QInv, IInv, TypeOK, Page
  <2>4. \A t \in Sockets : Awaited(t)' = Awaited(t)
    BY <1>2, <1>3, <2>3 DEF Awaited
  <2>5. Silent'
    BY <2>1, <2>4 DEF QInv, Silent
  <2>6. Traced'
    <3> SUFFICES ASSUME NEW t \in Sockets, conn'[t].open, Awaited(t)
                 PROVE  Stage(page.sent, conn[t])'
      BY <2>4 DEF Traced
    <3>1. PICK r \in Asks : r = page.sent /\ Stage(r, conn[t]) /\ ask[r].socket = t
      BY <2>1, <2>3 DEF QInv, Traced, Awaited
    <3>2. ask'[r] = ask[r] /\ conn'[t] = conn[t]
      BY <1>1, <1>2, <2>1, <3>1
    <3>3. Stage(r, conn[t])'
      BY <1>2, <3>1, <3>2, StageFrame
    <3> QED
      BY <1>2, <3>1, <3>3
  <2> QED
    BY <1>5, <2>2, <2>5, <2>6 DEF Rest
<1>7. CASE conn[s].open
  <2>1. /\ Awaited(s) /\ q = page.sent /\ conn[s].wire = <<>> /\ queue[q] = <<>>
        /\ conn'[s].inbox = <<>>
    BY <1>1, <1>2, <1>7, ReadIsAwaited DEF Unread
  <2>2. \A t \in Sockets : conn'[t].open => t = s
    BY <1>2, <1>7 DEF QInv, Current
  <2>3. OthersSpent'
    BY <1>2, <1>3, <1>4, <1>7, <2>1, <2>2 DEF QInv, OthersSpent, Awaited
  <2>4. Silent'
    BY <1>2, <2>1, <2>2 DEF Silent, Awaited
  <2>5. Stage(q, conn[s])'
    <3>1. Len(Script(q)) \in Nat \ {0} /\ ask[q].emitted = 0
      BY <1>1, ScriptFacts DEF QInv, IInv, Current
    <3>2. Script(q)' = Script(q)
      BY <1>2 DEF Script
    <3>3. ask'[q].emitted < Len(Script(q)')
      BY <1>2, <3>1, <3>2
    <3> QED
      BY <1>2, <2>1, <3>3, EmptyEvents DEF Stage, InHand, Running, NoFinal
  <2>6. Traced'
    BY <1>2, <2>1, <2>2, <2>5 DEF Traced
  <2> QED
    BY <1>5, <2>3, <2>4, <2>6 DEF Rest
<1> QED
  BY <1>6, <1>7

(* A connection that breaks is looked at no more.                              *)
LEMMA RestEnd ==
    ASSUME QInv, NEW s \in Sockets, Drop(s) \/ Disconnect(s)
    PROVE  Rest'
<1>1. /\ \A t \in Sockets \ {s} : conn'[t] = conn[t]
      /\ ~conn'[s].open /\ UNCHANGED <<page, ask, queue>>
  BY EndEffect DEF QInv, IInv
<1> QED
  BY <1>1, RestFrame

(* An event goes from the queue of a question to the wire; DONE stays behind.    *)
LEMMA RestForward ==
    ASSUME QInv, NEW s \in Sockets, Forward(s)
    PROVE  Rest'
<1>1. PICK q \in Asks : q = conn[s].serving /\ ask[q].socket = s
  BY DEF QInv, IInv, Attended, Forward
<1> DEFINE ev == Head(queue[q])
<1>2. /\ queue[q] # <<>> /\ ev \in Event /\ \A r \in Asks \ {q} : queue'[r] = queue[r]
      /\ \A t \in Sockets \ {s} : conn'[t] = conn[t]
      /\ conn'[s].open = conn[s].open /\ conn'[s].inbox = conn[s].inbox
      /\ ev.type = "DONE" => /\ conn'[s].handler = "receive" /\ conn'[s].wire = conn[s].wire
                             /\ queue'[q] = Tail(queue[q])
      /\ ev.type # "DONE" /\ conn[s].open =>
           /\ conn'[s].handler = "stream" /\ conn'[s].wire = Append(conn[s].wire, ev)
           /\ queue'[q] = Tail(queue[q])
  BY <1>1, ForwardEffect DEF QInv, IInv
<1>3. UNCHANGED <<page, ask>>
  BY DEF Forward
<1>4. queue[q] \in Seq(Event) /\ conn[s].wire \in Seq(Event)
  BY DEF QInv, IInv, TypeOK, Conn
<1>5. \A r \in Asks \ {q} : Spent(r)' = Spent(r)
  BY <1>2, <1>3, SaidFrame
<1>6. \A t \in Sockets : Awaited(t)' = Awaited(t)
  BY <1>3 DEF Awaited
<1>7. page.sent \in Asks \cup {0}
  BY DEF QInv, IInv, TypeOK, Page
<1>8. Current'
  BY <1>2, <1>3 DEF QInv, Current
<1>9. Script(q)' = Script(q) /\ Running(q)' = Running(q) /\ Said(q)' = Said(q)
  BY <1>3 DEF Script, Running, Said
<1>10. Spent(q) => ev.type = "DONE" /\ OnlyDone(Tail(queue[q]))
  BY <1>2, <1>4, TakeOut DEF Spent
<1>11. ASSUME Spent(q), conn[s].open
       PROVE  Spent(q)' /\ conn'[s].wire = conn[s].wire
  BY <1>2, <1>9, <1>10, <1>11 DEF Spent, OnlyDone
<1>12. OthersSpent'
  <2> SUFFICES ASSUME NEW t \in Sockets, NEW r \in Asks, conn'[t].open, ask[r].socket = t,
                      r = page.sent => ~page.busy
               PROVE  Spent(r)'
    BY <1>3 DEF OthersSpent
  <2>1. conn[t].open
    BY <1>2
  <2>2. Spent(r)
    BY <2>1 DEF QInv, OthersSpent
  <2>3. CASE r = q
    BY <1>1, <1>11, <2>1, <2>2, <2>3
  <2>4. CASE r # q
    BY <1>5, <2>2, <2>4
  <2> QED
    BY <2>3, <2>4
<1>13. Silent'
  <2> SUFFICES ASSUME NEW t \in Sockets, conn'[t].open, ~Awaited(t)
               PROVE  conn'[t].inbox = <<>> /\ conn'[t].wire = <<>>
    BY <1>6 DEF Silent
  <2>1. conn[t].open /\ conn[t].inbox = <<>> /\ conn[t].wire = <<>>
    BY <1>2 DEF QInv, Silent
  <2>2. CASE t = s
    <3>1. q = page.sent => ~page.busy
      <4>1. q # 0
        BY DEF Asks
      <4> QED
        BY <1>1, <2>2, <4>1 DEF Awaited
    <3>2. Spent(q)
      BY <1>1, <2>1, <2>2, <3>1 DEF QInv, OthersSpent
    <3> QED
      BY <1>2, <1>11, <2>1, <2>2, <3>2
  <2>3. CASE t # s
    BY <1>2, <2>1, <2>3
  <2> QED
    BY <2>2, <2>3
<1>14. Traced'
  <2> SUFFICES ASSUME NEW t \in Sockets, conn'[t].open, Awaited(t)
               PROVE  Stage(page.sent, conn[t])'
    BY <1>6 DEF Traced
  <2>1. PICK r \in Asks : r = page.sent /\ Stage(r, conn[t]) /\ ask[r].socket = t /\ conn[t].open
    BY <1>2, <1>7 DEF QInv, Traced, Awaited
  <2>2. CASE r # q
    <3>1. queue'[r] = queue[r] /\ ask'[r] = ask[r] /\ conn'[t].inbox = conn[t].inbox
      BY <1>2, <1>3, <2>2
    <3>2. conn'[t].wire = conn[t].wire
      <4>1. CASE t = s
        <5>1. Spent(q)
          BY <1>1, <2>1, <2>2, <4>1 DEF QInv, OthersSpent
        <5> QED
          BY <1>11, <2>1, <4>1, <5>1
      <4>2. CASE t # s
        BY <1>2, <4>2
      <4> QED
        BY <4>1, <4>2
    <3>3. Stage(r, conn[t])'
      BY <2>1, <3>1, <3>2, StageFrame
    <3> QED
      BY <1>3, <2>1, <3>3
  <2>3. CASE r = q
    <3>0. t = s /\ conn[s].open
      BY <1>1, <2>1, <2>3
    <3> SUFFICES Stage(q, conn[s])'
      BY <1>3, <2>1, <2>3, <3>0
    <3>1. Stage(q, conn[s])
      BY <2>1, <2>3, <3>0
    <3>2. queue'[q] = Tail(queue[q])
      BY <1>2, <3>0
    <3>3. ev.type = "DONE" => ev.type \notin Final
      BY DEF Final
    <3>4. ~Unread(q, conn[s])
      BY <1>2 DEF Unread
    <3>5. CASE InHand(q, conn[s])
      <4>1. ev.type \notin Final /\ NoFinal(queue'[q])
        BY <1>2, <1>4, <3>2, <3>5, TakeOut DEF InHand
      <4>2. NoFinal(conn'[s].wire)
        BY <1>2, <1>4, <3>0, <3>5, <4>1, PutIn DEF InHand
      <4>3. InHand(q, conn[s])'
        BY <1>2, <1>3, <1>9, <3>5, <4>1, <4>2 DEF InHand, NoFinal
      <4> QED
        BY <4>3 DEF Stage
    <3>6. CASE Queued(q, conn[s])
      <4>1. CASE ev.type \in Final
        <5>1. OnlyDone(queue'[q])
          BY <1>2, <1>4, <3>2, <3>6, <4>1, TakeOut DEF Queued
        <5>2. FinalLast(conn'[s].wire)
          BY <1>2, <1>4, <3>0, <3>3, <3>6, <4>1, PutIn DEF Queued
        <5>3. Arriving(q, conn[s])'
          BY <1>2, <1>9, <3>6, <5>1, <5>2 DEF Arriving, Queued, Spent, OnlyDone, FinalLast
        <5> QED
          BY <5>3 DEF Stage
      <4>2. CASE ev.type \notin Final
        <5>1. FinalThenDone(queue'[q])
          BY <1>2, <1>4, <3>2, <3>6, <4>2, TakeOut DEF Queued
        <5>2. NoFinal(conn'[s].wire)
          BY <1>2, <1>4, <3>0, <3>6, <4>2, PutIn DEF Queued
        <5>3. Queued(q, conn[s])'
          BY <1>2, <1>9, <3>6, <5>1, <5>2 DEF Queued, NoFinal, FinalThenDone
        <5> QED
          BY <5>3 DEF Stage
      <4> QED
        BY <4>1, <4>2
    <3>7. CASE Arriving(q, conn[s])
      <4>1. Spent(q)' /\ conn'[s].wire = conn[s].wire
        BY <1>11, <3>0, <3>7 DEF Arriving
      <4>2. Arriving(q, conn[s])'
        BY <1>2, <3>7, <4>1 DEF Arriving, FinalLast
      <4> QED
        BY <4>2 DEF Stage
    <3> QED
      BY <3>1, <3>4, <3>5, <3>6, <3>7 DEF Stage
  <2> QED
    BY <2>2, <2>3
<1> QED
  BY <1>8, <1>12, <1>13, <1>14 DEF Rest

(* What a worker puts on its queue.                                            *)
LEMMA WorkerPuts ==
    ASSUME TypeOK, NEW q \in Asks, Worker(q)
    PROVE  /\ Running(q) /\ queue[q] \in Seq(Event) /\ Len(Script(q)) \in Nat /\ ask[q].emitted \in Nat
           /\ Error(q) \in Event /\ Error(q).type = "error" /\ Error(q).ask = q
           /\ Sentinel(q) \in Event /\ Sentinel(q).type = "DONE"
           /\ \/ /\ ask[q].emitted < Len(Script(q)) /\ ask'[q].emitted = ask[q].emitted + 1
                 /\ ask'[q].worker = "running"
                 /\ ask[q].emitted + 1 \in DOMAIN Script(q) /\ Script(q)[ask[q].emitted + 1] \in Event
                 /\ \/ queue'[q] = queue[q] /\ conn[ask[q].socket].handler = "gone"
                    \/ queue'[q] = Append(queue[q], Script(q)[ask[q].emitted + 1])
              \/ /\ ask[q].emitted = Len(Script(q)) /\ ask'[q].worker = "ended"
                 /\ \/ queue'[q] = queue[q] /\ conn[ask[q].socket].handler = "gone"
                    \/ queue'[q] = Append(queue[q], Sentinel(q))
              \/ /\ ask[q].emitted < Len(Script(q)) /\ ask'[q].worker = "ended"
                 /\ \/ queue'[q] = queue[q] /\ conn[ask[q].socket].handler = "gone"
                    \/ queue'[q] = Append(Append(queue[q], Error(q)), Sentinel(q))
<1>1. PICK events \in Seq(Event) :
        /\ \/ queue'[q] = queue[q] /\ conn[ask[q].socket].handler = "gone"
           \/ queue'[q] = queue[q] \o events
        /\ \/ /\ ask[q].emitted < Len(Script(q)) /\ ask'[q].emitted = ask[q].emitted + 1
              /\ ask'[q].worker = "running" /\ events = <<Script(q)[ask[q].emitted + 1]>>
           \/ /\ ask[q].emitted = Len(Script(q)) /\ ask'[q].worker = "ended"
              /\ ask'[q].emitted = ask[q].emitted /\ events = <<Sentinel(q)>>
           \/ /\ ask[q].emitted < Len(Script(q)) /\ ask'[q].worker = "ended"
              /\ ask'[q].emitted = ask[q].emitted /\ events = <<Error(q), Sentinel(q)>>
  BY WorkerEffect
<1>2. Running(q) /\ queue[q] \in Seq(Event) /\ ask[q].emitted \in Nat
  BY WorkerEffect DEF TypeOK, Ask
<1>3. Len(Script(q)) \in Nat /\ Script(q) \in Seq(Event)
  BY ScriptFacts
<1>4. /\ Error(q) \in Event /\ Error(q).type = "error" /\ Error(q).ask = q
      /\ Sentinel(q) \in Event /\ Sentinel(q).type = "DONE"
  BY DEF Error, Sentinel, Event, Type
<1>5. \A ev \in Event : queue[q] \o <<ev>> = Append(queue[q], ev)
  BY <1>2, AppendIsConcat
<1>6. ASSUME ask[q].emitted < Len(Script(q))
      PROVE  ask[q].emitted + 1 \in DOMAIN Script(q) /\ Script(q)[ask[q].emitted + 1] \in Event
  <2>1. ask[q].emitted + 1 \in 1..Len(Script(q))
    BY <1>2, <1>3, <1>6
  <2> QED
    BY <1>3, <2>1, ElementOfSeq, LenProperties
<1>7. queue[q] \o <<Error(q), Sentinel(q)>> = Append(Append(queue[q], Error(q)), Sentinel(q))
  <2>1. /\ <<Error(q)>> \in Seq(Event) /\ <<Sentinel(q)>> \in Seq(Event)
        /\ <<Error(q), Sentinel(q)>> = <<Error(q)>> \o <<Sentinel(q)>>
    BY <1>4
  <2>2. (queue[q] \o <<Error(q)>>) \o <<Sentinel(q)>> = queue[q] \o (<<Error(q)>> \o <<Sentinel(q)>>)
    BY <1>2, <2>1, ConcatAssociative
  <2>3. Append(queue[q], Error(q)) \in Seq(Event)
    BY <1>2, <1>4, AppendProperties
  <2> QED
    BY <1>4, <1>5, <2>1, <2>2, <2>3, AppendIsConcat
<1> QED
  BY <1>1, <1>2, <1>3, <1>4, <1>5, <1>6, <1>7

(* The final event comes once, and nothing but DONE after it.                   *)
LEMMA WorkerSays ==
    ASSUME TypeOK, NEW q \in Asks, Worker(q), conn[ask[q].socket].handler # "gone"
    PROVE  /\ Said(q) => /\ OnlyDone(queue[q]) => OnlyDone(queue'[q])
                         /\ FinalThenDone(queue[q]) => FinalThenDone(queue'[q])
                         /\ ask'[q].worker = "ended"
           /\ ~Said(q) /\ NoFinal(queue[q]) =>
                \/ /\ ask'[q].worker = "running" /\ ask'[q].emitted < Len(Script(q))
                   /\ NoFinal(queue'[q])
                \/ /\ ask'[q].worker = "running" => ask'[q].emitted = Len(Script(q))
                   /\ FinalThenDone(queue'[q])
<1>1. /\ Running(q) /\ queue[q] \in Seq(Event) /\ Len(Script(q)) \in Nat /\ ask[q].emitted \in Nat
      /\ Error(q) \in Event /\ Error(q).type = "error"
      /\ Sentinel(q) \in Event /\ Sentinel(q).type = "DONE"
  BY WorkerPuts
<1> DEFINE n == ask[q].emitted + 1
           ev == Script(q)[n]
<1>2. CASE /\ ask[q].emitted < Len(Script(q)) /\ ask'[q].emitted = n
           /\ ask'[q].worker = "running" /\ n \in DOMAIN Script(q) /\ ev \in Event
           /\ queue'[q] = Append(queue[q], ev)
  <2>1. ~Said(q) /\ n <= Len(Script(q)) /\ n \in Nat
    BY <1>1, <1>2 DEF Said
  <2>2. ev.type \in Final <=> n = Len(Script(q))
    BY <1>2, ScriptFacts, LenProperties DEF Final
  <2> HIDE DEF ev
  <2>3. CASE n = Len(Script(q))
    BY <1>1, <1>2, <2>1, <2>2, <2>3, PutIn
  <2>4. CASE n # Len(Script(q))
    <3>1. n < Len(Script(q))
      BY <1>1, <2>1, <2>4
    <3>2. NoFinal(queue[q]) => NoFinal(queue'[q])
      BY <1>1, <1>2, <2>2, <2>4, PutIn
    <3> QED
      BY <1>2, <2>1, <3>1, <3>2
  <2> QED
    BY <2>3, <2>4
<1>3. CASE /\ ask[q].emitted = Len(Script(q)) /\ ask'[q].worker = "ended"
           /\ queue'[q] = Append(queue[q], Sentinel(q))
  <2>1. Said(q)
    BY <1>3 DEF Said
  <2> QED
    BY <1>1, <1>3, <2>1, PutIn
<1>4. CASE /\ ask[q].emitted < Len(Script(q)) /\ ask'[q].worker = "ended"
           /\ queue'[q] = Append(Append(queue[q], Error(q)), Sentinel(q))
  <2>1. ~Said(q)
    BY <1>1, <1>4 DEF Said
  <2>2. NoFinal(queue[q]) => FinalThenDone(queue'[q])
    <3> SUFFICES ASSUME NoFinal(queue[q]) PROVE FinalThenDone(queue'[q])
      OBVIOUS
    <3>1. /\ Append(queue[q], Error(q)) \in Seq(Event)
          /\ FinalThenDone(Append(queue[q], Error(q)))
      BY <1>1, PutIn, AppendProperties DEF Final
    <3> QED
      BY <1>1, <1>4, <3>1, PutIn
  <2> QED
    BY <1>4, <2>1, <2>2
<1> QED
  BY <1>2, <1>3, <1>4, WorkerPuts

LEMMA RestWorker ==
    ASSUME QInv, NEW q \in Asks, Worker(q)
    PROVE  Rest'
<1>1. /\ Running(q) /\ \A r \in Asks \ {q} : ask'[r] = ask[r] /\ queue'[r] = queue[r]
      /\ ask'[q].socket = ask[q].socket /\ ask'[q].lane = ask[q].lane
      /\ ask'[q].worker \in {"running", "ended"} /\ UNCHANGED <<page, conn>>
  BY WorkerEffect DEF QInv, IInv
<1>2. page.sent \in Asks \cup {0}
  BY DEF QInv, IInv, TypeOK, Page
<1>3. \A r \in Asks : ask'[r].socket = ask[r].socket
  BY <1>1
<1>4. \A t \in Sockets : Awaited(t)' = Awaited(t)
  BY <1>1, <1>2, <1>3 DEF Awaited
<1>5. \A r \in Asks \ {q} : Spent(r)' = Spent(r)
  BY <1>1, SaidFrame
<1>6. Current'
  BY <1>1, <1>3 DEF QInv, Current
<1>7. ask[q].socket \in Sockets /\ (conn[ask[q].socket].open => conn[ask[q].socket].handler # "gone")
  BY <1>1 DEF QInv, IInv, Attended, Current, Running
<1>8. Script(q)' = Script(q)
  BY <1>1 DEF Script
<1>9. ASSUME Spent(q), conn[ask[q].socket].open
      PROVE  Spent(q)'
  BY <1>1, <1>7, <1>9, WorkerSays DEF QInv, IInv, Spent, Said, Running, OnlyDone
<1>10. OthersSpent'
  <2> SUFFICES ASSUME NEW t \in Sockets, NEW r \in Asks, conn[t].open, ask[r].socket = t,
                      r = page.sent => ~page.busy
               PROVE  Spent(r)'
    BY <1>1, <1>3 DEF OthersSpent
  <2>1. Spent(r)
    BY DEF QInv, OthersSpent
  <2>2. CASE r = q
    BY <1>9, <2>1, <2>2
  <2>3. CASE r # q
    BY <1>5, <2>1, <2>3
  <2> QED
    BY <2>2, <2>3
<1>11. Silent'
  BY <1>1, <1>4 DEF QInv, Silent
<1>12. Traced'
  <2> SUFFICES ASSUME NEW t \in Sockets, conn[t].open, Awaited(t)
               PROVE  Stage(page.sent, conn[t])'
    BY <1>1, <1>4 DEF Traced
  <2>1. PICK r \in Asks : r = page.sent /\ Stage(r, conn[t]) /\ ask[r].socket = t
    BY <1>2 DEF QInv, Traced, Awaited
  <2>2. CASE r # q
    <3>1. queue'[r] = queue[r] /\ ask'[r] = ask[r] /\ conn'[t] = conn[t]
      BY <1>1, <2>2
    <3>2. Stage(r, conn[t])'
      BY <2>1, <3>1, StageFrame
    <3> QED
      BY <1>1, <2>1, <3>2
  <2>3. CASE r = q
    <3> SUFFICES Stage(q, conn[t])'
      BY <1>1, <2>1, <2>3
    <3>1. Stage(q, conn[t]) /\ ask[q].socket = t /\ conn'[t] = conn[t] /\ conn[t].handler # "gone"
      BY <1>1, <1>7, <2>1, <2>3
    <3>2. ~Unread(q, conn[t])
      BY <1>1 DEF Unread, Running
    <3>3. CASE InHand(q, conn[t])
      <4>1. ~Said(q)
        <5>1. Len(Script(q)) \in Nat
          BY ScriptFacts DEF QInv, IInv
        <5>2. ask[q].emitted # Len(Script(q))
          BY <3>3, <5>1 DEF InHand
        <5> QED
          BY <3>3, <5>2 DEF InHand, Said
      <4>2. CASE /\ ask'[q].worker = "running" /\ ask'[q].emitted < Len(Script(q))
                 /\ NoFinal(queue'[q])
        <5>1. ask'[q].emitted < Len(Script(q)')
          BY <1>8, <4>2
        <5> QED
          BY <3>1, <3>3, <4>2, <5>1 DEF Stage, InHand, Running, NoFinal
      <4>3. CASE /\ ask'[q].worker = "running" => ask'[q].emitted = Len(Script(q))
                 /\ FinalThenDone(queue'[q])
        <5>1. Said(q)'
          BY <1>8, <4>3 DEF Said, Running
        <5>2. Queued(q, conn[t])'
          BY <3>1, <3>3, <4>3, <5>1 DEF Queued, InHand, NoFinal, FinalThenDone
        <5> QED
          BY <5>2 DEF Stage
      <4> QED
        BY <3>1, <3>3, <4>1, <4>2, <4>3, WorkerSays DEF QInv, IInv, InHand
    <3>4. CASE Queued(q, conn[t])
      <4>1. FinalThenDone(queue'[q]) /\ ask'[q].worker = "ended"
        BY <3>1, <3>4, WorkerSays DEF QInv, IInv, Queued
      <4>2. Said(q)'
        BY <4>1 DEF Said, Running
      <4>3. Queued(q, conn[t])'
        BY <3>1, <3>4, <4>1, <4>2 DEF Queued, NoFinal, FinalThenDone
      <4> QED
        BY <4>3 DEF Stage
    <3>5. CASE Arriving(q, conn[t])
      <4>1. Spent(q)'
        BY <1>9, <3>1, <3>5 DEF Arriving
      <4>2. Arriving(q, conn[t])'
        BY <3>1, <3>5, <4>1 DEF Arriving, FinalLast
      <4> QED
        BY <4>2 DEF Stage
    <3> QED
      BY <3>1, <3>2, <3>3, <3>4, <3>5 DEF Stage
  <2> QED
    BY <2>2, <2>3
<1> QED
  BY <1>6, <1>10, <1>11, <1>12 DEF Rest

LEMMA RestStep == QInv /\ [Next]_vars => Rest'
<1> SUFFICES ASSUME QInv, [Next]_vars PROVE Rest'
  OBVIOUS
<1>1. ASSUME UNCHANGED <<page, panel, conn, ask, queue>>
      PROVE  Rest'
  BY <1>1, RestFrame
<1>2. ASSUME NEW d \in Docs, LoadDoc(d) \/ WaitReady(d)
      PROVE  Rest'
  <2>1. UNCHANGED <<ask, queue>> /\ page'.sent = page.sent /\ page'.busy = page.busy
    BY <1>2, LoadEffect DEF QInv, IInv
  <2>2. CASE \E p \in Page : /\ p.doc \in Docs /\ p.opened = page.opened /\ p.sent = page.sent
                             /\ p.busy = page.busy /\ Connect(p)
    BY <2>1, <2>2, RestConnect
  <2>3. CASE page'.ws = page.ws /\ page'.opened = page.opened /\ UNCHANGED conn
    BY <2>1, <2>3, RestFrame
  <2> QED
    BY <1>2, <2>2, <2>3, LoadEffect DEF QInv, IInv
<1> QED
  BY <1>1, <1>2, RestSubmit, RestReceive, RestEnd, RestRefuse, RestAccept, RestForward, RestWorker
     DEF Next, User, Handler, Ingested, vars

-----------------------------------------------------------------------------
LEMMA InitRest == Init => Rest
<1> SUFFICES ASSUME Init PROVE Rest
  OBVIOUS
<1>1. \A s \in Sockets : ~conn[s].open
  BY DEF Init
<1>2. /\ page.opened = 0 /\ \A q \in Asks : ask[q].socket = 0 /\ ask[q].emitted = 0
  BY DEF Init
<1>3. Current
  BY <1>1, <1>2 DEF Current
<1> QED
  BY <1>1, <1>3 DEF Rest, OthersSpent, Silent, Traced

(* Where the page's question is, in every state of the session.                 *)
THEOREM QInvariant == Spec => []QInv
<1>1. IInv /\ Rest <=> QInv
  BY DEF QInv, Rest
<1>2. Init => Rest
  BY InitRest
<1>3. IInv /\ Rest /\ [Next]_vars => Rest'
  BY <1>1, RestStep
<1> QED
  BY <1>1, <1>2, <1>3, Invariant, PTL DEF Spec

(* Once the page has let go of a question, nothing of it or of an earlier one    *)
(* can still reach the page: the next answer is the answer to the next question.  *)
THEOREM Quiet == Spec => []QuietWhenIdle
<1>1. QInv => QuietWhenIdle
  <2> SUFFICES ASSUME QInv, Connected, ~page.busy
               PROVE  /\ conn[page.ws].inbox = <<>> /\ conn[page.ws].wire = <<>>
                      /\ \A q \in Asks : ask[q].socket = page.ws =>
                           /\ Running(q) => ask[q].emitted = Len(Script(q))
                           /\ \A i \in DOMAIN queue[q] : queue[q][i].type = "DONE"
    BY DEF QuietWhenIdle
  <2>1. page.ws \in Sockets /\ conn[page.ws].open
    BY DEF QInv, IInv, TypeOK, Page, Connected
  <2>2. conn[page.ws].inbox = <<>> /\ conn[page.ws].wire = <<>>
    BY <2>1 DEF QInv, Silent, Awaited
  <2>3. \A q \in Asks : ask[q].socket = page.ws => Spent(q)
    BY <2>1 DEF QInv, OthersSpent
  <2> QED
    BY <2>2, <2>3 DEF Spent, Said, OnlyDone
<1> QED
  BY <1>1, QInvariant, PTL

-----------------------------------------------------------------------------
(* The events of the awaited question, in the order of its script: the page has  *)
(* taken c of them, the wire carries the next ones, the queue those after.       *)
Due(q, n, ev) ==
    ev.ask = q /\ (ev.type # "error" => n \in DOMAIN Script(q) /\ ev = Script(q)[n])
OnWire(q, s, c) == \A i \in DOMAIN conn[s].wire : Due(q, c + i, conn[s].wire[i])
OnQueue(q, s, c) ==
    \A i \in DOMAIN queue[q] :
      queue[q][i].type # "DONE" => Due(q, c + Len(conn[s].wire) + i, queue[q][i])
UpTo(q, s, c) ==
    Running(q) /\ ask[q].emitted < Len(Script(q)) =>
      c + Len(conn[s].wire) + Len(queue[q]) = ask[q].emitted
Panel(q, c) ==
    c > 0 => /\ panel[ask[q].lane].ask = q
             /\ ask[q].lane # "qa" => panel[ask[q].lane].rows = c - 1
Flow(q, s, c) ==
    /\ conn[s].inbox # <<>> => c = 0
    /\ OnWire(q, s, c) /\ OnQueue(q, s, c) /\ UpTo(q, s, c) /\ Panel(q, c)
Flowing ==
    \A s \in Sockets : conn[s].open /\ Awaited(s) => \E c \in Nat : Flow(page.sent, s, c)

(* Nothing comes after DONE.                                                   *)
Closed(events) == \A i \in DOMAIN events : events[i].type = "DONE" => i = Len(events)
DoneTail == \A q \in Asks : Closed(queue[q])

FInv == QInv /\ DoneTail /\ Flowing

(* What each place of a script does to the panel of its lane.                   *)
LEMMA ScriptShape ==
    ASSUME TypeOK, NEW q \in Asks, NEW p \in DOMAIN Script(q)
    PROVE  /\ p \in Nat \ {0} /\ Script(q)[p].ask = q
           /\ Opens(Script(q)[p], ask[q].lane) <=> p = 1
           /\ Script(q)[p].type \in {"caveat", "item", "done"} => p > 1
           /\ Script(q)[p].type = "item" => ask[q].lane # "qa" /\ Script(q)[p].i = p - 1
           /\ ask[q].lane # "qa" => /\ Script(q)[p].type = "done" => p = Items[ask[q].lane] + 2
                                    /\ p > 1 /\ Script(q)[p].type # "done" => Script(q)[p].type = "item"
<1> DEFINE ev(type, i) == [ask |-> q, type |-> type, i |-> i]
           n == Items[ask[q].lane]
<1>1. ask[q].lane \in Lanes /\ n \in Nat \ {0}
  BY ItemsAssumption DEF TypeOK, Ask
<1>2. CASE ask[q].lane = "qa"
  <2>1. Script(q) = <<ev("answer", 0), ev("caveat", 0), ev("done", 0)>>
    BY <1>2 DEF Script
  <2>2. p \in 1..3
    BY <2>1
  <2>3. /\ p = 1 => Script(q)[p] = ev("answer", 0)
        /\ p = 2 => Script(q)[p] = ev("caveat", 0)
        /\ p = 3 => Script(q)[p] = ev("done", 0)
    BY <2>1, <2>2
  <2>4. p = 1 \/ p = 2 \/ p = 3
    BY <2>2
  <2> QED
    BY <1>2, <2>3, <2>4 DEF Opens
<1>3. CASE ask[q].lane # "qa"
  <2>1. Script(q) = [k \in 1..(n + 2) |-> IF k = 1 THEN ev("start", 0)
                                          ELSE IF k = n + 2 THEN ev("done", n) ELSE ev("item", k - 1)]
    BY <1>3 DEF Script
  <2>2. p \in 1..(n + 2) /\ p \in Nat \ {0}
    BY <1>1, <2>1
  <2>3. /\ p = 1 => Script(q)[p] = ev("start", 0)
        /\ p # 1 /\ p = n + 2 => Script(q)[p] = ev("done", n)
        /\ p # 1 /\ p # n + 2 => Script(q)[p] = ev("item", p - 1)
    BY <2>1, <2>2
  <2>4. p # 1 => p > 1
    BY <2>2
  <2> QED
    BY <1>3, <2>2, <2>3, <2>4 DEF Opens
<1> QED
  BY <1>2, <1>3

LEMMA DueFrame ==
    ASSUME NEW q \in Asks, ask'[q].lane = ask[q].lane, NEW n, NEW ev, Due(q, n, ev)
    PROVE  Due(q, n, ev)'
<1>1. Script(q)' = Script(q)
  BY DEF Script
<1> QED
  BY <1>1 DEF Due

LEMMA FlowFrame ==
    ASSUME NEW q \in Asks, NEW s \in Sockets, NEW c \in Nat, Flow(q, s, c),
           ask'[q].worker = ask[q].worker, ask'[q].emitted = ask[q].emitted,
           ask'[q].lane = ask[q].lane, queue'[q] = queue[q],
           conn'[s].inbox = conn[s].inbox, conn'[s].wire = conn[s].wire, UNCHANGED panel
    PROVE  Flow(q, s, c)'
<1>1. Script(q)' = Script(q) /\ Running(q)' = Running(q)
  BY SaidFrame
<1>2. OnWire(q, s, c)'
  BY <1>1 DEF Flow, OnWire, Due
<1>3. OnQueue(q, s, c)'
  BY <1>1 DEF Flow, OnQueue, Due
<1>4. UpTo(q, s, c)'
  BY <1>1 DEF Flow, UpTo
<1>5. Panel(q, c)'
  BY DEF Flow, Panel
<1> QED
  BY <1>2, <1>3, <1>4, <1>5 DEF Flow

NoDone(events) == \A i \in DOMAIN events : events[i].type # "DONE"

LEMMA CloseOff ==
    ASSUME NEW events \in Seq(Event), NEW ev \in Event, NoDone(events)
    PROVE  /\ Closed(events) /\ Closed(Append(events, ev))
           /\ ev.type # "DONE" => NoDone(Append(events, ev))
<1> DEFINE n == Len(events) + 1
           longer == Append(events, ev)
<1>1. /\ DOMAIN longer = 1..n /\ longer[n] = ev /\ Len(longer) = n
      /\ \A i \in DOMAIN longer : i # n => i \in DOMAIN events /\ longer[i] = events[i]
  BY AppendIndices
<1> HIDE DEF n, longer
<1>2. \A i \in DOMAIN longer : longer[i].type = "DONE" => i = n
  BY <1>1 DEF NoDone
<1> QED
  BY <1>1, <1>2 DEF Closed, NoDone, longer

LEMMA StepDoneTail == IInv /\ DoneTail /\ [Next]_vars => DoneTail'
<1> SUFFICES ASSUME IInv, DoneTail, [Next]_vars PROVE DoneTail'
  OBVIOUS
<1>0. TypeOK /\ Fresh /\ Attended /\ DoneIsLast
  BY DEF IInv
<1>1. ASSUME UNCHANGED queue
      PROVE  DoneTail'
  BY <1>1 DEF DoneTail, Closed
<1>2. ASSUME NEW s \in Sockets, Forward(s)
      PROVE  DoneTail'
  <2>1. PICK q \in Asks : q = conn[s].serving
    BY <1>0, <1>2 DEF Attended, Forward
  <2>2. /\ queue[q] # <<>> /\ queue[q] \in Seq(Event) /\ queue'[q] \in {Tail(queue[q]), <<>>}
        /\ \A r \in Asks \ {q} : queue'[r] = queue[r]
    BY <1>0, <1>2, <2>1, ForwardEffect DEF TypeOK
  <2>3. Closed(Tail(queue[q]))
    <3> SUFFICES ASSUME NEW i \in DOMAIN Tail(queue[q]), Tail(queue[q])[i].type = "DONE"
                 PROVE  i = Len(Tail(queue[q]))
      BY DEF Closed
    <3>1. /\ i + 1 \in DOMAIN queue[q] /\ Tail(queue[q])[i] = queue[q][i + 1] /\ i \in Nat
          /\ Len(Tail(queue[q])) = Len(queue[q]) - 1 /\ Len(queue[q]) \in Nat
      BY <2>2, TailIndices
    <3>2. i + 1 = Len(queue[q])
      BY <3>1 DEF DoneTail, Closed
    <3> QED
      BY <3>1, <3>2
  <2>4. Closed(<<>>)
    BY DEF Closed
  <2>5. Closed(queue'[q])
    BY <2>2, <2>3, <2>4
  <2> QED
    BY <2>2, <2>5 DEF DoneTail, Closed
<1>3. ASSUME NEW q \in Asks, Worker(q)
      PROVE  DoneTail'
  <2>1. \A r \in Asks \ {q} : queue'[r] = queue[r]
    BY <1>0, <1>3, WorkerEffect
  <2>2. /\ Running(q) /\ queue[q] \in Seq(Event)
        /\ Error(q) \in Event /\ Error(q).type = "error" /\ Sentinel(q) \in Event
    BY <1>0, <1>3, WorkerPuts
  <2>3. NoDone(queue[q])
    BY <1>0, <2>2 DEF DoneIsLast, Running, NoDone
  <2>4. CASE \E ev \in Event : queue'[q] = Append(queue[q], ev)
    <3>1. Closed(queue'[q])
      BY <2>2, <2>3, <2>4, CloseOff
    <3> QED
      BY <2>1, <3>1 DEF DoneTail, Closed
  <2>5. CASE queue'[q] = Append(Append(queue[q], Error(q)), Sentinel(q))
    <3>1. Append(queue[q], Error(q)) \in Seq(Event) /\ NoDone(Append(queue[q], Error(q)))
      BY <2>2, <2>3, CloseOff, AppendProperties
    <3>2. Closed(queue'[q])
      BY <2>2, <2>5, <3>1, CloseOff
    <3> QED
      BY <2>1, <3>2 DEF DoneTail, Closed
  <2>6. CASE queue'[q] = queue[q]
    BY <2>1, <2>6 DEF DoneTail, Closed
  <2> QED
    BY <1>0, <1>3, <2>4, <2>5, <2>6, WorkerPuts
<1> QED
  BY <1>0, <1>1, <1>2, <1>3, LoadEffect, ReceiveEffect, EndEffect, RefuseEffect, AcceptEffect
     DEF Next, User, Handler, Submit, Ingested, vars

(* The question is still the awaited one, and nothing of it has moved.           *)
LEMMA FlowStays ==
    ASSUME FInv, page'.sent = page.sent, UNCHANGED panel,
           \A q \in Asks : /\ ask'[q].socket = ask[q].socket /\ ask'[q].worker = ask[q].worker
                           /\ ask'[q].emitted = ask[q].emitted /\ ask'[q].lane = ask[q].lane,
           NEW s \in Sockets, conn[s].open, Awaited(s),
           conn'[s].inbox = conn[s].inbox, conn'[s].wire = conn[s].wire,
           queue'[page.sent] = queue[page.sent]
    PROVE  (\E c \in Nat : Flow(page.sent, s, c))'
<1>1. PICK q \in Asks : q = page.sent
  BY DEF FInv, QInv, IInv, TypeOK, Page, Awaited
<1>2. PICK c \in Nat : Flow(q, s, c)
  BY <1>1 DEF FInv, Flowing
<1>3. Flow(q, s, c)'
  BY <1>1, <1>2, FlowFrame
<1>4. page'.sent = q
  BY <1>1
<1> QED
  BY <1>3, <1>4

LEMMA FlowFrames ==
    ASSUME FInv, UNCHANGED <<ask, queue, panel>>, page'.sent = page.sent, page'.busy = page.busy,
           \A s \in Sockets : conn'[s].open =>
             \/ conn[s].open /\ conn'[s].inbox = conn[s].inbox /\ conn'[s].wire = conn[s].wire
             \/ s > page.opened
    PROVE  Flowing'
<1> SUFFICES ASSUME NEW s \in Sockets, conn'[s].open, Awaited(s)'
             PROVE  (\E c \in Nat : Flow(page.sent, s, c))'
  BY DEF Flowing
<1>1. Awaited(s)
  BY DEF Awaited
<1>2. PICK q \in Asks : q = page.sent /\ ask[q].socket = s
  BY <1>1 DEF FInv, QInv, IInv, TypeOK, Page, Awaited
<1>3. ~(s > page.opened)
  <2>1. s <= page.opened
    BY <1>2 DEF FInv, QInv, Current
  <2>2. s \in Nat /\ page.opened \in Nat
    <3>1. page.opened \in Sockets \cup {0}
      BY DEF FInv, QInv, IInv, TypeOK, Page
    <3> QED
      BY <3>1, SessionBoundAssumption DEF Sockets
  <2> QED
    BY <2>1, <2>2
<1>4. conn[s].open /\ conn'[s].inbox = conn[s].inbox /\ conn'[s].wire = conn[s].wire
  BY <1>3
<1> QED
  BY <1>1, <1>4, FlowStays

LEMMA FlowSubmit ==
    ASSUME FInv, NEW lane \in Lanes, NEW other \in Docs \cup {None}, Submit(lane, other)
    PROVE  Flowing'
<1> SUFFICES ASSUME NEW s \in Sockets, conn'[s].open, Awaited(s)'
             PROVE  (\E c \in Nat : Flow(page.sent, s, c))'
  BY DEF Flowing
<1>1. page.sent + 1 \in Asks /\ page.sent \in Nat
  BY SubmitEffect, SessionBoundAssumption DEF FInv, QInv, IInv, TypeOK, Page, Asks
<1>2. PICK q \in Asks : q = page.sent + 1
  BY <1>1
<1>3. /\ page'.sent = q /\ ask'[q].worker = ask[q].worker /\ conn[s].open
      /\ conn'[s].wire = conn[s].wire
  BY <1>2, SubmitEffect DEF FInv, QInv, IInv
<1>4. ~page.busy /\ UNCHANGED queue
  BY DEF Submit
<1>5. ask[q].worker = "none" /\ queue[q] = <<>>
  <2>1. q > page.sent
    BY <1>1, <1>2
  <2> QED
    BY <2>1 DEF FInv, QInv, IInv, Waiting
<1>6. conn'[s].wire = <<>>
  BY <1>3, <1>4 DEF FInv, QInv, Silent, Awaited
<1>7. Flow(q, s, 0)'
  <2>1. ~Running(q)'
    BY <1>3, <1>5 DEF Running
  <2> QED
    BY <1>4, <1>5, <1>6, <2>1 DEF Flow, OnWire, OnQueue, UpTo, Panel
<1> QED
  BY <1>3, <1>7

LEMMA FlowRefuse ==
    ASSUME FInv, NEW s \in Sockets, Refuse(s)
    PROVE  Flowing'
<1> SUFFICES ASSUME NEW t \in Sockets, conn'[t].open, Awaited(t)'
             PROVE  (\E c \in Nat : Flow(page.sent, t, c))'
  BY DEF Flowing
<1>1. /\ Reading(s) /\ \A r \in Sockets \ {s} : conn'[r] = conn[r]
      /\ conn'[s].open = conn[s].open /\ conn'[s].inbox = Tail(conn[s].inbox)
      /\ conn[s].open => conn'[s].wire = Append(conn[s].wire, Error(First(s)))
      /\ UNCHANGED <<page, panel, ask, queue>>
  BY RefuseEffect DEF FInv, QInv, IInv
<1>2. conn[t].open /\ Awaited(t)
  BY <1>1 DEF Awaited
<1>3. CASE t # s
  BY <1>1, <1>2, <1>3, FlowStays
<1>4. CASE t = s
  <2>1. PICK q \in Asks : q = First(s)
    BY <1>1, ReadIsAwaited DEF FInv
  <2>2. /\ q = page.sent /\ ask[q].worker = "none" /\ queue[q] = <<>>
        /\ conn[s].wire = <<>> /\ conn'[s].inbox = <<>>
    BY <1>1, <1>2, <1>4, <2>1, ReadIsAwaited DEF Unread, FInv
  <2>3. conn'[s].wire = <<Error(q)>>
    BY <1>1, <1>2, <1>4, <2>1, <2>2
  <2>4. OnWire(q, s, 0)'
    <3>1. Error(q).ask = q /\ Error(q).type = "error"
      BY DEF Error
    <3>2. \A i \in DOMAIN conn'[s].wire : conn'[s].wire[i] = Error(q)
      BY <2>3
    <3> QED
      BY <3>1, <3>2 DEF OnWire, Due
  <2>5. ~Running(q)'
    BY <1>1, <2>2 DEF Running
  <2>6. Flow(q, s, 0)'
    BY <1>1, <2>2, <2>4, <2>5 DEF Flow, OnQueue, UpTo, Panel
  <2> QED
    BY <1>1, <1>4, <2>2, <2>6
<1> QED
  BY <1>3, <1>4

LEMMA FlowAccept ==
    ASSUME FInv, NEW s \in Sockets, Accept(s)
    PROVE  Flowing'
<1> SUFFICES ASSUME NEW t \in Sockets, conn'[t].open, Awaited(t)'
             PROVE  (\E c \in Nat : Flow(page.sent, t, c))'
  BY DEF Flowing
<1>1. PICK q \in Asks : q = First(s) /\ ask[q].socket = s /\ ask[q].worker = "none"
  BY ReadIsAwaited DEF Accept, FInv
<1>2. /\ Reading(s) /\ \A r \in Sockets \ {s} : conn'[r] = conn[r]
      /\ conn'[s].open = conn[s].open /\ conn'[s].inbox = Tail(conn[s].inbox)
      /\ conn'[s].wire = conn[s].wire /\ ask'[q].socket = s
      /\ ask'[q].lane = ask[q].lane /\ ask'[q].emitted = ask[q].emitted
      /\ \A r \in Asks \ {q} : ask'[r] = ask[r]
      /\ UNCHANGED <<page, panel, queue>>
  BY <1>1, AcceptEffect DEF FInv, QInv, IInv
<1>3. PICK r \in Asks : r = page.sent /\ ask[r].socket = t /\ conn[t].open /\ Awaited(t)
  <2>1. page.sent \in Asks /\ ask'[page.sent].socket = t
    BY <1>2 DEF Awaited, FInv, QInv, IInv, TypeOK, Page
  <2>2. ask[page.sent].socket = t
    BY <1>1, <1>2, <2>1
  <2>3. conn[t].open
    BY <1>2
  <2>4. Awaited(t)
    BY <1>2, <2>2 DEF Awaited
  <2> QED
    BY <2>1, <2>2, <2>3, <2>4
<1>4. CASE t # s
  <2>1. PICK c \in Nat : Flow(r, t, c)
    BY <1>3 DEF FInv, Flowing
  <2>2. ask'[r] = ask[r] /\ conn'[t] = conn[t]
    BY <1>1, <1>2, <1>3, <1>4
  <2>3. Flow(r, t, c)'
    BY <1>2, <2>1, <2>2, FlowFrame
  <2> QED
    BY <1>2, <1>3, <2>3
<1>5. CASE t = s
  <2>1. /\ q = page.sent /\ queue[q] = <<>> /\ conn[s].wire = <<>> /\ conn'[s].inbox = <<>>
    BY <1>1, <1>2, <1>3, <1>5, ReadIsAwaited DEF Unread, FInv
  <2>2. ask[q].emitted = 0
    BY <1>1 DEF FInv, QInv, Current
  <2>3. Flow(q, s, 0)'
    BY <1>2, <2>1, <2>2 DEF Flow, OnWire, OnQueue, UpTo, Panel
  <2> QED
    BY <1>2, <1>5, <2>1, <2>3
<1> QED
  BY <1>4, <1>5

(* The page takes the next event of the script and shows it in its place.        *)
LEMMA FlowReceive ==
    ASSUME FInv, Receive
    PROVE  Flowing'
<1> SUFFICES ASSUME NEW w \in Sockets, conn'[w].open, Awaited(w)'
             PROVE  (\E c \in Nat : Flow(page.sent, w, c))'
  BY DEF Flowing
<1>1. /\ conn[page.ws].wire # <<>> /\ page'.sent = page.sent
      /\ page'.busy = (page.busy /\ Head(conn[page.ws].wire).type \notin Final)
      /\ conn'[page.ws].wire = Tail(conn[page.ws].wire)
      /\ \A s \in Sockets : conn'[s].open = conn[s].open /\ conn'[s].inbox = conn[s].inbox
      /\ UNCHANGED <<ask, queue>>
  BY ReceiveEffect DEF FInv, QInv, IInv
<1>2. conn[w].open /\ w = page.ws
  BY <1>1 DEF FInv, QInv, Current
<1>3. PICK q \in Asks : q = page.sent /\ Awaited(w) /\ Stage(q, conn[w])
  BY <1>1, <1>2 DEF Awaited, FInv, QInv, Traced, IInv, TypeOK, Page
<1>4. PICK c \in Nat : Flow(q, w, c)
  BY <1>2, <1>3 DEF FInv, Flowing
<1>5. conn[w].wire # <<>> /\ conn[w].wire \in Seq(Event)
  BY <1>1, <1>2 DEF FInv, QInv, IInv, TypeOK, Conn
<1>6. PICK ev \in Event : ev = Head(conn[w].wire) /\ ev.type \notin Final
  <2>1. Head(conn[w].wire) \in Event
    BY <1>5, TailIndices
  <2> QED
    BY <1>1, <1>2, <2>1 DEF Awaited
<1>7. /\ 1 \in DOMAIN conn[w].wire /\ conn[w].wire[1] = ev /\ Len(conn[w].wire) \in Nat
      /\ conn'[w].wire = Tail(conn[w].wire) /\ Len(conn'[w].wire) = Len(conn[w].wire) - 1
      /\ \A i \in DOMAIN conn'[w].wire :
           i \in Int /\ i + 1 \in DOMAIN conn[w].wire /\ conn'[w].wire[i] = conn[w].wire[i + 1]
  <2> DEFINE rest == Tail(conn[w].wire)
  <2>1. /\ 1 \in DOMAIN conn[w].wire /\ conn[w].wire[1] = ev /\ Len(conn[w].wire) \in Nat
        /\ Len(rest) = Len(conn[w].wire) - 1 /\ DOMAIN rest = 1..(Len(conn[w].wire) - 1)
        /\ \A i \in DOMAIN rest : i + 1 \in DOMAIN conn[w].wire /\ rest[i] = conn[w].wire[i + 1]
    BY <1>5, <1>6, TailIndices
  <2>2. conn'[w].wire = rest
    BY <1>1, <1>2
  <2> HIDE DEF rest
  <2>3. \A i \in DOMAIN rest : i \in Int
    BY <2>1
  <2> QED
    BY <2>1, <2>2, <2>3 DEF rest
<1>8. ev.ask = q /\ c + 1 \in DOMAIN Script(q) /\ ev = Script(q)[c + 1]
  BY <1>4, <1>6, <1>7 DEF Flow, OnWire, Due, Final
<1>9. c + 1 \in Nat /\ c + 1 # 0
  OBVIOUS
<1>10. c + Len(conn[w].wire) = (c + 1) + Len(conn'[w].wire)
  <2>1. \A a, b \in Int : b = a - 1 => c + a = (c + 1) + b
    OBVIOUS
  <2>2. Len(conn[w].wire) \in Int /\ Len(conn'[w].wire) = Len(conn[w].wire) - 1
    BY <1>7
  <2>3. Len(conn'[w].wire) \in Int
    BY <2>2
  <2> QED
    BY <2>1, <2>2, <2>3, Zenon
<1>11. Script(q)' = Script(q) /\ Running(q)' = Running(q)
  BY <1>1, SaidFrame
<1>12. conn'[w].inbox = <<>>
  BY <1>1, <1>3, <1>5 DEF Stage, Unread, InHand, Queued, Arriving
<1>13. OnWire(q, w, c + 1)'
  <2>1. ASSUME NEW i \in DOMAIN conn'[w].wire
        PROVE  /\ conn'[w].wire[i].ask = q
               /\ conn'[w].wire[i].type # "error" =>
                    (c + 1) + i \in DOMAIN Script(q) /\ conn'[w].wire[i] = Script(q)[(c + 1) + i]
    <3>1. (c + 1) + i = c + (i + 1)
      BY <1>7
    <3>2. i + 1 \in DOMAIN conn[w].wire /\ conn'[w].wire[i] = conn[w].wire[i + 1]
      BY <1>7
    <3>3. Due(q, c + (i + 1), conn[w].wire[i + 1])
      BY <1>4, <3>2 DEF Flow, OnWire
    <3> QED
      BY <3>1, <3>2, <3>3 DEF Due
  <2> QED
    BY <1>11, <2>1 DEF OnWire, Due
<1>14. OnQueue(q, w, c + 1)'
  <2>1. \A i \in DOMAIN queue[q] : c + Len(conn[w].wire) + i = (c + 1) + Len(conn'[w].wire) + i
    BY <1>10
  <2> QED
    BY <1>1, <1>4, <1>11, <2>1 DEF Flow, OnQueue, Due
<1>15. UpTo(q, w, c + 1)'
  <2>1. Len(queue[q]) \in Nat
    <3>1. queue[q] \in Seq(Event)
      BY DEF FInv, QInv, IInv, TypeOK
    <3> QED
      BY <3>1, LenProperties
  <2>2. (c + 1) + Len(conn'[w].wire) + Len(queue[q]) = c + Len(conn[w].wire) + Len(queue[q])
    BY <1>10
  <2> QED
    BY <1>1, <1>4, <1>11, <2>2 DEF Flow, UpTo
<1>16. Panel(q, c + 1)'
  <2> DEFINE lane == ask[q].lane
  <2>1. panel' = [panel EXCEPT ![lane] = Shown(ev, lane)] /\ lane \in DOMAIN panel
    <3>1. panel' = [panel EXCEPT ![ask[ev.ask].lane] = Shown(ev, ask[ev.ask].lane)]
      BY <1>2, <1>6 DEF Receive
    <3> QED
      BY <1>8, <3>1 DEF FInv, QInv, IInv, TypeOK, Ask
  <2>2. panel'[lane] = Shown(ev, lane)
    BY <2>1
  <2>3. panel[lane] \in [ask : Asks \cup {0}, rows : Nat]
    BY <2>1 DEF FInv, QInv, IInv, TypeOK
  <2>4. /\ Opens(ev, lane) <=> c + 1 = 1
        /\ ev.type = "item" => lane # "qa"
        /\ lane # "qa" /\ c + 1 > 1 => ev.type = "item"
    BY <1>6, <1>8, ScriptShape DEF FInv, QInv, IInv, Final
  <2>5. CASE c = 0
    <3>1. panel'[lane] = [ask |-> q, rows |-> 0]
      BY <1>8, <2>2, <2>4, <2>5 DEF Shown
    <3>2. (c + 1) - 1 = 0
      BY <2>5
    <3> QED
      BY <1>1, <3>1, <3>2 DEF Panel
  <2>6. CASE c # 0
    <3>1. ~Opens(ev, lane) /\ panel[lane].ask = q /\ (lane # "qa" => panel[lane].rows = c - 1)
      BY <1>4, <2>4, <2>6 DEF Flow, Panel
    <3>2. CASE ev.type = "item"
      <4>1. panel'[lane].ask = q /\ panel'[lane].rows = c
        BY <2>2, <2>3, <2>4, <3>1, <3>2 DEF Shown
      <4>2. (c + 1) - 1 = c
        OBVIOUS
      <4> QED
        BY <1>1, <4>1, <4>2 DEF Panel
    <3>3. CASE ev.type # "item"
      <4>1. panel'[lane] = panel[lane] /\ lane = "qa"
        BY <2>2, <2>4, <2>6, <3>1, <3>3 DEF Shown
      <4> QED
        BY <1>1, <3>1, <4>1 DEF Panel
    <3> QED
      BY <3>2, <3>3
  <2> QED
    BY <2>5, <2>6
<1>17. Flow(q, w, c + 1)'
  BY <1>12, <1>13, <1>14, <1>15, <1>16 DEF Flow
<1>18. page'.sent = q
  BY <1>1, <1>3
<1> QED
  BY <1>9, <1>17, <1>18

(* The next event of the queue becomes the last of the wire.                    *)
LEMMA FlowForward ==
    ASSUME FInv, NEW s \in Sockets, Forward(s)
    PROVE  Flowing'
<1> SUFFICES ASSUME NEW t \in Sockets, conn'[t].open, Awaited(t)'
             PROVE  (\E c \in Nat : Flow(page.sent, t, c))'
  BY DEF Flowing
<1>1. PICK q \in Asks : q = conn[s].serving /\ ask[q].socket = s
  BY DEF FInv, QInv, IInv, Attended, Forward
<1>2. /\ queue[q] # <<>> /\ \A r \in Asks \ {q} : queue'[r] = queue[r]
      /\ \A r \in Sockets \ {s} : conn'[r] = conn[r]
      /\ conn'[s].open = conn[s].open /\ conn'[s].inbox = conn[s].inbox
      /\ Head(queue[q]).type = "DONE" =>
           conn'[s].wire = conn[s].wire /\ queue'[q] = Tail(queue[q])
      /\ Head(queue[q]).type # "DONE" /\ conn[s].open =>
           conn'[s].wire = Append(conn[s].wire, Head(queue[q])) /\ queue'[q] = Tail(queue[q])
  BY <1>1, ForwardEffect DEF FInv, QInv, IInv
<1>3. UNCHANGED <<page, panel, ask>>
  BY DEF Forward
<1>4. conn[t].open /\ Awaited(t)
  BY <1>2, <1>3 DEF Awaited
<1>5. PICK r \in Asks : r = page.sent /\ ask[r].socket = t
  BY <1>4 DEF FInv, QInv, IInv, TypeOK, Page, Awaited
<1>6. queue[q] \in Seq(Event) /\ conn[s].wire \in Seq(Event)
  BY DEF FInv, QInv, IInv, TypeOK, Conn
<1>7. CASE r # q
  <2>1. conn'[t].inbox = conn[t].inbox /\ conn'[t].wire = conn[t].wire
    <3>1. CASE t = s
      <4>1. Spent(q)
        BY <1>1, <1>4, <1>5, <1>7, <3>1 DEF FInv, QInv, OthersSpent
      <4>2. Head(queue[q]).type = "DONE"
        BY <1>2, <1>6, <4>1, TakeOut DEF Spent
      <4> QED
        BY <1>2, <3>1, <4>2
    <3>2. CASE t # s
      BY <1>2, <3>2
    <3> QED
      BY <3>1, <3>2
  <2>2. queue'[page.sent] = queue[page.sent]
    BY <1>2, <1>5, <1>7
  <2> QED
    BY <1>3, <1>4, <2>1, <2>2, FlowStays
<1>8. CASE r = q
  <2>1. t = s /\ conn[s].open
    BY <1>1, <1>4, <1>5, <1>8
  <2>2. PICK c \in Nat : Flow(q, s, c)
    BY <1>4, <1>5, <1>8, <2>1 DEF FInv, Flowing
  <2>3. PICK ev \in Event : ev = Head(queue[q])
    BY <1>2, <1>6, TailIndices
  <2> DEFINE rest == Tail(queue[q])
             m == Len(conn[s].wire)
             n == Len(queue[q])
  <2>4. /\ 1 \in DOMAIN queue[q] /\ queue[q][1] = ev /\ m \in Nat /\ n \in Nat
        /\ Len(rest) = n - 1
        /\ \A i \in DOMAIN rest :
             i \in Nat /\ i >= 1 /\ i + 1 \in DOMAIN queue[q] /\ rest[i] = queue[q][i + 1]
    <3>1. /\ 1 \in DOMAIN queue[q] /\ queue[q][1] = ev /\ n \in Nat
          /\ Len(rest) = n - 1 /\ DOMAIN rest = 1..(n - 1)
          /\ \A i \in DOMAIN rest : i + 1 \in DOMAIN queue[q] /\ rest[i] = queue[q][i + 1]
      BY <1>2, <1>6, <2>3, TailIndices
    <3>2. m \in Nat
      BY <1>6, LenProperties
    <3> HIDE DEF rest, n, m
    <3>3. \A i \in DOMAIN rest : i \in Nat /\ i >= 1
      BY <3>1
    <3> QED
      BY <3>1, <3>2, <3>3
  <2>5. queue'[q] = rest
    BY <1>2, <2>1, <2>3
  <2>6. Script(q)' = Script(q) /\ Running(q)' = Running(q)
    BY <1>3 DEF Script, Running
  <2>7. conn'[s].inbox # <<>> => c = 0
    BY <1>2, <2>2 DEF Flow
  <2>8. Panel(q, c)'
    BY <1>3, <2>2 DEF Flow, Panel
  <2>9. CASE ev.type = "DONE"
    <3>1. conn'[s].wire = conn[s].wire
      BY <1>2, <2>3, <2>9
    <3>2. OnWire(q, s, c)'
      BY <2>2, <2>6, <3>1 DEF Flow, OnWire, Due
    <3>3. \A i \in DOMAIN rest : rest[i].type = "DONE"
      <4>1. n = 1
        BY <2>4, <2>9 DEF FInv, DoneTail, Closed
      <4> QED
        BY <2>4, <4>1
    <3>4. OnQueue(q, s, c)'
      BY <2>5, <3>3 DEF OnQueue
    <3>5. UpTo(q, s, c)'
      <4>1. ask[q].worker = "ended"
        BY <2>4, <2>9 DEF FInv, QInv, IInv, DoneIsLast
      <4>2. ~Running(q)'
        BY <2>6, <4>1 DEF Running
      <4> QED
        BY <4>2 DEF UpTo
    <3>6. Flow(q, s, c)'
      BY <2>7, <2>8, <3>2, <3>4, <3>5 DEF Flow
    <3> QED
      BY <1>3, <1>5, <1>8, <2>1, <3>6
  <2>10. CASE ev.type # "DONE"
    <3>1. conn'[s].wire = Append(conn[s].wire, ev)
      BY <1>2, <2>1, <2>3, <2>10
    <3>2. /\ Len(conn'[s].wire) = m + 1 /\ conn'[s].wire[m + 1] = ev
          /\ \A i \in DOMAIN conn'[s].wire :
               i # m + 1 => i \in DOMAIN conn[s].wire /\ conn'[s].wire[i] = conn[s].wire[i]
      BY <1>6, <3>1, AppendIndices
    <3>3. Due(q, c + m + 1, ev)
      BY <2>2, <2>4, <2>10 DEF Flow, OnQueue
    <3> HIDE DEF m, n, rest
    <3>4. c + (m + 1) = c + m + 1 /\ c + (m + 1) + (n - 1) = c + m + n
      <4>1. m \in Nat /\ n \in Nat
        BY <2>4
      <4> QED
        BY <4>1
    <3>5. OnWire(q, s, c)'
      <4>1. ASSUME NEW i \in DOMAIN conn'[s].wire
            PROVE  Due(q, c + i, conn'[s].wire[i])
        <5>1. CASE i = m + 1
          BY <3>2, <3>3, <3>4, <5>1
        <5>2. CASE i # m + 1
          BY <2>2, <3>2, <5>2 DEF Flow, OnWire
        <5> QED
          BY <5>1, <5>2
      <4> QED
        BY <2>6, <4>1 DEF OnWire, Due
    <3>6. OnQueue(q, s, c)'
      <4>1. ASSUME NEW i \in DOMAIN queue'[q], queue'[q][i].type # "DONE"
            PROVE  Due(q, c + Len(conn'[s].wire) + i, queue'[q][i])
        <5>1. i + 1 \in DOMAIN queue[q] /\ queue'[q][i] = queue[q][i + 1] /\ i \in Nat
          BY <2>4, <2>5
        <5>2. Due(q, c + m + (i + 1), queue[q][i + 1])
          BY <2>2, <4>1, <5>1 DEF Flow, OnQueue, m
        <5>3. c + Len(conn'[s].wire) + i = c + m + (i + 1)
          BY <2>4, <3>2, <5>1
        <5> QED
          BY <5>1, <5>2, <5>3
      <4> QED
        BY <2>6, <4>1 DEF OnQueue, Due
    <3>7. UpTo(q, s, c)'
      <4>1. Len(conn'[s].wire) = m + 1 /\ Len(queue'[q]) = n - 1
        BY <2>4, <2>5, <3>2
      <4>2. c + Len(conn'[s].wire) + Len(queue'[q]) = c + Len(conn[s].wire) + Len(queue[q])
        BY <3>4, <4>1 DEF m, n
      <4> QED
        BY <1>3, <2>2, <2>6, <4>2 DEF Flow, UpTo
    <3>8. Flow(q, s, c)'
      BY <2>7, <2>8, <3>5, <3>6, <3>7 DEF Flow
    <3> QED
      BY <1>3, <1>5, <1>8, <2>1, <3>8
  <2> QED
    BY <2>9, <2>10
<1> QED
  BY <1>7, <1>8

(* The worker puts the next event of the script behind the others.               *)
LEMMA FlowWorker ==
    ASSUME FInv, NEW q \in Asks, Worker(q)
    PROVE  Flowing'
<1> SUFFICES ASSUME NEW t \in Sockets, conn'[t].open, Awaited(t)'
             PROVE  (\E c \in Nat : Flow(page.sent, t, c))'
  BY DEF Flowing
<1>1. /\ \A r \in Asks \ {q} : ask'[r] = ask[r] /\ queue'[r] = queue[r]
      /\ ask'[q].socket = ask[q].socket /\ ask'[q].lane = ask[q].lane
      /\ UNCHANGED <<page, panel, conn>>
  BY WorkerEffect DEF FInv, QInv, IInv
<1>2. PICK r \in Asks : r = page.sent /\ Awaited(t) /\ conn[t].open /\ ask[r].socket = t
  BY <1>1 DEF Awaited, FInv, QInv, IInv, TypeOK, Page
<1>3. PICK c \in Nat : Flow(r, t, c)
  BY <1>2 DEF FInv, Flowing
<1>4. CASE r # q
  <2>1. ask'[r] = ask[r] /\ queue'[r] = queue[r] /\ conn'[t] = conn[t]
    BY <1>1, <1>4
  <2>2. Flow(r, t, c)'
    BY <1>1, <1>3, <2>1, FlowFrame
  <2> QED
    BY <1>1, <1>2, <2>2
<1>5. CASE r = q
  <2> DEFINE m == Len(conn[t].wire)
             n == Len(queue[q])
             e == ask[q].emitted
  <2>1. /\ Running(q) /\ queue[q] \in Seq(Event)
        /\ Error(q) \in Event /\ Error(q).type = "error" /\ Error(q).ask = q
        /\ Sentinel(q) \in Event /\ Sentinel(q).type = "DONE"
    BY WorkerPuts DEF FInv, QInv, IInv
  <2>2. conn[ask[q].socket].handler # "gone"
    BY <1>2, <1>5 DEF FInv, QInv, Current
  <2>3. Script(q)' = Script(q)
    BY <1>1 DEF Script
  <2>4. m \in Nat /\ n \in Nat /\ e \in Nat /\ DOMAIN queue[q] = 1..n
    <3>1. conn[t].wire \in Seq(Event)
      BY DEF FInv, QInv, IInv, TypeOK, Conn
    <3>2. ask[q].emitted \in Nat
      BY DEF FInv, QInv, IInv, TypeOK, Ask
    <3> QED
      BY <2>1, <3>1, <3>2, LenProperties
  <2>5. /\ conn'[t].inbox # <<>> => c = 0
        /\ OnWire(q, t, c)' /\ Panel(q, c)'
    BY <1>1, <1>3, <1>5, <2>3 DEF Flow, OnWire, Due, Panel
  <2>6. \A i \in DOMAIN queue[q] : queue[q][i].type # "DONE" => Due(q, c + m + i, queue[q][i])
    BY <1>3, <1>5 DEF Flow, OnQueue
  <2>7. ASSUME \A i \in DOMAIN queue'[q] :
                 queue'[q][i].type # "DONE" => Due(q, c + m + i, queue'[q][i])
        PROVE  OnQueue(q, t, c)'
    BY <1>1, <2>3, <2>7 DEF OnQueue, Due
  <2>8. CASE /\ e < Len(Script(q)) /\ ask'[q].emitted = e + 1
             /\ e + 1 \in DOMAIN Script(q) /\ Script(q)[e + 1] \in Event
             /\ queue'[q] = Append(queue[q], Script(q)[e + 1])
    <3>1. PICK ev \in Event : ev = Script(q)[e + 1]
      BY <2>8
    <3>2. /\ Len(queue'[q]) = n + 1 /\ queue'[q][n + 1] = ev
          /\ \A i \in DOMAIN queue'[q] :
               i # n + 1 => i \in DOMAIN queue[q] /\ queue'[q][i] = queue[q][i]
      BY <2>1, <2>8, <3>1, AppendIndices
    <3>3. c + m + n = e
      BY <1>3, <1>5, <2>1, <2>8 DEF Flow, UpTo
    <3>4. Due(q, e + 1, ev)
      BY <2>8, <3>1, ScriptShape DEF Due, FInv, QInv, IInv
    <3> HIDE DEF m, n, e
    <3>5. c + m + (n + 1) = e + 1
      BY <2>4, <3>3
    <3>6. ASSUME NEW i \in DOMAIN queue'[q], queue'[q][i].type # "DONE"
          PROVE  Due(q, c + m + i, queue'[q][i])
      <4>1. CASE i = n + 1
        BY <3>2, <3>4, <3>5, <4>1
      <4>2. CASE i # n + 1
        BY <2>6, <3>2, <3>6, <4>2
      <4> QED
        BY <4>1, <4>2
    <3>7. OnQueue(q, t, c)'
      BY <2>7, <3>6
    <3>8. UpTo(q, t, c)'
      BY <1>1, <2>8, <3>2, <3>5 DEF UpTo, m, n, e
    <3>9. Flow(q, t, c)'
      BY <2>5, <3>7, <3>8 DEF Flow
    <3> QED
      BY <1>1, <1>2, <1>5, <3>9
  <2>9. ASSUME ask'[q].worker = "ended",
               \A i \in DOMAIN queue'[q] : \/ i \in DOMAIN queue[q] /\ queue'[q][i] = queue[q][i]
                                           \/ queue'[q][i] \in {Error(q), Sentinel(q)}
        PROVE  Flow(q, t, c)'
    <3>1. \A i \in DOMAIN queue'[q] :
            queue'[q][i].type # "DONE" => Due(q, c + m + i, queue'[q][i])
      BY <2>1, <2>6, <2>9 DEF Due
    <3>2. UpTo(q, t, c)'
      BY <2>9 DEF UpTo, Running
    <3> QED
      BY <2>5, <2>7, <3>1, <3>2 DEF Flow
  <2>10. CASE ask'[q].worker = "ended" /\ queue'[q] = Append(queue[q], Sentinel(q))
    <3>1. \A i \in DOMAIN queue'[q] : \/ i \in DOMAIN queue[q] /\ queue'[q][i] = queue[q][i]
                                      \/ queue'[q][i] \in {Error(q), Sentinel(q)}
      BY <2>1, <2>10, AppendIndices
    <3> QED
      BY <1>1, <1>2, <1>5, <2>9, <2>10, <3>1
  <2>11. CASE ask'[q].worker = "ended" /\ queue'[q] = Append(Append(queue[q], Error(q)), Sentinel(q))
    <3> DEFINE longer == Append(queue[q], Error(q))
    <3>1. /\ longer \in Seq(Event)
          /\ \A i \in DOMAIN longer : \/ i \in DOMAIN queue[q] /\ longer[i] = queue[q][i]
                                      \/ longer[i] = Error(q)
      BY <2>1, AppendIndices
    <3> HIDE DEF longer
    <3>2. \A i \in DOMAIN Append(longer, Sentinel(q)) :
            \/ i \in DOMAIN longer /\ Append(longer, Sentinel(q))[i] = longer[i]
            \/ Append(longer, Sentinel(q))[i] = Sentinel(q)
      BY <2>1, <3>1, AppendIndices
    <3>3. \A i \in DOMAIN queue'[q] : \/ i \in DOMAIN queue[q] /\ queue'[q][i] = queue[q][i]
                                      \/ queue'[q][i] \in {Error(q), Sentinel(q)}
      BY <2>11, <3>1, <3>2 DEF longer
    <3> QED
      BY <1>1, <1>2, <1>5, <2>9, <2>11, <3>3
  <2> QED
    BY <2>2, <2>8, <2>10, <2>11, WorkerPuts DEF FInv, QInv, IInv
<1> QED
  BY <1>4, <1>5

LEMMA StepFlowing == FInv /\ [Next]_vars => Flowing'
<1> SUFFICES ASSUME FInv, [Next]_vars PROVE Flowing'
  OBVIOUS
<1>1. ASSUME UNCHANGED <<page, panel, conn, ask, queue>>
      PROVE  Flowing'
  BY <1>1, FlowFrames
<1>2. ASSUME NEW d \in Docs, LoadDoc(d) \/ WaitReady(d)
      PROVE  Flowing'
  <2>1. UNCHANGED <<ask, queue, panel>> /\ page'.sent = page.sent /\ page'.busy = page.busy
    BY <1>2, LoadEffect DEF FInv, QInv, IInv
  <2>2. CASE \E p \in Page : p.doc \in Docs /\ p.opened = page.opened /\ Connect(p)
    <3> DEFINE s == page.opened + 1
    <3>1. /\ s \in Sockets
          /\ \A c \in Sockets \ {s} :
               /\ conn'[c].inbox = conn[c].inbox
               /\ conn'[c].open => conn[c].open /\ c # page.ws
      BY <2>2, ConnectEffect DEF FInv, QInv, IInv
    <3>2. s > page.opened
      <4>1. page.opened \in Sockets \cup {0}
        BY DEF FInv, QInv, IInv, TypeOK, Page
      <4> QED
        BY <4>1, SessionBoundAssumption DEF Sockets
    <3> HIDE DEF s
    <3>3. \A c \in Sockets : conn'[c].open => c > page.opened
      BY <3>1, <3>2 DEF FInv, QInv, Current
    <3> QED
      BY <2>1, <3>3, FlowFrames
  <2>3. CASE UNCHANGED conn
    BY <2>1, <2>3, FlowFrames
  <2> QED
    BY <1>2, <2>2, <2>3, LoadEffect DEF FInv, QInv, IInv
<1>3. ASSUME NEW s \in Sockets, Drop(s) \/ Disconnect(s)
      PROVE  Flowing'
  <2>1. /\ \A t \in Sockets \ {s} : conn'[t] = conn[t]
        /\ ~conn'[s].open /\ UNCHANGED <<page, panel, ask, queue>>
    BY <1>3, EndEffect DEF FInv, QInv, IInv
  <2> QED
    BY <2>1, FlowFrames
<1> QED
  BY <1>1, <1>2, <1>3, FlowSubmit, FlowReceive, FlowRefuse, FlowAccept, FlowForward, FlowWorker
     DEF Next, User, Handler, Ingested, vars

(* Where everything on its way to the page belongs.                             *)
THEOREM FInvariant == Spec => []FInv
<1>1. Init => DoneTail /\ Flowing
  <2> SUFFICES ASSUME Init PROVE DoneTail /\ Flowing
    OBVIOUS
  <2>1. \A s \in Sockets : ~conn[s].open
    BY DEF Init
  <2>2. \A q \in Asks : queue[q] = <<>>
    BY DEF Init
  <2> QED
    BY <2>1, <2>2 DEF Flowing, DoneTail, Closed
<1>2. QInv /\ DoneTail /\ Flowing /\ [Next]_vars => DoneTail' /\ Flowing'
  BY StepDoneTail, StepFlowing DEF FInv, QInv
<1>3. QInv /\ DoneTail /\ Flowing <=> FInv
  BY DEF FInv
<1> QED
  BY <1>1, <1>2, <1>3, QInvariant, PTL DEF Spec

(* Every event that reaches the page is shown where it belongs: under its own    *)
(* question, on its own line, the final table below the whole checklist.         *)
THEOREM Landing == Spec => []LandsWhereItBelongs
<1>1. FInv => LandsWhereItBelongs
  <2> SUFFICES ASSUME FInv, Connected, conn[page.ws].wire # <<>>
               PROVE  LET ev == Head(conn[page.ws].wire)
                          lane == ask[ev.ask].lane
                      IN  /\ ev.type \in {"caveat", "item", "done"} => panel[lane].ask = ev.ask
                          /\ ev.type = "item" => panel[lane].rows + 1 = ev.i
                          /\ ev.type = "done" /\ lane # "qa" => panel[lane].rows = Items[lane]
    BY DEF LandsWhereItBelongs
  <2>1. PICK w \in Sockets : w = page.ws /\ conn[w].open
    BY DEF FInv, QInv, IInv, TypeOK, Page, Connected
  <2>2. Awaited(w)
    BY <2>1 DEF FInv, QInv, Silent
  <2>3. PICK q \in Asks : q = page.sent
    BY <2>2 DEF FInv, QInv, IInv, TypeOK, Page, Awaited
  <2>4. PICK c \in Nat : Flow(q, w, c)
    BY <2>1, <2>2, <2>3 DEF FInv, Flowing
  <2>5. conn[w].wire \in Seq(Event)
    BY DEF FInv, QInv, IInv, TypeOK, Conn
  <2>6. PICK ev \in Event : ev = Head(conn[page.ws].wire)
    BY <2>1, <2>5, TailIndices
  <2>7. ev.ask = q /\ (ev.type # "error" => c + 1 \in DOMAIN Script(q) /\ ev = Script(q)[c + 1])
    <3>1. 1 \in DOMAIN conn[w].wire /\ conn[w].wire[1] = ev
      BY <2>1, <2>5, <2>6, TailIndices
    <3> QED
      BY <2>4, <3>1 DEF Flow, OnWire, Due
  <2> DEFINE lane == ask[q].lane
  <2>8. CASE ev.type \in {"caveat", "item", "done"}
    <3>1. /\ c + 1 > 1 /\ (ev.type = "item" => lane # "qa" /\ ev.i = (c + 1) - 1)
          /\ lane # "qa" /\ ev.type = "done" => c + 1 = Items[lane] + 2
      BY <2>7, <2>8, ScriptShape DEF FInv, QInv, IInv
    <3>2. c > 0
      BY <3>1
    <3>3. panel[lane].ask = q /\ (lane # "qa" => panel[lane].rows = c - 1)
      BY <2>4, <3>2 DEF Flow, Panel
    <3>4. ev.type = "item" => panel[lane].rows + 1 = ev.i
      <4>1. ev.type = "item" => panel[lane].rows = c - 1 /\ ev.i = (c + 1) - 1
        BY <3>1, <3>3
      <4>2. (c - 1) + 1 = (c + 1) - 1
        OBVIOUS
      <4> QED
        BY <4>1, <4>2
    <3>5. ev.type = "done" /\ lane # "qa" => panel[lane].rows = Items[lane]
      <4>1. lane \in Lanes
        BY DEF FInv, QInv, IInv, TypeOK, Ask
      <4>2. Items[lane] \in Nat
        BY <4>1, ItemsAssumption
      <4>3. c + 1 = Items[lane] + 2 => c - 1 = Items[lane]
        BY <4>2
      <4> QED
        BY <3>1, <3>3, <4>3
    <3> QED
      BY <2>6, <2>7, <3>3, <3>4, <3>5
  <2>9. CASE ev.type \notin {"caveat", "item", "done"}
    BY <2>6, <2>9
  <2> QED
    BY <2>8, <2>9
<1> QED
  BY <1>1, FInvariant, PTL

-----------------------------------------------------------------------------
(* Progress. A bridge in the middle of a question has its worker, or DONE is on  *)
(* the queue; what lies on a queue of an open connection has its bridge; and a    *)
(* bridge that is the only one to have the awaited question works on it.         *)
HasDone(events) == \E i \in DOMAIN events : events[i].type = "DONE"

Bridged ==
    \A s \in Sockets : conn[s].open /\ conn[s].handler = "stream" =>
        LET q == conn[s].serving
        IN  ask[q].worker # "none" /\ (ask[q].worker = "ended" => HasDone(queue[q]))
Fetched ==
    \A s \in Sockets, q \in Asks : conn[s].open /\ ask[q].socket = s /\ queue[q] # <<>> =>
        conn[s].handler = "stream" /\ conn[s].serving = q
InOrder ==
    \A s \in Sockets :
        conn[s].open /\ Awaited(s) /\ conn[s].inbox = <<>> /\ conn[s].handler = "stream" =>
            conn[s].serving = page.sent

BInv == FInv /\ Bridged /\ Fetched /\ InOrder

(* The steps it takes to bring the answer to the page: an event that the worker   *)
(* has yet to put on the queue counts three, one on the queue two, one on the wire *)
(* one; a question not read yet waits for what is left of the one before it.      *)
ToSay(q) == IF Running(q) THEN Len(Script(q)) + 1 - ask[q].emitted ELSE 0
Work(q) == 3 * ToSay(q) + 2 * Len(queue[q])

StepsLeft(s) ==
    IF conn[s].inbox # <<>>
    THEN 3 * Len(Script(page.sent)) + 4
         + (IF conn[s].handler = "stream" THEN Work(conn[s].serving) ELSE 0)
    ELSE Work(page.sent) + Len(conn[s].wire)

(* The page, the handler or the worker of the connection has something to do.     *)
CanGo(s) ==
    \/ conn[s].wire # <<>>
    \/ Reading(s)
    \/ /\ conn[s].handler = "stream"
       /\ LET q == conn[s].serving
          IN  queue[q] # <<>> \/ (Running(q) /\ ask[q].emitted <= Len(Script(q)))

Still(s) ==
    /\ conn'[s] = conn[s]
    /\ \A q \in Asks : ask[q].socket = s => ask'[q] = ask[q] /\ queue'[q] = queue[q]

LEMMA DoneStays ==
    ASSUME NEW events \in Seq(Event), events # <<>>, HasDone(events), Head(events).type # "DONE"
    PROVE  HasDone(Tail(events))
<1>1. PICK i \in DOMAIN events : events[i].type = "DONE"
  BY DEF HasDone
<1>2. /\ DOMAIN events = 1..Len(events) /\ Len(events) \in Nat /\ events[1] = Head(events)
      /\ DOMAIN Tail(events) = 1..(Len(events) - 1)
      /\ \A j \in DOMAIN Tail(events) : Tail(events)[j] = events[j + 1]
  BY TailIndices
<1>3. i - 1 \in DOMAIN Tail(events) /\ (i - 1) + 1 = i
  BY <1>1, <1>2
<1> QED
  BY <1>1, <1>2, <1>3 DEF HasDone

LEMMA DoneComes ==
    ASSUME NEW events \in Seq(Event), NEW ev \in Event, ev.type = "DONE"
    PROVE  HasDone(Append(events, ev))
<1>1. Len(events) + 1 \in DOMAIN Append(events, ev) /\ Append(events, ev)[Len(events) + 1] = ev
  BY AppendIndices
<1> QED
  BY <1>1 DEF HasDone

Bridge == Bridged /\ Fetched /\ InOrder

(* Nothing moves between a worker, its queue and its bridge.                     *)
LEMMA BridgeFrame ==
    ASSUME BInv, page'.sent = page.sent, page'.busy => page.busy, queue' = queue,
           \A q \in Asks : ask'[q].socket = ask[q].socket /\ ask'[q].worker = ask[q].worker,
           \A s \in Sockets : conn'[s].open =>
             \/ /\ conn'[s].handler = "receive"
                /\ \A q \in Asks : ask[q].socket = s => queue[q] = <<>>
             \/ /\ conn[s].open /\ conn'[s].inbox = conn[s].inbox
                /\ conn'[s].handler = conn[s].handler /\ conn'[s].serving = conn[s].serving
    PROVE  Bridge'
<1>1. \A s \in Sockets : conn[s].handler = "stream" => conn[s].serving \in Asks
  BY DEF BInv, FInv, QInv, IInv, Attended
<1>2. page.sent \in Asks \cup {0}
  BY DEF BInv, FInv, QInv, IInv, TypeOK, Page
<1>3. Bridged'
  BY <1>1 DEF BInv, Bridged
<1>4. Fetched'
  BY DEF BInv, Fetched
<1>5. \A s \in Sockets : Awaited(s)' => Awaited(s)
  BY <1>2 DEF Awaited
<1>6. InOrder'
  BY <1>5 DEF BInv, InOrder
<1> QED
  BY <1>3, <1>4, <1>6 DEF Bridge

LEMMA BridgeLoad ==
    ASSUME BInv, NEW d \in Docs, LoadDoc(d) \/ WaitReady(d)
    PROVE  Bridge'
<1>1. UNCHANGED <<ask, queue>> /\ page'.sent = page.sent /\ page'.busy = page.busy
  BY LoadEffect DEF BInv, FInv, QInv, IInv
<1>2. ASSUME NEW p \in Page, p.doc \in Docs, p.opened = page.opened, Connect(p)
      PROVE  Bridge'
  <2> DEFINE s == page.opened + 1
  <2>1. /\ conn'[s].handler = "receive" /\ s \in Sockets
        /\ \A c \in Sockets \ {s} : conn'[c].open => conn[c].open /\ c # page.ws
    BY <1>2, ConnectEffect DEF BInv, FInv, QInv, IInv
  <2>2. \A q \in Asks : ask[q].socket # s
    <3>1. page.opened \in Sockets \cup {0} /\ \A q \in Asks : ask[q].socket \in Sockets \cup {0}
      BY DEF BInv, FInv, QInv, IInv, TypeOK, Page, Ask
    <3>2. Sockets \cup {0} \subseteq Nat
      BY SessionBoundAssumption DEF Sockets
    <3>3. \A q \in Asks : ask[q].socket <= page.opened
      BY DEF BInv, FInv, QInv, Current
    <3> QED
      BY <3>1, <3>2, <3>3
  <2> HIDE DEF s
  <2>3. \A c \in Sockets \ {s} : ~conn'[c].open
    BY <2>1 DEF BInv, FInv, QInv, Current
  <2> QED
    BY <1>1, <2>1, <2>2, <2>3, BridgeFrame
<1>3. CASE UNCHANGED conn
  BY <1>1, <1>3, BridgeFrame
<1> QED
  BY <1>2, <1>3, LoadEffect DEF BInv, FInv, QInv, IInv

LEMMA BridgeSubmit ==
    ASSUME BInv, NEW lane \in Lanes, NEW other \in Docs \cup {None}, Submit(lane, other)
    PROVE  Bridge'
<1> DEFINE q == page.sent + 1
<1>1. /\ q \in Asks /\ page.ws \in Sockets /\ page'.sent = q
      /\ ask'[q].socket = page.ws /\ ask'[q].worker = ask[q].worker
      /\ \A r \in Asks \ {q} : ask'[r] = ask[r]
      /\ conn'[page.ws].inbox = Append(conn[page.ws].inbox, q)
      /\ \A s \in Sockets : conn'[s].open = conn[s].open /\ conn'[s].handler = conn[s].handler
                            /\ conn'[s].serving = conn[s].serving
      /\ UNCHANGED queue
  BY SubmitEffect DEF BInv, FInv, QInv, IInv, Submit
<1>2. queue[q] = <<>>
  <2>1. page.sent \in Nat
    BY SessionBoundAssumption DEF BInv, FInv, QInv, IInv, TypeOK, Page, Asks
  <2> QED
    BY <1>1, <2>1 DEF BInv, FInv, QInv, IInv, Waiting
<1>3. conn'[page.ws].inbox # <<>>
  <2>1. conn[page.ws].inbox \in Seq(Asks)
    BY <1>1 DEF BInv, FInv, QInv, IInv, TypeOK, Conn
  <2> QED
    BY <1>1, <2>1
<1>4. \A s \in Sockets : conn[s].open => s = page.ws
  BY DEF BInv, FInv, QInv, Current
<1>5. \A s \in Sockets : conn[s].handler = "stream" => conn[s].serving \in Asks
  BY DEF BInv, FInv, QInv, IInv, Attended
<1>6. \A r \in Asks : ask'[r].worker = ask[r].worker
  BY <1>1
<1> HIDE DEF q
<1>7. Bridged'
  BY <1>1, <1>5, <1>6 DEF BInv, Bridged
<1>8. Fetched'
  BY <1>1, <1>2 DEF BInv, Fetched
<1>9. InOrder'
  BY <1>1, <1>3, <1>4 DEF InOrder
<1> QED
  BY <1>7, <1>8, <1>9 DEF Bridge

LEMMA BridgeRefuse ==
    ASSUME BInv, NEW s \in Sockets, Refuse(s)
    PROVE  Bridge'
<1>1. /\ Reading(s) /\ \A t \in Sockets \ {s} : conn'[t] = conn[t]
      /\ conn'[s].open = conn[s].open /\ (conn[s].open => conn'[s].handler = "receive")
      /\ UNCHANGED <<page, ask, queue>>
  BY RefuseEffect DEF BInv, FInv, QInv, IInv
<1>2. conn[s].open => \A q \in Asks : ask[q].socket = s => queue[q] = <<>>
  BY <1>1 DEF BInv, Fetched, Reading
<1> QED
  BY <1>1, <1>2, BridgeFrame

LEMMA BridgeAccept ==
    ASSUME BInv, NEW s \in Sockets, Accept(s)
    PROVE  Bridge'
<1>1. /\ Reading(s) /\ \A t \in Sockets \ {s} : conn'[t] = conn[t]
      /\ conn'[s].open = conn[s].open /\ conn'[s].inbox = Tail(conn[s].inbox)
      /\ conn'[s].handler = "stream" /\ conn'[s].serving = First(s)
      /\ ask'[First(s)].worker = "running" /\ ask'[First(s)].socket = ask[First(s)].socket
      /\ \A r \in Asks \ {First(s)} : ask'[r] = ask[r]
      /\ UNCHANGED <<page, queue>>
  BY AcceptEffect DEF BInv, FInv, QInv, IInv
<1>2. First(s) \in Asks /\ ask[First(s)].socket = s
  BY <1>1, ReadIsAwaited DEF BInv, FInv
<1>3. conn[s].open => First(s) = page.sent /\ \A q \in Asks : ask[q].socket = s => queue[q] = <<>>
  BY <1>1, ReadIsAwaited DEF BInv, FInv, Fetched, Reading
<1>4. \A t \in Sockets : conn[t].handler = "stream" => conn[t].serving \in Asks
  BY DEF BInv, FInv, QInv, IInv, Attended
<1>5. \A q \in Asks : ask'[q].socket = ask[q].socket
  BY <1>1, <1>2
<1>6. Bridged'
  <2> SUFFICES ASSUME NEW t \in Sockets, conn'[t].open, conn'[t].handler = "stream"
               PROVE  LET q == conn'[t].serving
                      IN  ask'[q].worker # "none" /\ (ask'[q].worker = "ended" => HasDone(queue'[q]))
    BY DEF Bridged
  <2>1. CASE t = s
    BY <1>1, <2>1
  <2>2. CASE t # s
    <3>1. conn[t] = conn'[t] /\ conn[t].serving \in Asks
      BY <1>1, <1>4, <2>2
    <3> QED
      BY <1>1, <3>1 DEF BInv, Bridged
  <2> QED
    BY <2>1, <2>2
<1>7. Fetched'
  BY <1>1, <1>3, <1>5 DEF BInv, Fetched
<1>8. InOrder'
  <2>1. \A t \in Sockets : Awaited(t)' = Awaited(t)
    <3>1. page.sent \in Asks \cup {0}
      BY DEF BInv, FInv, QInv, IInv, TypeOK, Page
    <3> QED
      BY <1>1, <1>5, <3>1 DEF Awaited
  <2> QED
    BY <1>1, <1>3, <2>1 DEF BInv, InOrder
<1> QED
  BY <1>6, <1>7, <1>8 DEF Bridge

LEMMA BridgeForward ==
    ASSUME BInv, NEW s \in Sockets, Forward(s)
    PROVE  Bridge'
<1>1. PICK q \in Asks : q = conn[s].serving /\ ask[q].socket = s
  BY DEF BInv, FInv, QInv, IInv, Attended, Forward
<1>2. /\ conn[s].handler = "stream" /\ queue[q] # <<>>
      /\ \A r \in Asks \ {q} : queue'[r] = queue[r]
      /\ \A t \in Sockets \ {s} : conn'[t] = conn[t]
      /\ conn'[s].open = conn[s].open /\ conn'[s].inbox = conn[s].inbox
      /\ Head(queue[q]).type = "DONE" => conn'[s].handler = "receive" /\ queue'[q] = Tail(queue[q])
      /\ Head(queue[q]).type # "DONE" /\ conn[s].open =>
           conn'[s].handler = "stream" /\ conn'[s].serving = q /\ queue'[q] = Tail(queue[q])
      /\ UNCHANGED <<page, ask>>
  BY <1>1, ForwardEffect DEF BInv, FInv, QInv, IInv, Forward
<1>3. queue[q] \in Seq(Event)
  BY DEF BInv, FInv, QInv, IInv, TypeOK
<1>4. Head(queue[q]).type = "DONE" => Tail(queue[q]) = <<>>
  <2> SUFFICES ASSUME Head(queue[q]).type = "DONE" PROVE Tail(queue[q]) = <<>>
    OBVIOUS
  <2>1. /\ 1 \in DOMAIN queue[q] /\ queue[q][1] = Head(queue[q]) /\ Tail(queue[q]) \in Seq(Event)
        /\ Len(Tail(queue[q])) = Len(queue[q]) - 1
    BY <1>2, <1>3, TailIndices
  <2>2. 1 = Len(queue[q])
    BY <2>1 DEF BInv, FInv, DoneTail, Closed
  <2>3. Len(Tail(queue[q])) = 0
    BY <2>1, <2>2
  <2> QED
    BY <2>1, <2>3, EmptySeq
<1>5. \A t \in Sockets \ {s} : conn[t].handler = "stream" => conn[t].serving \in Asks \ {q}
  BY <1>1 DEF BInv, FInv, QInv, IInv, Attended
<1>6. Bridged'
  <2> SUFFICES ASSUME NEW t \in Sockets, conn'[t].open, conn'[t].handler = "stream"
               PROVE  LET r == conn'[t].serving
                      IN  ask'[r].worker # "none" /\ (ask'[r].worker = "ended" => HasDone(queue'[r]))
    BY DEF Bridged
  <2>1. CASE t = s
    BY <1>1, <1>2, <1>3, <2>1, DoneStays DEF BInv, Bridged
  <2>2. CASE t # s
    BY <1>2, <1>5, <2>2 DEF BInv, Bridged
  <2> QED
    BY <2>1, <2>2
<1>7. Fetched'
  <2> SUFFICES ASSUME NEW t \in Sockets, NEW r \in Asks, conn'[t].open, ask[r].socket = t,
                      queue'[r] # <<>>
               PROVE  conn'[t].handler = "stream" /\ conn'[t].serving = r
    BY <1>2 DEF Fetched
  <2>1. CASE r = q
    BY <1>1, <1>2, <1>4, <2>1
  <2>2. CASE r # q
    <3>1. conn[t].open /\ queue[r] # <<>>
      BY <1>2, <2>2
    <3>2. conn[t].handler = "stream" /\ conn[t].serving = r
      BY <3>1 DEF BInv, Fetched
    <3>3. t # s
      BY <1>1, <2>2, <3>2
    <3> QED
      BY <1>2, <3>2, <3>3
  <2> QED
    BY <2>1, <2>2
<1>8. InOrder'
  <2>1. \A t \in Sockets : Awaited(t)' = Awaited(t)
    BY <1>2 DEF Awaited
  <2>2. conn[s].open /\ conn'[s].handler = "stream" => conn'[s].serving = conn[s].serving
    BY <1>1, <1>2
  <2> QED
    BY <1>2, <2>1, <2>2 DEF BInv, InOrder
<1> QED
  BY <1>6, <1>7, <1>8 DEF Bridge

LEMMA BridgeWorker ==
    ASSUME BInv, NEW q \in Asks, Worker(q)
    PROVE  Bridge'
<1>1. /\ Running(q) /\ \A r \in Asks \ {q} : ask'[r] = ask[r] /\ queue'[r] = queue[r]
      /\ ask'[q].socket = ask[q].socket /\ UNCHANGED <<page, conn>>
  BY WorkerEffect DEF BInv, FInv, QInv, IInv
<1>2. \/ conn[ask[q].socket].handler = "gone"
      \/ conn[ask[q].socket].handler = "stream" /\ conn[ask[q].socket].serving = q
  BY <1>1 DEF BInv, FInv, QInv, IInv, Attended
<1>3. \A r \in Asks : ask'[r].socket = ask[r].socket
  BY <1>1
<1>4. \A t \in Sockets : conn[t].handler = "stream" => conn[t].serving \in Asks /\ ask[conn[t].serving].socket = t
  BY DEF BInv, FInv, QInv, IInv, Attended
<1>5. conn[ask[q].socket].handler # "gone" =>
        ask'[q].worker # "none" /\ (ask'[q].worker = "ended" => HasDone(queue'[q]))
  <2> SUFFICES ASSUME conn[ask[q].socket].handler # "gone"
               PROVE  ask'[q].worker # "none" /\ (ask'[q].worker = "ended" => HasDone(queue'[q]))
    OBVIOUS
  <2>1. /\ queue[q] \in Seq(Event) /\ Error(q) \in Event
        /\ Sentinel(q) \in Event /\ Sentinel(q).type = "DONE"
        /\ \/ ask'[q].worker = "running"
           \/ ask'[q].worker = "ended" /\ queue'[q] = Append(queue[q], Sentinel(q))
           \/ ask'[q].worker = "ended" /\ queue'[q] = Append(Append(queue[q], Error(q)), Sentinel(q))
    BY WorkerPuts DEF BInv, FInv, QInv, IInv
  <2>2. Append(queue[q], Error(q)) \in Seq(Event)
    BY <2>1, AppendProperties
  <2> QED
    BY <2>1, <2>2, DoneComes
<1>6. Bridged'
  <2> SUFFICES ASSUME NEW t \in Sockets, conn[t].open, conn[t].handler = "stream"
               PROVE  LET r == conn[t].serving
                      IN  ask'[r].worker # "none" /\ (ask'[r].worker = "ended" => HasDone(queue'[r]))
    BY <1>1 DEF Bridged
  <2>1. CASE conn[t].serving = q
    BY <1>4, <1>5, <2>1
  <2>2. CASE conn[t].serving # q
    BY <1>1, <1>4, <2>2 DEF BInv, Bridged
  <2> QED
    BY <2>1, <2>2
<1>7. Fetched'
  <2> SUFFICES ASSUME NEW t \in Sockets, NEW r \in Asks, conn[t].open, ask[r].socket = t,
                      queue'[r] # <<>>
               PROVE  conn[t].handler = "stream" /\ conn[t].serving = r
    BY <1>1, <1>3 DEF Fetched
  <2>1. CASE r = q
    BY <1>2, <2>1 DEF BInv, FInv, QInv, Current
  <2>2. CASE r # q
    BY <1>1, <2>2 DEF BInv, Fetched
  <2> QED
    BY <2>1, <2>2
<1>8. InOrder'
  <2>1. page.sent \in Asks \cup {0}
    BY DEF BInv, FInv, QInv, IInv, TypeOK, Page
  <2>2. \A t \in Sockets : Awaited(t)' = Awaited(t)
    BY <1>1, <1>3, <2>1 DEF Awaited
  <2> QED
    BY <1>1, <2>2 DEF BInv, InOrder
<1> QED
  BY <1>6, <1>7, <1>8 DEF Bridge

LEMMA BridgeStep == BInv /\ [Next]_vars => Bridge'
<1> SUFFICES ASSUME BInv, [Next]_vars PROVE Bridge'
  OBVIOUS
<1>1. CASE UNCHANGED <<page, conn, ask, queue>>
  BY <1>1, BridgeFrame
<1>2. CASE Receive
  <2>1. /\ page'.sent = page.sent /\ (page'.busy => page.busy) /\ UNCHANGED <<ask, queue>>
        /\ \A s \in Sockets : /\ conn'[s].open = conn[s].open /\ conn'[s].inbox = conn[s].inbox
                              /\ conn'[s].handler = conn[s].handler /\ conn'[s].serving = conn[s].serving
    BY <1>2, ReceiveEffect DEF BInv, FInv, QInv, IInv
  <2> QED
    BY <2>1, BridgeFrame
<1>3. ASSUME NEW s \in Sockets, Drop(s) \/ Disconnect(s) PROVE Bridge'
  <2>1. /\ \A t \in Sockets \ {s} : conn'[t] = conn[t]
        /\ ~conn'[s].open /\ UNCHANGED <<page, ask, queue>>
    BY <1>3, EndEffect DEF BInv, FInv, QInv, IInv
  <2> QED
    BY <2>1, BridgeFrame
<1> QED
  BY <1>1, <1>2, <1>3, BridgeLoad, BridgeSubmit, BridgeRefuse, BridgeAccept, BridgeForward,
     BridgeWorker DEF Next, User, Handler, Ingested, vars

THEOREM BInvariant == Spec => []BInv
<1>1. Init => Bridge
  BY DEF Init, Bridge, Bridged, Fetched, InOrder
<1>2. FInv /\ Bridge <=> BInv
  BY DEF BInv, Bridge
<1>3. FInv /\ Bridge /\ [Next]_vars => Bridge'
  BY <1>2, BridgeStep
<1> QED
  BY <1>1, <1>2, <1>3, FInvariant, PTL DEF Spec

LEMMA InScript ==
    ASSUME BInv, NEW q \in Asks, Running(q), conn[ask[q].socket].open
    PROVE  ask[q].emitted <= Len(Script(q))
<1>1. /\ ask[q].socket \in Sockets /\ q # 0
      /\ ask[q].emitted \in Nat /\ Len(Script(q)) \in Nat
  <2>1. TypeOK /\ Attended
    BY DEF BInv, FInv, QInv, IInv
  <2>2. q # 0
    BY DEF Asks
  <2>3. ask[q].socket \in Sockets
    BY <2>1 DEF Attended, Running
  <2>4. ask[q].emitted \in Nat
    BY <2>1 DEF TypeOK, Ask
  <2>5. Len(Script(q)) \in Nat
    BY <2>1, ScriptFacts
  <2> QED
    BY <2>2, <2>3, <2>4, <2>5
<1>2. CASE q = page.sent /\ page.busy
  <2>1. Stage(q, conn[ask[q].socket])
    BY <1>1, <1>2 DEF BInv, FInv, QInv, Traced, Awaited
  <2>2. ask[q].emitted < Len(Script(q)) \/ Said(q)
    BY <2>1 DEF Stage, Unread, InHand, Queued, Arriving, Spent, Running
  <2> QED
    BY <1>1, <2>2 DEF Said
<1>3. CASE ~(q = page.sent /\ page.busy)
  <2>1. Said(q)
    BY <1>1, <1>3 DEF BInv, FInv, QInv, OthersSpent, Spent
  <2> QED
    BY <1>1, <2>1 DEF Said
<1> QED
  BY <1>2, <1>3

LEMMA WorkType ==
    ASSUME BInv, NEW q \in Asks, conn[ask[q].socket].open
    PROVE  /\ ToSay(q) \in Nat /\ Len(queue[q]) \in Nat /\ Work(q) \in Nat
           /\ queue[q] # <<>> => Work(q) > 0
<1>1. ask[q].emitted \in Nat /\ Len(Script(q)) \in Nat /\ queue[q] \in Seq(Event)
  BY ScriptFacts DEF BInv, FInv, QInv, IInv, TypeOK, Ask
<1>2. ToSay(q) \in Nat
  <2>1. CASE Running(q)
    <3>1. ask[q].emitted <= Len(Script(q))
      BY <2>1, InScript
    <3> QED
      BY <1>1, <2>1, <3>1 DEF ToSay
  <2>2. CASE ~Running(q)
    BY <2>2 DEF ToSay
  <2> QED
    BY <2>1, <2>2
<1>3. Len(queue[q]) \in Nat /\ (queue[q] # <<>> => Len(queue[q]) > 0)
  BY <1>1, EmptySeq, LenProperties
<1> QED
  BY <1>2, <1>3 DEF Work

LEMMA WorkFrame ==
    ASSUME NEW q \in Asks, ask'[q] = ask[q], queue'[q] = queue[q]
    PROVE  Work(q)' = Work(q) /\ Script(q)' = Script(q)
<1>1. Script(q)' = Script(q) /\ Running(q)' = Running(q)
  BY SaidFrame
<1> QED
  BY <1>1 DEF Work, ToSay

(* What a worker says is a step nearer to the page once it is on the queue.     *)
LEMMA WorkerWorks ==
    ASSUME BInv, NEW q \in Asks, Worker(q), conn[ask[q].socket].open
    PROVE  Work(q)' < Work(q) /\ Work(q)' \in Nat /\ Work(q) \in Nat
<1> DEFINE L == Len(Script(q))
           n == ask[q].emitted
           k == Len(queue[q])
<1>1. /\ Running(q) /\ queue[q] \in Seq(Event) /\ L \in Nat /\ n \in Nat /\ k \in Nat
      /\ Error(q) \in Event /\ Sentinel(q) \in Event
  BY WorkerPuts, LenProperties DEF BInv, FInv, QInv, IInv
<1>2. n <= L /\ Work(q) \in Nat
  BY <1>1, InScript, WorkType
<1>3. conn[ask[q].socket].handler # "gone"
  <2>1. ask[q].socket \in Sockets
    BY <1>1 DEF BInv, FInv, QInv, IInv, Attended, Running
  <2> QED
    BY <2>1 DEF BInv, FInv, QInv, Current
<1>4. Work(q) = 3 * (L + 1 - n) + 2 * k
  BY <1>1 DEF Work, ToSay
<1>5. Script(q)' = Script(q)
  <2>1. ask'[q].lane = ask[q].lane
    BY WorkerEffect DEF BInv, FInv, QInv, IInv
  <2> QED
    BY <2>1 DEF Script
<1>6. \A ev \in Event : \A events \in Seq(Event) :
        Append(events, ev) \in Seq(Event) /\ Len(Append(events, ev)) = Len(events) + 1
  BY AppendProperties
<1>7. CASE /\ n < L /\ ask'[q].emitted = n + 1 /\ ask'[q].worker = "running"
           /\ Script(q)[n + 1] \in Event
           /\ queue'[q] = Append(queue[q], Script(q)[n + 1])
  <2>1. Len(queue'[q]) = k + 1
    BY <1>1, <1>6, <1>7
  <2>2. Work(q)' = 3 * (L + 1 - (n + 1)) + 2 * (k + 1)
    BY <1>5, <1>7, <2>1 DEF Work, ToSay, Running
  <2> HIDE DEF L, n, k
  <2> QED
    BY <1>1, <1>2, <1>4, <1>7, <2>2
<1>8. CASE n = L /\ ask'[q].worker = "ended" /\ queue'[q] = Append(queue[q], Sentinel(q))
  <2>1. Len(queue'[q]) = k + 1
    BY <1>1, <1>6, <1>8
  <2>2. Work(q)' = 2 * (k + 1)
    BY <1>8, <2>1 DEF Work, ToSay, Running
  <2> HIDE DEF L, n, k
  <2> QED
    BY <1>1, <1>2, <1>4, <1>8, <2>2
<1>9. CASE n < L /\ ask'[q].worker = "ended"
           /\ queue'[q] = Append(Append(queue[q], Error(q)), Sentinel(q))
  <2>1. Len(queue'[q]) = k + 2
    BY <1>1, <1>6, <1>9
  <2>2. Work(q)' = 2 * (k + 2)
    BY <1>9, <2>1 DEF Work, ToSay, Running
  <2> HIDE DEF L, n, k
  <2> QED
    BY <1>1, <1>2, <1>4, <1>9, <2>2
<1> QED
  BY <1>3, <1>7, <1>8, <1>9, WorkerPuts DEF BInv, FInv, QInv, IInv

LEMMA PendingFacts ==
    ASSUME BInv, NEW s \in Sockets, Pending(s)
    PROVE  /\ s = page.ws /\ s = page.opened /\ conn[s].open /\ page.busy /\ Awaited(s)
           /\ page.sent \in Asks /\ ask[page.sent].socket = s
           /\ conn[s].handler \in {"receive", "stream"} /\ Stage(page.sent, conn[s])
           /\ conn[s].handler = "stream" =>
                conn[s].serving \in Asks /\ ask[conn[s].serving].socket = s
<1>1. /\ s = page.ws /\ conn[s].open /\ page.busy /\ page.sent # 0 /\ ask[page.sent].socket = s
  BY DEF Pending, Connected
<1>2. page.sent \in Asks /\ s = page.opened
  BY <1>1 DEF BInv, FInv, QInv, IInv, TypeOK, Page, Fresh
<1>3. Awaited(s)
  BY <1>1 DEF Awaited
<1> QED
  BY <1>1, <1>2, <1>3 DEF BInv, FInv, QInv, IInv, Attended, Current, Traced

(* Nobody waits for anybody: as long as the page waits, something can go on.     *)
LEMMA GoesOn ==
    ASSUME BInv, NEW s \in Sockets, Pending(s)
    PROVE  CanGo(s)
<1> DEFINE q == page.sent
           p == conn[s].serving
<1>1. /\ conn[s].open /\ q \in Asks /\ ask[q].socket = s /\ conn[s].handler \in {"receive", "stream"}
      /\ Stage(q, conn[s])
      /\ conn[s].handler = "stream" => p \in Asks /\ ask[p].socket = s
  BY PendingFacts
<1>2. CASE Unread(q, conn[s])
  <2>1. conn[s].inbox # <<>>
    BY <1>2 DEF Unread
  <2>2. CASE conn[s].handler = "receive"
    BY <2>1, <2>2 DEF CanGo, Reading
  <2>3. CASE conn[s].handler = "stream"
    <3>1. p \in Asks /\ ask[p].socket = s /\ ask[p].worker \in {"none", "running", "ended"}
      BY <1>1, <2>3 DEF BInv, FInv, QInv, IInv, TypeOK, Ask
    <3>2. ask[p].worker # "none" /\ (ask[p].worker = "ended" => HasDone(queue[p]))
      BY <1>1, <2>3 DEF BInv, Bridged
    <3>3. CASE ask[p].worker = "ended"
      <4>1. queue[p] # <<>>
        BY <3>2, <3>3 DEF HasDone
      <4> QED
        BY <2>3, <4>1 DEF CanGo
    <3>4. CASE ask[p].worker = "running"
      <4>1. Running(p) /\ ask[p].emitted <= Len(Script(p))
        BY <1>1, <3>1, <3>4, InScript DEF Running
      <4> QED
        BY <2>3, <4>1 DEF CanGo
    <3> QED
      BY <3>1, <3>2, <3>3, <3>4
  <2> QED
    BY <1>1, <2>2, <2>3
<1>3. CASE InHand(q, conn[s])
  <2>1. Running(q)
    BY <1>3 DEF InHand
  <2>2. conn[s].handler = "stream" /\ p = q
    BY <1>1, <2>1 DEF BInv, FInv, QInv, IInv, Attended
  <2>3. ask[q].emitted <= Len(Script(q))
    BY <1>1, <2>1, InScript
  <2> QED
    BY <2>1, <2>2, <2>3 DEF CanGo
<1>4. CASE Queued(q, conn[s])
  <2>1. queue[q] # <<>>
    BY <1>4 DEF Queued, FinalThenDone
  <2>2. conn[s].handler = "stream" /\ p = q
    BY <1>1, <2>1 DEF BInv, Fetched
  <2> QED
    BY <2>1, <2>2 DEF CanGo
<1>5. CASE Arriving(q, conn[s])
  <2>1. conn[s].wire # <<>>
    BY <1>5 DEF Arriving, FinalLast
  <2> QED
    BY <2>1 DEF CanGo
<1> QED
  BY <1>1, <1>2, <1>3, <1>4, <1>5 DEF Stage

(* The measure, before and after a step, by where the question is.              *)
LEMMA StepsBefore ==
    ASSUME BInv, NEW s \in Sockets, Pending(s), NEW q \in Asks, q = page.sent
    PROVE  /\ conn[s].inbox = <<>> => StepsLeft(s) = Work(q) + Len(conn[s].wire)
           /\ conn[s].inbox # <<>> /\ conn[s].handler = "receive" =>
                StepsLeft(s) = 3 * Len(Script(q)) + 4
           /\ conn[s].inbox # <<>> /\ conn[s].handler = "stream" =>
                StepsLeft(s) = 3 * Len(Script(q)) + 4 + Work(conn[s].serving)
           /\ Work(q) \in Nat /\ Len(Script(q)) \in Nat /\ Len(conn[s].wire) \in Nat
           /\ StepsLeft(s) \in Nat
<1>1. /\ Work(q) \in Nat /\ Len(Script(q)) \in Nat /\ Len(conn[s].wire) \in Nat
  <2>1. conn[s].wire \in Seq(Event)
    BY DEF BInv, FInv, QInv, IInv, TypeOK, Conn
  <2> QED
    BY <2>1, PendingFacts, WorkType, ScriptFacts, LenProperties DEF BInv, FInv, QInv, IInv
<1>2. conn[s].handler = "stream" => Work(conn[s].serving) \in Nat
  BY PendingFacts, WorkType
<1>3. conn[s].handler \in {"receive", "stream"}
  BY PendingFacts
<1> QED
  BY <1>1, <1>2, <1>3 DEF StepsLeft

LEMMA StepsAfter ==
    ASSUME NEW s \in Sockets, NEW q \in Asks, page'.sent = q
    PROVE  /\ conn'[s].inbox = <<>> => StepsLeft(s)' = Work(q)' + Len(conn'[s].wire)
           /\ conn'[s].inbox # <<>> /\ conn'[s].handler = "receive" =>
                StepsLeft(s)' = 3 * Len(Script(q)') + 4
           /\ \A p \in Asks : conn'[s].inbox # <<>> /\ conn'[s].handler = "stream" /\ conn'[s].serving = p =>
                StepsLeft(s)' = 3 * Len(Script(q)') + 4 + Work(p)'
  BY DEF StepsLeft

Nearer(s) == Pending(s) /\ Pending(s)' => StepsLeft(s)' < StepsLeft(s) \/ Still(s)

LEMMA NearerReceive ==
    ASSUME BInv, NEW s \in Sockets, Pending(s), Receive
    PROVE  StepsLeft(s)' < StepsLeft(s)
<1>1. PICK q \in Asks : q = page.sent
  BY PendingFacts
<1>2. /\ s = page.ws /\ conn[s].wire # <<>> /\ conn'[s].wire = Tail(conn[s].wire)
      /\ conn'[s].inbox = conn[s].inbox /\ page'.sent = q /\ UNCHANGED <<ask, queue>>
  BY <1>1, PendingFacts, ReceiveEffect DEF BInv, FInv, QInv, IInv
<1>3. conn[s].inbox = <<>>
  BY <1>2, PendingFacts DEF Stage, Unread, InHand, Queued, Arriving
<1>4. Work(q)' = Work(q)
  BY <1>2, WorkFrame
<1>5. Len(Tail(conn[s].wire)) = Len(conn[s].wire) - 1
  <2>1. conn[s].wire \in Seq(Event)
    BY DEF BInv, FInv, QInv, IInv, TypeOK, Conn
  <2> QED
    BY <1>2, <2>1, TailIndices
<1>6. /\ StepsLeft(s) = Work(q) + Len(conn[s].wire)
      /\ Work(q) \in Nat /\ Len(conn[s].wire) \in Nat
  BY <1>1, <1>3, StepsBefore
<1>7. StepsLeft(s)' = Work(q)' + Len(conn'[s].wire)
  BY <1>2, <1>3, StepsAfter
<1> QED
  BY <1>2, <1>4, <1>5, <1>6, <1>7

LEMMA NearerRead ==
    ASSUME BInv, NEW s \in Sockets, Pending(s), Refuse(s) \/ Accept(s)
    PROVE  StepsLeft(s)' < StepsLeft(s)
<1>1. PICK q \in Asks : q = page.sent
  BY PendingFacts
<1>2. Reading(s) /\ conn[s].inbox # <<>> /\ conn[s].handler = "receive"
  BY DEF Refuse, Accept, Reading
<1>3. /\ First(s) = q /\ ask[q].worker = "none" /\ Tail(conn[s].inbox) = <<>>
      /\ conn[s].wire = <<>> /\ queue[q] = <<>>
  BY <1>1, <1>2, PendingFacts, ReadIsAwaited DEF BInv, FInv, Unread
<1>4. StepsLeft(s) = 3 * Len(Script(q)) + 4 /\ Len(Script(q)) \in Nat
  BY <1>1, <1>2, StepsBefore
<1>5. Len(queue[q]) = 0
  BY <1>3
<1>6. CASE Refuse(s)
  <2>1. /\ conn'[s].inbox = <<>> /\ conn'[s].wire = Append(<<>>, Error(q))
        /\ UNCHANGED <<page, ask, queue>>
    <3>1. conn[s].open
      BY PendingFacts
    <3>2. /\ conn'[s].inbox = Tail(conn[s].inbox) /\ conn'[s].wire = Append(conn[s].wire, Error(First(s)))
          /\ UNCHANGED <<page, ask, queue>>
      BY <1>6, <3>1, RefuseEffect DEF BInv, FInv, QInv, IInv
    <3> QED
      BY <1>3, <3>2
  <2>2. Len(conn'[s].wire) = 1
    BY <2>1
  <2>3. Work(q) = 0 /\ Work(q)' = Work(q)
    BY <1>3, <1>5, <2>1, WorkFrame DEF Work, ToSay, Running
  <2>4. StepsLeft(s)' = Work(q)' + Len(conn'[s].wire)
    BY <1>1, <2>1, StepsAfter
  <2> QED
    BY <1>4, <2>2, <2>3, <2>4
<1>7. CASE Accept(s)
  <2>1. /\ conn'[s].inbox = <<>> /\ conn'[s].wire = <<>>
        /\ ask'[q].worker = "running" /\ ask'[q].lane = ask[q].lane
        /\ ask'[q].emitted = ask[q].emitted
        /\ UNCHANGED <<page, queue>>
    BY <1>3, <1>7, AcceptEffect DEF BInv, FInv, QInv, IInv
  <2>2. ask'[q].emitted = 0 /\ Len(queue'[q]) = 0 /\ Len(conn'[s].wire) = 0
    BY <1>3, <1>5, <2>1 DEF BInv, FInv, QInv, Current
  <2>3. Script(q)' = Script(q)
    BY <2>1 DEF Script
  <2>4. Work(q)' = 3 * (Len(Script(q)) + 1 - 0) + 2 * 0
    BY <2>1, <2>2, <2>3 DEF Work, ToSay, Running
  <2>5. StepsLeft(s)' = Work(q)' + Len(conn'[s].wire)
    BY <1>1, <2>1, StepsAfter
  <2> QED
    BY <1>4, <2>2, <2>4, <2>5
<1> QED
  BY <1>6, <1>7

LEMMA NearerForward ==
    ASSUME BInv, NEW s \in Sockets, Pending(s), Forward(s)
    PROVE  StepsLeft(s)' < StepsLeft(s)
<1>1. PICK q \in Asks : q = page.sent
  BY PendingFacts
<1>2. PICK p \in Asks : p = conn[s].serving /\ ask[p].socket = s
  BY PendingFacts DEF Forward
<1> DEFINE ev == Head(queue[p])
<1>3. /\ conn[s].open /\ conn[s].handler = "stream" /\ queue[p] # <<>>
      /\ conn'[s].inbox = conn[s].inbox /\ queue'[p] = Tail(queue[p])
      /\ \A r \in Asks \ {p} : queue'[r] = queue[r]
      /\ ev.type = "DONE" => conn'[s].handler = "receive" /\ conn'[s].wire = conn[s].wire
      /\ ev.type # "DONE" => conn'[s].wire = Append(conn[s].wire, ev)
      /\ ev \in Event /\ page'.sent = q /\ UNCHANGED <<page, ask>>
  <2>1. UNCHANGED <<page, ask>>
    BY DEF Forward
  <2> QED
    BY <1>1, <1>2, <2>1, PendingFacts, ForwardEffect DEF BInv, FInv, QInv, IInv
<1>4. /\ Len(queue'[p]) = Len(queue[p]) - 1 /\ Len(queue[p]) \in Nat
      /\ queue[p][1] = ev /\ 1 \in DOMAIN queue[p]
  <2>1. queue[p] \in Seq(Event)
    BY DEF BInv, FInv, QInv, IInv, TypeOK
  <2> QED
    BY <1>3, <2>1, TailIndices
<1>5. /\ Work(p) = 3 * ToSay(p) + 2 * Len(queue[p]) /\ Work(p)' = 3 * ToSay(p) + 2 * Len(queue'[p])
      /\ ToSay(p) \in Nat /\ Work(p) \in Nat
  <2>1. ToSay(p)' = ToSay(p)
    BY <1>3 DEF ToSay, Running, Script
  <2> QED
    BY <1>2, <1>3, <2>1, WorkType DEF Work
<1>6. Work(p)' = Work(p) - 2 /\ Work(p) \in Nat /\ Work(p) > 0
  <2>1. Work(p)' = 3 * ToSay(p) + 2 * (Len(queue[p]) - 1)
    BY <1>4, <1>5
  <2>2. Work(p) > 0
    BY <1>2, <1>3, WorkType
  <2> HIDE DEF ev
  <2> QED
    BY <1>4, <1>5, <2>1, <2>2
<1>7. /\ Len(conn'[s].wire) \in Nat /\ Len(conn[s].wire) \in Nat
      /\ Len(conn'[s].wire) <= Len(conn[s].wire) + 1
  <2>1. conn[s].wire \in Seq(Event)
    BY DEF BInv, FInv, QInv, IInv, TypeOK, Conn
  <2> HIDE DEF ev
  <2>2. conn'[s].wire = conn[s].wire \/ conn'[s].wire = Append(conn[s].wire, ev)
    BY <1>3
  <2> QED
    BY <1>3, <2>1, <2>2, AppendProperties, LenProperties
<1>8. CASE conn[s].inbox = <<>>
  <2>1. p = q
    BY <1>1, <1>2, <1>3, <1>8, PendingFacts DEF BInv, InOrder
  <2>2. StepsLeft(s) = Work(p) + Len(conn[s].wire)
    BY <1>1, <1>8, <2>1, StepsBefore
  <2>3. StepsLeft(s)' = Work(p)' + Len(conn'[s].wire)
    BY <1>3, <1>8, <2>1, StepsAfter
  <2> QED
    BY <1>7, <1>6, <2>2, <2>3
<1>9. CASE conn[s].inbox # <<>>
  <2>1. queue[q] = <<>> /\ p # q
    BY <1>1, <1>3, <1>9, PendingFacts DEF Stage, Unread, InHand, Queued, Arriving
  <2>2. OnlyDone(queue[p])
    BY <1>1, <1>2, <1>3, <2>1 DEF BInv, FInv, QInv, OthersSpent, Spent
  <2>3. conn'[s].handler = "receive"
    BY <1>3, <1>4, <2>2 DEF OnlyDone
  <2>4. Work(q)' = Work(q) /\ Script(q)' = Script(q)
    BY <1>3, <2>1, WorkFrame
  <2>5. StepsLeft(s) = 3 * Len(Script(q)) + 4 + Work(p) /\ Len(Script(q)) \in Nat
    BY <1>1, <1>2, <1>3, <1>9, StepsBefore
  <2>6. StepsLeft(s)' = 3 * Len(Script(q)) + 4
    BY <1>3, <1>9, <2>3, <2>4, StepsAfter
  <2> QED
    BY <1>6, <2>5, <2>6
<1> QED
  BY <1>8, <1>9

LEMMA NearerWorker ==
    ASSUME BInv, NEW s \in Sockets, Pending(s), NEW r \in Asks, Worker(r)
    PROVE  StepsLeft(s)' < StepsLeft(s) \/ Still(s)
<1>1. PICK q \in Asks : q = page.sent
  BY PendingFacts
<1>2. /\ Running(r) /\ \A p \in Asks \ {r} : ask'[p] = ask[p] /\ queue'[p] = queue[p]
      /\ ask'[r].lane = ask[r].lane /\ UNCHANGED <<page, conn>>
  BY WorkerEffect DEF BInv, FInv, QInv, IInv
<1>3. CASE ask[r].socket # s
  BY <1>2, <1>3 DEF Still
<1>4. CASE ask[r].socket = s
  <2>1. conn[s].handler = "stream" /\ conn[s].serving = r
    BY <1>2, <1>4, PendingFacts DEF BInv, FInv, QInv, IInv, Attended
  <2>2. Work(r)' < Work(r) /\ Work(r)' \in Nat /\ Work(r) \in Nat
    BY <1>4, PendingFacts, WorkerWorks
  <2>3. Script(q)' = Script(q)
    <3>1. ask'[q].lane = ask[q].lane
      BY <1>2
    <3> QED
      BY <3>1 DEF Script
  <2>4. CASE conn[s].inbox = <<>>
    <3>1. r = q
      BY <1>1, <2>1, <2>4, PendingFacts DEF BInv, InOrder
    <3>2. StepsLeft(s) = Work(r) + Len(conn[s].wire) /\ Len(conn[s].wire) \in Nat
      BY <1>1, <2>4, <3>1, StepsBefore
    <3>3. StepsLeft(s)' = Work(r)' + Len(conn[s].wire)
      BY <1>1, <1>2, <2>4, <3>1, StepsAfter
    <3> QED
      BY <2>2, <3>2, <3>3
  <2>5. CASE conn[s].inbox # <<>>
    <3>1. StepsLeft(s) = 3 * Len(Script(q)) + 4 + Work(r) /\ Len(Script(q)) \in Nat
      BY <1>1, <2>1, <2>5, StepsBefore
    <3>2. StepsLeft(s)' = 3 * Len(Script(q)) + 4 + Work(r)'
      BY <1>1, <1>2, <2>1, <2>3, <2>5, StepsAfter
    <3> QED
      BY <2>2, <3>1, <3>2
  <2> QED
    BY <2>4, <2>5
<1> QED
  BY <1>3, <1>4

LEMMA NearerStep == BInv /\ [Next]_vars => \A s \in Sockets : Nearer(s)
<1> SUFFICES ASSUME BInv, [Next]_vars, NEW s \in Sockets, Pending(s), Pending(s)'
             PROVE  StepsLeft(s)' < StepsLeft(s) \/ Still(s)
  BY DEF Nearer
<1>1. CASE UNCHANGED <<conn, ask, queue>>
  BY <1>1 DEF Still
<1>2. ASSUME NEW d \in Docs, LoadDoc(d) \/ WaitReady(d)
      PROVE  StepsLeft(s)' < StepsLeft(s) \/ Still(s)
  <2>1. UNCHANGED <<ask, queue>>
    BY <1>2, LoadEffect DEF BInv, FInv, QInv, IInv
  <2>2. ASSUME NEW p \in Page, p.doc \in Docs, p.opened = page.opened, Connect(p) PROVE FALSE
    <3>1. page'.ws = page.opened + 1
      BY <2>2, ConnectEffect DEF BInv, FInv, QInv, IInv
    <3>2. page'.ws = s /\ s = page.opened /\ s \in Nat
      BY PendingFacts, SessionBoundAssumption DEF Pending, Sockets
    <3> QED
      BY <3>1, <3>2
  <2> QED
    BY <1>1, <1>2, <2>1, <2>2, LoadEffect DEF BInv, FInv, QInv, IInv
<1>3. ASSUME NEW t \in Sockets, Drop(t) \/ Disconnect(t)
      PROVE  StepsLeft(s)' < StepsLeft(s) \/ Still(s)
  <2>1. (\A c \in Sockets \ {t} : conn'[c] = conn[c]) /\ ~conn'[t].open /\ UNCHANGED <<ask, queue>>
    BY <1>3, EndEffect DEF BInv, FInv, QInv, IInv
  <2>2. t # s
    BY <2>1 DEF Pending, Connected
  <2> QED
    BY <2>1, <2>2 DEF Still
<1>4. ASSUME NEW t \in Sockets, Refuse(t) PROVE StepsLeft(s)' < StepsLeft(s) \/ Still(s)
  <2>1. (\A c \in Sockets \ {t} : conn'[c] = conn[c]) /\ UNCHANGED <<ask, queue>>
    BY <1>4, RefuseEffect DEF BInv, FInv, QInv, IInv
  <2> QED
    BY <1>4, <2>1, NearerRead DEF Still
<1>5. ASSUME NEW t \in Sockets, Accept(t) PROVE StepsLeft(s)' < StepsLeft(s) \/ Still(s)
  <2>1. /\ \A c \in Sockets \ {t} : conn'[c] = conn[c]
        /\ \A r \in Asks \ {First(t)} : ask'[r] = ask[r]
        /\ Reading(t) /\ UNCHANGED queue
    BY <1>5, AcceptEffect DEF BInv, FInv, QInv, IInv
  <2>2. ask[First(t)].socket = t
    BY <2>1, ReadIsAwaited DEF BInv, FInv
  <2> QED
    BY <1>5, <2>1, <2>2, NearerRead DEF Still
<1>6. ASSUME NEW t \in Sockets, Forward(t) PROVE StepsLeft(s)' < StepsLeft(s) \/ Still(s)
  <2>1. conn[t].serving \in Asks /\ ask[conn[t].serving].socket = t
    BY <1>6 DEF BInv, FInv, QInv, IInv, Attended, Forward
  <2>2. /\ \A c \in Sockets \ {t} : conn'[c] = conn[c]
        /\ \A r \in Asks \ {conn[t].serving} : queue'[r] = queue[r]
        /\ UNCHANGED ask
    BY <1>6, <2>1, ForwardEffect DEF BInv, FInv, QInv, IInv, Forward
  <2> QED
    BY <1>6, <2>1, <2>2, NearerForward DEF Still
<1>7. ASSUME NEW lane \in Lanes, NEW other \in Docs \cup {None}, Submit(lane, other) PROVE FALSE
  BY <1>7, PendingFacts DEF Submit
<1> QED
  BY <1>1, <1>2, <1>3, <1>4, <1>5, <1>6, <1>7, NearerReceive, NearerWorker
     DEF Next, User, Handler, Ingested, vars

(* A question sent over the connection the page still has is never stuck, and     *)
(* never set back: the page, the handler or the worker of the connection has      *)
(* something to do, and every step of the system that is about the connection      *)
(* brings the answer nearer, whatever the user, other connections and their        *)
(* workers do meanwhile. AskedIsAnswered adds that they go on.                    *)
THEOREM AnswerInSight ==
    Spec => /\ [](\A s \in Sockets : Pending(s) => StepsLeft(s) \in Nat /\ CanGo(s))
            /\ [][\A s \in Sockets : Nearer(s)]_vars
<1>1. BInv => \A s \in Sockets : Pending(s) => StepsLeft(s) \in Nat /\ CanGo(s)
  BY PendingFacts, StepsBefore, GoesOn
<1>2. BInv /\ [Next]_vars => [\A s \in Sockets : Nearer(s)]_vars
  BY NearerStep
<1> QED
  BY <1>1, <1>2, BInvariant, PTL DEF Spec

===============================================================================
