-------------------------- MODULE NetServer_proofs --------------------------
(***************************************************************************)
(* Theorems about NetServer, for every number of places, of connections    *)
(* and of requests of each.                                                *)
(***************************************************************************)
EXTENDS NetServer, SequenceTheorems, TLAPS

(***************************************************************************)
(* What is under way: the live node, the queue behind it, the request A is *)
(* about to answer, and the requests nobody has taken.                     *)
(***************************************************************************)
IsLive(x)  == live # None /\ x = live
InQueue(x) == \E i \in 1 .. Len(queue) : x = queue[i]
IsMsg(x)   == apc # "idle" /\ x = msg
IsSent(x)  == apc = "send" /\ x = msg
InReady(x) == \E i \in 1 .. Len(ready) : x = ready[i]
Under(x)   == IsLive(x) \/ InQueue(x) \/ IsMsg(x) \/ InReady(x)

\* One thread has started a write, and only one node is live.
StageInv ==
    /\ stage = "none" <=> live = None
    /\ stage = "start" <=> tpc = "work" \/ apc = "start"
    /\ ~(tpc = "work" /\ apc = "start")
    /\ apc = "idle" <=> msg = None

\* A place is given to a new connection only when nothing of the old one is
\* under way, so what is under way belongs to the connection of its place.
SlotInv ==
    /\ \A s \in Slots : conn[s] <= nconn
    /\ \A s, t \in Slots : conn[s] = conn[t] /\ conn[s] # 0 => s = t
    /\ \A s \in Slots : used[s] = "on" => conn[s] # 0
    /\ \A s \in Slots : used[s] = "old" => stopping[s]
    /\ \A s \in Slots : cxt[s] # "none" <=> used[s] = "on" /\ ~stopping[s]
    /\ \A x : Under(x) => /\ x \in NodeSet /\ x.conn = conn[x.slot] /\ used[x.slot] # "free"
                          /\ x.n <= got[x.conn] /\ sent[x.conn] >= Ask
    /\ \A c \in Conns : c > nconn => /\ got[c] = 0 /\ sent[c] <= Ask /\ calls[c] = <<>>
                                     /\ up[c] = <<>> /\ written[c] = <<>>

\* A buffer holds what its client has sent after the last request decoded.
Held(c) == IF sent[c] < Ask THEN 0 ELSE sent[c] - 2 * got[c]
BufferInv ==
    \A s \in Slots : cxt[s] # "none" =>
       Len(buf[s]) = Held(conn[s]) /\ \A i \in 1 .. Len(buf[s]) : buf[s][i] = 2 * got[conn[s]] + i

\* No request is decoded before the handshake has its answer, and none that
\* the client has not sent whole.
StreamInv ==
    /\ \A s \in Slots : cxt[s] = "working" =>
          /\ calls[conn[s]] = <<"connected">> /\ sent[conn[s]] >= Ask
          /\ proto = "ws" => written[conn[s]] # <<>>
    /\ \A s \in Slots : cxt[s] = "handing" =>
          /\ proto = "ws" /\ got[conn[s]] = 0
          /\ calls[conn[s]] = <<>> /\ up[conn[s]] = <<>>
          /\ written[conn[s]] = IF lpc = <<s>> THEN <<Hand>> ELSE <<>>
    /\ \A c \in Conns :
          /\ sent[c] >= Ask - 1 /\ (proto = "tcp" => sent[c] >= Ask)
          /\ proto = "ws" /\ got[c] > 0 => written[c] # <<>>
          /\ got[c] = 0 \/ 2 * got[c] <= sent[c]
          /\ calls[c] \in {<<>>, <<"connected">>, <<"connected", "disconnect">>}
          /\ up[c] # <<>> => calls[c] # <<>>

\* The requests of a connection that nobody has taken are those after the last
\* one handed up, each once; all of them, while it is not disconnected.
ReadyInv ==
    /\ \A i, j \in 1 .. Len(ready) : i < j /\ ready[i].conn = ready[j].conn => ready[i].n < ready[j].n
    /\ \A x : InReady(x) => Len(up[x.conn]) < x.n
    /\ \A s \in Slots : cxt[s] # "none" =>
          \A n \in Len(up[conn[s]]) + 1 .. got[conn[s]] :
             \E i \in 1 .. Len(ready) : ready[i].conn = conn[s] /\ ready[i].n = n
    /\ \A c \in Conns : Len(up[c]) <= got[c] /\ \A i \in 1 .. Len(up[c]) : up[c][i] = i

\* The answers of a connection are in the order of its requests all along the
\* way from ready to the wire.
Before(x, y) == x.conn = y.conn => x.n < y.n
OrderInv ==
    /\ \A i, j \in 1 .. Len(queue) : i < j => Before(queue[i], queue[j])
    /\ \A x, y : IsLive(x) /\ (InQueue(y) \/ IsSent(y) \/ InReady(y)) => Before(x, y)
    /\ \A x, y : InQueue(x) /\ (IsSent(y) \/ InReady(y)) => Before(x, y)
    /\ \A x, y : IsSent(x) /\ InReady(y) => Before(x, y)
    /\ \A x : IsLive(x) \/ InQueue(x) \/ IsSent(x) \/ InReady(x) =>
          \A k \in 1 .. Len(written[x.conn]) : written[x.conn][k] < x.n
    /\ \A c \in Conns : \A k \in 1 .. Len(written[c]) : written[c][k] <= got[c]
    /\ \A c \in Conns : written[c] # <<>> => sent[c] >= Ask
    /\ AnswersInOrder

IInv == NetTypeOK /\ StageInv /\ SlotInv /\ BufferInv /\ StreamInv /\ ReadyInv /\ OrderInv
-----------------------------------------------------------------------------
LEMMA PairOf == ASSUME NEW a, NEW b PROVE <<a>> \o <<b>> = <<a, b>>
<1> DEFINE S == {a, b}
           x == <<a>> \o <<b>>
           y == <<a, b>>
<1>1. y \in Seq(S) /\ Len(y) = 2 /\ y[1] = a /\ y[2] = b
  OBVIOUS
<1>2. x \in Seq(S) /\ Len(x) = 2 /\ x[1] = a /\ x[2] = b
  OBVIOUS
<1> HIDE DEF x, y, S
<1>3. \A i \in 1 .. Len(x) : x[i] = y[i]
  BY <1>1, <1>2
<1>4. x = y
  BY <1>1, <1>2, <1>3, SeqEqual
<1> QED
  BY <1>4 DEF x, y

-----------------------------------------------------------------------------
(***************************************************************************)
(* The frames: what an invariant does not see cannot break it.             *)
(***************************************************************************)
LEMMA Places ==
    ASSUME IInv
    PROVE  /\ \A s \in Slots : conn[s] \in Nat /\ (cxt[s] # "none" => conn[s] \in Conns)
           /\ \A x : Under(x) => /\ x \in NodeSet /\ x.slot \in Slots /\ x.conn \in Conns /\ x.n \in Nat
                                 /\ x.conn = conn[x.slot] /\ x # None
<1>1. ASSUME NEW s \in Slots PROVE conn[s] \in Nat /\ (cxt[s] # "none" => conn[s] \in Conns)
  <2>1. conn[s] \in 0 .. MaxConns
    BY <1>1 DEF IInv, NetTypeOK
  <2>2. cxt[s] # "none" => conn[s] # 0
    BY <1>1 DEF IInv, SlotInv
  <2> QED
    BY <2>1, <2>2, NetAssumption DEF Conns
<1>2. ASSUME NEW x, Under(x)
      PROVE  /\ x \in NodeSet /\ x.slot \in Slots /\ x.conn \in Conns /\ x.n \in Nat
             /\ x.conn = conn[x.slot] /\ x # None
  <2>1. x \in NodeSet /\ x.conn = conn[x.slot]
    BY <1>2 DEF IInv, SlotInv
  <2> QED
    BY <2>1, NetAssumption DEF NodeSet, None, Slots
<1> QED
  BY <1>1, <1>2

LEMMA SlotFrame ==
    ASSUME SlotInv, UNCHANGED <<sessions, cxt, sent, nethistory>>, \A x : Under(x)' => Under(x)
    PROVE  SlotInv'
  BY DEF SlotInv, sessions, nethistory

LQuiet == UNCHANGED lpc \/ (lpc = <<>> /\ lpc' = <<0>>)

LEMMA StreamFrame ==
    ASSUME StreamInv, UNCHANGED <<proto, conn, cxt, buf, sent, got, calls, up, written>>,
           LQuiet
    PROVE  StreamInv'
<1>1. \A s \in Slots : lpc' = <<s>> <=> lpc = <<s>>
  BY NetAssumption DEF Slots, LQuiet
<1> QED
  BY <1>1 DEF StreamInv

LEMMA BufferFrame ==
    ASSUME BufferInv, UNCHANGED <<conn, cxt, buf, sent, got>>
    PROVE  BufferInv'
  BY DEF BufferInv, Held

LEMMA ReadyFrame ==
    ASSUME ReadyInv, UNCHANGED <<conn, cxt, got, ready, up>>
    PROVE  ReadyInv'
  BY DEF ReadyInv, InReady

LEMMA OrderFrame ==
    ASSUME OrderInv, UNCHANGED <<proto, queue, sent, got, written>>,
           \A x : /\ IsLive(x)' => IsLive(x)
                  /\ IsSent(x)' => IsSent(x)
                  /\ InReady(x)' => InReady(x)
    PROVE  OrderInv'
<1>1. \A x : InQueue(x)' <=> InQueue(x)
  BY DEF InQueue
<1>2. AnswersInOrder'
  BY DEF OrderInv, AnswersInOrder
<1> QED
  BY <1>1, <1>2 DEF OrderInv, Before

LEMMA NodeIn ==
    ASSUME IInv
    PROVE  \A s \in Slots : conn[s] \in Conns => \A n \in Nat : Node(s, n) \in NodeSet /\ Node(s, n) # None
  BY NetAssumption DEF Node, NodeSet, None, Slots

\* the message A answers is the node it pushes
LEMMA SameNode ==
    ASSUME IInv, msg \in NodeSet, conn[msg.slot] = msg.conn
    PROVE  Node(msg.slot, msg.n) = msg
  BY DEF Node, NodeSet
-----------------------------------------------------------------------------
(***************************************************************************)
(* The steps of T.                                                         *)
(***************************************************************************)
\* T, or a notice to it, moves on between its nodes
LEMMA TQuiet ==
    ASSUME IInv, tpc # "work", tpc' \in {"check", "sleep", "woken"},
           UNCHANGED <<proto, mayBreak, sessions, cxt, buf, sent, ready, apc, msg, wqueue, lpc, nethistory>>
    PROVE  IInv'
<1>1. \A x : (Under(x)' <=> Under(x)) /\ (IsLive(x)' <=> IsLive(x)) /\ (IsSent(x)' <=> IsSent(x)) /\ (InReady(x)' <=> InReady(x))
  BY DEF Under, IsLive, InQueue, IsMsg, IsSent, InReady, wqueue
<1>2. NetTypeOK' /\ StageInv'
  BY DEF IInv, NetTypeOK, StageInv, sessions, wqueue, nethistory
<1>3. SlotInv' /\ BufferInv' /\ StreamInv' /\ ReadyInv'
  BY <1>1, SlotFrame, BufferFrame, StreamFrame, ReadyFrame DEF IInv, LQuiet, sessions, nethistory
<1>4. OrderInv'
  BY <1>1, OrderFrame DEF IInv, wqueue, nethistory
<1> QED
  BY <1>2, <1>3, <1>4 DEF IInv

LEMMA TPopStep == ASSUME IInv, TPop PROVE IInv'
<1>1. CASE live = None /\ queue # <<>>
  <2>1. /\ live' = Head(queue) /\ queue' = Tail(queue) /\ stage' = "start" /\ tpc' = "work"
        /\ UNCHANGED <<proto, mayBreak, sessions, cxt, buf, sent, ready, apc, msg, lpc, nethistory>>
    BY <1>1 DEF TPop
  <2>2. /\ queue \in Seq(NodeSet) /\ Len(queue) \in Nat /\ Len(queue) > 0 /\ live' = queue[1]
        /\ queue' \in Seq(NodeSet) /\ Len(queue') = Len(queue) - 1
        /\ \A i \in 1 .. Len(queue') : queue'[i] = queue[i + 1]
    BY <1>1, <2>1 DEF IInv, NetTypeOK
  <2>3. \A x : /\ IsLive(x)' => x = queue[1] /\ InQueue(x)
               /\ InQueue(x)' => InQueue(x) /\ \E i \in 2 .. Len(queue) : x = queue[i]
               /\ IsMsg(x)' <=> IsMsg(x)
               /\ IsSent(x)' <=> IsSent(x)
               /\ InReady(x)' <=> InReady(x)
    BY <2>1, <2>2 DEF IsLive, InQueue, IsMsg, IsSent, InReady
  <2>4. queue[1] \in NodeSet /\ queue[1] # None
    <3>1. InQueue(queue[1])
      BY <2>2 DEF InQueue
    <3> QED
      BY <3>1, Places DEF Under
  <2>5. NetTypeOK'
    BY <2>1, <2>2, <2>4 DEF IInv, NetTypeOK, sessions, nethistory
  <2>6. StageInv'
    BY <1>1, <2>1, <2>2, <2>4 DEF IInv, StageInv, TPop
  <2>7. SlotInv'
    BY <2>1, <2>3, SlotFrame DEF IInv, Under
  <2>8. BufferInv' /\ StreamInv' /\ ReadyInv'
    BY <2>1, BufferFrame, StreamFrame, ReadyFrame DEF IInv, LQuiet, sessions, nethistory
  <2>9. OrderInv'
    <3>1. \A i, j \in 1 .. Len(queue') : i < j => Before(queue'[i], queue'[j])
      BY <2>2 DEF IInv, OrderInv
    <3>2. \A x, y : IsLive(x)' /\ (InQueue(y)' \/ IsSent(y)' \/ InReady(y)') => Before(x, y)
      BY <2>2, <2>3 DEF IInv, OrderInv
    <3>3. AnswersInOrder'
      BY <2>1 DEF IInv, OrderInv, AnswersInOrder, nethistory
    <3> QED
      BY <2>1, <2>3, <3>1, <3>2, <3>3 DEF IInv, OrderInv, Before, nethistory
  <2> QED
    BY <2>5, <2>6, <2>7, <2>8, <2>9 DEF IInv
<1>2. CASE ~(live = None /\ queue # <<>>)
  <2>1. /\ tpc = "check" /\ tpc' = "sleep"
        /\ UNCHANGED <<proto, mayBreak, sessions, cxt, buf, sent, ready, apc, msg, wqueue, lpc, nethistory>>
    BY <1>2 DEF TPop
  <2> QED
    BY <2>1, TQuiet
<1> QED
  BY <1>1, <1>2

LEMMA TWakeStep == ASSUME IInv, TWake PROVE IInv'
  BY TQuiet DEF TWake, TSleeps

\* What is under way only becomes less: the live node is written or dropped.
LEMMA LessUnder ==
    ASSUME IInv, UNCHANGED <<proto, sessions, cxt, buf, sent, ready, queue, nethistory>>,
           live' \in {live, None}, LQuiet, apc' = "send" => UNCHANGED <<apc, msg>>,
           apc' # "idle" => apc # "idle" /\ UNCHANGED msg
    PROVE  SlotInv' /\ BufferInv' /\ StreamInv' /\ ReadyInv' /\ OrderInv'
<1>1. \A x : /\ IsLive(x)' => IsLive(x)
             /\ InQueue(x)' <=> InQueue(x)
             /\ IsMsg(x)' => IsMsg(x)
             /\ IsSent(x)' => IsSent(x)
             /\ InReady(x)' <=> InReady(x)
  BY DEF IsLive, InQueue, IsMsg, IsSent, InReady
<1>2. SlotInv' /\ BufferInv' /\ StreamInv' /\ ReadyInv'
  <2>1. \A x : Under(x)' => Under(x)
    BY <1>1 DEF Under
  <2> QED
    BY <2>1, SlotFrame, BufferFrame, StreamFrame, ReadyFrame DEF IInv, LQuiet, sessions, nethistory
<1>3. OrderInv'
  BY <1>1, OrderFrame DEF IInv, nethistory
<1> QED
  BY <1>2, <1>3
-----------------------------------------------------------------------------
(***************************************************************************)
(* The steps of A.                                                         *)
(***************************************************************************)
LEMMA ANoticeStep == ASSUME IInv, ANotice PROVE IInv'
<1>1. /\ apc = "notice" /\ tpc \in {"sleep", "woken"} /\ tpc' = "woken" /\ apc' = "idle" /\ msg' = None
      /\ UNCHANGED <<proto, mayBreak, sessions, cxt, buf, sent, ready, live, queue, stage, lpc, nethistory>>
  BY DEF ANotice, NoticeT, TSleeps, wqueue
<1>2. NetTypeOK'
  BY <1>1 DEF IInv, NetTypeOK, sessions, nethistory
<1>3. StageInv'
  BY <1>1 DEF IInv, StageInv
<1>4. SlotInv' /\ BufferInv' /\ StreamInv' /\ ReadyInv' /\ OrderInv'
  BY <1>1, LessUnder DEF LQuiet
<1> QED
  BY <1>2, <1>3, <1>4 DEF IInv

LEMMA ASendStep == ASSUME IInv, ASend PROVE IInv'
<1>1. /\ apc = "send" /\ apc' \in {"idle", "start"} /\ msg' = (IF apc' = "idle" THEN None ELSE msg)
      /\ UNCHANGED <<proto, mayBreak, sessions, cxt, buf, sent, ready, tpc, lpc, nethistory>>
  BY DEF ASend
<1>2. IsMsg(msg) /\ IsSent(msg) /\ msg \in NodeSet /\ msg # None /\ conn[msg.slot] = msg.conn
  <2>1. IsMsg(msg) /\ IsSent(msg)
    BY <1>1 DEF IsMsg, IsSent
  <2> QED
    BY <2>1, Places DEF Under
<1>3. CASE ~(cxt[msg.slot] # "none" /\ Found(msg.slot))
  <2>1. apc' = "idle" /\ msg' = None /\ UNCHANGED <<live, queue, stage>>
    BY <1>1, <1>3 DEF ASend, wqueue
  <2>2. NetTypeOK'
    BY <1>1, <2>1 DEF IInv, NetTypeOK, sessions, nethistory
  <2>3. StageInv'
    BY <1>1, <2>1 DEF IInv, StageInv
  <2>4. SlotInv' /\ BufferInv' /\ StreamInv' /\ ReadyInv' /\ OrderInv'
    BY <1>1, <2>1, LessUnder DEF LQuiet
  <2> QED
    BY <2>2, <2>3, <2>4 DEF IInv
<1>4. CASE cxt[msg.slot] # "none" /\ Found(msg.slot)
  <2>1. Push(msg) /\ stage' = (IF Direct THEN "start" ELSE stage) /\ apc' = (IF Direct THEN "start" ELSE "idle")
    BY <1>2, <1>4, SameNode DEF ASend
  <2>2. CASE Direct
    <3>1. /\ live = None /\ queue = <<>> /\ live' = msg /\ queue' = queue /\ stage' = "start"
          /\ apc' = "start" /\ msg' = msg
      BY <1>1, <2>1, <2>2 DEF Direct, Push
    <3>2. NetTypeOK'
      BY <1>1, <1>2, <3>1 DEF IInv, NetTypeOK, sessions, nethistory
    <3>3. StageInv'
      BY <1>1, <1>2, <3>1 DEF IInv, StageInv
    <3>4. \A x : /\ IsLive(x)' <=> x = msg
                 /\ ~InQueue(x)'
                 /\ IsMsg(x)' <=> IsMsg(x)
                 /\ ~IsSent(x)'
                 /\ InReady(x)' <=> InReady(x)
      BY <1>1, <1>2, <3>1 DEF IsLive, InQueue, IsMsg, IsSent, InReady
    <3>5. SlotInv' /\ BufferInv' /\ StreamInv' /\ ReadyInv'
      <4>1. \A x : Under(x)' => Under(x)
        BY <1>2, <3>4 DEF Under
      <4> QED
        BY <1>1, <4>1, SlotFrame, BufferFrame, StreamFrame, ReadyFrame DEF IInv, LQuiet, sessions, nethistory
    <3>6. OrderInv'
      <4>1. AnswersInOrder'
        BY <1>1 DEF IInv, OrderInv, AnswersInOrder, nethistory
      <4>2. \A i, j \in 1 .. Len(queue') : i < j => Before(queue'[i], queue'[j])
        BY <3>1
      <4> QED
        BY <1>1, <1>2, <3>4, <4>1, <4>2 DEF IInv, OrderInv, Before, nethistory
    <3> QED
      BY <3>2, <3>3, <3>5, <3>6 DEF IInv
  <2>3. CASE ~Direct
    <3>1. /\ live' = live /\ queue' = Append(queue, msg) /\ stage' = stage /\ apc' = "idle" /\ msg' = None
      BY <1>1, <2>1, <2>3 DEF Push
    <3>2. /\ queue \in Seq(NodeSet) /\ queue' \in Seq(NodeSet) /\ Len(queue) \in Nat
          /\ Len(queue') = Len(queue) + 1 /\ queue'[Len(queue) + 1] = msg
          /\ \A i \in 1 .. Len(queue) : queue'[i] = queue[i]
      BY <1>2, <3>1 DEF IInv, NetTypeOK
    <3>3. NetTypeOK'
      BY <1>1, <3>1, <3>2 DEF IInv, NetTypeOK, sessions, nethistory
    <3>4. StageInv'
      BY <1>1, <3>1 DEF IInv, StageInv
    <3>5. \A x : /\ IsLive(x)' <=> IsLive(x)
                 /\ InQueue(x)' => InQueue(x) \/ x = msg
                 /\ ~IsMsg(x)'
                 /\ ~IsSent(x)'
                 /\ InReady(x)' <=> InReady(x)
      BY <1>1, <3>1, <3>2 DEF IsLive, InQueue, IsMsg, IsSent, InReady
    <3>6. SlotInv' /\ BufferInv' /\ StreamInv' /\ ReadyInv'
      <4>1. \A x : Under(x)' => Under(x)
        BY <1>2, <3>5 DEF Under
      <4> QED
        BY <1>1, <4>1, SlotFrame, BufferFrame, StreamFrame, ReadyFrame DEF IInv, LQuiet, sessions, nethistory
    <3>7. OrderInv'
      <4>1. AnswersInOrder'
        BY <1>1 DEF IInv, OrderInv, AnswersInOrder, nethistory
      <4>2. \A i, j \in 1 .. Len(queue') : i < j => Before(queue'[i], queue'[j])
        <5>1. \A i \in 1 .. Len(queue) : InQueue(queue[i])
          BY DEF InQueue
        <5>2. \A i \in 1 .. Len(queue) : Before(queue[i], msg)
          BY <1>2, <5>1 DEF IInv, OrderInv
        <5> QED
          BY <3>2, <5>2 DEF IInv, OrderInv
      <4> QED
        BY <1>1, <1>2, <3>5, <4>1, <4>2 DEF IInv, OrderInv, Before, nethistory
    <3> QED
      BY <3>3, <3>4, <3>6, <3>7 DEF IInv
  <2> QED
    BY <2>2, <2>3
<1> QED
  BY <1>3, <1>4

\* The first request of ready is the next one of its connection, while that
\* connection has a context.
LEMMA NextInTurn ==
    ASSUME IInv, ready # <<>>, NEW hd, hd = ready[1]
    PROVE  /\ InReady(hd) /\ Under(hd) /\ hd.n > Len(up[hd.conn])
           /\ cxt[hd.slot] # "none" => /\ hd.n = Len(up[hd.conn]) + 1 /\ hd.n <= got[hd.conn]
                                       /\ cxt[hd.slot] = "working"
<1>1. ready \in Seq(NodeSet) /\ Len(ready) \in Nat /\ Len(ready) >= 1
  BY DEF IInv, NetTypeOK
<1>2. InReady(hd) /\ Under(hd)
  BY <1>1 DEF Under, InReady
<1>3. hd.slot \in Slots /\ hd.conn \in Conns /\ hd.n \in Nat /\ hd.conn = conn[hd.slot]
  BY <1>2, Places
<1>4. hd.n > Len(up[hd.conn]) /\ Len(up[hd.conn]) \in Nat
  <2>1. Len(up[hd.conn]) \in Nat
    BY <1>3 DEF IInv, NetTypeOK
  <2> QED
    BY <1>2, <1>3, <2>1 DEF IInv, ReadyInv
<1>5. hd.n <= got[hd.conn] /\ got[hd.conn] \in Nat
  BY <1>2, <1>3 DEF IInv, NetTypeOK, SlotInv
<1>6. ASSUME cxt[hd.slot] # "none" PROVE hd.n = Len(up[hd.conn]) + 1
  <2>1. PICK i \in 1 .. Len(ready) : ready[i].conn = hd.conn /\ ready[i].n = Len(up[hd.conn]) + 1
    <3>1. Len(up[hd.conn]) + 1 \in Len(up[conn[hd.slot]]) + 1 .. got[conn[hd.slot]]
      BY <1>3, <1>4, <1>5
    <3>2. \A n \in Len(up[conn[hd.slot]]) + 1 .. got[conn[hd.slot]] :
             \E i \in 1 .. Len(ready) : ready[i].conn = conn[hd.slot] /\ ready[i].n = n
      BY <1>3, <1>6 DEF IInv, ReadyInv
    <3> QED
      BY <1>3, <3>1, <3>2
  <2>2. i = 1
    <3> SUFFICES ASSUME i # 1 PROVE FALSE
      OBVIOUS
    <3>1. hd.n < ready[i].n
      BY <1>1, <2>1 DEF IInv, ReadyInv
    <3> QED
      BY <1>3, <1>4, <2>1, <3>1
  <2> QED
    BY <2>1, <2>2
<1>7. ASSUME cxt[hd.slot] # "none" PROVE cxt[hd.slot] = "working"
  <2> SUFFICES ASSUME cxt[hd.slot] = "handing" PROVE FALSE
    BY <1>3, <1>7 DEF IInv, NetTypeOK
  <2>1. got[hd.conn] = 0
    BY <1>3 DEF IInv, StreamInv
  <2> QED
    BY <1>3, <1>4, <1>5, <2>1
<1> QED
  BY <1>2, <1>4, <1>5, <1>6, <1>7

LEMMA ATakeStep == ASSUME IInv, ATake PROVE IInv'
<1> DEFINE hd == ready[1]
<1>1. /\ apc = "idle" /\ ready # <<>> /\ ready' = Tail(ready) /\ Head(ready) = hd
      /\ UNCHANGED <<proto, mayBreak, sessions, cxt, buf, sent, live, queue, stage, tpc, lpc, nconn, got, calls, written>>
      /\ IF cxt[hd.slot] = "none" THEN UNCHANGED <<apc, msg, up>>
         ELSE apc' = "send" /\ msg' = hd /\ up' = [up EXCEPT ![hd.conn] = Append(@, hd.n)]
  BY DEF ATake, wqueue
<1>2. /\ ready \in Seq(NodeSet) /\ Len(ready) \in Nat /\ Len(ready) >= 1
      /\ ready' \in Seq(NodeSet) /\ Len(ready') = Len(ready) - 1
      /\ \A i \in 1 .. Len(ready') : ready'[i] = ready[i + 1]
  BY <1>1 DEF IInv, NetTypeOK
<1>3. /\ InReady(hd) /\ Under(hd) /\ hd.n > Len(up[hd.conn])
      /\ cxt[hd.slot] # "none" => /\ hd.n = Len(up[hd.conn]) + 1 /\ hd.n <= got[hd.conn]
                                  /\ cxt[hd.slot] = "working"
  BY <1>1, NextInTurn
<1>4. hd \in NodeSet /\ hd # None /\ hd.slot \in Slots /\ hd.conn \in Conns /\ hd.n \in Nat /\ hd.conn = conn[hd.slot]
  BY <1>3, Places
<1> HIDE DEF hd
<1>5. \A x : /\ IsLive(x)' <=> IsLive(x)
             /\ InQueue(x)' <=> InQueue(x)
             /\ IsMsg(x)' => x = hd
             /\ IsSent(x)' => x = hd /\ cxt[hd.slot] # "none"
             /\ ~IsSent(x)
             /\ InReady(x)' => InReady(x) /\ \E i \in 2 .. Len(ready) : x = ready[i]
  <2>1. ASSUME NEW x, InReady(x)' PROVE InReady(x) /\ \E i \in 2 .. Len(ready) : x = ready[i]
    BY <1>2, <2>1 DEF InReady
  <2>2. ASSUME NEW x PROVE /\ IsMsg(x)' => x = hd
                           /\ IsSent(x)' => x = hd /\ cxt[hd.slot] # "none"
                           /\ ~IsSent(x)
    BY <1>1 DEF IsMsg, IsSent
  <2> QED
    BY <1>1, <2>1, <2>2 DEF IsLive, InQueue
<1>6. \A i \in 2 .. Len(ready) : Before(hd, ready[i]) /\ ready[i] \in NodeSet
  BY <1>2 DEF hd, Before, IInv, ReadyInv
<1>10. \A c \in Conns : up'[c] = IF c = hd.conn /\ cxt[hd.slot] # "none" THEN Append(up[c], hd.n) ELSE up[c]
  BY <1>1, <1>4 DEF IInv, NetTypeOK
<1>7. NetTypeOK'
  <2>1. up' \in [Conns -> Seq(Nat)]
    <3>1. up \in [Conns -> Seq(Nat)] /\ Append(up[hd.conn], hd.n) \in Seq(Nat)
      BY <1>4 DEF IInv, NetTypeOK
    <3>2. CASE cxt[hd.slot] = "none"
      BY <1>1, <3>1, <3>2
    <3>3. CASE cxt[hd.slot] # "none"
      <4>1. up' = [up EXCEPT ![hd.conn] = Append(up[hd.conn], hd.n)]
        BY <1>1, <3>3
      <4> QED
        BY <1>4, <3>1, <4>1
    <3> QED
      BY <3>2, <3>3
  <2> QED
    BY <1>1, <1>2, <1>4, <2>1 DEF IInv, NetTypeOK, sessions
<1>8. StageInv'
  BY <1>1, <1>4 DEF IInv, StageInv
<1>9. SlotInv'
  <2>1. \A x : Under(x)' => Under(x)
    BY <1>3, <1>5 DEF Under
  <2>2. \A c \in Conns : c > nconn => up'[c] = <<>>
    <3>1. hd.conn <= nconn
      BY <1>4 DEF IInv, SlotInv
    <3> QED
      <4> SUFFICES ASSUME NEW c \in Conns, c > nconn PROVE c # hd.conn /\ up[c] = <<>>
        BY <1>10
      <4>1. nconn \in Nat
        BY NetAssumption DEF IInv, NetTypeOK
      <4>2. hd.conn \in Nat /\ c \in Nat
        BY <1>4 DEF Conns
      <4> QED
        BY <3>1, <4>1, <4>2 DEF IInv, SlotInv
  <2> QED
    BY <1>1, <2>1, <2>2 DEF IInv, SlotInv, sessions
<1>14. BufferInv'
  BY <1>1, BufferFrame DEF IInv, sessions
<1>11. StreamInv'
  <2>1. \A c \in Conns : up'[c] # <<>> => calls[c] # <<>>
    <3>1. cxt[hd.slot] # "none" => calls[hd.conn] # <<>>
      BY <1>3, <1>4, SMTT(20) DEF IInv, StreamInv
    <3> QED
      BY <1>10, <3>1 DEF IInv, StreamInv
  <2>2. \A s \in Slots : cxt[s] = "handing" => up'[conn[s]] = <<>>
    <3>1. \A s \in Slots : cxt[s] = "handing" => conn[s] \in Conns
      BY Places
    <3>2. \A s \in Slots : cxt[s] = "handing" /\ cxt[hd.slot] # "none" => conn[s] # hd.conn
      BY <1>3, <1>4, <3>1 DEF IInv, SlotInv, Conns
    <3> QED
      BY <1>10, <3>1, <3>2 DEF IInv, StreamInv
  <2> QED
    BY <1>1, <2>1, <2>2 DEF IInv, StreamInv, sessions
<1>12. ReadyInv'
  <2>0. \A c \in Conns : /\ up[c] \in Seq(Nat) /\ Len(up[c]) \in Nat
                         /\ Len(up'[c]) = (IF c = hd.conn /\ cxt[hd.slot] # "none" THEN Len(up[c]) + 1 ELSE Len(up[c]))
                         /\ \A i \in 1 .. Len(up'[c]) : up'[c][i] = i
    <3>1. \A c \in Conns : up[c] \in Seq(Nat) /\ Len(up[c]) \in Nat /\ \A i \in 1 .. Len(up[c]) : up[c][i] = i
      BY DEF IInv, NetTypeOK, ReadyInv
    <3> SUFFICES ASSUME NEW c \in Conns
                 PROVE  /\ Len(up'[c]) = (IF c = hd.conn /\ cxt[hd.slot] # "none" THEN Len(up[c]) + 1 ELSE Len(up[c]))
                        /\ \A i \in 1 .. Len(up'[c]) : up'[c][i] = i
      BY <3>1
    <3>2. CASE c = hd.conn /\ cxt[hd.slot] # "none"
      <4>1. up'[c] = Append(up[c], hd.n) /\ hd.n = Len(up[c]) + 1
        BY <1>3, <1>10, <3>2
      <4>2. Len(up'[c]) = Len(up[c]) + 1 /\ up'[c][Len(up[c]) + 1] = hd.n /\ \A i \in 1 .. Len(up[c]) : up'[c][i] = up[c][i]
        BY <1>4, <3>1, <4>1
      <4> QED
        BY <3>1, <3>2, <4>1, <4>2
    <3>3. CASE ~(c = hd.conn /\ cxt[hd.slot] # "none")
      <4>1. up'[c] = up[c]
        BY <1>10, <3>3
      <4> QED
        BY <3>1, <3>3, <4>1
    <3> QED
      BY <3>2, <3>3
  <2>1. ASSUME NEW i \in 1 .. Len(ready'), NEW j \in 1 .. Len(ready'), i < j, ready'[i].conn = ready'[j].conn
        PROVE  ready'[i].n < ready'[j].n
    <3>1. i + 1 \in 1 .. Len(ready) /\ j + 1 \in 1 .. Len(ready) /\ i + 1 < j + 1
      BY <1>2, <2>1
    <3>2. ready'[i] = ready[i + 1] /\ ready'[j] = ready[j + 1]
      BY <1>2
    <3> QED
      BY <2>1, <3>1, <3>2, SMTT(20) DEF IInv, ReadyInv
  <2>2. ASSUME NEW x, InReady(x)' PROVE Len(up'[x.conn]) < x.n
    <3>1. InReady(x) /\ Before(hd, x) /\ Under(x)
      BY <1>5, <1>6, <2>2 DEF Under
    <3>2. x.conn \in Conns /\ x.n \in Nat /\ Len(up[x.conn]) < x.n
      BY <3>1, Places DEF IInv, ReadyInv
    <3> QED
      BY <1>3, <1>4, <2>0, <3>1, <3>2 DEF Before
  <2>3. ASSUME NEW s \in Slots, cxt[s] # "none", NEW n \in Len(up'[conn[s]]) + 1 .. got[conn[s]]
        PROVE  \E i \in 1 .. Len(ready') : ready'[i].conn = conn[s] /\ ready'[i].n = n
    <3>1. conn[s] \in Conns /\ conn[s] # 0
      BY <2>3, Places DEF Conns
    <3>2. n \in Len(up[conn[s]]) + 1 .. got[conn[s]]
      BY <2>0, <2>3, <3>1
    <3>3. PICK i \in 1 .. Len(ready) : ready[i].conn = conn[s] /\ ready[i].n = n
      BY <2>3, <3>2 DEF IInv, ReadyInv
    <3>4. i # 1
      <4> SUFFICES ASSUME i = 1 PROVE FALSE
        OBVIOUS
      <4>1. hd.conn = conn[s] /\ hd.n = n
        BY <3>3 DEF hd
      <4>2. s = hd.slot
        BY <1>4, <3>1, <4>1 DEF IInv, SlotInv
      <4> QED
        BY <1>3, <1>4, <2>0, <2>3, <3>1, <4>1, <4>2
    <3>5. i - 1 \in 1 .. Len(ready') /\ ready'[i - 1] = ready[i]
      BY <1>2, <3>3, <3>4
    <3> QED
      BY <3>3, <3>5
  <2>4. \A c \in Conns : Len(up'[c]) <= got[c]
    BY <1>3, <1>4, <2>0 DEF IInv, NetTypeOK, ReadyInv
  <2> QED
    BY <1>1, <2>0, <2>1, <2>2, <2>3, <2>4 DEF IInv, ReadyInv, sessions
<1>13. OrderInv'
  <2>1. AnswersInOrder'
    BY <1>1 DEF IInv, OrderInv, AnswersInOrder
  <2>2. \A x, y : IsSent(x)' /\ InReady(y)' => Before(x, y)
    BY <1>5, <1>6
  <2>3. \A x, y : IsLive(x)' /\ (InQueue(y)' \/ IsSent(y)' \/ InReady(y)') => Before(x, y)
    BY <1>3, <1>5 DEF IInv, OrderInv
  <2>4. \A x, y : InQueue(x)' /\ (IsSent(y)' \/ InReady(y)') => Before(x, y)
    BY <1>3, <1>5 DEF IInv, OrderInv
  <2>5. \A x : IsLive(x)' \/ InQueue(x)' \/ IsSent(x)' \/ InReady(x)' =>
          \A k \in 1 .. Len(written[x.conn]) : written[x.conn][k] < x.n
    BY <1>3, <1>5 DEF IInv, OrderInv
  <2> QED
    BY <1>1, <2>1, <2>2, <2>3, <2>4, <2>5 DEF IInv, OrderInv, Before
<1> QED
  BY <1>7, <1>8, <1>9, <1>11, <1>12, <1>13, <1>14 DEF IInv

----------------------------------------------------------------------------------------------------------------------------------------------------------
(***************************************************************************)
(* What a step does to a session: it ends, it gets data, or both.          *)
(***************************************************************************)

\* a session ends, and the worker hears of it if it heard of its start
Ended(s) ==
    /\ stopping' = [stopping EXCEPT ![s] = TRUE]
    /\ cxt' = [cxt EXCEPT ![s] = "none"]
    /\ calls' = IF cxt[s] = "working" THEN [calls EXCEPT ![conn[s]] = Append(calls[conn[s]], "disconnect")]
                ELSE calls
Intact == UNCHANGED <<stopping, cxt, calls>>

LEMMA DeleteEffect == ASSUME NEW s, Delete(s) PROVE (Found(s) /\ ~stopping[s] /\ Ended(s)) \/ Intact
  BY DEF Delete, Disconnected, Ended, Intact

\* a session goes on, or ends, with k requests more decoded; what it does to
\* the write queue takes nothing new under way
Moves(s, k, ended) ==
    /\ cxt[s] # "none" /\ (k > 0 => cxt[s] = "working")
    /\ IF ended THEN Ended(s) ELSE Intact
    /\ sent' \in [Conns -> Int] /\ got' \in [Conns -> Nat]
    /\ \A c \in Conns : IF c = conn[s]
                        THEN /\ sent'[c] >= sent[c] /\ got'[c] = got[c] + k
                             /\ k > 0 => 2 * (got[c] + k) <= sent'[c]
                             /\ ~ended => /\ Len(buf'[s]) = Held(c)'
                                          /\ \A i \in 1 .. Len(buf'[s]) : buf'[s][i] = 2 * got'[c] + i
                        ELSE sent'[c] = sent[c] /\ got'[c] = got[c]
    /\ buf' \in [Slots -> Seq(Int)] /\ \A t \in Slots : t # s => buf'[t] = buf[t]
    /\ ready' \in Seq(NodeSet) /\ Len(ready') = Len(ready) + k
    /\ \A i \in 1 .. Len(ready) : ready'[i] = ready[i]
    /\ \A i \in 1 .. k : ready'[Len(ready) + i] = Node(s, got[conn[s]] + i)
    /\ LQuiet /\ live' \in {live, None} /\ UNCHANGED queue
    /\ apc' = "send" => UNCHANGED <<apc, msg>>
    /\ apc' # "idle" => apc # "idle" /\ UNCHANGED msg
    /\ UNCHANGED <<proto, mayBreak, used, conn, nconn, up, written>>

LEMMA MovesStep ==
    ASSUME IInv, NEW s \in Slots, NEW k \in Nat, NEW ended \in BOOLEAN, Moves(s, k, ended), StageInv',
           stage' \in {"none", "start", "async", "write"}, tpc' \in {"check", "work", "sleep", "woken", "stuck"},
           apc' \in {"idle", "send", "start", "notice"}, msg' \in NodeSet \cup {None}
    PROVE  IInv'
<1>1. PICK c0 \in Conns : /\ c0 = conn[s] /\ used[s] = "on" /\ ~stopping[s] /\ cxt[s] # "none" /\ c0 <= nconn
                          /\ cxt[s] = "working" => calls[c0] = <<"connected">>
  BY Places DEF Moves, IInv, SlotInv, StreamInv
<1>2. \A c \in Conns : /\ got[c] \in Nat /\ got'[c] \in Nat /\ sent[c] \in Int /\ sent'[c] \in Int
                       /\ got[c] <= got'[c] /\ sent[c] <= sent'[c]
                       /\ c # c0 => got'[c] = got[c] /\ sent'[c] = sent[c]
                       /\ got'[c] = 0 \/ 2 * got'[c] <= sent'[c]
  <2> SUFFICES ASSUME NEW c \in Conns
               PROVE  /\ got[c] \in Nat /\ got'[c] \in Nat /\ sent[c] \in Int /\ sent'[c] \in Int
                      /\ got[c] <= got'[c] /\ sent[c] <= sent'[c]
                      /\ c # c0 => got'[c] = got[c] /\ sent'[c] = sent[c]
                      /\ got'[c] = 0 \/ 2 * got'[c] <= sent'[c]
    OBVIOUS
  <2>1. /\ got[c] \in Nat /\ got'[c] \in Nat /\ sent[c] \in Int /\ sent'[c] \in Int
        /\ got[c] = 0 \/ 2 * got[c] <= sent[c]
    BY DEF Moves, IInv, NetTypeOK, StreamInv
  <2>2. CASE c = c0
    <3>1. sent'[c] >= sent[c] /\ got'[c] = got[c] + k /\ (k > 0 => 2 * (got[c] + k) <= sent'[c])
      BY <1>1, <2>2 DEF Moves
    <3> QED
      BY <2>1, <2>2, <3>1
  <2>3. CASE c # c0
    <3>1. sent'[c] = sent[c] /\ got'[c] = got[c]
      BY <1>1, <2>3 DEF Moves
    <3> QED
      BY <2>1, <2>3, <3>1
  <2> QED
    BY <2>2, <2>3
<1>3. /\ \A c \in Conns : calls'[c] = IF c = c0 /\ ended /\ cxt[s] = "working"
                                      THEN <<"connected", "disconnect">> ELSE calls[c]
      /\ calls' \in [Conns -> Seq({"connected", "disconnect"})]
  <2>1. /\ calls \in [Conns -> Seq({"connected", "disconnect"})]
        /\ <<"connected", "disconnect">> \in Seq({"connected", "disconnect"})
    BY DEF IInv, NetTypeOK
  <2>2. Append(<<"connected">>, "disconnect") = <<"connected", "disconnect">>
    <3>1. <<"connected">> \o <<"disconnect">> = Append(<<"connected">>, "disconnect")
      OBVIOUS
    <3> QED
      BY <3>1, PairOf
  <2>3. CASE ended /\ cxt[s] = "working"
    <3>1. calls' = [calls EXCEPT ![c0] = <<"connected", "disconnect">>]
      BY <1>1, <2>2, <2>3 DEF Moves, Ended
    <3> QED
      BY <1>1, <2>1, <2>3, <3>1
  <2>4. CASE ~(ended /\ cxt[s] = "working")
    <3>1. calls' = calls
      BY <2>4 DEF Moves, Ended, Intact
    <3> QED
      BY <2>1, <2>4, <3>1
  <2> QED
    BY <2>3, <2>4
<1>4. /\ \A t \in Slots : /\ cxt'[t] = IF t = s /\ ended THEN "none" ELSE cxt[t]
                          /\ stopping'[t] = IF t = s /\ ended THEN TRUE ELSE stopping[t]
      /\ cxt' \in [Slots -> {"none", "handing", "working"}] /\ stopping' \in [Slots -> BOOLEAN]
  <2>1. CASE ended
    BY <2>1 DEF IInv, NetTypeOK, Moves, Ended
  <2>2. CASE ~ended
    BY <2>2 DEF IInv, NetTypeOK, Moves, Intact
  <2> QED
    BY <2>1, <2>2
\* what is new under way is a request of that client, after all there was
<1>5. \A x : /\ IsLive(x)' => IsLive(x)
             /\ InQueue(x)' <=> InQueue(x)
             /\ IsMsg(x)' => IsMsg(x)
             /\ IsSent(x)' => IsSent(x)
  BY DEF Moves, IsLive, InQueue, IsMsg, IsSent
<1> DEFINE New(x) == /\ x \in NodeSet /\ x.slot = s /\ x.conn = c0 /\ x.n \in Nat
                     /\ got[c0] < x.n /\ x.n <= got'[c0] /\ cxt[s] = "working"
<1>6. /\ ready \in Seq(NodeSet) /\ ready' \in Seq(NodeSet) /\ Len(ready) \in Nat /\ Len(ready') = Len(ready) + k
      /\ \A i \in 1 .. Len(ready) : ready'[i] = ready[i]
      /\ \A i \in 1 .. k : /\ New(ready'[Len(ready) + i]) /\ ready'[Len(ready) + i].n = got[c0] + i
  <2>1. /\ ready \in Seq(NodeSet) /\ ready' \in Seq(NodeSet) /\ Len(ready) \in Nat /\ Len(ready') = Len(ready) + k
        /\ \A i \in 1 .. Len(ready) : ready'[i] = ready[i]
    BY DEF Moves, IInv, NetTypeOK
  <2>2. ASSUME NEW i \in 1 .. k
        PROVE  New(ready'[Len(ready) + i]) /\ ready'[Len(ready) + i].n = got[c0] + i
    <3>1. ready'[Len(ready) + i] = Node(s, got[c0] + i)
      BY <1>1, <2>2 DEF Moves
    <3>2. got[c0] \in Nat /\ got'[c0] = got[c0] + k /\ i >= 1 /\ i <= k /\ cxt[s] = "working"
      BY <1>1, <1>2, <2>2 DEF Moves
    <3>3. got[c0] + i \in Nat /\ got[c0] < got[c0] + i /\ got[c0] + i <= got'[c0]
      BY <3>2
    <3>4. Node(s, got[c0] + i) \in NodeSet
      BY <1>1, <3>3, NodeIn
    <3> QED
      BY <1>1, <3>1, <3>2, <3>3, <3>4 DEF Node
  <2> QED
    BY <2>1, <2>2
<1> HIDE DEF New
<1>7. \A j \in 1 .. Len(ready') : \/ j \in 1 .. Len(ready) /\ ready'[j] = ready[j]
                                  \/ \E i \in 1 .. k : j = Len(ready) + i
  <2> SUFFICES ASSUME NEW j \in 1 .. Len(ready'), j \notin 1 .. Len(ready)
               PROVE  \E i \in 1 .. k : j = Len(ready) + i
    BY <1>6
  <2>1. j - Len(ready) \in 1 .. k /\ j = Len(ready) + (j - Len(ready))
    BY <1>6
  <2> QED
    BY <2>1
<1>8. \A x : InReady(x)' => InReady(x) \/ New(x)
  <2> SUFFICES ASSUME NEW x, NEW j \in 1 .. Len(ready'), x = ready'[j] PROVE InReady(x) \/ New(x)
    BY DEF InReady
  <2> QED
    BY <1>6, <1>7 DEF InReady
<1>9. \A x : Under(x)' => Under(x) \/ New(x)
  BY <1>5, <1>8 DEF Under
<1>10. \A x, y : Under(x) /\ New(y) => Before(x, y)
  <2> SUFFICES ASSUME NEW x, NEW y, Under(x), New(y), x.conn = y.conn PROVE x.n < y.n
    BY DEF Before
  <2>1. x.n <= got[c0] /\ x.n \in Nat /\ got[c0] < y.n /\ y.n \in Nat /\ got[c0] \in Nat
    BY <1>2, Places DEF New, IInv, SlotInv
  <2> QED
    BY <2>1
<1>11. \A t \in Slots : t # s /\ cxt[t] # "none" => conn[t] \in Conns /\ conn[t] # c0
  BY <1>1, Places DEF IInv, SlotInv, Conns
<1>12. /\ LQuiet /\ UNCHANGED <<proto, mayBreak, used, conn, queue, nconn, up, written>>
       /\ live' \in {live, None} /\ \A t \in Slots : t # s => buf'[t] = buf[t]
  BY DEF Moves
<1>13. NetTypeOK'
  <2>1. lpc' \in {<<>>} \cup {<<t>> : t \in 0 .. NumSlots}
    BY <1>12, NetAssumption DEF IInv, NetTypeOK, LQuiet
  <2>2. sent' \in [Conns -> Int] /\ got' \in [Conns -> Nat] /\ buf' \in [Slots -> Seq(Int)]
    BY DEF Moves
  <2> QED
    BY <1>3, <1>4, <1>6, <1>12, <2>1, <2>2 DEF IInv, NetTypeOK
<1>14. SlotInv'
  <2>1. ASSUME NEW x, Under(x)'
        PROVE  /\ x \in NodeSet /\ x.conn = conn[x.slot] /\ used[x.slot] # "free"
               /\ x.n <= got'[x.conn] /\ sent'[x.conn] >= Ask
    <3>1. CASE Under(x)
      <4>1. /\ x \in NodeSet /\ x.conn = conn[x.slot] /\ used[x.slot] # "free" /\ x.conn \in Conns /\ x.n \in Nat
            /\ x.n <= got[x.conn] /\ sent[x.conn] >= Ask
        BY <3>1, Places DEF IInv, SlotInv
      <4> QED
        BY <1>2, <4>1 DEF Ask
    <3>2. CASE New(x)
      <4>1. x \in NodeSet /\ x.slot = s /\ x.conn = c0 /\ x.n <= got'[c0] /\ cxt[s] = "working"
        BY <3>2 DEF New
      <4>2. sent[c0] >= Ask
        BY <1>1, <4>1 DEF IInv, StreamInv
      <4> QED
        BY <1>1, <1>2, <4>1, <4>2 DEF Ask
    <3> QED
      BY <1>9, <2>1, <3>1, <3>2
  <2>2. ASSUME NEW c \in Conns, c > nconn
        PROVE  got'[c] = 0 /\ sent'[c] <= Ask /\ calls'[c] = <<>> /\ up[c] = <<>> /\ written[c] = <<>>
    <3>1. c # c0
      BY <1>1, <2>2, NetAssumption DEF IInv, NetTypeOK, Conns
    <3> QED
      BY <1>2, <1>3, <2>2, <3>1 DEF IInv, SlotInv
  <2>3. ASSUME NEW t \in Slots PROVE /\ cxt'[t] # "none" <=> used[t] = "on" /\ ~stopping'[t]
                                     /\ used[t] = "old" => stopping'[t]
    BY <1>1, <1>4, ZenonT(40) DEF IInv, SlotInv
  <2> QED
    BY <1>12, <2>1, <2>2, <2>3 DEF IInv, SlotInv
<1>15. ASSUME NEW t \in Slots, cxt'[t] # "none"
       PROVE  /\ cxt[t] # "none" /\ cxt'[t] = cxt[t] /\ (t = s => ~ended)
              /\ conn[t] \in Conns /\ calls'[conn[t]] = calls[conn[t]]
              /\ t # s => /\ buf'[t] = buf[t] /\ got'[conn[t]] = got[conn[t]] /\ sent'[conn[t]] = sent[conn[t]]
  <2>1. cxt[t] # "none" /\ cxt'[t] = cxt[t] /\ (t = s => ~ended)
    BY <1>4, <1>15
  <2>2. conn[t] \in Conns
    BY <2>1, Places
  <2>3. t # s => conn[t] # c0
    BY <1>11, <2>1
  <2>4. calls'[conn[t]] = calls[conn[t]]
    BY <1>1, <1>3, <2>1, <2>2, <2>3
  <2> QED
    BY <1>2, <1>12, <2>1, <2>2, <2>3, <2>4
<1>16. BufferInv'
  <2> SUFFICES ASSUME NEW t \in Slots, cxt'[t] # "none", NEW c \in Conns, c = conn[t]
               PROVE  /\ Len(buf'[t]) = Held(c)'
                      /\ \A i \in 1 .. Len(buf'[t]) : buf'[t][i] = 2 * got'[c] + i
    BY <1>12, <1>15 DEF BufferInv, Held
  <2>1. CASE t = s
    <3>1. ~ended /\ c = conn[s]
      BY <1>15, <2>1
    <3> QED
      BY <2>1, <3>1 DEF Moves
  <2>2. CASE t # s
    <3>1. buf'[t] = buf[t] /\ got'[c] = got[c] /\ sent'[c] = sent[c] /\ cxt[t] # "none"
      BY <1>15, <2>2
    <3>2. Len(buf[t]) = Held(c) /\ \A i \in 1 .. Len(buf[t]) : buf[t][i] = 2 * got[c] + i
      BY <3>1 DEF IInv, BufferInv
    <3>3. Held(c)' = Held(c)
      BY <3>1 DEF Held
    <3> QED
      BY <3>1, <3>2, <3>3
  <2> QED
    BY <2>1, <2>2
<1>17. StreamInv'
  <2>1. ASSUME NEW t \in Slots, cxt'[t] = "working"
        PROVE  /\ calls'[conn[t]] = <<"connected">> /\ sent'[conn[t]] >= Ask
               /\ proto = "ws" => written[conn[t]] # <<>>
    <3>1. cxt[t] = "working" /\ conn[t] \in Conns /\ calls'[conn[t]] = calls[conn[t]]
      BY <1>15, <2>1
    <3>2. /\ calls[conn[t]] = <<"connected">> /\ sent[conn[t]] >= Ask
          /\ proto = "ws" => written[conn[t]] # <<>>
      BY <3>1 DEF IInv, StreamInv
    <3>3. sent'[conn[t]] >= Ask
      BY <1>2, <3>1, <3>2 DEF Ask
    <3> QED
      BY <3>1, <3>2, <3>3
  <2>2. ASSUME NEW t \in Slots, cxt'[t] = "handing"
        PROVE  /\ proto = "ws" /\ got'[conn[t]] = 0
               /\ calls'[conn[t]] = <<>> /\ up[conn[t]] = <<>>
               /\ written[conn[t]] = IF lpc' = <<t>> THEN <<Hand>> ELSE <<>>
    <3>1. cxt[t] = "handing" /\ conn[t] \in Conns /\ calls'[conn[t]] = calls[conn[t]]
      BY <1>15, <2>2
    <3>2. /\ proto = "ws" /\ got[conn[t]] = 0 /\ calls[conn[t]] = <<>> /\ up[conn[t]] = <<>>
          /\ written[conn[t]] = IF lpc = <<t>> THEN <<Hand>> ELSE <<>>
      BY <3>1 DEF IInv, StreamInv
    <3>3. lpc' = <<t>> <=> lpc = <<t>>
      BY <1>12, NetAssumption DEF LQuiet, Slots
    <3>4. got'[conn[t]] = 0
      <4>1. CASE t = s
        <5>1. k = 0 /\ got'[c0] = got[c0] + k
          BY <1>1, <3>1, <4>1 DEF Moves
        <5> QED
          BY <1>1, <3>2, <4>1, <5>1
      <4>2. CASE t # s
        BY <1>15, <2>2, <3>2, <4>2
      <4> QED
        BY <4>1, <4>2
    <3> QED
      BY <3>1, <3>2, <3>3, <3>4
  <2>3. ASSUME NEW c \in Conns
        PROVE  /\ sent'[c] >= Ask - 1 /\ (proto = "tcp" => sent'[c] >= Ask)
               /\ proto = "ws" /\ got'[c] > 0 => written[c] # <<>>
               /\ got'[c] = 0 \/ 2 * got'[c] <= sent'[c]
               /\ calls'[c] \in {<<>>, <<"connected">>, <<"connected", "disconnect">>}
               /\ up[c] # <<>> => calls'[c] # <<>>
    <3>1. /\ sent[c] >= Ask - 1 /\ (proto = "tcp" => sent[c] >= Ask)
          /\ proto = "ws" /\ got[c] > 0 => written[c] # <<>>
          /\ calls[c] \in {<<>>, <<"connected">>, <<"connected", "disconnect">>}
          /\ up[c] # <<>> => calls[c] # <<>>
      BY DEF IInv, StreamInv
    <3>2. sent'[c] >= Ask - 1 /\ (proto = "tcp" => sent'[c] >= Ask)
      BY <1>2, <3>1 DEF Ask
    <3>3. proto = "ws" /\ got'[c] > 0 => written[c] # <<>>
      <4>1. c = c0 /\ k > 0 /\ proto = "ws" => written[c] # <<>>
        BY <1>1 DEF Moves, IInv, StreamInv
      <4>2. c = c0 /\ k = 0 => got'[c] = got[c]
        BY <1>1, <1>2 DEF Moves
      <4> QED
        BY <1>2, <3>1, <4>1, <4>2
    <3>4. calls'[c] \in {<<>>, <<"connected">>, <<"connected", "disconnect">>} /\ (up[c] # <<>> => calls'[c] # <<>>)
      BY <1>3, <3>1
    <3> QED
      BY <1>2, <3>2, <3>3, <3>4
  <2> QED
    BY <1>12, <2>1, <2>2, <2>3 DEF StreamInv
<1>18. ReadyInv'
  <2>1. ASSUME NEW i \in 1 .. Len(ready'), NEW j \in 1 .. Len(ready'), i < j, ready'[i].conn = ready'[j].conn
        PROVE  ready'[i].n < ready'[j].n
    <3>1. CASE j \in 1 .. Len(ready)
      <4>1. i \in 1 .. Len(ready)
        BY <1>6, <2>1, <3>1
      <4>2. ready'[i] = ready[i] /\ ready'[j] = ready[j]
        BY <1>6, <3>1, <4>1
      <4> QED
        BY <2>1, <3>1, <4>1, <4>2, SMTT(20) DEF IInv, ReadyInv
    <3>2. CASE j \notin 1 .. Len(ready)
      <4>1. PICK m \in 1 .. k : j = Len(ready) + m
        BY <1>7, <3>2
      <4>2. CASE i \in 1 .. Len(ready)
        <5>1. ready'[i] = ready[i] /\ Under(ready[i]) /\ New(ready'[j])
          BY <1>6, <4>1, <4>2 DEF Under, InReady
        <5> QED
          BY <1>10, <2>1, <5>1 DEF Before
      <4>3. CASE i \notin 1 .. Len(ready)
        <5>1. PICK l \in 1 .. k : i = Len(ready) + l
          BY <1>7, <4>3
        <5>2. ready'[i].n = got[c0] + l /\ ready'[j].n = got[c0] + m /\ l < m
          BY <1>6, <2>1, <4>1, <5>1
        <5> QED
          BY <1>2, <5>2
      <4> QED
        BY <4>2, <4>3
    <3> QED
      BY <3>1, <3>2
  <2>2. \A c \in Conns : /\ Len(up[c]) \in Nat /\ Len(up[c]) <= got[c]
                         /\ \A i \in 1 .. Len(up[c]) : up[c][i] = i
    BY DEF IInv, NetTypeOK, ReadyInv
  <2>3. ASSUME NEW x, InReady(x)' PROVE Len(up[x.conn]) < x.n
    <3>1. CASE InReady(x)
      BY <3>1 DEF IInv, ReadyInv
    <3>2. CASE New(x)
      <4>1. x.conn = c0 /\ got[c0] < x.n /\ x.n \in Nat
        BY <3>2 DEF New
      <4> QED
        BY <1>2, <2>2, <4>1
    <3> QED
      BY <1>8, <2>3, <3>1, <3>2
  <2>4. ASSUME NEW t \in Slots, cxt'[t] # "none", NEW n \in Len(up[conn[t]]) + 1 .. got'[conn[t]]
        PROVE  \E i \in 1 .. Len(ready') : ready'[i].conn = conn[t] /\ ready'[i].n = n
    <3>1. cxt[t] # "none" /\ conn[t] \in Conns /\ (t # s => got'[conn[t]] = got[conn[t]])
      BY <1>15, <2>4
    <3>2. CASE n <= got[conn[t]]
      <4>1. n \in Len(up[conn[t]]) + 1 .. got[conn[t]]
        BY <1>2, <2>2, <2>4, <3>1, <3>2
      <4>2. PICK i \in 1 .. Len(ready) : ready[i].conn = conn[t] /\ ready[i].n = n
        BY <3>1, <4>1 DEF IInv, ReadyInv
      <4>3. i \in 1 .. Len(ready') /\ ready'[i] = ready[i]
        BY <1>6, <4>2
      <4> QED
        BY <4>2, <4>3
    <3>3. CASE ~(n <= got[conn[t]])
      <4>1. t = s /\ conn[t] = c0
        <5>1. got[conn[t]] \in Nat /\ n <= got'[conn[t]] /\ n \in Nat /\ got'[conn[t]] \in Nat
          BY <1>2, <2>2, <2>4, <3>1
        <5> QED
          BY <1>1, <3>1, <3>3, <5>1
      <4>2. got'[c0] = got[c0] + k /\ got[c0] \in Nat /\ n <= got'[c0] /\ ~(n <= got[c0]) /\ n \in Nat
        BY <1>1, <1>2, <2>2, <2>4, <3>3, <4>1 DEF Moves
      <4>3. PICK m \in 1 .. k : n = got[c0] + m
        <5>1. n - got[c0] \in 1 .. k /\ n = got[c0] + (n - got[c0])
          BY <4>2
        <5> QED
          BY <5>1
      <4>4. /\ Len(ready) + m \in 1 .. Len(ready')
            /\ ready'[Len(ready) + m].conn = c0 /\ ready'[Len(ready) + m].n = n
        BY <1>6, <4>3 DEF New
      <4> QED
        BY <4>1, <4>4
    <3> QED
      BY <3>2, <3>3
  <2>5. \A c \in Conns : Len(up[c]) <= got'[c]
    BY <1>2, <2>2
  <2> QED
    BY <1>12, <2>1, <2>2, <2>3, <2>4, <2>5 DEF ReadyInv
<1>19. OrderInv'
  <2>1. AnswersInOrder'
    BY <1>12 DEF IInv, OrderInv, AnswersInOrder
  <2>2. \A x, y : /\ IsLive(x) /\ (InQueue(y) \/ IsSent(y) \/ InReady(y)') => Before(x, y)
                  /\ InQueue(x) /\ (IsSent(y) \/ InReady(y)') => Before(x, y)
                  /\ IsSent(x) /\ InReady(y)' => Before(x, y)
    <3>1. \A x : IsLive(x) \/ InQueue(x) \/ IsSent(x) => Under(x)
      BY DEF Under, IsMsg, IsSent
    <3> QED
      BY <1>8, <1>10, <3>1 DEF IInv, OrderInv
  <2>3. \A c \in Conns : \A j \in 1 .. Len(written[c]) : written[c][j] <= got[c] /\ written[c][j] \in Nat
    BY SMTT(20) DEF IInv, NetTypeOK, OrderInv
  <2>4. \A x : IsLive(x) \/ InQueue(x) \/ IsSent(x) \/ InReady(x)' =>
          \A j \in 1 .. Len(written[x.conn]) : written[x.conn][j] < x.n
    <3>1. ASSUME NEW x, New(x), NEW j \in 1 .. Len(written[x.conn]) PROVE written[x.conn][j] < x.n
      <4>1. x.conn = c0 /\ got[c0] < x.n /\ x.n \in Nat
        BY <3>1 DEF New
      <4>2. written[c0][j] <= got[c0] /\ written[c0][j] \in Nat
        BY <2>3, <3>1, <4>1
      <4> QED
        BY <1>2, <4>1, <4>2
    <3> QED
      BY <1>8, <3>1 DEF IInv, OrderInv
  <2>5. ASSUME NEW c \in Conns
        PROVE  /\ \A j \in 1 .. Len(written[c]) : written[c][j] <= got'[c]
               /\ written[c] # <<>> => sent'[c] >= Ask
    <3>1. written[c] # <<>> => sent[c] >= Ask
      BY DEF IInv, OrderInv
    <3> QED
      BY <1>2, <2>3, <3>1 DEF Ask
  <2>6. \A i, j \in 1 .. Len(queue) : i < j => Before(queue[i], queue[j])
    BY DEF IInv, OrderInv
  <2> QED
    BY <1>5, <1>12, <2>1, <2>2, <2>4, <2>5, <2>6 DEF OrderInv, Before
<1> QED
  BY <1>13, <1>14, <1>16, <1>17, <1>18, <1>19 DEF IInv

\* a session that ends without new data
LEMMA EndsStep ==
    ASSUME IInv, NEW s \in Slots, cxt[s] # "none", Ended(s), StageInv',
           stage' \in {"none", "start", "async", "write"}, tpc' \in {"check", "work", "sleep", "woken", "stuck"},
           apc' \in {"idle", "send", "start", "notice"}, msg' \in NodeSet \cup {None},
           LQuiet, live' \in {live, None}, UNCHANGED queue,
           apc' = "send" => UNCHANGED <<apc, msg>>, apc' # "idle" => apc # "idle" /\ UNCHANGED msg,
           UNCHANGED <<proto, mayBreak, used, conn, buf, sent, ready, nconn, got, up, written>>
    PROVE  IInv'
<1>1. /\ sent \in [Conns -> Int] /\ got \in [Conns -> Nat] /\ ready \in Seq(NodeSet) /\ Len(ready) \in Nat
      /\ buf \in [Slots -> Seq(Int)]
  BY DEF IInv, NetTypeOK
<1>2. \A c \in Conns : sent[c] >= sent[c] /\ got[c] = got[c] + 0 /\ ~(0 > 0)
  BY <1>1
<1>3. Len(ready) = Len(ready) + 0 /\ ~(0 > 0) /\ 1 .. 0 = {}
  BY <1>1
<1>4. Moves(s, 0, TRUE)
  BY <1>1, <1>2, <1>3, Zenon DEF Moves
<1> QED
  BY <1>4, MovesStep
-----------------------------------------------------------------------------
(***************************************************************************)
(* Starting a write.                                                       *)
(***************************************************************************)
LEMMA StartEffect ==
    ASSUME IInv, stage = "start", NEW failed \in BOOLEAN, StartWrite(failed)
    PROVE  /\ UNCHANGED queue /\ live # None
           /\ IF failed THEN live' = None /\ stage' = "none" ELSE UNCHANGED live /\ stage' = "async"
           /\ Intact \/ \E s \in Slots : cxt[s] # "none" /\ Ended(s)
<1>1. IsLive(live) /\ live # None
  BY DEF IInv, StageInv, IsLive
<1>2. live.slot \in Slots
  BY <1>1, Places DEF Under
<1>3. \A s \in Slots : Found(s) /\ ~stopping[s] => cxt[s] # "none"
  BY DEF Found, IInv, SlotInv
<1>4. CASE UNCHANGED <<stopping, cxt, calls>>
  BY <1>1, <1>4 DEF StartWrite, Stop, Intact
<1>5. CASE ~UNCHANGED <<stopping, cxt, calls>>
  <2>1. failed /\ Delete(live.slot) /\ Stop
    BY <1>5 DEF StartWrite
  <2>2. Found(live.slot) /\ ~stopping[live.slot] /\ Ended(live.slot)
    BY <1>5, <2>1, DeleteEffect DEF Intact
  <2> QED
    BY <1>1, <1>2, <1>3, <2>1, <2>2 DEF Stop
<1> QED
  BY <1>4, <1>5

LEMMA TWriteStep == ASSUME IInv, TWrite PROVE IInv'
<1>1. PICK failed \in BOOLEAN : StartWrite(failed) /\ tpc' = IF failed THEN "stuck" ELSE "sleep"
  BY DEF TWrite
<1>2. /\ tpc = "work" /\ stage = "start" /\ apc # "start"
      /\ UNCHANGED <<proto, mayBreak, used, conn, buf, sent, ready, apc, msg, lpc, nconn, got, up, written>>
  BY DEF TWrite, IInv, StageInv
<1>3. /\ UNCHANGED queue /\ live # None
      /\ IF failed THEN live' = None /\ stage' = "none" ELSE UNCHANGED live /\ stage' = "async"
      /\ Intact \/ \E s \in Slots : cxt[s] # "none" /\ Ended(s)
  BY <1>1, <1>2, StartEffect
<1>4. StageInv'
  BY <1>1, <1>2, <1>3 DEF IInv, StageInv
<1>5. CASE Intact
  <2>1. NetTypeOK'
    BY <1>1, <1>2, <1>3, <1>5 DEF Intact, IInv, NetTypeOK
  <2>2. SlotInv' /\ BufferInv' /\ StreamInv' /\ ReadyInv' /\ OrderInv'
    BY <1>2, <1>3, <1>5, LessUnder DEF LQuiet, Intact, sessions, nethistory
  <2> QED
    BY <1>4, <2>1, <2>2 DEF IInv
<1>6. CASE \E s \in Slots : cxt[s] # "none" /\ Ended(s)
  <2>1. PICK s \in Slots : cxt[s] # "none" /\ Ended(s)
    BY <1>6
  <2>2. /\ stage' \in {"none", "start", "async", "write"} /\ tpc' \in {"check", "work", "sleep", "woken", "stuck"}
        /\ apc' \in {"idle", "send", "start", "notice"} /\ msg' \in NodeSet \cup {None}
    BY <1>1, <1>2, <1>3 DEF IInv, NetTypeOK
  <2> QED
    BY <1>2, <1>3, <1>4, <2>1, <2>2, EndsStep DEF LQuiet
<1> QED
  BY <1>3, <1>5, <1>6

LEMMA AWriteStep == ASSUME IInv, AWrite PROVE IInv'
<1>1. PICK failed \in BOOLEAN : StartWrite(failed) /\ apc' = IF failed THEN "notice" ELSE "idle"
  BY DEF AWrite
<1>2. /\ apc = "start" /\ stage = "start" /\ tpc # "work" /\ msg' = IF apc' = "idle" THEN None ELSE msg
      /\ UNCHANGED <<proto, mayBreak, used, conn, buf, sent, ready, tpc, lpc, nconn, got, up, written>>
  BY DEF AWrite, IInv, StageInv
<1>3. /\ UNCHANGED queue /\ live # None
      /\ IF failed THEN live' = None /\ stage' = "none" ELSE UNCHANGED live /\ stage' = "async"
      /\ Intact \/ \E s \in Slots : cxt[s] # "none" /\ Ended(s)
  BY <1>1, <1>2, StartEffect
<1>4. StageInv'
  BY <1>1, <1>2, <1>3 DEF IInv, StageInv
<1>5. CASE Intact
  <2>1. NetTypeOK'
    BY <1>1, <1>2, <1>3, <1>5 DEF Intact, IInv, NetTypeOK
  <2>2. SlotInv' /\ BufferInv' /\ StreamInv' /\ ReadyInv' /\ OrderInv'
    BY <1>1, <1>2, <1>3, <1>5, LessUnder DEF LQuiet, Intact, sessions, nethistory
  <2> QED
    BY <1>4, <2>1, <2>2 DEF IInv
<1>6. CASE \E s \in Slots : cxt[s] # "none" /\ Ended(s)
  <2>1. PICK s \in Slots : cxt[s] # "none" /\ Ended(s)
    BY <1>6
  <2>2. /\ stage' \in {"none", "start", "async", "write"} /\ tpc' \in {"check", "work", "sleep", "woken", "stuck"}
        /\ apc' \in {"idle", "send", "start", "notice"} /\ msg' \in NodeSet \cup {None}
    BY <1>1, <1>2, <1>3 DEF IInv, NetTypeOK
  <2> QED
    BY <1>1, <1>2, <1>3, <1>4, <2>1, <2>2, EndsStep DEF LQuiet
<1> QED
  BY <1>3, <1>5, <1>6

LEMMA BreakStep == ASSUME IInv, NEW s \in Slots, Break(s) PROVE IInv'
<1>1. Ended(s) /\ cxt[s] # "none"
  BY DEF Break, Delete, Disconnected, Ended, Found, IInv, SlotInv
<1>2. UNCHANGED <<proto, mayBreak, used, conn, buf, sent, ready, apc, msg, live, queue, stage, tpc, lpc,
                  nconn, got, up, written>>
  BY DEF Break, wqueue
<1>3. /\ StageInv' /\ stage' \in {"none", "start", "async", "write"}
      /\ tpc' \in {"check", "work", "sleep", "woken", "stuck"}
      /\ apc' \in {"idle", "send", "start", "notice"} /\ msg' \in NodeSet \cup {None}
  BY <1>2 DEF IInv, NetTypeOK, StageInv
<1> QED
  BY <1>1, <1>2, <1>3, EndsStep DEF LQuiet

LEMMA ClosedStep == ASSUME IInv, NEW s \in Slots, Closed(s) PROVE IInv'
<1>1. /\ used[s] = "on" /\ stopping[s] /\ used' = [used EXCEPT ![s] = "old"]
      /\ UNCHANGED <<proto, mayBreak, conn, stopping, cxt, buf, sent, ready, apc, msg, live, queue, stage,
                     tpc, lpc, nconn, got, up, calls, written>>
  BY DEF Closed, Found, wqueue, nethistory
<1>2. \A t \in Slots : used'[t] = IF t = s THEN "old" ELSE used[t]
  BY <1>1 DEF IInv, NetTypeOK
<1>3. \A x : /\ Under(x)' <=> Under(x)
             /\ IsLive(x)' <=> IsLive(x)
             /\ IsSent(x)' <=> IsSent(x)
             /\ InReady(x)' <=> InReady(x)
  BY <1>1 DEF Under, IsLive, InQueue, IsMsg, IsSent, InReady
<1>4. NetTypeOK'
  BY <1>1 DEF IInv, NetTypeOK
<1>5. StageInv'
  BY <1>1 DEF IInv, StageInv
<1>6. SlotInv'
  <2>1. \A x : Under(x)' => used'[x.slot] # "free"
    <3>1. \A x : Under(x) => x.slot \in Slots /\ used[x.slot] # "free"
      BY Places DEF IInv, SlotInv
    <3> QED
      BY <1>2, <1>3, <3>1
  <2> QED
    BY <1>1, <1>2, <1>3, <2>1 DEF IInv, SlotInv
<1>7. BufferInv' /\ StreamInv' /\ ReadyInv' /\ OrderInv'
  BY <1>1, <1>3, BufferFrame, StreamFrame, ReadyFrame, OrderFrame DEF IInv, LQuiet
<1> QED
  BY <1>4, <1>5, <1>6, <1>7 DEF IInv

\* the node on its way to the wire
LEMMA LiveNode ==
    ASSUME IInv, stage # "none"
    PROVE  live \in NodeSet /\ live # None /\ live.slot \in Slots /\ Under(live) /\ IsLive(live)
<1>1. IsLive(live)
  BY DEF IInv, StageInv, IsLive
<1> QED
  BY <1>1, Places DEF Under

\* a write that ends without an answer on the wire
LEMMA NoAnswer ==
    ASSUME IInv, stage \in {"async", "write"}, live' = None, stage' = "none", lpc = <<>>, lpc' = << 0 >>,
           UNCHANGED <<proto, mayBreak, used, conn, stopping, cxt, buf, sent, ready, apc, msg, queue,
                       tpc, nconn, got, up, calls, written>>
    PROVE  IInv'
<1>1. NetTypeOK'
  <2>1. lpc' \in {<<>>} \cup {<<s>> : s \in 0 .. NumSlots}
    BY NetAssumption
  <2> QED
    BY <2>1 DEF IInv, NetTypeOK
<1>2. StageInv'
  BY DEF IInv, StageInv
<1>3. SlotInv' /\ BufferInv' /\ StreamInv' /\ ReadyInv' /\ OrderInv'
  BY LessUnder DEF LQuiet, sessions, nethistory
<1> QED
  BY <1>1, <1>2, <1>3 DEF IInv

LEMMA AsyncWriteStep == ASSUME IInv, AsyncWrite PROVE IInv'
<1>1. /\ lpc = <<>> /\ stage = "async"
      /\ UNCHANGED <<proto, mayBreak, used, conn, buf, sent, ready, apc, msg, tpc, nconn, got, up, written>>
  BY DEF AsyncWrite
<1>2. PICK s \in Slots : s = live.slot
  BY <1>1, LiveNode
<1>3. \/ stage' = "write" /\ UNCHANGED <<live, queue, lpc, stopping, cxt, calls>>
      \/ /\ Found(s) /\ ~stopping[s] /\ Ended(s)
         /\ live' = None /\ stage' = "none" /\ UNCHANGED queue /\ lpc' = <<0>>
      \/ live' = None /\ stage' = "none" /\ UNCHANGED <<queue, stopping, cxt, calls>> /\ lpc' = <<0>>
  BY <1>2 DEF AsyncWrite, Delete, Disconnected, Ended, Stop
<1>4. CASE stage' = "write" /\ UNCHANGED <<live, queue, lpc, stopping, cxt, calls>>
  <2>1. NetTypeOK'
    BY <1>1, <1>4 DEF IInv, NetTypeOK
  <2>2. StageInv'
    BY <1>1, <1>4 DEF IInv, StageInv
  <2>3. SlotInv' /\ BufferInv' /\ StreamInv' /\ ReadyInv' /\ OrderInv'
    BY <1>1, <1>4, LessUnder DEF LQuiet, sessions, nethistory
  <2> QED
    BY <2>1, <2>2, <2>3 DEF IInv
<1>5. CASE /\ Found(s) /\ ~stopping[s] /\ Ended(s)
           /\ live' = None /\ stage' = "none" /\ UNCHANGED queue /\ lpc' = <<0>>
  <2>1. /\ StageInv' /\ stage' \in {"none", "start", "async", "write"}
        /\ tpc' \in {"check", "work", "sleep", "woken", "stuck"}
        /\ apc' \in {"idle", "send", "start", "notice"} /\ msg' \in NodeSet \cup {None}
    BY <1>1, <1>5 DEF IInv, NetTypeOK, StageInv
  <2>2. cxt[s] # "none"
    BY <1>5 DEF Found, IInv, SlotInv
  <2> QED
    BY <1>1, <1>5, <2>1, <2>2, EndsStep DEF LQuiet
<1>6. CASE live' = None /\ stage' = "none" /\ UNCHANGED <<queue, stopping, cxt, calls>> /\ lpc' = <<0>>
  BY <1>1, <1>6, NoAnswer
<1> QED
  BY <1>3, <1>4, <1>5, <1>6

LEMMA WriteAfterStep == ASSUME IInv, WriteAfter PROVE IInv'
<1>1. /\ lpc = <<>> /\ stage = "write" /\ live' = None /\ stage' = "none" /\ UNCHANGED queue
      /\ UNCHANGED <<proto, mayBreak, used, conn, buf, sent, ready, apc, msg, tpc, nconn, got, up>>
  BY DEF WriteAfter, Stop
<1>2. PICK s \in Slots : s = live.slot
  BY <1>1, LiveNode
<1>3. \/ /\ ~stopping[s] /\ written' = [written EXCEPT ![live.conn] = Append(@, live.n)]
         /\ lpc' = <<s>> /\ UNCHANGED <<stopping, cxt, calls>>
      \/ Delete(s) /\ lpc' = <<0>> /\ UNCHANGED written
  BY <1>2 DEF WriteAfter
<1>4. CASE Delete(s) /\ lpc' = <<0>> /\ UNCHANGED written
  <2>1. (Found(s) /\ ~stopping[s] /\ Ended(s)) \/ UNCHANGED <<stopping, cxt, calls>>
    BY <1>4, DeleteEffect DEF Intact
  <2>2. CASE Found(s) /\ ~stopping[s] /\ Ended(s)
    <3>1. /\ StageInv' /\ stage' \in {"none", "start", "async", "write"}
          /\ tpc' \in {"check", "work", "sleep", "woken", "stuck"}
          /\ apc' \in {"idle", "send", "start", "notice"} /\ msg' \in NodeSet \cup {None}
      BY <1>1 DEF IInv, NetTypeOK, StageInv
    <3>2. cxt[s] # "none"
      BY <2>2 DEF Found, IInv, SlotInv
    <3> QED
      BY <1>1, <1>4, <2>2, <3>1, <3>2, EndsStep DEF LQuiet
  <2>3. CASE UNCHANGED <<stopping, cxt, calls>>
    BY <1>1, <1>4, <2>3, NoAnswer
  <2> QED
    BY <2>1, <2>2, <2>3
<1>5. CASE /\ ~stopping[s] /\ written' = [written EXCEPT ![live.conn] = Append(@, live.n)]
           /\ lpc' = <<s>> /\ UNCHANGED <<stopping, cxt, calls>>
  <2> DEFINE c0 == live.conn
             n0 == live.n
  <2>1. /\ live \in NodeSet /\ live # None /\ IsLive(live) /\ c0 \in Conns /\ n0 \in Nat /\ c0 = conn[s]
        /\ used[s] = "on" /\ cxt[s] # "none" /\ n0 <= got[c0] /\ sent[c0] >= Ask
    <3>1. live \in NodeSet /\ live # None /\ IsLive(live) /\ Under(live)
      BY <1>1, LiveNode
    <3>2. c0 \in Conns /\ n0 \in Nat /\ c0 = conn[s]
      BY <1>2, <3>1, Places
    <3>3. used[s] # "free" /\ n0 <= got[c0] /\ sent[c0] >= Ask
      BY <1>2, <3>1 DEF IInv, SlotInv
    <3>4. used[s] = "on" /\ cxt[s] # "none"
      BY <1>5, <3>3 DEF IInv, SlotInv, NetTypeOK
    <3> QED
      BY <3>1, <3>2, <3>3, <3>4
  <2>2. \A k \in 1 .. Len(written[c0]) : written[c0][k] < n0
    BY <2>1 DEF IInv, OrderInv
  <2>3. /\ written \in [Conns -> Seq(Nat)] /\ written' = [written EXCEPT ![c0] = Append(written[c0], n0)]
        /\ Append(written[c0], n0) \in Seq(Nat)
    BY <1>5, <2>1 DEF IInv, NetTypeOK
  <2> HIDE DEF c0, n0
  <2>4. /\ \A c \in Conns : c # c0 => written'[c] = written[c]
        /\ written'[c0] # <<>> /\ Len(written[c0]) \in Nat /\ Len(written'[c0]) = Len(written[c0]) + 1
        /\ written'[c0][Len(written[c0]) + 1] = n0
        /\ \A k \in 1 .. Len(written[c0]) : written'[c0][k] = written[c0][k]
    <3>1. written[c0] \in Seq(Nat)
      BY <2>1, <2>3
    <3>2. written'[c0] = Append(written[c0], n0) /\ \A c \in Conns : c # c0 => written'[c] = written[c]
      BY <2>1, <2>3
    <3>3. PICK w \in Seq(Nat) : w = written[c0]
      BY <3>1
    <3>4. /\ Append(w, n0) # <<>> /\ Len(w) \in Nat /\ Len(Append(w, n0)) = Len(w) + 1
          /\ Append(w, n0)[Len(w) + 1] = n0 /\ \A k \in 1 .. Len(w) : Append(w, n0)[k] = w[k]
      BY <2>1, AppendProperties, SMTT(20)
    <3> QED
      BY <3>2, <3>3, <3>4
  <2>5. \A x : /\ ~IsLive(x)'
               /\ InQueue(x)' <=> InQueue(x)
               /\ IsMsg(x)' <=> IsMsg(x)
               /\ IsSent(x)' <=> IsSent(x)
               /\ InReady(x)' <=> InReady(x)
    BY <1>1 DEF IsLive, InQueue, IsMsg, IsSent, InReady
  <2>6. NetTypeOK'
    <3>1. written' \in [Conns -> Seq(Nat)]
      BY <2>1, <2>3
    <3>2. lpc' \in {<<>>} \cup {<<t>> : t \in 0 .. NumSlots}
      BY <1>5 DEF Slots
    <3> QED
      BY <1>1, <1>5, <3>1, <3>2 DEF IInv, NetTypeOK
  <2>7. StageInv'
    BY <1>1 DEF IInv, StageInv
  <2>8. SlotInv'
    <3>1. \A x : Under(x)' => Under(x)
      BY <2>5 DEF Under
    <3>2. \A c \in Conns : c > nconn => written'[c] = <<>>
      <4>1. c0 <= nconn /\ c0 \in Nat /\ nconn \in Nat
        BY <2>1, NetAssumption DEF IInv, SlotInv, NetTypeOK, Conns
      <4>2. \A c \in Conns : c > nconn => c # c0
        BY <4>1 DEF Conns
      <4> QED
        BY <2>4, <4>2 DEF IInv, SlotInv
    <3> QED
      BY <1>1, <1>5, <3>1, <3>2 DEF IInv, SlotInv
  <2>9. cxt[s] = "handing" => n0 = Hand /\ written[c0] = <<>>
    <3> SUFFICES ASSUME cxt[s] = "handing" PROVE n0 = Hand /\ written[c0] = <<>>
      OBVIOUS
    <3>1. got[c0] = 0 /\ written[c0] = <<>>
      BY <1>1, <2>1 DEF IInv, StreamInv
    <3> QED
      BY <2>1, <3>1 DEF Hand
  <2>10. StreamInv'
    <3>1. ASSUME NEW t \in Slots, cxt[t] = "handing"
          PROVE  written'[conn[t]] = IF lpc' = <<t>> THEN <<Hand>> ELSE <<>>
      <4>1. written[conn[t]] = <<>> /\ conn[t] \in Conns /\ conn[t] # 0
        <5>1. lpc # <<t>>
          BY <1>1
        <5> QED
          BY <3>1, <5>1, Places DEF IInv, StreamInv, Conns
      <4>2. CASE t = s
        <5>1. written'[c0] = Append(<<>>, Hand)
          BY <2>1, <2>3, <2>9, <3>1, <4>2
        <5> QED
          BY <1>5, <2>1, <4>2, <5>1
      <4>3. CASE t # s
        <5>1. conn[t] # c0
          BY <2>1, <4>1, <4>3 DEF IInv, SlotInv
        <5>2. lpc' # <<t>>
          BY <1>5, <4>3
        <5> QED
          BY <2>4, <4>1, <5>1, <5>2
      <4> QED
        BY <4>2, <4>3
    <3>2. ASSUME NEW c \in Conns, written[c] # <<>> PROVE written'[c] # <<>>
      BY <2>4, <3>2
    <3>3. \A t \in Slots : cxt[t] = "working" => conn[t] \in Conns
      BY Places
    <3>5. UNCHANGED <<proto, conn, cxt, buf, sent, got, calls, up>>
      BY <1>1, <1>5
    <3>6. \A t \in Slots : cxt[t] = "working" /\ proto = "ws" => written'[conn[t]] # <<>>
      BY <3>2, <3>3 DEF IInv, StreamInv
    <3> QED
      BY <3>1, <3>2, <3>5, <3>6 DEF IInv, StreamInv
  <2>11. BufferInv' /\ ReadyInv'
    BY <1>1, <1>5, BufferFrame, ReadyFrame DEF IInv
  <2>12. OrderInv'
    <3>1. AnswersInOrder'
      <4>1. ASSUME NEW i \in 1 .. Len(written'[c0]), NEW j \in 1 .. Len(written'[c0]), i < j
            PROVE  written'[c0][i] < written'[c0][j]
        <5>1. i \in 1 .. Len(written[c0]) /\ (j \in 1 .. Len(written[c0]) \/ j = Len(written[c0]) + 1)
          BY <2>4, <4>1
        <5>2. CASE j \in 1 .. Len(written[c0])
          <6>1. written[c0][i] < written[c0][j]
            BY <2>1, <4>1, <5>1, <5>2 DEF IInv, OrderInv, AnswersInOrder
          <6> QED
            BY <2>4, <5>1, <5>2, <6>1
        <5>3. CASE j = Len(written[c0]) + 1
          BY <2>2, <2>4, <5>1, <5>3
        <5> QED
          BY <5>1, <5>2, <5>3
      <4>2. proto = "ws" => written'[c0][1] = Hand
        <5>1. CASE written[c0] = <<>>
          <6>1. got[c0] \in Nat
            BY <2>1 DEF IInv, NetTypeOK
          <6>2. proto = "ws" => n0 = 0
            BY <2>1, <5>1, <6>1 DEF IInv, StreamInv
          <6> QED
            BY <2>4, <5>1, <6>2 DEF Hand
        <5>2. CASE written[c0] # <<>>
          <6>1. written[c0] \in Seq(Nat) /\ Len(written[c0]) >= 1
            BY <2>1, <2>3, <5>2
          <6> QED
            BY <2>1, <2>4, <5>2, <6>1 DEF IInv, OrderInv, AnswersInOrder
        <5> QED
          BY <5>1, <5>2
      <4>3. UNCHANGED proto
        BY <1>1
      <4> QED
        BY <2>4, <4>1, <4>2, <4>3 DEF IInv, OrderInv, AnswersInOrder
    <3>2. \A x : InQueue(x)' \/ IsSent(x)' \/ InReady(x)' =>
            \A k \in 1 .. Len(written'[x.conn]) : written'[x.conn][k] < x.n
      <4> SUFFICES ASSUME NEW x, InQueue(x) \/ IsSent(x) \/ InReady(x),
                          NEW k \in 1 .. Len(written'[x.conn])
                   PROVE  written'[x.conn][k] < x.n
        BY <2>5
      <4>1. x.conn \in Conns
        BY Places DEF Under, IsMsg, IsSent
      <4>2. Before(live, x)
        BY <2>1 DEF IInv, OrderInv
      <4>3. \A i \in 1 .. Len(written[x.conn]) : written[x.conn][i] < x.n
        BY DEF IInv, OrderInv
      <4>4. CASE x.conn = c0
        <5>1. n0 < x.n
          BY <4>2, <4>4 DEF Before, c0, n0
        <5> QED
          BY <2>1, <2>4, <4>3, <4>4, <5>1, SMTT(20)
      <4>5. CASE x.conn # c0
        BY <2>4, <4>1, <4>3, <4>5
      <4> QED
        BY <4>4, <4>5
    <3>3. ASSUME NEW c \in Conns
          PROVE  /\ \A k \in 1 .. Len(written'[c]) : written'[c][k] <= got[c]
                 /\ written'[c] # <<>> => sent[c] >= Ask
      <4>1. CASE c = c0
        <5>1. \A k \in 1 .. Len(written[c0]) : written[c0][k] <= got[c0]
          BY <2>1 DEF IInv, OrderInv
        <5>2. \A k \in 1 .. Len(written'[c0]) : k \in 1 .. Len(written[c0]) \/ k = Len(written[c0]) + 1
          BY <2>4
        <5>3. \A k \in 1 .. Len(written'[c0]) : written'[c0][k] <= got[c0]
          BY <2>1, <2>4, <5>1, <5>2
        <5> QED
          BY <2>1, <4>1, <5>3
      <4>2. CASE c # c0
        BY <2>4, <4>2 DEF IInv, OrderInv
      <4> QED
        BY <4>1, <4>2
    <3>4. UNCHANGED <<queue, sent, got>>
      BY <1>1
    <3> QED
      BY <2>5, <3>1, <3>2, <3>3, <3>4 DEF IInv, OrderInv, Before
  <2> QED
    BY <2>6, <2>7, <2>8, <2>10, <2>11, <2>12 DEF IInv
<1> QED
  BY <1>3, <1>4, <1>5
-----------------------------------------------------------------------------
(***************************************************************************)
(* The steps of L: data arrives.                                           *)
(***************************************************************************)
\* the buffer with a piece of a stream behind what it held, the parts after x
Joins(a, x, n, nonsense, b) == b = a \o ([i \in 1 .. n |-> x + i] \o IF nonsense THEN <<Bad>> ELSE <<>>)

LEMMA Joined ==
    ASSUME NEW a \in Seq(Int), NEW x \in Int, NEW n \in Nat, NEW nonsense \in BOOLEAN,
           NEW b, Joins(a, x, n, nonsense, b)
    PROVE  /\ b \in Seq(Int) /\ Len(a) \in Nat
           /\ Len(b) = Len(a) + n + (IF nonsense THEN 1 ELSE 0)
           /\ \A i \in 1 .. Len(a) : b[i] = a[i]
           /\ \A i \in 1 .. n : b[Len(a) + i] = x + i
           /\ nonsense => b[Len(a) + n + 1] = Bad
<1> DEFINE p == [i \in 1 .. n |-> x + i]
           e == IF nonsense THEN <<Bad>> ELSE <<>>
<1>1. p \in Seq(Int) /\ Len(p) = n /\ \A i \in 1 .. n : p[i] = x + i
  <2>1. \A i \in 1 .. n : x + i \in Int
    OBVIOUS
  <2> QED
    BY <2>1
<1>2. e \in Seq(Int) /\ Len(e) = (IF nonsense THEN 1 ELSE 0) /\ (nonsense => e[1] = Bad)
  BY DEF Bad
<1>3. b = a \o (p \o e)
  BY DEF Joins
<1> HIDE DEF p, e
<1>4. PICK q \in Seq(Int) : q = p \o e
  BY <1>1, <1>2, ConcatProperties
<1>5. /\ Len(q) = n + Len(e) /\ \A i \in 1 .. n : q[i] = p[i]
      /\ nonsense => q[n + 1] = Bad
  <2>1. /\ Len(q) = Len(p) + Len(e)
        /\ \A i \in 1 .. Len(p) + Len(e) : q[i] = IF i <= Len(p) THEN p[i] ELSE e[i - Len(p)]
    BY <1>1, <1>2, <1>4, ConcatProperties
  <2>2. nonsense => n + 1 \in 1 .. Len(p) + Len(e) /\ ~(n + 1 <= Len(p)) /\ n + 1 - Len(p) = 1
    BY <1>1, <1>2
  <2>3. Len(q) = n + Len(e)
    BY <1>1, <2>1
  <2>4. ASSUME NEW i \in 1 .. n PROVE q[i] = p[i]
    <3>1. i \in 1 .. Len(p) + Len(e) /\ i <= Len(p)
      BY <1>1, <1>2
    <3> QED
      BY <2>1, <3>1
  <2>5. nonsense => q[n + 1] = Bad
    <3> SUFFICES ASSUME nonsense PROVE q[n + 1] = Bad
      OBVIOUS
    <3>1. q[n + 1] = e[n + 1 - Len(p)]
      BY <2>1, <2>2
    <3> QED
      BY <1>2, <2>2, <3>1
  <2> QED
    BY <2>3, <2>4, <2>5
<1>6. /\ b \in Seq(Int) /\ Len(b) = Len(a) + Len(q) /\ Len(a) \in Nat
      /\ \A i \in 1 .. Len(a) : b[i] = a[i]
      /\ \A i \in 1 .. Len(q) : b[Len(a) + i] = q[i]
  <2>1. /\ b \in Seq(Int) /\ Len(b) = Len(a) + Len(q) /\ Len(a) \in Nat /\ Len(q) \in Nat
        /\ \A i \in 1 .. Len(a) + Len(q) : b[i] = IF i <= Len(a) THEN a[i] ELSE q[i - Len(a)]
    BY <1>3, <1>4, ConcatProperties, LenProperties
  <2>3. ASSUME NEW i \in 1 .. Len(q) PROVE b[Len(a) + i] = q[i]
    <3>1. PICK j \in Nat : j = Len(a) + i
      BY <2>1
    <3>2. j \in 1 .. Len(a) + Len(q) /\ ~(j <= Len(a)) /\ j - Len(a) = i
      BY <2>1, <3>1
    <3>3. b[j] = q[j - Len(a)]
      BY <2>1, <3>2
    <3> QED
      BY <3>1, <3>2, <3>3
  <2>4. ASSUME NEW i \in 1 .. Len(a) PROVE b[i] = a[i]
    <3>1. i \in 1 .. Len(a) + Len(q) /\ i <= Len(a)
      BY <2>1
    <3> QED
      BY <2>1, <3>1
  <2> QED
    BY <2>1, <2>3, <2>4
<1>7. Len(q) = n + (IF nonsense THEN 1 ELSE 0)
  BY <1>2, <1>5
<1>8. \A i \in 1 .. n : i \in 1 .. Len(q) /\ b[Len(a) + i] = x + i
  <2>1. \A i \in 1 .. n : i \in 1 .. Len(q)
    BY <1>7
  <2> QED
    BY <1>1, <1>5, <1>6, <2>1
<1>9. nonsense => b[Len(a) + n + 1] = Bad
  <2> SUFFICES ASSUME nonsense PROVE b[Len(a) + n + 1] = Bad
    OBVIOUS
  <2>1. n + 1 \in 1 .. Len(q) /\ Len(a) + (n + 1) = Len(a) + n + 1
    BY <1>6, <1>7
  <2>2. b[Len(a) + (n + 1)] = q[n + 1]
    BY <1>6, <2>1
  <2> QED
    BY <1>5, <2>1, <2>2
<1>10. Len(b) = Len(a) + n + (IF nonsense THEN 1 ELSE 0)
  <2>1. CASE nonsense
    <3>1. Len(q) = n + 1
      BY <1>7, <2>1
    <3> HIDE DEF e
    <3> QED
      BY <1>6, <2>1, <3>1
  <2>2. CASE ~nonsense
    <3>1. Len(q) = n
      BY <1>7, <2>2
    <3> QED
      BY <1>6, <2>2, <3>1
  <2> QED
    BY <2>1, <2>2
<1> QED
  BY <1>6, <1>8, <1>9, <1>10

\* the handshake, with what followed it left in the buffer
Asks(s) ==
    /\ cxt[s] = "handing" /\ lpc = <<>> /\ Intact
    /\ \E n \in Nat : /\ \A c \in Conns : sent'[c] = IF c = conn[s] THEN n ELSE sent[c]
                      /\ Len(buf'[s]) = n /\ \A i \in 1 .. n : buf'[s][i] = i
    /\ sent[conn[s]] = Ask - 1 /\ sent' \in [Conns -> Int]
    /\ buf' \in [Slots -> Seq(Int)] /\ \A t \in Slots : t # s => buf'[t] = buf[t]
    /\ Push(Node(s, Hand)) /\ stage' = (IF Direct THEN "async" ELSE stage)
    /\ UNCHANGED <<proto, mayBreak, used, conn, ready, apc, msg, tpc, lpc, nconn, got, up, written>>

Advances(s, n) == sent' = [sent EXCEPT ![conn[s]] = @ + n]

LEMMA WorkingRead ==
    ASSUME IInv, NEW s \in Slots, cxt[s] = "working", Found(s), ~stopping[s],
           NEW n \in Nat, NEW nonsense \in BOOLEAN, NEW b, Joins(buf[s], sent[conn[s]], n, nonsense, b),
           MaySend(conn[s], n, nonsense), Decode(s, b), Advances(s, n),
           UNCHANGED <<proto, mayBreak, used, conn, apc, msg, live, queue, lpc, nconn, up, written>>
    PROVE  \E k \in Nat, ended \in BOOLEAN : Moves(s, k, ended)
<1>1. PICK c \in Conns : c = conn[s]
  BY Places
<1>2. PICK g \in Nat : g = got[c]
  BY DEF IInv, NetTypeOK
<1>3. PICK x \in Nat : x = sent[c]
  <2>1. sent[c] \in Int /\ sent[c] >= Ask
    BY <1>1 DEF IInv, NetTypeOK, StreamInv
  <2> QED
    BY <2>1 DEF Ask
<1>4. /\ buf[s] \in Seq(Int) /\ Len(buf[s]) = x - 2 * g /\ 2 * g <= x
      /\ \A i \in 1 .. Len(buf[s]) : buf[s][i] = 2 * g + i
  <2>1. buf[s] \in Seq(Int) /\ Len(buf[s]) \in Nat
    BY DEF IInv, NetTypeOK
  <2>2. Len(buf[s]) = Held(c) /\ \A i \in 1 .. Len(buf[s]) : buf[s][i] = 2 * g + i
    BY <1>1, <1>2 DEF IInv, BufferInv
  <2> QED
    BY <1>2, <1>3, <2>1, <2>2 DEF Held, Ask
<1>5. PICK w \in Nat : w = x + n - 2 * g
  BY <1>4
<1>6. /\ b \in Seq(Int) /\ Len(b) = w + (IF nonsense THEN 1 ELSE 0)
      /\ \A i \in 1 .. w : b[i] = 2 * g + i
      /\ nonsense => b[w + 1] = Bad
  <2>1. /\ b \in Seq(Int)
        /\ Len(b) = Len(buf[s]) + n + (IF nonsense THEN 1 ELSE 0)
        /\ \A i \in 1 .. Len(buf[s]) : b[i] = buf[s][i]
        /\ \A i \in 1 .. n : b[Len(buf[s]) + i] = sent[c] + i
        /\ nonsense => b[Len(buf[s]) + n + 1] = Bad
    <3>1. PICK a \in Seq(Int) : a = buf[s]
      BY <1>4
    <3>2. Joins(a, x, n, nonsense, b) /\ x \in Int
      BY <1>1, <1>3, <3>1
    <3>3. /\ b \in Seq(Int)
          /\ Len(b) = Len(a) + n + (IF nonsense THEN 1 ELSE 0)
          /\ \A i \in 1 .. Len(a) : b[i] = a[i]
          /\ \A i \in 1 .. n : b[Len(a) + i] = x + i
          /\ nonsense => b[Len(a) + n + 1] = Bad
      BY <3>2, Joined
    <3> QED
      BY <1>3, <3>1, <3>3, Zenon
  <2>2. ASSUME NEW i \in 1 .. w PROVE b[i] = 2 * g + i
    <3>1. CASE i <= Len(buf[s])
      BY <1>4, <2>1, <2>2, <3>1
    <3>2. CASE ~(i <= Len(buf[s]))
      <4>1. i - Len(buf[s]) \in 1 .. n /\ Len(buf[s]) + (i - Len(buf[s])) = i
        BY <1>4, <1>5, <3>2
      <4>2. b[i] = x + (i - Len(buf[s]))
        BY <1>3, <2>1, <4>1
      <4> QED
        BY <1>4, <4>2
    <3> QED
      BY <3>1, <3>2
  <2>3. Len(buf[s]) + n = w
    BY <1>4, <1>5
  <2> QED
    BY <2>1, <2>2, <2>3
<1>7. w + (IF nonsense THEN 1 ELSE 0) > 0 /\ (nonsense => w % 2 = 0)
  <2>1. n > 0 \/ nonsense
    BY DEF MaySend
  <2>2. nonsense => (x + n) % 2 = 0
    BY <1>1, <1>3 DEF MaySend, Ask
  <2>3. (x + n) % 2 = 0 => w % 2 = 0
    BY <1>5
  <2> QED
    BY <1>4, <1>5, <2>1, <2>2, <2>3
<1>8. PICK k \in Nat : k = Whole(b) /\ k = w \div 2
  <2>1. b[Len(b)] = Bad <=> nonsense
    <3>1. ~nonsense => b[Len(b)] = 2 * g + w
      BY <1>6, <1>7
    <3> QED
      BY <1>6, <1>7, <3>1 DEF Bad
  <2>2. Whole(b) = w \div 2
    BY <1>6, <2>1 DEF Whole
  <2>3. w \div 2 \in Nat
    OBVIOUS
  <2> QED
    BY <2>2, <2>3
<1>9. 2 * k <= w /\ w <= 2 * k + 1 /\ (nonsense => w = 2 * k)
  BY <1>7, <1>8
<1> DEFINE rest == SubSeq(b, 2 * k + 1, Len(b))
<1>10. /\ rest \in Seq(Int) /\ Len(rest) = Len(b) - 2 * k
       /\ \A i \in 1 .. Len(rest) : rest[i] = b[2 * k + i]
  <2>1. 2 * k + 1 \in 1 .. Len(b) + 1 /\ Len(b) \in Nat
    BY <1>6, <1>9
  <2>2. rest \in Seq(Int)
    <3>1. \A i \in 2 * k + 1 .. Len(b) : i \in 1 .. Len(b) /\ b[i] \in Int
      BY <1>6, <2>1
    <3> QED
      BY <1>6, <2>1, <3>1
  <2> QED
    BY <1>6, <2>1, <2>2
<1>11. /\ ready' = ready \o [i \in 1 .. k |-> Node(s, Request(b[2 * i - 1], b[2 * i]))]
       /\ got' = [got EXCEPT ![conn[s]] = @ + k] /\ buf' = [buf EXCEPT ![s] = rest]
       /\ IF rest # <<>> /\ rest[1] = Bad THEN Delete(s) ELSE UNCHANGED <<stopping, cxt, calls>>
  BY <1>8 DEF Decode
<1> HIDE DEF rest
<1>12. \A i \in 1 .. k : Request(b[2 * i - 1], b[2 * i]) = g + i
  <2> SUFFICES ASSUME NEW i \in 1 .. k PROVE Request(b[2 * i - 1], b[2 * i]) = g + i
    OBVIOUS
  <2>1. 2 * i - 1 \in 1 .. w /\ 2 * i \in 1 .. w
    BY <1>9
  <2>2. b[2 * i - 1] = 2 * g + (2 * i - 1) /\ b[2 * i] = 2 * g + 2 * i
    BY <1>6, <2>1
  <2>3. (2 * g + (2 * i - 1)) % 2 = 1 /\ (2 * g + 2 * i) \div 2 = g + i
        /\ 2 * g + 2 * i = 2 * g + (2 * i - 1) + 1
    OBVIOUS
  <2> QED
    BY <2>2, <2>3 DEF Request
<1>13. /\ ready' \in Seq(NodeSet) /\ Len(ready) \in Nat /\ Len(ready') = Len(ready) + k
       /\ \A i \in 1 .. Len(ready) : ready'[i] = ready[i]
       /\ \A i \in 1 .. k : ready'[Len(ready) + i] = Node(s, got[conn[s]] + i)
  <2> DEFINE more == [i \in 1 .. k |-> Node(s, Request(b[2 * i - 1], b[2 * i]))]
  <2>1. \A i \in 1 .. k : more[i] = Node(s, g + i) /\ Node(s, g + i) \in NodeSet
    <3>1. \A i \in 1 .. k : g + i \in Nat
      OBVIOUS
    <3> QED
      BY <1>1, <1>12, <3>1, NodeIn
  <2>2. more \in Seq(NodeSet) /\ Len(more) = k
    <3>1. more \in [1 .. k -> NodeSet]
      BY <2>1, Zenon
    <3> HIDE DEF more
    <3> QED
      BY <3>1
  <2>3. ready \in Seq(NodeSet)
    BY DEF IInv, NetTypeOK
  <2>4. ready' = ready \o more
    BY <1>11
  <2> HIDE DEF more
  <2>5. /\ ready' \in Seq(NodeSet) /\ Len(ready) \in Nat /\ Len(ready') = Len(ready) + k
        /\ \A i \in 1 .. Len(ready) : ready'[i] = ready[i]
        /\ \A i \in 1 .. k : ready'[Len(ready) + i] = more[i]
    <3>1. /\ ready' \in Seq(NodeSet) /\ Len(ready) \in Nat /\ Len(ready') = Len(ready) + Len(more)
          /\ \A i \in 1 .. Len(ready) + Len(more) :
                ready'[i] = IF i <= Len(ready) THEN ready[i] ELSE more[i - Len(ready)]
      BY <2>2, <2>3, <2>4, ConcatProperties, LenProperties
    <3>2. ASSUME NEW i \in 1 .. Len(ready) PROVE ready'[i] = ready[i]
      <4>1. i \in 1 .. Len(ready) + Len(more) /\ i <= Len(ready)
        BY <2>2, <3>1
      <4> QED
        BY <3>1, <4>1
    <3>3. ASSUME NEW i \in 1 .. k PROVE ready'[Len(ready) + i] = more[i]
      <4>1. /\ Len(ready) + i \in 1 .. Len(ready) + Len(more) /\ ~(Len(ready) + i <= Len(ready))
            /\ Len(ready) + i - Len(ready) = i
        BY <2>2, <3>1
      <4>2. ready'[Len(ready) + i] = more[Len(ready) + i - Len(ready)]
        BY <3>1, <4>1
      <4> QED
        BY <4>1, <4>2
    <3> QED
      BY <2>2, <3>1, <3>2, <3>3
  <2> QED
    BY <1>1, <1>2, <2>1, <2>5
<1>14. PICK ended \in BOOLEAN : ended = nonsense
  OBVIOUS
<1>15. IF ended THEN Ended(s) ELSE Intact
  <2>1. nonsense => rest # <<>> /\ rest[1] = Bad
    <3> SUFFICES ASSUME nonsense PROVE rest # <<>> /\ rest[1] = Bad
      OBVIOUS
    <3>1. Len(rest) = 1 /\ w + 1 = 2 * k + 1
      BY <1>6, <1>9, <1>10
    <3>2. 1 \in 1 .. Len(rest)
      BY <3>1
    <3>3. rest[1] = b[2 * k + 1]
      BY <1>10, <3>2
    <3>4. rest # <<>>
      <4>1. Len(<<>>) = 0 /\ 0 # 1
        OBVIOUS
      <4> QED
        BY <3>1, <4>1, Zenon
    <3> QED
      BY <1>6, <3>1, <3>3, <3>4, Zenon
  <2>2. ~nonsense /\ rest # <<>> => rest[1] # Bad
    <3> SUFFICES ASSUME ~nonsense, rest # <<>> PROVE rest[1] # Bad
      OBVIOUS
    <3>1. Len(rest) >= 1
      BY <1>10
    <3>2. 2 * k + 1 \in 1 .. w /\ rest[1] = b[2 * k + 1]
      BY <1>6, <1>9, <1>10, <3>1
    <3>3. b[2 * k + 1] = 2 * g + (2 * k + 1)
      BY <1>6, <3>2
    <3> QED
      BY <3>2, <3>3 DEF Bad
  <2>3. Delete(s) => Ended(s)
    BY DEF Delete, Disconnected, Ended
  <2> QED
    BY <1>11, <1>14, <2>1, <2>2, <2>3 DEF Intact
<1>16. /\ sent' \in [Conns -> Int] /\ got' \in [Conns -> Nat]
       /\ sent'[c] = x + n /\ got'[c] = g + k
       /\ \A d \in Conns : d # c => sent'[d] = sent[d] /\ got'[d] = got[d]
  BY <1>1, <1>2, <1>3, <1>11 DEF Advances, IInv, NetTypeOK
<1>17. /\ buf' \in [Slots -> Seq(Int)] /\ buf'[s] = rest /\ \A t \in Slots : t # s => buf'[t] = buf[t]
  BY <1>10, <1>11 DEF IInv, NetTypeOK
<1>18. ~nonsense => Len(rest) = Held(c)' /\ \A i \in 1 .. Len(rest) : rest[i] = 2 * got'[c] + i
  <2> SUFFICES ASSUME ~nonsense
               PROVE  Len(rest) = Held(c)' /\ \A i \in 1 .. Len(rest) : rest[i] = 2 * got'[c] + i
    OBVIOUS
  <2>1. Held(c)' = x + n - 2 * (g + k)
    BY <1>16 DEF Held, Ask
  <2>2. ASSUME NEW i \in 1 .. Len(rest) PROVE rest[i] = 2 * (g + k) + i
    <3>1. 2 * k + i \in 1 .. w /\ rest[i] = b[2 * k + i]
      BY <1>6, <1>9, <1>10, <2>2
    <3>2. b[2 * k + i] = 2 * g + (2 * k + i)
      BY <1>6, <3>1
    <3> QED
      BY <3>1, <3>2
  <2>3. Len(rest) = x + n - 2 * (g + k)
    BY <1>5, <1>6, <1>10
  <2> QED
    BY <1>16, <2>1, <2>2, <2>3
<1>19. 2 * (g + k) <= x + n
  BY <1>5, <1>9
<1>20. ASSUME NEW d \in Conns
       PROVE  IF d = conn[s]
              THEN /\ sent'[d] >= sent[d] /\ got'[d] = got[d] + k
                   /\ k > 0 => 2 * (got[d] + k) <= sent'[d]
                   /\ ~ended => /\ Len(buf'[s]) = Held(d)'
                                /\ \A i \in 1 .. Len(buf'[s]) : buf'[s][i] = 2 * got'[d] + i
              ELSE sent'[d] = sent[d] /\ got'[d] = got[d]
  <2>1. CASE d = c
    <3>1. sent'[c] >= sent[c]
      BY <1>3, <1>16
    <3> QED
      BY <1>1, <1>2, <1>14, <1>16, <1>17, <1>18, <1>19, <2>1, <3>1
  <2>2. CASE d # c
    BY <1>1, <1>16, <2>2
  <2> QED
    BY <2>1, <2>2
<1>21. Moves(s, k, ended)
  BY <1>13, <1>15, <1>16, <1>17, <1>20 DEF Moves, LQuiet
<1> QED
  BY <1>21

LEMMA HandingRead ==
    ASSUME IInv, NEW s \in Slots, cxt[s] = "handing", Found(s), ~stopping[s], lpc = <<>>,
           NEW n \in Nat, NEW nonsense \in BOOLEAN, NEW b, Joins(buf[s], sent[conn[s]], n, nonsense, b),
           MaySend(conn[s], n, nonsense), Handshake(s, b), Advances(s, n),
           UNCHANGED <<proto, mayBreak, used, conn, apc, msg, tpc, nconn, up, written>>
    PROVE  Asks(s) \/ \E ended \in BOOLEAN :
                         /\ Moves(s, 0, ended) /\ UNCHANGED <<live, stage>>
<1>1. PICK c \in Conns : c = conn[s]
  BY Places
<1>2. got[c] = 0 /\ proto = "ws" /\ written[c] = <<>> /\ sent[c] \in Int /\ sent[c] >= -1
  <2>1. got[c] = 0 /\ proto = "ws" /\ sent[c] >= Ask - 1
    BY <1>1 DEF IInv, StreamInv
  <2>2. written[c] = <<>>
    <3>1. lpc # <<s>>
      OBVIOUS
    <3> QED
      BY <1>1, <3>1 DEF IInv, StreamInv
  <2>3. sent[c] \in Int
    BY DEF IInv, NetTypeOK
  <2> QED
    BY <2>1, <2>2, <2>3 DEF Ask
<1>3. ~Shaken(c)
  BY <1>2 DEF Shaken
<1>4. /\ buf[s] \in Seq(Int) /\ Len(buf[s]) = Held(c) /\ \A i \in 1 .. Len(buf[s]) : buf[s][i] = i
  <2>1. buf[s] \in Seq(Int)
    BY DEF IInv, NetTypeOK
  <2>2. Len(buf[s]) = Held(c) /\ \A i \in 1 .. Len(buf[s]) : buf[s][i] = 2 * got[c] + i
    BY <1>1 DEF IInv, BufferInv
  <2> QED
    BY <1>2, <2>1, <2>2
<1>5. /\ b \in Seq(Int) /\ Len(buf[s]) \in Nat /\ Len(b) = Len(buf[s]) + n + (IF nonsense THEN 1 ELSE 0)
      /\ \A i \in 1 .. Len(buf[s]) : b[i] = buf[s][i]
      /\ \A i \in 1 .. n : b[Len(buf[s]) + i] = sent[c] + i
      /\ nonsense => b[Len(buf[s]) + n + 1] = Bad
  <2>1. PICK a \in Seq(Int) : a = buf[s]
    BY <1>4
  <2>2. PICK x \in Int : x = sent[c]
    BY <1>2
  <2>3. Joins(a, x, n, nonsense, b)
    BY <1>1, <2>1, <2>2
  <2>4. /\ b \in Seq(Int) /\ Len(a) \in Nat /\ Len(b) = Len(a) + n + (IF nonsense THEN 1 ELSE 0)
        /\ \A i \in 1 .. Len(a) : b[i] = a[i]
        /\ \A i \in 1 .. n : b[Len(a) + i] = x + i
        /\ nonsense => b[Len(a) + n + 1] = Bad
    BY <2>3, Joined
  <2> QED
    BY <2>1, <2>2, <2>4, Zenon
<1>6. n > 0 \/ nonsense
  BY DEF MaySend
<1>7. nonsense => n = 0 /\ sent[c] = -1
  BY <1>1, <1>2, <1>3 DEF MaySend, Ask
<1>8. /\ sent' \in [Conns -> Int] /\ got' = got /\ got \in [Conns -> Nat] /\ ready' = ready
      /\ ready \in Seq(NodeSet) /\ Len(ready) \in Nat
      /\ \A d \in Conns : sent'[d] = IF d = c THEN sent[c] + n ELSE sent[d]
  <2>1. got' = got /\ ready' = ready
    BY DEF Handshake
  <2>2. sent \in [Conns -> Int] /\ got \in [Conns -> Nat] /\ ready \in Seq(NodeSet)
    BY DEF IInv, NetTypeOK
  <2>3. sent' = [sent EXCEPT ![c] = sent[c] + n] /\ sent[c] + n \in Int
    BY <1>1, <1>2 DEF Advances
  <2>4. sent' \in [Conns -> Int] /\ \A d \in Conns : sent'[d] = IF d = c THEN sent[c] + n ELSE sent[d]
    BY <2>2, <2>3
  <2>5. Len(ready) \in Nat
    BY <2>2
  <2> QED
    BY <2>1, <2>2, <2>4, <2>5
<1>9. Len(b) >= 1 /\ Head(b) = b[1]
  <2>1. Len(b) >= 1
    <3>1. PICK m \in Nat : m = Len(buf[s])
      BY <1>5
    <3>2. CASE nonsense
      <4>1. Len(b) = m + n + 1
        BY <1>5, <3>1, <3>2
      <4> QED
        BY <4>1
    <3>3. CASE ~nonsense
      <4>1. Len(b) = m + n + 0 /\ n > 0
        BY <1>5, <1>6, <3>1, <3>3
      <4> QED
        BY <4>1
    <3> QED
      BY <3>2, <3>3
  <2>2. Head(b) = b[1]
    OBVIOUS
  <2> QED
    BY <2>1, <2>2
<1> DEFINE left == IF Head(b) = Ask THEN Tail(b) ELSE b
<1>10. left \in Seq(Int)
  <2>1. b # <<>>
    BY <1>9
  <2>2. Tail(b) \in Seq(Int)
    BY <1>5, <2>1, HeadTailProperties
  <2> QED
    BY <1>5, <2>2
<1>11. buf' = [buf EXCEPT ![s] = left] /\ buf \in [Slots -> Seq(Int)]
  BY DEF Handshake, IInv, NetTypeOK
<1> HIDE DEF left
<1>12. /\ buf' \in [Slots -> Seq(Int)] /\ buf'[s] = left /\ \A t \in Slots : t # s => buf'[t] = buf[t]
  BY <1>10, <1>11
<1>13. Delete(s) => Ended(s)
  BY DEF Delete, Disconnected, Ended
\* a session that ends, or waits on
<1>14. ASSUME NEW ended \in BOOLEAN, IF ended THEN Ended(s) ELSE Intact, LQuiet, UNCHANGED <<live, queue>>,
              ~ended => Len(left) = sent[c] + n /\ sent[c] + n >= 0 /\ \A i \in 1 .. Len(left) : left[i] = i
       PROVE  Moves(s, 0, ended)
  <2>1. ASSUME NEW d \in Conns
        PROVE  IF d = conn[s]
               THEN /\ sent'[d] >= sent[d] /\ got'[d] = got[d] + 0
                    /\ 0 > 0 => 2 * (got[d] + 0) <= sent'[d]
                    /\ ~ended => /\ Len(buf'[s]) = Held(d)'
                                 /\ \A i \in 1 .. Len(buf'[s]) : buf'[s][i] = 2 * got'[d] + i
               ELSE sent'[d] = sent[d] /\ got'[d] = got[d]
    <3>1. CASE d = c
      <4>1. sent'[c] >= sent[c] /\ got'[c] = got[c] + 0 /\ ~(0 > 0)
        BY <1>2, <1>8
      <4>2. ~ended => Len(buf'[s]) = Held(c)' /\ \A i \in 1 .. Len(buf'[s]) : buf'[s][i] = 2 * got'[c] + i
        <5> SUFFICES ASSUME ~ended
                     PROVE  Len(left) = Held(c)' /\ \A i \in 1 .. Len(left) : left[i] = 2 * got'[c] + i
          BY <1>12
        <5>1. got'[c] = 0 /\ sent'[c] = sent[c] + n /\ sent'[c] >= 0
          BY <1>2, <1>8, <1>14
        <5>2. Held(c)' = sent[c] + n - 2 * 0
          <6>1. sent[c] + n \in Int /\ ~(sent'[c] < Ask)
            BY <1>2, <5>1 DEF Ask
          <6>2. Held(c)' = sent'[c] - 2 * got'[c]
            BY <6>1 DEF Held
          <6> QED
            BY <1>2, <5>1, <6>2
        <5>3. Len(left) = Held(c)'
          BY <1>2, <1>14, <5>2
        <5>4. \A i \in 1 .. Len(left) : left[i] = 2 * 0 + i
          BY <1>10, <1>14
        <5> QED
          BY <5>1, <5>3, <5>4
      <4> QED
        BY <1>1, <3>1, <4>1, <4>2
    <3>2. CASE d # c
      BY <1>1, <1>8, <3>2
    <3> QED
      BY <3>1, <3>2
  <2>2. Len(ready) = Len(ready) + 0 /\ 1 .. 0 = {} /\ ~(0 > 0)
    BY <1>8
  <2>3. /\ ready' \in Seq(NodeSet) /\ Len(ready') = Len(ready) + 0
        /\ \A i \in 1 .. Len(ready) : ready'[i] = ready[i]
        /\ \A i \in 1 .. 0 : ready'[Len(ready) + i] = Node(s, got[conn[s]] + i)
    BY <1>8, <2>2
  <2>4. got' \in [Conns -> Nat] /\ sent' \in [Conns -> Int]
    BY <1>8
  <2> QED
    BY <1>12, <1>14, <2>1, <2>2, <2>3, <2>4, Zenon DEF Moves
<1>15. CASE sent[c] = -1 /\ nonsense
  <2>1. Head(b) = Bad /\ Bad # Ask /\ ~(Bad > Ask)
    <3>1. Len(buf[s]) + n + 1 = 1
      BY <1>4, <1>7, <1>15 DEF Held, Ask
    <3> QED
      BY <1>5, <1>9, <1>15, <3>1 DEF Bad, Ask
  <2>2. Delete(s) /\ UNCHANGED <<wqueue, lpc>>
    BY <2>1 DEF Handshake
  <2>3. Moves(s, 0, TRUE)
    BY <1>13, <1>14, <2>2 DEF LQuiet, wqueue
  <2> QED
    BY <2>2, <2>3 DEF wqueue
<1>16. CASE sent[c] = -1 /\ ~nonsense
  <2>1. /\ Len(buf[s]) = 0 /\ Len(b) = n /\ n >= 1 /\ \A i \in 1 .. n : b[i] = i - 1
    <3>1. Len(buf[s]) = 0
      BY <1>4, <1>16 DEF Held, Ask
    <3>2. Len(b) = n /\ n >= 1
      BY <1>5, <1>6, <1>16, <3>1
    <3>3. \A i \in 1 .. n : b[i] = i - 1
      BY <1>5, <1>16, <3>1
    <3> QED
      BY <3>1, <3>2, <3>3
  <2>2. Head(b) = Ask /\ Ask # Bad /\ ~(Ask > Ask)
    BY <1>9, <2>1 DEF Ask, Bad
  <2>3. \/ /\ Push(Node(s, Hand)) /\ stage' = (IF Direct THEN "async" ELSE stage)
           /\ Intact /\ UNCHANGED lpc
        \/ Delete(s) /\ lpc' = <<0>> /\ UNCHANGED wqueue
    BY <2>2, Zenon DEF Handshake, Intact
  <2>4. Len(left) = n - 1 /\ \A i \in 1 .. n - 1 : left[i] = i
    <3>1. left = Tail(b)
      BY <2>2 DEF left
    <3>2. Len(left) = n - 1 /\ \A i \in 1 .. n - 1 : left[i] = b[i + 1]
      BY <1>5, <2>1, <3>1
    <3>3. \A i \in 1 .. n - 1 : b[i + 1] = (i + 1) - 1 /\ (i + 1) - 1 = i
      BY <2>1
    <3> QED
      BY <3>2, <3>3
  <2>5. CASE /\ Push(Node(s, Hand)) /\ stage' = (IF Direct THEN "async" ELSE stage)
             /\ Intact /\ UNCHANGED lpc
    <3>1. /\ n - 1 \in Nat
          /\ \A d \in Conns : sent'[d] = IF d = conn[s] THEN n - 1 ELSE sent[d]
      BY <1>1, <1>8, <1>16, <2>1
    <3>2. Len(buf'[s]) = n - 1 /\ \A i \in 1 .. n - 1 : buf'[s][i] = i
      BY <1>12, <2>4
    <3>3. sent[conn[s]] = Ask - 1
      BY <1>1, <1>16 DEF Ask
    <3>4. Asks(s)
      BY <1>8, <1>12, <2>5, <3>1, <3>2, <3>3 DEF Asks
    <3> QED
      BY <3>4
  <2>6. CASE Delete(s) /\ lpc' = <<0>> /\ UNCHANGED wqueue
    <3>1. Moves(s, 0, TRUE)
      BY <1>13, <1>14, <2>6 DEF LQuiet, wqueue
    <3> QED
      BY <2>6, <3>1 DEF wqueue
  <2> QED
    BY <2>3, <2>5, <2>6
<1>17. CASE sent[c] # -1
  <2>1. sent[c] \in Nat /\ ~nonsense /\ n >= 1 /\ Len(buf[s]) = sent[c] /\ Len(b) = sent[c] + n
    <3>1. sent[c] \in Nat /\ ~nonsense /\ n >= 1
      BY <1>2, <1>6, <1>7, <1>17
    <3>2. Len(buf[s]) = sent[c] - 2 * 0
      BY <1>2, <1>4, <3>1 DEF Held, Ask
    <3> QED
      BY <1>5, <3>1, <3>2
  <2>2. \A i \in 1 .. Len(b) : b[i] = i
    <3> SUFFICES ASSUME NEW i \in 1 .. Len(b) PROVE b[i] = i
      OBVIOUS
    <3>1. CASE i <= Len(buf[s])
      <4>1. i \in 1 .. Len(buf[s])
        BY <1>5, <3>1
      <4> QED
        BY <1>4, <1>5, <4>1
    <3>2. CASE ~(i <= Len(buf[s]))
      <4>1. i - Len(buf[s]) \in 1 .. n /\ Len(buf[s]) + (i - Len(buf[s])) = i
        BY <2>1, <3>2
      <4>2. b[i] = sent[c] + (i - Len(buf[s]))
        BY <1>5, <4>1
      <4> QED
        BY <2>1, <4>2
    <3> QED
      BY <3>1, <3>2
  <2>3. Head(b) = 1 /\ 1 # Ask /\ 1 # Bad
    BY <1>9, <2>2 DEF Ask, Bad
  <2>4. UNCHANGED <<wqueue, stopping, cxt, calls, lpc>> /\ left = b
    BY <2>3 DEF Handshake, left
  <2>5. Moves(s, 0, FALSE)
    <3>1. Len(left) = sent[c] + n /\ sent[c] + n >= 0 /\ \A i \in 1 .. Len(left) : left[i] = i
      BY <2>1, <2>2, <2>4
    <3> QED
      BY <1>14, <2>4, <3>1 DEF LQuiet, wqueue, Intact
  <2> QED
    BY <2>4, <2>5 DEF wqueue
<1> QED
  BY <1>15, <1>16, <1>17

LEMMA LNoticeStep == ASSUME IInv, LNotice PROVE IInv'
<1>1. PICK s \in 0 .. NumSlots : lpc = <<s>>
  BY DEF LNotice, IInv, NetTypeOK
<1>2. /\ lpc' = <<>> /\ tpc \in {"sleep", "woken"} /\ tpc' = "woken"
      /\ UNCHANGED <<proto, mayBreak, used, conn, stopping, buf, sent, ready, apc, msg, live, queue, stage,
                     nconn, got, up, written>>
      /\ IF s # 0 /\ cxt[s] = "handing"
         THEN cxt' = [cxt EXCEPT ![s] = "working"] /\ calls' = [calls EXCEPT ![conn[s]] = Append(@, "connected")]
         ELSE UNCHANGED <<cxt, calls>>
  BY <1>1 DEF LNotice, NoticeT, TSleeps, sessions, wqueue
<1>3. \A x : /\ Under(x)' <=> Under(x)
             /\ IsLive(x)' <=> IsLive(x)
             /\ IsSent(x)' <=> IsSent(x)
             /\ InReady(x)' <=> InReady(x)
  BY <1>2 DEF Under, IsLive, InQueue, IsMsg, IsSent, InReady
<1>4. StageInv'
  BY <1>2 DEF IInv, StageInv
<1>5. OrderInv'
  BY <1>2, <1>3, OrderFrame DEF IInv
<1>6. \A t \in Slots : lpc' # <<t>> /\ (lpc = <<t>> <=> t = s)
  BY <1>1, <1>2
<1>7. CASE ~(s # 0 /\ cxt[s] = "handing")
  <2>1. UNCHANGED <<cxt, calls>>
    BY <1>2, <1>7
  <2>2. NetTypeOK'
    BY <1>2, <2>1 DEF IInv, NetTypeOK
  <2>3. SlotInv' /\ BufferInv' /\ ReadyInv'
    BY <1>2, <1>3, <2>1, SlotFrame, BufferFrame, ReadyFrame DEF IInv, sessions, nethistory
  <2>4. StreamInv'
    <3>1. \A t \in Slots : cxt[t] = "handing" => lpc # <<t>>
      BY <1>6, <1>7 DEF Slots
    <3> QED
      BY <1>2, <1>6, <2>1, <3>1 DEF IInv, StreamInv
  <2> QED
    BY <1>4, <1>5, <2>2, <2>3, <2>4 DEF IInv
<1>8. CASE s # 0 /\ cxt[s] = "handing"
  <2>1. s \in Slots /\ cxt[s] = "handing" /\ conn[s] \in Conns /\ conn[s] <= nconn
    BY <1>8, Places, NetAssumption DEF Slots, IInv, SlotInv
  <2>2. proto = "ws" /\ calls[conn[s]] = <<>> /\ written[conn[s]] = <<Hand>>
    BY <1>1, <2>1 DEF IInv, StreamInv
  <2>3. sent[conn[s]] >= Ask /\ <<Hand>> # <<>>
    <3>1. Len(<<Hand>>) = 1 /\ Len(<<>>) = 0
      OBVIOUS
    <3>2. <<Hand>> # <<>>
      BY <3>1
    <3> QED
      BY <2>1, <2>2, <3>2 DEF IInv, OrderInv
  <2>4. \A t \in Slots : cxt'[t] = IF t = s THEN "working" ELSE cxt[t]
    BY <1>2, <1>8, <2>1 DEF IInv, NetTypeOK
  <2>5. /\ calls' = [calls EXCEPT ![conn[s]] = <<"connected">>]
        /\ \A c \in Conns : calls'[c] = IF c = conn[s] THEN <<"connected">> ELSE calls[c]
    <3>1. Append(calls[conn[s]], "connected") = <<"connected">>
      BY <2>2
    <3>2. calls' = [calls EXCEPT ![conn[s]] = <<"connected">>]
      BY <1>2, <1>8, <3>1
    <3> QED
      BY <2>1, <3>2 DEF IInv, NetTypeOK
  <2>6. NetTypeOK'
    <3>1. <<"connected">> \in Seq({"connected", "disconnect"})
      OBVIOUS
    <3>2. calls' \in [Conns -> Seq({"connected", "disconnect"})]
      BY <2>5, <3>1 DEF IInv, NetTypeOK
    <3>3. cxt' = [cxt EXCEPT ![s] = "working"]
      BY <1>2, <1>8
    <3>4. cxt' \in [Slots -> {"none", "handing", "working"}]
      BY <3>3 DEF IInv, NetTypeOK
    <3> QED
      BY <1>2, <3>2, <3>4 DEF IInv, NetTypeOK
  <2>7. SlotInv'
    <3>1. \A c \in Conns : c > nconn => calls'[c] = <<>>
      <4>1. \A c \in Conns : c > nconn => c # conn[s]
        BY <2>1, NetAssumption DEF IInv, NetTypeOK, Conns
      <4> QED
        BY <2>5, <4>1 DEF IInv, SlotInv
    <3> QED
      BY <1>2, <1>3, <2>1, <2>4, <3>1 DEF IInv, SlotInv
  <2>8. \A t \in Slots : t # s /\ cxt[t] # "none" => conn[t] \in Conns /\ conn[t] # conn[s]
    BY <2>1, Places DEF IInv, SlotInv, Conns
  <2>9. StreamInv'
    <3>1. ASSUME NEW t \in Slots, cxt'[t] = "working"
          PROVE  /\ calls'[conn[t]] = <<"connected">> /\ sent[conn[t]] >= Ask
                 /\ proto = "ws" => written[conn[t]] # <<>>
      <4>1. CASE t = s
        BY <2>1, <2>2, <2>3, <2>5, <4>1
      <4>2. CASE t # s
        <5>1. cxt[t] = "working" /\ conn[t] \in Conns /\ conn[t] # conn[s]
          BY <2>4, <2>8, <3>1, <4>2
        <5> QED
          BY <2>5, <5>1 DEF IInv, StreamInv
      <4> QED
        BY <4>1, <4>2
    <3>2. ASSUME NEW t \in Slots, cxt'[t] = "handing"
          PROVE  /\ proto = "ws" /\ got[conn[t]] = 0
                 /\ calls'[conn[t]] = <<>> /\ up[conn[t]] = <<>> /\ written[conn[t]] = <<>>
      <4>1. t # s /\ cxt[t] = "handing" /\ conn[t] \in Conns /\ conn[t] # conn[s] /\ lpc # <<t>>
        BY <1>6, <2>4, <2>8, <3>2
      <4> QED
        BY <2>5, <4>1 DEF IInv, StreamInv
    <3>3. \A c \in Conns : /\ sent[c] >= Ask - 1 /\ (proto = "tcp" => sent[c] >= Ask)
                           /\ proto = "ws" /\ got[c] > 0 => written[c] # <<>>
                           /\ got[c] = 0 \/ 2 * got[c] <= sent[c]
      BY DEF IInv, StreamInv
    <3>4. \A c \in Conns : /\ calls'[c] \in {<<>>, <<"connected">>, <<"connected", "disconnect">>}
                           /\ up[c] # <<>> => calls'[c] # <<>>
      BY <2>5 DEF IInv, StreamInv
    <3> QED
      BY <1>2, <1>6, <3>1, <3>2, <3>3, <3>4 DEF StreamInv
  <2>10. ReadyInv'
    <3>1. \A t \in Slots : cxt'[t] # "none" => cxt[t] # "none"
      BY <2>1, <2>4
    <3> QED
      BY <1>2, <1>3, <3>1 DEF IInv, ReadyInv
  <2>11. BufferInv'
    <3>1. \A t \in Slots : cxt'[t] # "none" => cxt[t] # "none"
      BY <2>1, <2>4
    <3> QED
      BY <1>2, <3>1 DEF IInv, BufferInv, Held
  <2> QED
    BY <1>4, <1>5, <2>6, <2>7, <2>9, <2>10, <2>11 DEF IInv
<1> QED
  BY <1>7, <1>8
-----------------------------------------------------------------------------
(***************************************************************************)
(* The steps of L: a new connection.                                       *)
(***************************************************************************)
LEMMA NewConnectStep == ASSUME IInv, NewConnect PROVE IInv'
<1> DEFINE c0 == nconn + 1
<1>0. CASE \E expired \in SUBSET Expirable : FreeSlots(expired) = {} /\ UNCHANGED <<sessions, cxt, buf, calls>>
  <2>1. /\ UNCHANGED <<proto, mayBreak, used, conn, stopping, cxt, buf, sent, ready, apc, msg, live, queue, stage,
                       tpc, lpc, got, up, calls, written>>
        /\ nconn' = nconn + 1 /\ nconn < MaxConns
    BY <1>0 DEF NewConnect, sessions, wqueue
  <2>2. nconn \in Nat /\ nconn' \in 0 .. MaxConns
    BY <2>1, NetAssumption DEF IInv, NetTypeOK
  <2>3. NetTypeOK' /\ StageInv'
    BY <2>1, <2>2 DEF IInv, NetTypeOK, StageInv
  <2>4. \A x : /\ Under(x)' <=> Under(x)
               /\ IsLive(x)' <=> IsLive(x)
               /\ IsSent(x)' <=> IsSent(x)
               /\ InReady(x)' <=> InReady(x)
    BY <2>1 DEF Under, IsLive, InQueue, IsMsg, IsSent, InReady
  <2>5. BufferInv' /\ StreamInv' /\ ReadyInv' /\ OrderInv'
    BY <2>1, <2>4, BufferFrame, StreamFrame, ReadyFrame, OrderFrame DEF IInv, LQuiet
  <2>6. SlotInv'
    <3>1. \A t \in Slots : conn[t] <= nconn'
      BY <2>1, <2>2, Places DEF IInv, SlotInv
    <3>2. \A c \in Conns : c > nconn' => c > nconn
      BY <2>1, <2>2 DEF Conns
    <3> QED
      BY <2>1, <2>4, <3>1, <3>2 DEF IInv, SlotInv
  <2> QED
    BY <2>3, <2>5, <2>6 DEF IInv
<1> SUFFICES ASSUME ~\E expired \in SUBSET Expirable : FreeSlots(expired) = {} /\ UNCHANGED <<sessions, cxt, buf, calls>>
             PROVE  IInv'
  BY <1>0
<1>1. PICK expired \in SUBSET Expirable, s \in Slots :
        /\ s \in FreeSlots(expired)
        /\ used' = [t \in Slots |-> IF t = s THEN "on" ELSE IF t \in expired THEN "free" ELSE used[t]]
        /\ conn' = [conn EXCEPT ![s] = c0]
        /\ stopping' = [stopping EXCEPT ![s] = FALSE]
        /\ Connected(s)
  <2>1. \A expired \in SUBSET Expirable : FreeSlots(expired) \subseteq Slots
    BY DEF FreeSlots, Expirable
  <2> QED
    BY <2>1, Zenon DEF NewConnect
<1>2. /\ lpc = <<>> /\ nconn < MaxConns /\ nconn' = c0
      /\ UNCHANGED <<proto, mayBreak, sent, ready, apc, msg, live, queue, stage, tpc, lpc, got, up, written>>
      /\ buf' = [buf EXCEPT ![s] = <<>>]
      /\ cxt' = [cxt EXCEPT ![s] = IF proto = "ws" THEN "handing" ELSE "working"]
      /\ calls' = IF proto = "ws" THEN calls ELSE [calls EXCEPT ![c0] = <<"connected">>]
  BY <1>1 DEF NewConnect, Connected, wqueue
<1>3. /\ nconn \in Nat /\ c0 \in Nat /\ c0 \in Conns /\ c0 # 0 /\ c0 > nconn
      /\ got[c0] = 0 /\ sent[c0] <= Ask /\ sent[c0] \in Int
      /\ calls[c0] = <<>> /\ up[c0] = <<>> /\ written[c0] = <<>>
  <2>1. nconn \in Nat /\ c0 \in Nat /\ c0 \in Conns /\ c0 # 0 /\ c0 > nconn
    BY <1>2, NetAssumption DEF IInv, NetTypeOK, Conns
  <2>2. sent[c0] \in Int
    BY <2>1 DEF IInv, NetTypeOK
  <2> QED
    BY <2>1, <2>2 DEF IInv, SlotInv
<1> HIDE DEF c0
<1>4. \A t \in Slots : conn[t] \in Nat /\ conn[t] # c0
  BY <1>3, Places DEF IInv, SlotInv, c0
<1>5. used[s] # "on" /\ cxt[s] = "none" /\ \A t \in expired : t \in Slots /\ used[t] = "old" /\ cxt[t] = "none"
  <2>1. \A t \in expired : t \in Slots /\ used[t] = "old"
    BY DEF Expirable
  <2>2. used[s] # "on"
    BY <1>1, <2>1 DEF FreeSlots
  <2> QED
    BY <2>1, <2>2 DEF IInv, SlotInv
<1>6. \A x : Under(x) => x.slot \in Slots /\ x.slot # s /\ x.slot \notin expired /\ x.conn \in Conns
                         /\ x.conn = conn[x.slot] /\ x.conn # c0
  <2> SUFFICES ASSUME NEW x, Under(x) PROVE x.slot # s /\ x.slot \notin expired
    BY <1>4, Places
  <2>1. used[x.slot] # "free"
    BY DEF IInv, SlotInv
  <2>2. x.slot \in Waiting
    BY DEF Under, IsLive, InQueue, IsMsg, InReady, Waiting
  <2>3. x.slot \notin expired
    BY <2>2 DEF Expirable
  <2> QED
    BY <1>1, <2>1, <2>3 DEF FreeSlots
<1>7. \A x : /\ Under(x)' <=> Under(x)
             /\ IsLive(x)' <=> IsLive(x)
             /\ IsSent(x)' <=> IsSent(x)
             /\ InReady(x)' <=> InReady(x)
  BY <1>2 DEF Under, IsLive, InQueue, IsMsg, IsSent, InReady
<1>8. \A t \in Slots :
        /\ conn'[t] = IF t = s THEN c0 ELSE conn[t]
        /\ stopping'[t] = IF t = s THEN FALSE ELSE stopping[t]
        /\ cxt'[t] = IF t = s THEN (IF proto = "ws" THEN "handing" ELSE "working") ELSE cxt[t]
        /\ buf'[t] = IF t = s THEN <<>> ELSE buf[t]
        /\ used'[t] = IF t = s THEN "on" ELSE IF t \in expired THEN "free" ELSE used[t]
  BY <1>1, <1>2 DEF IInv, NetTypeOK
<1>9. \A c \in Conns : calls'[c] = IF c = c0 /\ proto # "ws" THEN <<"connected">> ELSE calls[c]
  BY <1>2 DEF IInv, NetTypeOK
<1>10. NetTypeOK'
  <2>1. <<"connected">> \in Seq({"connected", "disconnect"}) /\ <<>> \in Seq(Int)
    OBVIOUS
  <2>2. calls' \in [Conns -> Seq({"connected", "disconnect"})]
    BY <1>2, <1>3, <2>1 DEF IInv, NetTypeOK
  <2>3. buf' \in [Slots -> Seq(Int)]
    BY <1>2, <2>1 DEF IInv, NetTypeOK
  <2>4. conn' \in [Slots -> 0 .. MaxConns] /\ nconn' \in 0 .. MaxConns
    BY <1>1, <1>2, <1>3, NetAssumption DEF IInv, NetTypeOK, Conns
  <2>5. /\ used' \in [Slots -> {"free", "on", "old"}] /\ stopping' \in [Slots -> BOOLEAN]
        /\ cxt' \in [Slots -> {"none", "handing", "working"}]
    BY <1>1, <1>2 DEF IInv, NetTypeOK
  <2> QED
    BY <1>2, <2>2, <2>3, <2>4, <2>5 DEF IInv, NetTypeOK
<1>11. StageInv'
  BY <1>2 DEF IInv, StageInv
<1>12. SlotInv'
  <2>1. ASSUME NEW t \in Slots, NEW u \in Slots, conn'[t] = conn'[u], conn'[t] # 0 PROVE t = u
    <3>1. (t = s <=> u = s) /\ (t # s => conn[t] = conn[u] /\ conn[t] # 0)
      BY <1>4, <1>8, <2>1
    <3>2. t # s => t = u
      BY <3>1 DEF IInv, SlotInv
    <3> QED
      BY <3>1, <3>2
  <2>2. ASSUME NEW t \in Slots
        PROVE  conn'[t] <= nconn' /\ (used'[t] = "on" => conn'[t] # 0) /\ (used'[t] = "old" => stopping'[t])
    <3>0. /\ conn[t] <= nconn /\ (used[t] = "on" => conn[t] # 0) /\ (used[t] = "old" => stopping[t])
          /\ conn[t] \in Nat /\ nconn' = nconn + 1 /\ c0 = nconn + 1
      BY <1>2, <1>4 DEF IInv, SlotInv, c0
    <3>1. CASE t = s
      <4>1. conn'[t] = c0 /\ used'[t] = "on"
        BY <1>8, <3>1
      <4> QED
        BY <1>3, <3>0, <4>1
    <3>2. CASE t # s
      <4>1. conn'[t] = conn[t] /\ stopping'[t] = stopping[t] /\ (used'[t] = used[t] \/ used'[t] = "free")
        BY <1>8, <3>2
      <4> QED
        BY <1>3, <3>0, <4>1
    <3> QED
      BY <3>1, <3>2
  <2>3. \A t \in Slots : cxt'[t] # "none" <=> used'[t] = "on" /\ ~stopping'[t]
    <3> SUFFICES ASSUME NEW t \in Slots PROVE cxt'[t] # "none" <=> used'[t] = "on" /\ ~stopping'[t]
      OBVIOUS
    <3>1. CASE t = s
      BY <1>8, <3>1
    <3>2. CASE t # s
      BY <1>5, <1>8, <3>2, ZenonT(40) DEF IInv, SlotInv
    <3> QED
      BY <3>1, <3>2
  <2>4. \A x : Under(x)' => /\ x \in NodeSet /\ x.conn = conn'[x.slot] /\ used'[x.slot] # "free"
                            /\ x.n <= got[x.conn] /\ sent[x.conn] >= Ask
    BY <1>6, <1>7, <1>8, ZenonT(40) DEF IInv, SlotInv
  <2>5. \A c \in Conns : c > nconn' => /\ got[c] = 0 /\ sent[c] <= Ask /\ calls'[c] = <<>>
                                       /\ up[c] = <<>> /\ written[c] = <<>>
    <3>1. \A c \in Conns : c > nconn' => c > nconn /\ c # c0
      BY <1>2, <1>3 DEF Conns, c0
    <3> QED
      BY <1>9, <3>1 DEF IInv, SlotInv
  <2> QED
    BY <1>2, <2>1, <2>2, <2>3, <2>4, <2>5 DEF SlotInv
<1>13. BufferInv'
  <2> DEFINE held(d) == IF sent[d] < Ask THEN 0 ELSE sent[d] - 2 * got[d]
  <2>1. ASSUME NEW t \in Slots, cxt'[t] # "none"
        PROVE  Len(buf'[t]) = held(conn'[t]) /\ \A i \in 1 .. Len(buf'[t]) : buf'[t][i] = 2 * got[conn'[t]] + i
    <3>1. CASE t = s
      <4>1. conn'[t] = c0 /\ buf'[t] = <<>>
        BY <1>8, <3>1
      <4>2. held(c0) = 0
        BY <1>3 DEF Ask
      <4>3. Len(<<>>) = 0 /\ 1 .. 0 = {}
        OBVIOUS
      <4> QED
        BY <4>1, <4>2, <4>3
    <3>2. CASE t # s
      <4>1. conn'[t] = conn[t] /\ buf'[t] = buf[t] /\ cxt[t] # "none"
        BY <1>8, <2>1, <3>2
      <4>2. Len(buf[t]) = held(conn[t]) /\ \A i \in 1 .. Len(buf[t]) : buf[t][i] = 2 * got[conn[t]] + i
        BY <4>1 DEF IInv, BufferInv, Held
      <4> QED
        BY <4>1, <4>2
    <3> QED
      BY <3>1, <3>2
  <2> QED
    BY <1>2, <2>1 DEF BufferInv, Held
<1>14. StreamInv'
  <2>1. ASSUME NEW t \in Slots, cxt'[t] = "working"
        PROVE  /\ calls'[conn'[t]] = <<"connected">> /\ sent[conn'[t]] >= Ask
               /\ proto = "ws" => written[conn'[t]] # <<>>
    <3>1. CASE t = s
      <4>1. proto # "ws" /\ conn'[t] = c0
        BY <1>8, <2>1, <3>1
      <4>2. sent[c0] >= Ask
        BY <1>3, <4>1 DEF IInv, NetTypeOK, StreamInv
      <4> QED
        BY <1>3, <1>9, <4>1, <4>2
    <3>2. CASE t # s
      <4>1. cxt[t] = "working" /\ conn'[t] = conn[t] /\ calls'[conn[t]] = calls[conn[t]]
        BY <1>4, <1>8, <1>9, <2>1, <3>2, Places
      <4> QED
        BY <4>1 DEF IInv, StreamInv
    <3> QED
      BY <3>1, <3>2
  <2>2. ASSUME NEW t \in Slots, cxt'[t] = "handing"
        PROVE  /\ proto = "ws" /\ got[conn'[t]] = 0
               /\ calls'[conn'[t]] = <<>> /\ up[conn'[t]] = <<>> /\ written[conn'[t]] = <<>>
    <3>1. CASE t = s
      BY <1>3, <1>8, <1>9, <2>2, <3>1
    <3>2. CASE t # s
      <4>1. cxt[t] = "handing" /\ conn'[t] = conn[t] /\ calls'[conn[t]] = calls[conn[t]]
        BY <1>4, <1>8, <1>9, <2>2, <3>2, Places
      <4>2. lpc # <<t>>
        BY <1>2
      <4> QED
        BY <4>1, <4>2 DEF IInv, StreamInv
    <3> QED
      BY <3>1, <3>2
  <2>3. \A c \in Conns : /\ calls'[c] \in {<<>>, <<"connected">>, <<"connected", "disconnect">>}
                         /\ up[c] # <<>> => calls'[c] # <<>>
    BY <1>9 DEF IInv, StreamInv
  <2>4. \A t \in Slots : lpc' # <<t>>
    BY <1>2
  <2>5. \A c \in Conns : /\ sent[c] >= Ask - 1 /\ (proto = "tcp" => sent[c] >= Ask)
                         /\ proto = "ws" /\ got[c] > 0 => written[c] # <<>>
                         /\ got[c] = 0 \/ 2 * got[c] <= sent[c]
    BY DEF IInv, StreamInv
  <2>6. UNCHANGED <<proto, sent, got, up, written>>
    BY <1>2
  <2> QED
    BY <2>1, <2>2, <2>3, <2>4, <2>5, <2>6 DEF StreamInv
<1>15. ReadyInv'
  <2>1. ASSUME NEW t \in Slots, cxt'[t] # "none", NEW n \in Len(up[conn'[t]]) + 1 .. got[conn'[t]]
        PROVE  \E i \in 1 .. Len(ready) : ready[i].conn = conn'[t] /\ ready[i].n = n
    <3>1. CASE t = s
      <4>1. conn'[t] = c0 /\ up[c0] = <<>> /\ got[c0] = 0
        BY <1>3, <1>8, <3>1
      <4>2. Len(up[conn'[t]]) = 0 /\ got[conn'[t]] = 0
        BY <4>1
      <4> QED
        BY <2>1, <4>2
    <3>2. CASE t # s
      <4>1. conn'[t] = conn[t] /\ cxt[t] # "none"
        BY <1>8, <2>1, <3>2
      <4>2. n \in Len(up[conn[t]]) + 1 .. got[conn[t]]
        BY <2>1, <4>1
      <4>3. \A m \in Len(up[conn[t]]) + 1 .. got[conn[t]] :
               \E i \in 1 .. Len(ready) : ready[i].conn = conn[t] /\ ready[i].n = m
        BY <4>1 DEF IInv, ReadyInv
      <4> QED
        BY <4>1, <4>2, <4>3, Zenon
    <3> QED
      BY <3>1, <3>2
  <2> QED
    BY <1>2, <1>7, <2>1 DEF IInv, ReadyInv
<1>16. OrderInv'
  BY <1>2, <1>7, OrderFrame DEF IInv
<1> QED
  BY <1>10, <1>11, <1>12, <1>13, <1>14, <1>15, <1>16 DEF IInv
LEMMA AsksStep == ASSUME IInv, NEW s \in Slots, Asks(s) PROVE IInv'
<1>1. /\ lpc = <<>> /\ conn[s] \in Conns /\ cxt[s] = "handing" /\ sent[conn[s]] < Ask /\ conn[s] <= nconn
      /\ used[s] = "on" /\ got[conn[s]] = 0
      /\ UNCHANGED <<proto, mayBreak, used, conn, stopping, cxt, ready, apc, msg, tpc, lpc,
                     nconn, got, up, calls, written>>
  BY Places DEF Asks, Intact, IInv, SlotInv, StreamInv, Ask
<1>2. PICK n \in Nat : /\ \A c \in Conns : sent'[c] = IF c = conn[s] THEN n ELSE sent[c]
                       /\ Len(buf'[s]) = n /\ \A i \in 1 .. n : buf'[s][i] = i
  BY DEF Asks
<1>3. PICK nd \in NodeSet : nd = Node(s, Hand) /\ nd.slot = s /\ nd.conn = conn[s] /\ nd.n = Hand /\ nd # None
  <2>1. Node(s, Hand) \in NodeSet /\ Node(s, Hand) # None
    BY <1>1, NodeIn DEF Hand
  <2>2. Node(s, Hand).slot = s /\ Node(s, Hand).conn = conn[s] /\ Node(s, Hand).n = Hand
    BY DEF Node
  <2> QED
    BY <2>1, <2>2
<1>4. Push(nd) /\ stage' = (IF Direct THEN "async" ELSE stage)
  BY <1>3 DEF Asks
<1>5. \A c \in Conns : /\ sent[c] \in Int /\ sent'[c] \in Int
                       /\ sent[c] >= Ask => sent'[c] = sent[c]
                       /\ sent'[c] >= Ask \/ sent'[c] = sent[c]
  BY <1>1, <1>2 DEF Asks, Ask, IInv, NetTypeOK
\* nothing of this connection is under way or written yet
<1>7. \A x : Under(x) => x.conn # conn[s]
  <2> SUFFICES ASSUME NEW x, Under(x), x.conn = conn[s] PROVE FALSE
    OBVIOUS
  <2>1. sent[x.conn] >= Ask /\ x.conn \in Conns
    BY Places DEF IInv, SlotInv
  <2> QED
    BY <1>1, <1>5, <2>1 DEF Ask
<1>8. written[conn[s]] = <<>>
  <2>1. lpc # <<s>>
    BY <1>1
  <2> QED
    BY <1>1, <2>1 DEF IInv, StreamInv
<1>9. /\ live' \in NodeSet \cup {None} /\ queue' \in Seq(NodeSet) /\ stage' \in {"none", "start", "async", "write"}
      /\ StageInv'
      /\ \A x : /\ IsLive(x)' => IsLive(x) \/ (x = nd /\ \A y : ~InQueue(y)')
                /\ InQueue(x)' => InQueue(x) \/ x = nd
                /\ IsMsg(x)' <=> IsMsg(x)
                /\ IsSent(x)' <=> IsSent(x)
                /\ InReady(x)' <=> InReady(x)
      /\ \A i, j \in 1 .. Len(queue') : i < j => Before(queue'[i], queue'[j])
  <2>0. \A x : /\ IsMsg(x)' <=> IsMsg(x)
               /\ IsSent(x)' <=> IsSent(x)
               /\ InReady(x)' <=> InReady(x)
    BY <1>1 DEF IsMsg, IsSent, InReady
  <2>1. CASE Direct
    <3>1. live = None /\ queue = <<>> /\ live' = nd /\ queue' = <<>> /\ stage' = "async"
      BY <1>4, <2>1 DEF Direct, Push
    <3>2. StageInv'
      BY <1>1, <1>3, <3>1 DEF IInv, StageInv
    <3>3. \A x : (IsLive(x)' => x = nd) /\ ~InQueue(x)'
      BY <3>1 DEF IsLive, InQueue
    <3>4. \A i, j \in 1 .. Len(queue') : i < j => Before(queue'[i], queue'[j])
      BY <3>1
    <3> QED
      BY <2>0, <3>1, <3>2, <3>3, <3>4
  <2>2. CASE ~Direct
    <3>1. UNCHANGED <<live, stage>> /\ queue' = Append(queue, nd)
      BY <1>4, <2>2 DEF Push
    <3>2. /\ queue \in Seq(NodeSet) /\ queue' \in Seq(NodeSet) /\ Len(queue) \in Nat
          /\ Len(queue') = Len(queue) + 1 /\ queue'[Len(queue) + 1] = nd
          /\ \A i \in 1 .. Len(queue) : queue'[i] = queue[i]
      BY <3>1 DEF IInv, NetTypeOK
    <3>3. StageInv'
      BY <1>1, <3>1 DEF IInv, StageInv
    <3>4. \A x : (IsLive(x)' <=> IsLive(x)) /\ (InQueue(x)' => InQueue(x) \/ x = nd)
      BY <3>1, <3>2 DEF IsLive, InQueue
    <3>5. \A i, j \in 1 .. Len(queue') : i < j => Before(queue'[i], queue'[j])
      <4>1. \A i \in 1 .. Len(queue) : Before(queue[i], nd)
        <5>1. \A i \in 1 .. Len(queue) : Under(queue[i])
          BY DEF Under, InQueue
        <5> QED
          BY <1>3, <1>7, <5>1 DEF Before
      <4> QED
        BY <3>2, <4>1 DEF IInv, OrderInv
    <3>6. live' \in NodeSet \cup {None} /\ stage' \in {"none", "start", "async", "write"}
      BY <3>1 DEF IInv, NetTypeOK
    <3> QED
      BY <2>0, <3>2, <3>3, <3>4, <3>5, <3>6
  <2> QED
    BY <2>1, <2>2
<1>10. NetTypeOK'
  BY <1>1, <1>9 DEF Asks, IInv, NetTypeOK
<1>11. SlotInv'
  <2>1. ASSUME NEW x, Under(x)'
        PROVE  /\ x \in NodeSet /\ x.conn = conn[x.slot] /\ used[x.slot] # "free"
               /\ x.n <= got[x.conn] /\ sent'[x.conn] >= Ask
    <3>1. Under(x) \/ x = nd
      BY <1>9, <2>1 DEF Under
    <3>2. CASE Under(x)
      <4>1. /\ x.conn \in Conns /\ x \in NodeSet /\ x.conn = conn[x.slot] /\ used[x.slot] # "free"
            /\ x.n <= got[x.conn] /\ sent[x.conn] >= Ask
        BY <3>2, Places DEF IInv, SlotInv
      <4> QED
        BY <1>5, <4>1
    <3>3. CASE x = nd
      <4>1. nd \in NodeSet /\ nd.slot = s /\ nd.conn = conn[s] /\ nd.n = 0 /\ used[s] # "free"
        BY <1>1, <1>3 DEF Hand
      <4>2. sent'[conn[s]] >= Ask /\ nd.n <= got[conn[s]]
        BY <1>1, <1>2, <4>1 DEF Ask
      <4> QED
        BY <3>3, <4>1, <4>2
    <3> QED
      BY <3>1, <3>2, <3>3
  <2>2. \A c \in Conns : c > nconn => sent'[c] = sent[c]
    <3>1. \A c \in Conns : c > nconn => c # conn[s]
      BY <1>1, NetAssumption DEF IInv, NetTypeOK, Conns
    <3> QED
      BY <1>2, <3>1
  <2> QED
    BY <1>1, <2>1, <2>2 DEF IInv, SlotInv
<1>12. \A t \in Slots : /\ t # s => buf'[t] = buf[t]
                        /\ t # s /\ cxt[t] # "none" => conn[t] \in Conns /\ sent'[conn[t]] = sent[conn[t]]
  <2>1. \A t \in Slots : t # s /\ cxt[t] # "none" => conn[t] \in Conns /\ conn[t] # conn[s]
    BY <1>1, Places DEF IInv, SlotInv, Conns
  <2>2. \A t \in Slots : t # s => buf'[t] = buf[t]
    BY DEF Asks
  <2> QED
    BY <1>2, <2>1, <2>2
<1>16. BufferInv'
  <2> DEFINE held(d) == IF sent'[d] < Ask THEN 0 ELSE sent'[d] - 2 * got[d]
  <2>1. ASSUME NEW t \in Slots, cxt[t] # "none"
        PROVE  Len(buf'[t]) = held(conn[t]) /\ \A i \in 1 .. Len(buf'[t]) : buf'[t][i] = 2 * got[conn[t]] + i
    <3>1. CASE t = s
      <4>1. held(conn[t]) = n
        BY <1>1, <1>2, <3>1 DEF Ask
      <4>2. \A i \in 1 .. n : buf'[t][i] = 2 * 0 + i
        BY <1>2, <3>1
      <4> QED
        BY <1>1, <1>2, <3>1, <4>1, <4>2
    <3>2. CASE t # s
      <4>1. buf'[t] = buf[t] /\ sent'[conn[t]] = sent[conn[t]]
        BY <1>12, <2>1, <3>2
      <4> QED
        BY <2>1, <4>1 DEF IInv, BufferInv, Held
    <3> QED
      BY <3>1, <3>2
  <2> QED
    BY <1>1, <2>1 DEF BufferInv, Held
<1>13. StreamInv'
  <2>1. ASSUME NEW t \in Slots, cxt[t] = "working" PROVE sent'[conn[t]] >= Ask
    <3>1. sent[conn[t]] >= Ask /\ conn[t] \in Conns
      BY <2>1, Places DEF IInv, StreamInv
    <3> QED
      BY <1>5, <3>1
  <2>2. ASSUME NEW c \in Conns
        PROVE  /\ sent'[c] >= Ask - 1 /\ (proto = "tcp" => sent'[c] >= Ask)
               /\ got[c] = 0 \/ 2 * got[c] <= sent'[c]
    <3>1. /\ sent[c] >= Ask - 1 /\ (proto = "tcp" => sent[c] >= Ask)
          /\ got[c] = 0 \/ 2 * got[c] <= sent[c]
      BY DEF IInv, StreamInv
    <3> QED
      BY <1>1, <1>2, <3>1 DEF Ask
  <2> QED
    BY <1>1, <2>1, <2>2 DEF IInv, StreamInv
<1>14. ReadyInv'
  BY <1>1, ReadyFrame DEF IInv
<1>15. OrderInv'
  <2>1. AnswersInOrder'
    BY <1>1 DEF IInv, OrderInv, AnswersInOrder
  <2>2. \A x, y : /\ IsLive(x)' /\ (InQueue(y)' \/ IsSent(y)' \/ InReady(y)') => Before(x, y)
                  /\ InQueue(x)' /\ (IsSent(y)' \/ InReady(y)') => Before(x, y)
                  /\ IsSent(x)' /\ InReady(y)' => Before(x, y)
    <3>1. \A x : IsLive(x) \/ InQueue(x) \/ IsSent(x) \/ InReady(x) => Before(x, nd) /\ Before(nd, x)
      BY <1>3, <1>7 DEF Under, IsMsg, IsSent, Before
    <3> QED
      BY <1>9, <3>1 DEF IInv, OrderInv
  <2>3. \A x : IsLive(x)' \/ InQueue(x)' \/ IsSent(x)' \/ InReady(x)' =>
          \A k \in 1 .. Len(written[x.conn]) : written[x.conn][k] < x.n
    <3>1. \A k \in 1 .. Len(written[nd.conn]) : written[nd.conn][k] < nd.n
      BY <1>3, <1>8
    <3> QED
      BY <1>9, <3>1 DEF IInv, OrderInv
  <2>4. \A c \in Conns : /\ \A k \in 1 .. Len(written[c]) : written[c][k] <= got[c]
                         /\ written[c] # <<>> => sent'[c] >= Ask
    BY <1>5 DEF IInv, OrderInv
  <2> QED
    BY <1>1, <1>9, <2>1, <2>2, <2>3, <2>4 DEF OrderInv, Before
<1> QED
  BY <1>9, <1>10, <1>11, <1>13, <1>14, <1>15, <1>16 DEF IInv

LEMMA ReadAfterStep == ASSUME IInv, NEW s \in Slots, ReadAfter(s) PROVE IInv'
<1>1. PICK n, nonsense, b :
        /\ n \in Nat /\ nonsense \in BOOLEAN
        /\ b = buf[s] \o Piece(conn[s], n, nonsense)
        /\ MaySend(conn[s], n, nonsense) /\ sent' = [sent EXCEPT ![conn[s]] = @ + n]
        /\ IF cxt[s] = "handing" THEN Handshake(s, b) ELSE Decode(s, b) /\ UNCHANGED <<wqueue, lpc>>
  <2>1. 0 .. LastPart + 1 \subseteq Nat
    OBVIOUS
  <2> QED
    BY <2>1, Zenon DEF ReadAfter
<1>2. /\ lpc = <<>> /\ Found(s) /\ ~stopping[s]
      /\ UNCHANGED <<proto, mayBreak, used, conn, apc, msg, tpc, nconn, up, written>>
  BY DEF ReadAfter
<1>3. Joins(buf[s], sent[conn[s]], n, nonsense, b) /\ Advances(s, n)
  BY <1>1 DEF Joins, Piece, Advances
<1>4. cxt[s] \in {"handing", "working"}
  <2>1. cxt[s] # "none" /\ cxt[s] \in {"none", "handing", "working"}
    BY <1>2 DEF Found, IInv, SlotInv, NetTypeOK
  <2> QED
    BY <2>1
<1>5. /\ stage \in {"none", "start", "async", "write"} /\ tpc \in {"check", "work", "sleep", "woken", "stuck"}
      /\ apc \in {"idle", "send", "start", "notice"} /\ msg \in NodeSet \cup {None}
  BY DEF IInv, NetTypeOK
<1>6. ASSUME NEW k \in Nat, NEW ended \in BOOLEAN, Moves(s, k, ended), UNCHANGED <<live, stage>>
      PROVE  IInv'
  <2>1. StageInv'
    BY <1>2, <1>6 DEF IInv, StageInv
  <2> QED
    BY <1>2, <1>5, <1>6, <2>1, MovesStep
<1>7. CASE cxt[s] = "working"
  <2>1. Decode(s, b) /\ UNCHANGED <<live, queue, stage, lpc>>
    BY <1>1, <1>7 DEF wqueue
  <2>2. PICK k \in Nat, ended \in BOOLEAN : Moves(s, k, ended)
    BY <1>1, <1>2, <1>3, <1>7, <2>1, WorkingRead
  <2> QED
    BY <1>6, <2>1, <2>2
<1>8. CASE cxt[s] = "handing"
  <2>1. Handshake(s, b)
    BY <1>1, <1>8
  <2>2. Asks(s) \/ \E ended \in BOOLEAN : Moves(s, 0, ended) /\ UNCHANGED <<live, stage>>
    BY <1>1, <1>2, <1>3, <1>8, <2>1, HandingRead
  <2> QED
    BY <1>6, <2>2, AsksStep
<1> QED
  BY <1>4, <1>7, <1>8
-----------------------------------------------------------------------------
(***************************************************************************)
(* The invariant, and what it is for.                                      *)
(***************************************************************************)
LEMMA Init == NetInit => IInv
<1> SUFFICES ASSUME NetInit PROVE IInv
  OBVIOUS
<1>1. \A x : ~Under(x) /\ ~IsLive(x) /\ ~InQueue(x) /\ ~IsSent(x) /\ ~InReady(x)
  BY DEF NetInit, Under, IsLive, InQueue, IsMsg, IsSent, InReady
<1>2. NetTypeOK
  <2>1. proto \in {"tcp", "ws"} /\ 0 \in 0 .. MaxConns
    BY NetAssumption DEF NetInit
  <2>2. <<>> \in Seq(Int) /\ <<>> \in Seq(NodeSet) /\ <<>> \in Seq(Nat) /\ <<>> \in Seq({"connected", "disconnect"})
    OBVIOUS
  <2>3. sent \in [Conns -> Int]
    BY DEF NetInit, Ask
  <2> QED
    BY <2>1, <2>2, <2>3 DEF NetInit, NetTypeOK
<1>3. StageInv
  BY DEF NetInit, StageInv
<1>4. SlotInv
  <2>1. \A c \in Conns : sent[c] <= Ask
    BY DEF NetInit, Ask
  <2>2. \A s \in Slots : conn[s] = 0 /\ conn[s] <= nconn
    BY DEF NetInit
  <2> QED
    BY <1>1, <2>1, <2>2 DEF NetInit, SlotInv
<1>8. BufferInv
  BY DEF NetInit, BufferInv
<1>5. StreamInv
  BY NetAssumption DEF NetInit, StreamInv, Ask
<1>6. ReadyInv
  BY <1>1 DEF NetInit, ReadyInv
<1>7. OrderInv
  BY <1>1 DEF NetInit, OrderInv, AnswersInOrder
<1> QED
  BY <1>2, <1>3, <1>4, <1>5, <1>6, <1>7, <1>8 DEF IInv

LEMMA Step == IInv /\ [NetNext]_netvars => IInv'
<1> SUFFICES ASSUME IInv, [NetNext]_netvars PROVE IInv'
  OBVIOUS
<1>1. CASE UNCHANGED netvars
  <2>1. UNCHANGED <<proto, mayBreak, used, conn, stopping, cxt, buf, sent, ready, apc, msg, live, queue, stage,
                    tpc, lpc, nconn, got, up, calls, written>>
    BY <1>1 DEF netvars, sessions, wqueue, nethistory
  <2>2. SlotInv' /\ BufferInv' /\ StreamInv' /\ ReadyInv' /\ OrderInv'
    BY <2>1, LessUnder DEF LQuiet, sessions, nethistory
  <2>3. NetTypeOK' /\ StageInv'
    BY <2>1 DEF IInv, NetTypeOK, StageInv
  <2> QED
    BY <2>2, <2>3 DEF IInv
<1>2. CASE NewConnect
  BY <1>2, NewConnectStep
<1>3. ASSUME NEW s \in Slots, Break(s) PROVE IInv'
  BY <1>3, BreakStep
<1>4. ASSUME NEW s \in Slots, ReadAfter(s) PROVE IInv'
  BY <1>4, ReadAfterStep
<1>5. CASE LStep
  BY <1>5, AsyncWriteStep, WriteAfterStep, LNoticeStep, ClosedStep DEF LStep
<1>6. CASE TStep
  BY <1>6, TPopStep, TWriteStep, TWakeStep DEF TStep
<1>7. CASE AStep
  BY <1>7, ATakeStep, ASendStep, AWriteStep, ANoticeStep DEF AStep
<1> QED
  BY <1>1, <1>2, <1>3, <1>4, <1>5, <1>6, <1>7 DEF NetNext

LEMMA Invariant == NetSpec => []IInv
  BY Init, Step, PTL DEF NetSpec

\* Every variable keeps its type, and the thread pcs, sessions and queue agree.
THEOREM NetTypeCorrect == NetSpec => []NetTypeOK
  BY Invariant, PTL DEF IInv

\* The requests handed up from a connection are those its client sent, each
\* once and in order, however many connections share the places of the session
\* list and in whatever pieces their streams come, with several requests or parts
\* of two in one (the loop of cb_server_recv_after, sis_net.c:462-494).
THEOREM EachRequestOnce == NetSpec => []RequestsWhole
<1>1. IInv => RequestsWhole
  <2> SUFFICES ASSUME IInv, NEW c \in Conns
               PROVE  /\ \A i \in 1 .. Len(up[c]) : up[c][i] = i
                      /\ 2 * Len(up[c]) <= sent[c] \/ up[c] = <<>>
    BY DEF RequestsWhole
  <2>1. /\ Len(up[c]) \in Nat /\ got[c] \in Nat /\ sent[c] \in Int
        /\ Len(up[c]) = 0 => up[c] = <<>>
    <3>1. up[c] \in Seq(Nat) /\ got[c] \in Nat /\ sent[c] \in Int
      BY DEF IInv, NetTypeOK
    <3> QED
      BY <3>1
  <2>2. Len(up[c]) <= got[c] /\ \A i \in 1 .. Len(up[c]) : up[c][i] = i
    BY DEF IInv, ReadyInv
  <2>3. got[c] = 0 \/ 2 * got[c] <= sent[c]
    BY DEF IInv, StreamInv
  <2> QED
    BY <2>1, <2>2, <2>3
<1> QED
  BY <1>1, Invariant, PTL

\* The worker above sees a connection start before anything else of it and end
\* at most once, whichever thread finds its session gone.
THEOREM StartThenEnd == NetSpec => []CallbacksPaired
<1>1. IInv => CallbacksPaired
  BY DEF IInv, StreamInv, CallbacksPaired
<1> QED
  BY <1>1, Invariant, PTL

\* The answers of a connection leave in the order of its requests, the
\* handshake first, whether the queue's thread or the sender starts a write.
THEOREM OrderOnTheWire == NetSpec => []AnswersInOrder
<1>1. IInv => AnswersInOrder
  BY DEF IInv, OrderInv
<1> QED
  BY <1>1, Invariant, PTL
=============================================================================
