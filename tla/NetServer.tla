----------------------------- MODULE NetServer -----------------------------
(***************************************************************************)
(* The listening side of the network class: sessions and the write queue   *)
(* of sis_net.uv.c under the contexts of sis_net.c.  L is the thread of    *)
(* the libuv loop, T the thread of the write queue, A the thread that      *)
(* takes received messages and answers each (the reader of the class and   *)
(* the worker behind it).  A thread of waits holds the mutex of its wait   *)
(* except while it sleeps (WorkThread), and a notice takes that mutex.     *)
(***************************************************************************)
EXTENDS Integers, Sequences

CONSTANTS NumSlots,       \* places of the session list (1024 in the code)
          MaxConns,       \* bound: connections in a behaviour
          MaxFrames,      \* bound: requests of one client
          Protocols       \* protocols the server may be configured with: "tcp", "ws"

ASSUME NetAssumption ==
    /\ NumSlots \in Nat /\ MaxConns \in Nat /\ MaxFrames \in Nat
    /\ Protocols \subseteq {"tcp", "ws"}

Slots == 1 .. NumSlots
Conns == 1 .. MaxConns
None  == [slot |-> 0, conn |-> 0, n |-> 0]     \* no node, no message

VARIABLES
    proto, mayBreak,      \* configuration; whether in this behaviour clients disconnect,
                          \* send nonsense or do not wait for the handshake, and libuv fails
    used, conn,           \* s_sis_index_list.used and the connection of each session
    stopping,             \* session->write_stop: its handle is being closed
    cxt, buf,             \* status of the context of a cid, its recv_buffer
    sent,                 \* of a client: the last part of its stream it has sent
    ready,                \* cls->ready_recv_cxts
    apc, msg,             \* A: what it does, with which message
    live, queue, stage,   \* s_sis_net_queue; how far the live node has come
    tpc, lpc,             \* T; L: <<>>, or <<s>> when it is about to notice T
    nconn, got, up,       \* history: connections so far; per connection the number of
    calls, written        \* requests decoded, those handed up, the callbacks, the
                          \* answers written

sessions   == <<used, conn, stopping>>
wqueue     == <<live, queue, stage>>
nethistory == <<nconn, got, up, calls, written>>
netvars == <<proto, mayBreak, sessions, cxt, buf, sent, ready, apc, msg, wqueue, tpc, lpc, nethistory>>

Node(s, n) == [slot |-> s, conn |-> conn[s], n |-> n]
Hand == 0                 \* the answer to a handshake, as the number of a message

\* The stream of a client: request n is its parts 2n - 1, the head, and 2n, the
\* rest; a client of "ws" asks for the handshake with part 0.
Ask == 0
Bad == -1                 \* data that is no packet
LastPart == 2 * MaxFrames

NetInit ==
    /\ proto \in Protocols /\ mayBreak \in BOOLEAN
    /\ used = [s \in Slots |-> "free"] /\ conn = [s \in Slots |-> 0]
    /\ stopping = [s \in Slots |-> FALSE]
    /\ cxt = [s \in Slots |-> "none"] /\ buf = [s \in Slots |-> <<>>]
    /\ sent = [c \in Conns |-> IF proto = "ws" THEN Ask - 1 ELSE Ask] /\ ready = <<>>
    /\ apc = "idle" /\ msg = None
    /\ live = None /\ queue = <<>> /\ stage = "none"
    /\ tpc = "check" /\ lpc = <<>>
    /\ nconn = 0 /\ got = [c \in Conns |-> 0] /\ up = [c \in Conns |-> <<>>]
    /\ calls = [c \in Conns |-> <<>>] /\ written = [c \in Conns |-> <<>>]

-----------------------------------------------------------------------------
(* The write queue: one node is live from the moment it leaves the queue   *)
(* until its write has ended.                                              *)

Found(s) == used[s] = "on"      \* sis_index_list_get finds a session

DirectEager == live = None
\* sis_net_queue_push; then cb_server_write follows if the node became live
Direct == live = None /\ queue = <<>>
Push(node) == IF Direct THEN live' = node /\ UNCHANGED queue
                        ELSE queue' = Append(queue, node) /\ UNCHANGED live

StopKeeping == stage' = "none" /\ UNCHANGED <<live, queue>>
\* sis_net_queue_stop without its notice
Stop == live' = None /\ stage' = "none" /\ UNCHANGED queue

TSleeps == tpc \in {"sleep", "woken"}
\* a notice needs the mutex of T's wait
NoticeT == TSleeps /\ tpc' = "woken"

\* _thread_net_reader up to cb_reader
TPop ==
    /\ tpc = "check"
    /\ IF live = None /\ queue # <<>>
       THEN live' = Head(queue) /\ queue' = Tail(queue) /\ stage' = "start" /\ tpc' = "work"
       ELSE tpc' = "sleep" /\ UNCHANGED wqueue
    /\ UNCHANGED <<proto, mayBreak, sessions, cxt, buf, sent, ready, apc, msg, lpc, nethistory>>

TWake ==
    /\ TSleeps /\ tpc' = "check"
    /\ UNCHANGED <<proto, mayBreak, sessions, cxt, buf, sent, ready, apc, msg, wqueue, lpc, nethistory>>

-----------------------------------------------------------------------------
(* L: connections.                                                         *)

\* the slots with a message under way
Waiting == {queue[i].slot : i \in 1 .. Len(queue)} \cup {ready[i].slot : i \in 1 .. Len(ready)}
           \cup {live.slot, msg.slot}

\* sis_index_list_new: sessions that ended more than wait_sec ago become free
\* first; messages are assumed to be faster than that
Expirable == {s \in Slots : used[s] = "old"} \ Waiting
FreeSlots(expired) == {s \in Slots : used[s] = "free"} \cup expired

\* cb_server_connected
Connected(s) ==
    /\ buf' = [buf EXCEPT ![s] = <<>>]
    /\ cxt' = [cxt EXCEPT ![s] = IF proto = "ws" THEN "handing" ELSE "working"]
    /\ calls' = IF proto = "ws" THEN calls ELSE [calls EXCEPT ![nconn + 1] = <<"connected">>]

\* cb_server_new_connect; a connection that finds no place is not accepted
NewConnect ==
    /\ lpc = <<>> /\ nconn < MaxConns
    /\ \E expired \in SUBSET Expirable :
       \/ \E s \in FreeSlots(expired) :
          /\ \A t \in FreeSlots(expired) : s <= t
          /\ used' = [t \in Slots |-> IF t = s THEN "on" ELSE IF t \in expired THEN "free" ELSE used[t]]
          /\ conn' = [conn EXCEPT ![s] = nconn + 1]
          /\ stopping' = [stopping EXCEPT ![s] = FALSE]
          /\ Connected(s)
       \/ FreeSlots(expired) = {} /\ UNCHANGED <<sessions, cxt, buf, calls>>
    /\ nconn' = nconn + 1
    /\ UNCHANGED <<proto, mayBreak, sent, ready, apc, msg, wqueue, tpc, lpc, got, up, written>>

\* cb_server_disconnect: the callback if the client was working, then the context goes
DisconnectedAlways(s) ==
    /\ cxt' = [cxt EXCEPT ![s] = "none"]
    /\ calls' = IF cxt[s] # "none" THEN [calls EXCEPT ![conn[s]] = Append(@, "disconnect")] ELSE calls
Disconnected(s) ==
    /\ cxt' = [cxt EXCEPT ![s] = "none"]
    /\ calls' = IF cxt[s] = "working" THEN [calls EXCEPT ![conn[s]] = Append(@, "disconnect")] ELSE calls

\* sis_socket_server_delete
Delete(s) ==
    IF Found(s) /\ ~stopping[s]
    THEN stopping' = [stopping EXCEPT ![s] = TRUE] /\ Disconnected(s)
    ELSE UNCHANGED <<stopping, cxt, calls>>

\* cb_server_read_after with an error or the end of the stream
Break(s) ==
    /\ lpc = <<>> /\ mayBreak /\ Found(s) /\ ~stopping[s]
    /\ Delete(s)
    /\ UNCHANGED <<proto, mayBreak, used, conn, buf, sent, ready, apc, msg, wqueue, tpc, lpc,
                   nconn, got, up, written>>

\* cb_session_closed, after libuv has called back the write it cancels
Closed(s) ==
    /\ lpc = <<>> /\ Found(s) /\ stopping[s]
    /\ ~(stage = "write" /\ live.slot = s)
    /\ used' = [used EXCEPT ![s] = "old"]
    /\ UNCHANGED <<proto, mayBreak, conn, stopping, cxt, buf, sent, ready, apc, msg, wqueue,
                   tpc, lpc, nethistory>>

-----------------------------------------------------------------------------
(* L: data.                                                                *)

Shaken(c) == proto = "tcp" \/ \E i \in 1 .. Len(written[c]) : written[c][i] = Hand

\* what a client may send at once: its next n parts, wherever that cuts its
\* requests, and then perhaps nonsense, instead of the handshake or of a request
MaySend(c, n, nonsense) ==
    /\ n > 0 \/ nonsense
    /\ sent[c] + n <= IF Shaken(c) \/ mayBreak THEN LastPart ELSE Ask
    /\ nonsense => /\ mayBreak
                   /\ IF sent[c] < Ask THEN n = 0 ELSE Shaken(c) /\ (sent[c] + n) % 2 = 0

Piece(c, n, nonsense) == [i \in 1 .. n |-> sent[c] + i] \o IF nonsense THEN <<Bad>> ELSE <<>>

\* the request in two parts that follow each other in a buffer
Request(head, rest) == IF head % 2 = 1 /\ rest = head + 1 THEN rest \div 2 ELSE MaxFrames + 1

\* how many packets sis_net_recv_message finds at the head of a buffer
Whole(b) == (IF b[Len(b)] = Bad THEN Len(b) - 1 ELSE Len(b)) \div 2

\* mutation: what follows the last whole packet is dropped
DecodeDropping(s, b) ==
    LET k == Whole(b) IN
    /\ ready' = ready \o [i \in 1 .. k |-> Node(s, Request(b[2 * i - 1], b[2 * i]))]
    /\ got' = [got EXCEPT ![conn[s]] = @ + k]
    /\ buf' = [buf EXCEPT ![s] = <<>>]
    /\ IF b[Len(b)] = Bad THEN Delete(s) ELSE UNCHANGED <<stopping, cxt, calls>>

\* the loop of cb_server_recv_after; a malformed packet ends the session
Decode(s, b) ==
    LET k == Whole(b)
        rest == SubSeq(b, 2 * k + 1, Len(b)) IN
    /\ ready' = ready \o [i \in 1 .. k |-> Node(s, Request(b[2 * i - 1], b[2 * i]))]
    /\ got' = [got EXCEPT ![conn[s]] = @ + k]
    /\ buf' = [buf EXCEPT ![s] = rest]
    /\ IF rest # <<>> /\ rest[1] = Bad THEN Delete(s) ELSE UNCHANGED <<stopping, cxt, calls>>

\* sis_ws_recv_hand_ask: the answer is sent, and what follows the ask stays there;
\* parts of requests are no complete head of an ask, and nonsense is a wrong one
Handshake(s, b) ==
    /\ UNCHANGED <<ready, got>>
    /\ buf' = [buf EXCEPT ![s] = IF Head(b) = Ask THEN Tail(b) ELSE b]
    /\ \/ /\ Head(b) = Ask /\ Push(Node(s, Hand))
          /\ stage' = IF Direct THEN "async" ELSE stage
          /\ UNCHANGED <<stopping, cxt, calls, lpc>>
       \/ /\ Head(b) = Ask /\ mayBreak /\ Direct      \* no uv_async for the answer
          /\ Delete(s) /\ lpc' = <<0>> /\ UNCHANGED wqueue
       \/ Head(b) = Bad /\ Delete(s) /\ UNCHANGED <<wqueue, lpc>>
       \/ Head(b) > Ask /\ UNCHANGED <<wqueue, stopping, cxt, calls, lpc>>

\* cb_server_read_after with data, cb_server_recv_after
ReadAfter(s) ==
    /\ lpc = <<>> /\ Found(s) /\ ~stopping[s]
    /\ \E n \in 0 .. LastPart + 1, nonsense \in BOOLEAN :
       LET b == buf[s] \o Piece(conn[s], n, nonsense) IN
       /\ MaySend(conn[s], n, nonsense)
       /\ sent' = [sent EXCEPT ![conn[s]] = @ + n]
       /\ IF cxt[s] = "handing" THEN Handshake(s, b) ELSE Decode(s, b) /\ UNCHANGED <<wqueue, lpc>>
    /\ UNCHANGED <<proto, mayBreak, used, conn, apc, msg, tpc, nconn, up, written>>

-----------------------------------------------------------------------------
(* Starting a write.                                                       *)

\* cb_server_write up to a notice it must give: it finds no session, or libuv
\* refuses to wake the loop and the session ends; `failed' says whether
StartWrite(failed) ==
    IF Found(live.slot)
    THEN \/ ~failed /\ stage' = "async" /\ UNCHANGED <<live, queue, stopping, cxt, calls>>
         \/ failed /\ mayBreak /\ Delete(live.slot) /\ Stop
    ELSE failed /\ Stop /\ UNCHANGED <<stopping, cxt, calls>>

\* in T, which then notices itself with its wait's mutex held
TWrite ==
    /\ tpc = "work"
    /\ \E failed \in BOOLEAN : StartWrite(failed) /\ tpc' = IF failed THEN "stuck" ELSE "sleep"
    /\ UNCHANGED <<proto, mayBreak, used, conn, buf, sent, ready, apc, msg, lpc, nconn, got, up, written>>

\* in the thread of the sender
AWrite ==
    /\ apc = "start"
    /\ \E failed \in BOOLEAN : StartWrite(failed) /\ apc' = IF failed THEN "notice" ELSE "idle"
    /\ msg' = IF apc' = "idle" THEN None ELSE msg
    /\ UNCHANGED <<proto, mayBreak, used, conn, buf, sent, ready, tpc, lpc, nconn, got, up, written>>

-----------------------------------------------------------------------------
(* L: writing.                                                             *)

\* _cb_server_async_write: uv_write, which fails on a handle that is closing
AsyncWrite ==
    /\ lpc = <<>> /\ stage = "async"
    /\ LET s == live.slot IN
       IF Found(s) /\ ~stopping[s]
       THEN \/ stage' = "write" /\ UNCHANGED <<live, queue, lpc, stopping, cxt, calls>>
            \/ mayBreak /\ Delete(s) /\ Stop /\ lpc' = <<0>>
       ELSE Stop /\ lpc' = <<0>> /\ UNCHANGED <<stopping, cxt, calls>>
    /\ UNCHANGED <<proto, mayBreak, used, conn, buf, sent, ready, apc, msg, tpc, nconn, got, up, written>>

\* cb_server_write_after before its notice
WriteAfter ==
    /\ lpc = <<>> /\ stage = "write"
    /\ LET s == live.slot IN
       \/ /\ ~stopping[s]
          /\ written' = [written EXCEPT ![live.conn] = Append(@, live.n)]
          /\ lpc' = <<s>>
          /\ UNCHANGED <<stopping, cxt, calls>>
       \/ /\ mayBreak /\ Delete(s) /\ lpc' = <<0>> /\ UNCHANGED written
    /\ Stop
    /\ UNCHANGED <<proto, mayBreak, used, conn, buf, sent, ready, apc, msg, tpc, nconn, got, up>>

\* the notice of sis_net_queue_stop in L, then cb_server_send_after
LNotice ==
    /\ lpc # <<>> /\ NoticeT /\ lpc' = <<>>
    /\ LET s == lpc[1] IN
       IF s # 0 /\ cxt[s] = "handing"
       THEN /\ cxt' = [cxt EXCEPT ![s] = "working"]
            /\ calls' = [calls EXCEPT ![conn[s]] = Append(@, "connected")]
       ELSE UNCHANGED <<cxt, calls>>
    /\ UNCHANGED <<proto, mayBreak, sessions, buf, sent, ready, apc, msg, wqueue, nconn, got, up, written>>

-----------------------------------------------------------------------------
(* A: cb_sis_reader_recv hands a request up by its cid, and the worker     *)
(* sends one answer to that cid.                                           *)

ATake ==
    /\ apc = "idle" /\ ready # <<>>
    /\ ready' = Tail(ready)
    /\ IF cxt[Head(ready).slot] = "none" THEN UNCHANGED <<apc, msg, up>>
       ELSE /\ apc' = "send" /\ msg' = Head(ready)
            /\ up' = [up EXCEPT ![Head(ready).conn] = Append(@, Head(ready).n)]
    /\ UNCHANGED <<proto, mayBreak, sessions, cxt, buf, sent, wqueue, tpc, lpc, nconn, got, calls, written>>

\* sis_net_class_send, sis_socket_server_send up to the push
ASend ==
    /\ apc = "send"
    /\ IF cxt[msg.slot] # "none" /\ Found(msg.slot)
       THEN /\ Push(Node(msg.slot, msg.n))
            /\ stage' = IF Direct THEN "start" ELSE stage
            /\ apc' = IF Direct THEN "start" ELSE "idle"
       ELSE apc' = "idle" /\ UNCHANGED wqueue
    /\ msg' = IF apc' = "idle" THEN None ELSE msg
    /\ UNCHANGED <<proto, mayBreak, sessions, cxt, buf, sent, ready, tpc, lpc, nethistory>>

ANotice ==
    /\ apc = "notice" /\ NoticeT
    /\ apc' = "idle" /\ msg' = None
    /\ UNCHANGED <<proto, mayBreak, sessions, cxt, buf, sent, ready, wqueue, lpc, nethistory>>

-----------------------------------------------------------------------------
LStep == \/ AsyncWrite \/ WriteAfter \/ LNotice \/ \E s \in Slots : Closed(s)
TStep == TPop \/ TWrite \/ TWake
AStep == ATake \/ ASend \/ AWrite \/ ANotice

NetNext == \/ NewConnect \/ \E s \in Slots : Break(s) \/ ReadAfter(s)
        \/ LStep \/ TStep \/ AStep

\* The loop runs its callbacks and the threads go on; clients do as they like.
\* T sleeps 13 ms at a time, which is when who waits for its mutex gets it.
NetFairness == /\ WF_netvars(LStep) /\ SF_netvars(LNotice)
            /\ WF_netvars(TStep) /\ WF_netvars(AStep) /\ SF_netvars(ANotice)

NetSpec     == NetInit /\ [][NetNext]_netvars
NetFairSpec == NetSpec /\ NetFairness

-----------------------------------------------------------------------------
NodeSet == [slot : Slots, conn : Conns, n : Nat]

NetTypeOK ==
    /\ proto \in {"tcp", "ws"} /\ mayBreak \in BOOLEAN
    /\ used \in [Slots -> {"free", "on", "old"}] /\ conn \in [Slots -> 0 .. MaxConns]
    /\ stopping \in [Slots -> BOOLEAN]
    /\ cxt \in [Slots -> {"none", "handing", "working"}] /\ buf \in [Slots -> Seq(Int)]
    /\ sent \in [Conns -> Int] /\ ready \in Seq(NodeSet)
    /\ apc \in {"idle", "send", "start", "notice"} /\ msg \in NodeSet \cup {None}
    /\ live \in NodeSet \cup {None} /\ queue \in Seq(NodeSet)
    /\ stage \in {"none", "start", "async", "write"}
    /\ tpc \in {"check", "work", "sleep", "woken", "stuck"}
    /\ lpc \in {<<>>} \cup {<<s>> : s \in 0 .. NumSlots}
    /\ nconn \in 0 .. MaxConns /\ got \in [Conns -> Nat] /\ up \in [Conns -> Seq(Nat)]
    /\ calls \in [Conns -> Seq({"connected", "disconnect"})] /\ written \in [Conns -> Seq(Nat)]

\* RequestsWhole: however the stream of a client is cut into pieces, parts of
\* requests and of the handshake in one, the requests handed up are its
\* requests, whole, in order and once each.
RequestsWhole ==
    \A c \in Conns : /\ \A i \in 1 .. Len(up[c]) : up[c][i] = i
                     /\ 2 * Len(up[c]) <= sent[c] \/ up[c] = <<>>

\* AnswersInOrder: the answers written to a connection keep the order of its
\* requests, no answer is written twice, and the handshake comes first,
\* whatever thread starts a write.
AnswersInOrder ==
    \A c \in Conns : LET w == written[c] IN
        /\ \A i, j \in 1 .. Len(w) : i < j => w[i] < w[j]
        /\ w # <<>> /\ proto = "ws" => w[1] = Hand

\* CallbacksPaired: the worker above learns of the end of a connection only if
\* it learnt of its start, once each, and gets no request before the start.
CallbacksPaired ==
    \A c \in Conns : /\ calls[c] \in {<<>>, <<"connected">>, <<"connected", "disconnect">>}
                     /\ up[c] # <<>> => calls[c] # <<>>

\* EveryRequestAnswered: while nobody disconnects, whatever requests come, a
\* point is reached where each whole request has its answer on the wire, though
\* one node is written at a time and T, L and A race for the queue.
EveryRequestAnswered ==
    ~mayBreak => []<>(\A c \in Conns : \A n \in 1 .. sent[c] \div 2 :
                         \E i \in 1 .. Len(written[c]) : written[c][i] = n)

\* NextIsHandled: the write queue goes on to its next node when the session of
\* a node is gone ("session has quit, handle the next one", sis_net.uv.c:723).
NextIsHandled == (tpc = "work") ~> (tpc = "check")
=============================================================================
