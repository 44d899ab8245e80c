---------------------------- MODULE SisdbClient ----------------------------
(***************************************************************************)
(* The client worker (sisdb_client.c) and the C interface above it         *)
(* (api_sisdb.c): requests, subscriptions and what becomes of them when    *)
(* the connection breaks.  A worker is made by the C interface, which has  *)
(* the commands, or from a configuration, for which the methods of the     *)
(* worker are called.  Users are the threads that call it, L is the        *)
(* thread of the libuv loop, R the reader of received messages.  A         *)
(* connection carries its messages in order (NetServer); what is under way *)
(* when it ends is lost.  The server is outside.                           *)
(***************************************************************************)
EXTENDS Naturals, Sequences

CONSTANTS Users, Keys,
          MaxAsks,        \* bound: requests of all users
          MaxConns,       \* bound: connections; the last one does not break
          MaxPubs         \* bound: messages the server sends to subscribers unasked

Serials == 1 .. MaxAsks
NoSerial == 0             \* a message without serial: the login, unsub of an ended sub
Methods  == {"wait", "fast"}           \* sisdb_client_methods, with and without wait
ApiCommands == {"ask", "sub", "unsub"}    \* of the C interface

VARIABLES
    api,                  \* whether the C interface made the worker
    auth,                 \* context->auth: there was a name and a password at its init
    status,               \* context->status
    link, wire,           \* whether there is a context "0" in the session; what is sent
    ready,                \* the answers R has not taken yet
    asks, request,        \* context->asks by serial; the requests, by serial
    upc, cur,             \* users: what each does, with which serial
    rpc,                  \* R: in the branch of the login
    returned,             \* the messages of waiting users that have a "rid"
    loggedin, subs,       \* the server: login and subscriptions of the connection
    nconn, npub, sno,     \* counts; sno is context->ask_sno
    accepted, dropped,    \* history: subs whose call returned OK; whose key was unsubscribed
    cut                   \* history: requests that a break may have lost

context == <<api, auth, status, asks, request, sno>>
session == <<link, wire, ready, nconn>>
server  == <<loggedin, subs, npub>>
history == <<accepted, dropped, cut>>
vars == <<context, session, upc, cur, rpc, returned, server, history>>

IsSub(n) == request[n].cmd = "sub"

\* sisdb_client_init: worker_api_sisdb_create calls it without an argument and
\* stores name and password later, so that a worker it made has no login
Init ==
    /\ api \in BOOLEAN /\ auth \in IF api THEN {FALSE} ELSE BOOLEAN
    /\ status = "INIT"
    /\ link = "down" /\ wire = <<>> /\ ready = <<>>
    /\ asks = {} /\ request = [n \in Serials |-> [cmd |-> "none", key |-> "none"]]
    /\ upc = [u \in Users |-> "idle"] /\ cur = [u \in Users |-> NoSerial]
    /\ rpc = "idle" /\ returned = {}
    /\ loggedin = FALSE /\ subs = {}
    /\ nconn = 0 /\ npub = 0 /\ sno = 0
    /\ accepted = {} /\ dropped = {} /\ cut = {}

\* sis_net_class_send: without a context the message is dropped
Send(m) == wire' = IF link = "up" THEN Append(wire, m) ELSE wire
Message(n) == [cmd |-> request[n].cmd, key |-> request[n].key, n |-> n]
Login == [cmd |-> "auth", key |-> "none", n |-> NoSerial]

-----------------------------------------------------------------------------
(* Users.                                                                  *)

\* sisdb_client_ask_sub_exists
SubExists(k) == \E n \in asks : IsSub(n) /\ request[n].key = k

\* sisdb_client_ask_unsub: the first subscription with this command and key
Unsubbed(cmd, k) == {n \in asks : IsSub(n) /\ request[n].cmd = cmd /\ request[n].key = k}

\* api_sisdb_command_ask, api_sisdb_command_sub and cmd_sisdb_client_ask_* up
\* to sisdb_client_ask_new
Call(u, cmd, k) ==
    /\ upc[u] = "idle" /\ sno < MaxAsks
    /\ cmd \in IF api THEN ApiCommands ELSE Methods
    /\ cmd \in Methods => status = "WORK"
    /\ cmd = "sub" => ~SubExists(k)
    /\ sno' = sno + 1
    /\ request' = [request EXCEPT ![sno'] = [cmd |-> cmd, key |-> k]]
    /\ \E gone \in IF cmd = "unsub" /\ Unsubbed(cmd, k) # {} THEN {{n} : n \in Unsubbed(cmd, k)}
                                                            ELSE {{}} :
         asks' = (asks \ gone) \cup {sno'}
    /\ cur' = [cur EXCEPT ![u] = sno']
    /\ upc' = [upc EXCEPT ![u] = IF cmd \in Methods THEN "send" ELSE "check"]
    /\ UNCHANGED <<api, auth, status, session, rpc, returned, server, history>>

\* cmd_sisdb_client_send_cb: the ask stays when it cannot be sent
Check(u) ==
    /\ upc[u] = "check"
    /\ upc' = [upc EXCEPT ![u] = IF status = "WORK" THEN "send" ELSE "idle"]
    /\ UNCHANGED <<context, session, cur, rpc, returned, server, history>>

\* sisdb_client_send_ask
SendAsk(u) ==
    /\ upc[u] = "send"
    /\ LET n == cur[u] IN
       /\ Send(Message(n))
       /\ cut' = IF link = "up" THEN cut ELSE cut \cup {n}
       /\ dropped' = IF request[n].cmd = "unsub"
                     THEN dropped \cup {m \in asks : IsSub(m) /\ request[m].key = request[n].key}
                     ELSE dropped
       /\ accepted' = IF IsSub(n) THEN accepted \cup {n} ELSE accepted
       /\ upc' = [upc EXCEPT ![u] = IF request[n].cmd = "wait" THEN "wait" ELSE "idle"]
    /\ UNCHANGED <<context, link, ready, nconn, cur, rpc, returned, server>>

\* the loop of cmd_sisdb_client_ask_chars_wait
Return(u) ==
    /\ upc[u] = "wait" /\ cur[u] \in returned
    /\ upc' = [upc EXCEPT ![u] = "idle"]
    /\ UNCHANGED <<context, session, cur, rpc, returned, server, history>>

-----------------------------------------------------------------------------
(* L: the connection, opened again by the thread of _thread_keep_connect.  *)

\* cb_client_connected, cb_client_recv_after (handshake), _cb_connected
Connect ==
    /\ link = "down" /\ nconn < MaxConns
    /\ link' = "up" /\ nconn' = nconn + 1
    /\ loggedin' = FALSE /\ subs' = {}
    /\ IF status \notin {"WORK", "EXIT"} /\ auth
       THEN status' = "AUTH" /\ wire' = <<Login>>
       ELSE /\ status' = IF status = "EXIT" THEN "EXIT" ELSE "WORK"
            /\ wire' = <<>>
    /\ UNCHANGED <<api, auth, asks, request, sno, ready, upc, cur, rpc, returned, npub, history>>

\* cb_client_disconnect with _cb_disconnect
Break ==
    /\ link = "up" /\ nconn < MaxConns
    /\ link' = "down" /\ status' = "INIT"
    /\ wire' = <<>> /\ loggedin' = FALSE /\ subs' = {}
    /\ cut' = cut \cup asks
    /\ UNCHANGED <<api, auth, asks, request, sno, ready, nconn, upc, cur, rpc, returned, npub,
                   accepted, dropped>>

-----------------------------------------------------------------------------
(* The server, as SisdbServer has it: it answers each request with its     *)
(* serial, refuses what comes before the login, and publishes.             *)

Answer(rcmd, n) == ready' = Append(ready, [rcmd |-> rcmd, n |-> n])

Serve ==
    /\ wire # <<>>
    /\ LET m == Head(wire) IN
       /\ wire' = Tail(wire)
       /\ loggedin' = (loggedin \/ m.cmd = "auth")
       /\ IF auth /\ ~loggedin'
          THEN Answer("error", m.n) /\ UNCHANGED subs
          ELSE CASE m.cmd = "sub"   -> Answer("ok", m.n) /\ subs' = subs \cup {m.n}
                 [] m.cmd = "unsub" -> Answer("ok", m.n) /\ subs' = {n \in subs : request[n].key # m.key}
                 [] m.cmd = "auth"  -> Answer("ok", m.n) /\ UNCHANGED subs
                 [] OTHER -> (\E rcmd \in {"ok", "error"} : Answer(rcmd, m.n)) /\ UNCHANGED subs
    /\ UNCHANGED <<context, link, nconn, upc, cur, rpc, returned, npub, history>>

\* a record for a subscriber, or the end of what is published to it
Publish(n) ==
    /\ n \in subs /\ npub < MaxPubs
    /\ npub' = npub + 1
    /\ \E rcmd \in {"ok", "stop"} :
         /\ Answer(rcmd, n)
         /\ subs' = IF rcmd = "stop" THEN subs \ {n} ELSE subs
    /\ UNCHANGED <<context, link, wire, nconn, upc, cur, rpc, returned, loggedin, history>>

-----------------------------------------------------------------------------
(* R: cb_sis_reader_recv and _cb_recv.                                     *)

ReplyOk(m) ==
    /\ returned' = IF request[m.n].cmd = "wait" /\ m.rcmd = "ok" THEN returned \cup {m.n} ELSE returned
    /\ asks' = IF ~IsSub(m.n) THEN asks \ {m.n} ELSE asks
    /\ UNCHANGED <<wire, rpc>>

\* an answer for an ask that is there: its callback and, but for a
\* subscription that goes on, its end
Reply(m) ==
    /\ returned' = IF request[m.n].cmd = "wait" THEN returned \cup {m.n} ELSE returned
    /\ asks' = IF ~IsSub(m.n) \/ m.rcmd = "stop" THEN asks \ {m.n} ELSE asks
    /\ IF m.rcmd = "stop" THEN Send([cmd |-> "unsub", key |-> request[m.n].key, n |-> NoSerial])
                          ELSE UNCHANGED wire
    /\ UNCHANGED rpc

\* _cb_recv in status WORK, or the branch of the login up to its last line: its
\* walk over asks sends subscriptions again, and finds none, for a worker with
\* a login has no commands; nobody is called for what comes without a context
Take ==
    /\ rpc = "idle" /\ ready # <<>>
    /\ ready' = Tail(ready)
    /\ LET m == Head(ready) IN
       CASE link = "up" /\ status = "WORK" /\ m.n \in asks -> Reply(m)
         [] link = "up" /\ status = "AUTH" /\ m.rcmd = "ok" ->
              rpc' = "login" /\ UNCHANGED <<asks, wire, returned>>
         [] OTHER -> UNCHANGED <<asks, wire, returned, rpc>>
    /\ UNCHANGED <<api, auth, status, request, sno, link, nconn, upc, cur, server, history>>

\* the end of that branch, whether or not the connection broke in between
Work ==
    /\ rpc = "login"
    /\ status' = "WORK" /\ rpc' = "idle"
    /\ UNCHANGED <<api, auth, asks, request, sno, session, upc, cur, returned, server, history>>

-----------------------------------------------------------------------------
UStep(u) == Check(u) \/ SendAsk(u) \/ Return(u)
RStep    == Take \/ Work

Next == \/ \E u \in Users, cmd \in Methods \cup ApiCommands, k \in Keys : Call(u, cmd, k)
        \/ \E u \in Users : UStep(u)
        \/ Connect \/ Break
        \/ Serve \/ \E n \in Serials : Publish(n)
        \/ RStep

\* The threads go on, the connection is opened again every five seconds
\* (_thread_keep_connect), and the server takes what it is sent.
Fairness == /\ \A u \in Users : WF_vars(UStep(u))
            /\ WF_vars(RStep) /\ WF_vars(Connect) /\ WF_vars(Serve)

FairSpec == Init /\ [][Next]_vars /\ Fairness

-----------------------------------------------------------------------------
TypeOK ==
    /\ api \in BOOLEAN /\ auth \in BOOLEAN /\ status \in {"INIT", "AUTH", "WORK", "EXIT"}
    /\ link \in {"down", "up"} /\ asks \subseteq 1 .. sno
    /\ upc \in [Users -> {"idle", "check", "send", "wait"}] /\ rpc \in {"idle", "login"}
    /\ subs \subseteq Serials

\* AsksReturn: a thread that waits for an answer comes back, unless the
\* connection broke while its request was under way
AsksReturn ==
    \A u \in Users : (upc[u] = "wait") ~> (upc[u] # "wait" \/ cur[u] \in cut)

\* Resubscribed: after a break of the connection subscriptions have to be sent
\* again (sisdb_client.h:52), so that in the end the server has those whose call
\* succeeded and that were not given up
Resubscribed == <>[](\A n \in accepted : n \in asks \ dropped => n \in subs)
=============================================================================
