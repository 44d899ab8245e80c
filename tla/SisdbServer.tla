---------------------------- MODULE SisdbServer ----------------------------
(***************************************************************************)
(* The command path of a server with one dataset: what the network thread  *)
(* queues (sisdb_server.c), how the reader R checks, logs, executes and    *)
(* answers it, the keys of the dataset and the subscriptions to them       *)
(* (sisdb.c, sisdb_io.c).  A client is its cid, which a later connection   *)
(* may get again.                                                          *)
(***************************************************************************)
EXTENDS Naturals, Sequences

CONSTANTS Clients, SingleKeys, TableKeys,
          Patterns,            \* subscription strings with a '*' or a ','
          Covers,              \* what a subscription string stands for, by the comments
          Commands,            \* commands a client sends: [Clients -> SUBSET [m, key]]
          Auths,               \* whether user_auth is configured
          MaxMsgs, MaxGen, MaxQueue \* bounds: messages, connections per cid, recv_list

Keys    == SingleKeys \cup TableKeys
Formats == {"chars", "bytes"}
Ids     == 1 .. MaxMsgs
NoSubs  == [c \in {} |-> "chars"]
AllKeys == "*"
AllTables == "*.*"

\* a subscription or a list is no key, and only keys are set
ASSUME ServerAssumption ==
    /\ MaxMsgs \in Nat /\ Auths \subseteq BOOLEAN
    /\ SingleKeys \cap TableKeys = {} /\ Keys \cap Patterns = {}
    /\ Commands \in [Clients -> SUBSET [m : STRING, key : Keys \cup Patterns]]
    /\ \A c \in Clients : \A cmd \in Commands[c] : cmd.m \in {"set", "bset"} => cmd.key \in Keys

VARIABLES
    auth, access,        \* user_auth configured; user_access: "none" without an entry
    on, gen,             \* the clients connected, and how often each cid was given
    recv,                \* recv_list as seen by reader_recv
    store,               \* work_keys: style of a key, "none" without an entry
    single, multi,       \* sub_single, sub_multiple: subscribers and their rfmt
    rpc, cur, result,    \* R: what it does, with which message, with what result
    fault,               \* the program has used a null or mistyped pointer
    nmsg, log, ran,      \* history: messages so far, ids in the wlog, write commands executed
    replies, pushed,     \* history: answers per message, what the last command published
    asked                \* history: what each connection asked for, and in which format

subs    == <<single, multi>>
history == <<nmsg, log, ran, replies, pushed, asked>>
vars == <<auth, access, on, gen, recv, store, subs, rpc, cur, result, fault, history>>

NoMsg == [id |-> 0, cid |-> "none", gen |-> 0, m |-> "none", key |-> "none", fmt |-> "chars"]

Init ==
    /\ auth \in Auths /\ access = [c \in Clients |-> "none"]
    /\ on = [c \in Clients |-> FALSE] /\ gen = [c \in Clients |-> 0]
    /\ recv = <<>>
    /\ store = [k \in Keys |-> "none"]
    /\ single = [k \in Keys |-> NoSubs] /\ multi = [p \in Patterns |-> NoSubs]
    /\ rpc = "idle" /\ cur = NoMsg /\ result = "none" /\ fault = FALSE
    /\ nmsg = 0 /\ log = <<>> /\ ran = <<>>
    /\ replies = [i \in Ids |-> 0] /\ pushed = {}
    /\ asked = [c \in Clients |-> NoSubs]

-----------------------------------------------------------------------------
(* The network thread.                                                     *)

\* _cb_connected
Connect(c) ==
    /\ ~fault /\ ~on[c] /\ gen[c] < MaxGen[c]
    /\ on' = [on EXCEPT ![c] = TRUE] /\ gen' = [gen EXCEPT ![c] = @ + 1]
    /\ asked' = [asked EXCEPT ![c] = NoSubs]
    /\ UNCHANGED <<auth, access, recv, store, subs, rpc, cur, result, fault,
                   nmsg, log, ran, replies, pushed>>

\* cb_socket_recv
Receive(c) ==
    /\ ~fault /\ on[c] /\ nmsg < MaxMsgs /\ Len(recv) < MaxQueue
    /\ \E cmd \in Commands[c], f \in Formats :
         /\ cmd.m # "sub" => f = "chars"
         /\ recv' = Append(recv, [id |-> nmsg + 1, cid |-> c, gen |-> gen[c],
                                  m |-> cmd.m, key |-> cmd.key, fmt |-> f])
    /\ nmsg' = nmsg + 1
    /\ UNCHANGED <<auth, access, on, gen, store, subs, rpc, cur, result, fault,
                   log, ran, replies, pushed, asked>>

\* a map of subscribers without one of them
Without(list, c) == [x \in DOMAIN list \ {c} |-> list[x]]

\* _sisdb_unsub_map_list for both maps
UnsubWhole(c) == /\ single' = [k \in Keys |-> Without(single[k], c)]
                 /\ multi' = [p \in Patterns |-> Without(multi[p], c)]

\* cmd_sisdb_clear: it clears for every mode but "reader"
Clear(mode, c) == IF mode # "reader" THEN UnsubWhole(c) ELSE UNCHANGED subs

\* _cb_disconnect with sisdb_server_decr_auth and _sisdb_server_stop
Disconnect(c) ==
    /\ ~fault /\ on[c]
    /\ on' = [on EXCEPT ![c] = FALSE]
    /\ access' = IF auth THEN [access EXCEPT ![c] = "none"] ELSE access
    /\ Clear("reader", c)
    /\ UNCHANGED <<auth, gen, recv, store, rpc, cur, result, fault, history>>

-----------------------------------------------------------------------------
(* R: access.                                                              *)

\* sisdb_server_get_access, where user_auth is not configured
Access(c) == IF auth THEN access[c] ELSE "admin"

\* the tables of methods, and what each needs
Needs(m) == CASE m \in {"auth", "show", "get", "gets", "sub", "unsub"} -> {"read"}
              [] m \in {"set", "bset", "del"}                          -> {"read", "write"}
              [] m = "dels"                                            -> {"read", "write", "del"}
              [] m \in {"clear", "wlog"}                               -> {"nonet"}
Known == {"auth", "show", "get", "gets", "sub", "unsub", "set", "bset", "del", "dels", "clear", "wlog"}

\* sisdb_check_method_access: a user configured with "write" is RDWR, which
\* the test against WRITE alone lets through
MayCall(m, a) == /\ "nonet" \notin Needs(m)
                 /\ a = "read" => Needs(m) \cap {"write", "del"} = {}

\* sisdb_server_reply_no_method sends the answer, and its caller sends it again
Refuse(msg) == /\ replies' = [replies EXCEPT ![msg.id] = @ + 2]
               /\ rpc' = "idle" /\ cur' = NoMsg

\* a client without an entry in user_access makes sisdb_server_get_access fail
NoEntry(c) == auth /\ access[c] = "none"

IsWrite(m) == "write" \in Needs(m)
LogNever(msg) == UNCHANGED log
LogWrites(msg) == log' = IF IsWrite(msg.m) THEN Append(log, msg.id) ELSE log

\* cb_reader_recv up to the command: access, the method, the write-ahead log
Take ==
    /\ ~fault /\ rpc = "idle" /\ recv # <<>>
    /\ LET msg == Head(recv) IN
       /\ recv' = Tail(recv)
       /\ IF NoEntry(msg.cid) THEN fault' = TRUE /\ UNCHANGED <<rpc, cur, log, replies>>
          ELSE /\ UNCHANGED fault
               /\ IF msg.m \in Known /\ MayCall(msg.m, Access(msg.cid))
                  THEN /\ LogWrites(msg) /\ rpc' = "run" /\ cur' = msg /\ UNCHANGED replies
                  ELSE Refuse(msg) /\ UNCHANGED log
    /\ UNCHANGED <<auth, access, on, gen, store, subs, result, nmsg, ran, pushed, asked>>

-----------------------------------------------------------------------------
(* R: the commands.                                                        *)

Ran(o) == /\ rpc' = "reply" /\ result' = o
          /\ ran' = IF IsWrite(cur.m) THEN Append(ran, cur.id) ELSE ran
          /\ UNCHANGED <<auth, on, gen, recv, cur, nmsg, log, replies>>

\* _set_sub_info_style: every comparison is the wrong way round, so the kinds
\* of lists after the first two never come out
SubType(p) == IF p # AllKeys THEN "one_all" ELSE IF p # AllTables THEN "table_all" ELSE "one_mul"

\* sisdb_make_sub_message for one entry of sub_multiple
Publishes(p, k) == SubType(p) \in {"one_all", "table_all"} \/ k \in Covers[p]

\* _send_sub_message: rows are converted for those who asked for chars, the
\* bytes of a single key are not
Sent(k, style, f) == IF style = "bytes" /\ k \in SingleKeys THEN "bytes" ELSE f

To(list, k, style) == {[to |-> c, key |-> k, fmt |-> Sent(k, style, list[c])] : c \in DOMAIN list}
PublishSingle(k, style) ==
    IF DOMAIN single[k] # {} THEN To(single[k], k, style)
    ELSE UNION {To(multi[p], k, style) : p \in {q \in Patterns : Publishes(q, k)}}
\* sisdb_make_sub_message: single subscriptions, then every other list
Publish(k, style) ==
    To(single[k], k, style)
    \cup UNION {To(multi[p], k, style) : p \in {q \in Patterns : Publishes(q, k)}}

\* cmd_sisdb_set, cmd_sisdb_bset of a single key (sisdb_one_set); a value in
\* bytes must not be empty
SetOne ==
    /\ cur.m \in {"set", "bset"} /\ cur.key \in SingleKeys
    /\ LET style == IF cur.m = "set" THEN "chars" ELSE "bytes" IN
       \/ store' = [store EXCEPT ![cur.key] = style] /\ pushed' = Publish(cur.key, style) /\ Ran("ok")
       \/ style = "bytes" /\ pushed' = {} /\ Ran("error") /\ UNCHANGED store
    /\ UNCHANGED <<access, subs, fault, asked>>

\* sisdb_set_chars, sisdb_set_bytes: a value that is no data changes nothing, but
\* the collect is made before the data is read, and stays when that goes wrong
SetTable ==
    /\ cur.m \in {"set", "bset"} /\ cur.key \in TableKeys
    /\ \/ store' = [store EXCEPT ![cur.key] = "rows"] /\ pushed' = Publish(cur.key, "bytes") /\ Ran("ok")
       \/ /\ store' \in {store, [store EXCEPT ![cur.key] = IF @ = "none" THEN "empty" ELSE @]}
          /\ pushed' = {} /\ Ran("error")
    /\ UNCHANGED <<access, subs, fault, asked>>

\* cmd_sisdb_get (sisdb_one_get_sds, sisdb_get_sds): an empty table gives nothing
Get ==
    /\ cur.m = "get" /\ Ran(IF store[cur.key] \in {"none", "empty"} THEN "null" ELSE "ok")
    /\ UNCHANGED <<access, store, subs, fault, pushed, asked>>

\* cmd_sisdb_gets always answers with an object; cmd_sisdb_show
Gets ==
    /\ cur.m \in {"gets", "show"} /\ Ran("ok")
    /\ UNCHANGED <<access, store, subs, fault, pushed, asked>>

\* sisdb_one_del: every key but a table; sisdb_del: the table goes when its last record does
Del ==
    /\ cur.m = "del" /\ Ran("ok")
    /\ \/ /\ cur.key \in SingleKeys \/ store[cur.key] # "none"
          /\ store' = [store EXCEPT ![cur.key] = "none"]
       \/ cur.key \in TableKeys /\ UNCHANGED store
    /\ UNCHANGED <<access, subs, fault, pushed, asked>>

\* sisdb_one_dels: "*" takes the single keys, a list takes whatever it names
DelsOne ==
    /\ cur.m = "dels" /\ cur.key # AllTables
    /\ store' = [k \in Keys |-> IF k \in Covers[cur.key] THEN "none" ELSE store[k]]
    /\ Ran("ok") /\ UNCHANGED <<access, subs, fault, pushed, asked>>

\* sisdb_dels with _sisdb_get_filter: "*.*" names every key, and sisdb_del
\* takes the value of a single key for a list of records
DelsTable ==
    /\ cur.m = "dels" /\ cur.key = AllTables
    /\ fault' = (\E k \in SingleKeys : store[k] # "none")
    /\ store' \in {[k \in Keys |-> IF k \in gone THEN "none" ELSE store[k]] :
                      gone \in SUBSET TableKeys}
    /\ Ran("ok") /\ UNCHANGED <<access, subs, pushed, asked>>

Add(list, c, f) == [x \in DOMAIN list \cup {c} |-> IF x = c THEN f ELSE list[x]]
AddOnce(list, c, f) == IF c \in DOMAIN list THEN list ELSE Add(list, c, f)

\* sisdb_one_sub, sisdb_multiple_sub: a second one from a cid changes the format
Subscribe(list, c, f) == Add(list, c, f)

\* the connection that sent the current message is still there
Current == on[cur.cid] /\ gen[cur.cid] = cur.gen

Sub ==
    /\ cur.m = "sub" /\ Ran("ok")
    /\ IF cur.key \in Patterns
       THEN /\ multi' = [multi EXCEPT ![cur.key] = Subscribe(@, cur.cid, cur.fmt)]
            /\ UNCHANGED single
       ELSE /\ single' = [single EXCEPT ![cur.key] = Subscribe(@, cur.cid, cur.fmt)]
            /\ UNCHANGED multi
    /\ asked' = IF Current THEN [asked EXCEPT ![cur.cid] = Add(@, cur.key, cur.fmt)] ELSE asked
    /\ UNCHANGED <<access, store, fault, pushed>>

\* cmd_sisdb_unsub: whole, sisdb_multiple_unsub, sisdb_one_unsub
Unsub ==
    /\ cur.m = "unsub" /\ Ran("ok")
    /\ CASE cur.key \in {AllKeys, AllTables} -> UnsubWhole(cur.cid)
         [] cur.key \in Patterns \ {AllKeys, AllTables} ->
              /\ multi' = [multi EXCEPT ![cur.key] = Without(@, cur.cid)] /\ UNCHANGED single
         [] OTHER ->
              /\ single' = [single EXCEPT ![cur.key] = Without(@, cur.cid)] /\ UNCHANGED multi
    /\ asked' = IF ~Current THEN asked
                ELSE [asked EXCEPT ![cur.cid] = IF cur.key \in {AllKeys, AllTables} THEN NoSubs
                                                ELSE Without(@, cur.key)]
    /\ UNCHANGED <<access, store, fault, pushed>>

\* cmd_sisdb_server_auth: an entry for the cid if the password is right
Auth ==
    /\ cur.m = "auth" /\ Ran("ok")
    /\ access' \in {access} \cup {[access EXCEPT ![cur.cid] = a] :
                                      a \in IF auth THEN {"read", "write", "admin"} ELSE {}}
    /\ UNCHANGED <<store, subs, fault, pushed, asked>>

Run == /\ ~fault /\ rpc = "run"
       /\ \/ SetOne \/ SetTable \/ Get \/ Gets \/ Del \/ DelsOne \/ DelsTable
          \/ Sub \/ Unsub \/ Auth

\* sisdb_server_send_service after the command: one answer for every result
ReplyUnlessNull == result # "null"
Replies == result \in {"ok", "null", "error"}
Reply ==
    /\ ~fault /\ rpc = "reply"
    /\ replies' = IF Replies THEN [replies EXCEPT ![cur.id] = @ + 1] ELSE replies
    /\ rpc' = "idle" /\ cur' = NoMsg /\ result' = "none" /\ pushed' = {}
    /\ UNCHANGED <<auth, access, on, gen, recv, store, subs, fault, nmsg, log, ran, asked>>

-----------------------------------------------------------------------------
RStep == Take \/ Run \/ Reply
Next  == RStep \/ \E c \in Clients : Connect(c) \/ Receive(c) \/ Disconnect(c)

\* R is the thread of a reader that is woken for what is queued.
Spec     == Init /\ [][Next]_vars
FairSpec == Spec /\ WF_vars(RStep)

-----------------------------------------------------------------------------
\* lists of what a set of subscribers or of keys is mapped to
Lists(X) == UNION {[S -> Formats] : S \in SUBSET X}
Message  == [id : Nat, cid : Clients, gen : Nat, m : STRING, key : Keys \cup Patterns, fmt : Formats]

TypeOK ==
    /\ auth \in BOOLEAN /\ access \in [Clients -> {"none", "read", "write", "admin"}]
    /\ on \in [Clients -> BOOLEAN] /\ gen \in [Clients -> Nat]
    /\ recv \in Seq(Message)
    /\ store \in [Keys -> {"none", "chars", "bytes", "rows", "empty"}]
    /\ single \in [Keys -> Lists(Clients)] /\ multi \in [Patterns -> Lists(Clients)]
    /\ rpc \in {"idle", "run", "reply"} /\ fault \in BOOLEAN
    /\ cur \in Message \cup {NoMsg} /\ result \in {"none", "ok", "null", "error"}
    /\ nmsg \in 0 .. MaxMsgs /\ log \in Seq(Nat) /\ ran \in Seq(Nat)
    /\ replies \in [Ids -> Nat] /\ pushed \subseteq [to : Clients, key : Keys, fmt : Formats]
    /\ asked \in [Clients -> Lists(Keys \cup Patterns)]

\* AskedReceive: a connection that asked for a key, on its own or by a pattern,
\* and still wants it, is sent every new value of the key in the format it asked
\* for last, whatever others subscribed, cancelled or lost in between; but a
\* single key set to bytes goes out in bytes whoever asked for chars.
AskedReceive ==
    rpc = "reply" /\ result = "ok" /\ cur.m \in {"set", "bset"} =>
        \A c \in Clients : on[c] => \A a \in DOMAIN asked[c] :
            a = cur.key \/ (a \in Patterns /\ cur.key \in Covers[a]) =>
                \E p \in pushed : /\ p.to = c /\ p.key = cur.key
                                  /\ \/ p.fmt = asked[c][a]
                                     \/ cur.m = "bset" /\ cur.key \in SingleKeys /\ p.fmt = "bytes"

\* LoggedAsRun: the write-ahead log holds the write commands in the order in
\* which they are executed, at most one ahead, and none that was refused; a
\* command R has done with was answered, once if it ran and twice if it was
\* refused, and nothing is answered before.
LoggedAsRun ==
    /\ log = IF rpc = "run" /\ IsWrite(cur.m) THEN Append(ran, cur.id) ELSE ran
    /\ ~fault => \A i \in 1 .. nmsg :
          LET open == i = cur.id \/ \E j \in 1 .. Len(recv) : recv[j].id = i
          IN  replies[i] \in (IF open THEN {0} ELSE {1, 2})

\* AnswersCome: whatever is queued, R comes to a point where every message has
\* had its answer, unless the program fails.
AnswersCome == []<>(fault \/ \A i \in 1 .. nmsg : replies[i] > 0)

\* OnlyAsked: what is published to a connection is a key it asked for: the
\* comments on the kinds of subscriptions (sisdb.h:38-45) tie each to the keys
\* it names, and a disconnect ends the queries of a client (sisdb.c:33).
OnlyAsked ==
    \A p \in pushed : on[p.to] =>
        \E a \in DOMAIN asked[p.to] : a = p.key \/ (a \in Patterns /\ p.key \in Covers[a])
=============================================================================
