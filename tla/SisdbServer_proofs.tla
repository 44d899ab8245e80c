------------------------- MODULE SisdbServer_proofs -------------------------
(***************************************************************************)
(* Theorems about SisdbServer, for every set of clients, keys and          *)
(* subscription strings, whatever commands the clients send.               *)
(***************************************************************************)
EXTENDS SisdbServer, SequenceTheorems, TLAPS

(***************************************************************************)
(* R takes the messages in the order in which they came, each once: ids    *)
(* grow along recv_list, after the one at work.  None is answered before   *)
(* it came, and every command has a result when it is answered.            *)
(***************************************************************************)
OrderInv ==
    /\ rpc = "idle" <=> cur = NoMsg
    /\ cur # NoMsg => cur.id \in 1 .. nmsg
    /\ \A j \in 1 .. Len(recv) : recv[j].id \in cur.id + 1 .. nmsg
    /\ \A i, j \in 1 .. Len(recv) : i < j => recv[i].id < recv[j].id
    /\ \A i \in Ids : nmsg < i => replies[i] = 0
    /\ rpc = "reply" => result \in {"ok", "null", "error"}

\* a message is at work or still queued
Open(i) == i = cur.id \/ \E j \in 1 .. Len(recv) : recv[j].id = i

(***************************************************************************)
(* A cid is given to one connection after the other.  What an earlier one  *)
(* has sent comes before what a later one sends, so as long as it is not   *)
(* done with, the later one cannot have asked for anything.                *)
(***************************************************************************)
Pending == {recv[j] : j \in 1 .. Len(recv)} \cup ({cur} \ {NoMsg})

CidInv ==
    /\ \A m \in Pending : m.gen <= gen[m.cid]
    /\ \A i, j \in 1 .. Len(recv) : i < j /\ recv[i].cid = recv[j].cid => recv[i].gen <= recv[j].gen
    /\ cur # NoMsg => \A j \in 1 .. Len(recv) : recv[j].cid = cur.cid => cur.gen <= recv[j].gen
    /\ \A m \in Pending : m.gen # gen[m.cid] => DOMAIN asked[m.cid] = {}

\* what a connection has asked for stands in the map for its kind, in its format
SubInv ==
    \A c \in Clients : on[c] => \A a \in DOMAIN asked[c] :
        /\ a \in Patterns => c \in DOMAIN multi[a] /\ multi[a][c] = asked[c][a]
        /\ a \in Keys => c \in DOMAIN single[a] /\ single[a][c] = asked[c][a]

\* only keys are set, and what is set is published
SetInv == \A m \in Pending : m.m \in {"set", "bset"} => m.key \in Keys

IInv == TypeOK /\ OrderInv /\ CidInv /\ SubInv /\ SetInv /\ LoggedAsRun /\ AskedReceive
-----------------------------------------------------------------------------
(***************************************************************************)
(* Lemmas about the operators of the model.                                *)
(***************************************************************************)
LEMMA ListsDef ==
    ASSUME NEW X, NEW f
    PROVE  f \in Lists(X) <=> \E S \in SUBSET X : f \in [S -> Formats]
  BY DEF Lists

LEMMA NoSubsList ==
    ASSUME NEW X PROVE NoSubs \in Lists(X) /\ DOMAIN NoSubs = {}
<1>1. NoSubs \in [{} -> Formats] /\ {} \in SUBSET X
  BY DEF NoSubs
<1> QED
  BY <1>1, ListsDef

\* A list with an entry has it, and keeps the others.
LEMMA AddEntry ==
    ASSUME NEW f, NEW x, NEW v
    PROVE  /\ \A y : y \in DOMAIN Add(f, x, v) <=> y \in DOMAIN f \/ y = x
           /\ Add(f, x, v)[x] = v
           /\ \A y \in DOMAIN f : y # x => Add(f, x, v)[y] = f[y]
  BY DEF Add

LEMMA AddList ==
    ASSUME NEW X, NEW f \in Lists(X), NEW x \in X, NEW v \in Formats
    PROVE  Add(f, x, v) \in Lists(X)
<1>1. PICK S \in SUBSET X : f \in [S -> Formats]
  BY ListsDef
<1>2. Add(f, x, v) \in [S \cup {x} -> Formats]
  BY <1>1 DEF Add
<1>3. S \cup {x} \in SUBSET X
  BY <1>1
<1> QED
  BY <1>2, <1>3, ListsDef

\* A list without an entry keeps the others.
LEMMA WithoutEntry ==
    ASSUME NEW f, NEW x
    PROVE  /\ \A y : y \in DOMAIN Without(f, x) <=> y \in DOMAIN f /\ y # x
           /\ \A y \in DOMAIN f : y # x => Without(f, x)[y] = f[y]
  BY DEF Without

LEMMA WithoutList ==
    ASSUME NEW X, NEW f \in Lists(X), NEW x
    PROVE  Without(f, x) \in Lists(X)
<1>1. PICK S \in SUBSET X : f \in [S -> Formats]
  BY ListsDef
<1>2. Without(f, x) \in [S \ {x} -> Formats]
  BY <1>1 DEF Without
<1>3. S \ {x} \in SUBSET X
  BY <1>1
<1> QED
  BY <1>2, <1>3, ListsDef

\* What is published goes to subscribers, in chars or in bytes.
LEMMA PublishType ==
    ASSUME TypeOK, NEW k \in Keys, NEW style \in Formats
    PROVE  Publish(k, style) \subseteq [to : Clients, key : Keys, fmt : Formats]
<1>1. ASSUME NEW f \in Lists(Clients)
      PROVE  To(f, k, style) \subseteq [to : Clients, key : Keys, fmt : Formats]
  <2>1. PICK S \in SUBSET Clients : f \in [S -> Formats]
    BY ListsDef
  <2>2. \A c \in S : Sent(k, style, f[c]) \in Formats
    BY <2>1 DEF Sent
  <2> QED
    BY <2>1, <2>2 DEF To
<1>2. single[k] \in Lists(Clients) /\ \A p \in Patterns : multi[p] \in Lists(Clients)
  BY DEF TypeOK
<1> QED
  BY <1>1, <1>2 DEF Publish

\* A count that grows is a count.
LEMMA Bump ==
    ASSUME NEW S, NEW f \in [S -> Nat], NEW x \in S, NEW n \in Nat
    PROVE  [f EXCEPT ![x] = f[x] + n] \in [S -> Nat]
<1>1. f[x] + n \in Nat
  OBVIOUS
<1> QED
  BY <1>1

\* Every command goes on to its answer, and notes that it ran.
RunEffect ==
    /\ ~fault /\ rpc = "run" /\ rpc' = "reply" /\ result' \in {"ok", "null", "error"}
    /\ ran' = IF IsWrite(cur.m) THEN Append(ran, cur.id) ELSE ran
    /\ UNCHANGED <<auth, on, gen, recv, cur, nmsg, log, replies>>

LEMMA RunRan == Run => RunEffect
<1> SUFFICES ASSUME Run PROVE RunEffect
  OBVIOUS
<1>1. ASSUME NEW o \in {"ok", "null", "error"}, Ran(o) PROVE RunEffect
  BY <1>1 DEF Ran, Run, RunEffect
<1>2. \E o \in {"ok", "null", "error"} : Ran(o)
  BY DEF Run, SetOne, SetTable, Get, Gets, Del, DelsOne, DelsTable, Sub, Unsub, Auth
<1> QED
  BY <1>1, <1>2

-----------------------------------------------------------------------------
(***************************************************************************)
(* Types.                                                                  *)
(***************************************************************************)
LEMMA TypeInit == Init => TypeOK
<1> SUFFICES ASSUME Init PROVE TypeOK
  OBVIOUS
<1>1. auth \in BOOLEAN
  BY ServerAssumption DEF Init
<1>2. /\ single \in [Keys -> Lists(Clients)] /\ multi \in [Patterns -> Lists(Clients)]
      /\ asked \in [Clients -> Lists(Keys \cup Patterns)]
  BY NoSubsList DEF Init
<1>3. /\ access \in [Clients -> {"none", "read", "write", "admin"}]
      /\ on \in [Clients -> BOOLEAN] /\ gen \in [Clients -> Nat] /\ fault \in BOOLEAN
  BY DEF Init
<1>4. /\ recv \in Seq(Message) /\ log \in Seq(Nat) /\ ran \in Seq(Nat) /\ replies \in [Ids -> Nat]
      /\ nmsg \in 0 .. MaxMsgs
  BY ServerAssumption DEF Init
<1> QED
  BY <1>1, <1>2, <1>3, <1>4 DEF Init, TypeOK

\* what a client sends is a message
LEMMA SentType ==
    ASSUME TypeOK, NEW c \in Clients, NEW cmd \in Commands[c], NEW f \in Formats
    PROVE  /\ [id |-> nmsg + 1, cid |-> c, gen |-> gen[c], m |-> cmd.m, key |-> cmd.key, fmt |-> f]
                 \in Message
           /\ cmd.m \in {"set", "bset"} => cmd.key \in Keys
<1>1. cmd \in [m : STRING, key : Keys \cup Patterns]
  BY ServerAssumption
<1>2. cmd.m \in STRING /\ cmd.key \in Keys \cup Patterns
  BY <1>1
<1>3. nmsg + 1 \in Nat /\ gen[c] \in Nat
  BY ServerAssumption DEF TypeOK
<1> QED
  BY <1>2, <1>3, ServerAssumption DEF Message

LEMMA TypeStep == TypeOK /\ OrderInv /\ SetInv /\ [Next]_vars => TypeOK'
<1> SUFFICES ASSUME TypeOK, OrderInv, SetInv, [Next]_vars PROVE TypeOK'
  OBVIOUS
<1> USE DEF TypeOK
<1>1. ASSUME NEW c \in Clients, Connect(c) PROVE TypeOK'
  <2>1. on' \in [Clients -> BOOLEAN] /\ gen' \in [Clients -> Nat]
    BY <1>1 DEF Connect
  <2>2. asked' \in [Clients -> Lists(Keys \cup Patterns)]
    BY <1>1, NoSubsList DEF Connect
  <2> QED
    BY <1>1, <2>1, <2>2 DEF Connect, subs
<1>2. ASSUME NEW c \in Clients, Receive(c) PROVE TypeOK'
  <2>1. PICK cmd \in Commands[c], f \in Formats :
          recv' = Append(recv, [id |-> nmsg + 1, cid |-> c, gen |-> gen[c],
                                m |-> cmd.m, key |-> cmd.key, fmt |-> f])
    BY <1>2 DEF Receive
  <2>3. recv' \in Seq(Message)
    BY <2>1, SentType, AppendProperties
  <2>2. nmsg' \in 0 .. MaxMsgs
    BY <1>2, ServerAssumption DEF Receive
  <2> QED
    BY <1>2, <2>2, <2>3 DEF Receive, subs
<1>3. ASSUME NEW c \in Clients, Disconnect(c) PROVE TypeOK'
  BY <1>3 DEF Disconnect, Clear, subs, history
<1>4. CASE Take
  <2>1. Head(recv) \in Message /\ recv' \in Seq(Message)
    BY <1>4 DEF Take
  <2>2. Head(recv).id \in Ids
    <3>1. cur.id = 0
      BY <1>4 DEF Take, OrderInv, NoMsg
    <3>2. Len(recv) \in Nat /\ 1 \in 1 .. Len(recv) /\ Head(recv) = recv[1]
      BY <1>4 DEF Take
    <3>3. Head(recv).id \in 1 .. nmsg
      BY <3>1, <3>2 DEF OrderInv
    <3> QED
      BY <3>3, ServerAssumption DEF Ids
  <2>3. replies' \in [Ids -> Nat]
    <3>1. \/ UNCHANGED replies
          \/ replies' = [replies EXCEPT ![Head(recv).id] = replies[Head(recv).id] + 2]
      BY <1>4 DEF Take, Refuse
    <3>2. replies \in [Ids -> Nat] /\ 2 \in Nat
      BY DEF TypeOK
    <3>3. CASE UNCHANGED replies
      BY <3>2, <3>3
    <3> HIDE DEF TypeOK
    <3> QED
      BY <2>2, <3>1, <3>2, <3>3, Bump
  <2>6. log' \in Seq(Nat)
    <3>1. UNCHANGED log \/ log' = Append(log, Head(recv).id)
      BY <1>4 DEF Take, LogWrites
    <3>2. log \in Seq(Nat) /\ Head(recv).id \in Nat
      BY <2>1 DEF TypeOK, Message
    <3> HIDE DEF TypeOK
    <3> QED
      BY <3>1, <3>2
  <2>4. rpc' \in {"idle", "run", "reply"} /\ cur' \in Message \cup {NoMsg}
    BY <1>4, <2>1 DEF Take, Refuse
  <2>5. fault' \in BOOLEAN
    BY <1>4 DEF Take
  <2> QED
    BY <1>4, <2>1, <2>3, <2>4, <2>5, <2>6 DEF Take, subs
<1>5. CASE Run
  <2>1. cur \in Message /\ cur.cid \in Clients /\ cur.fmt \in Formats
        /\ cur.id \in Nat /\ cur.key \in Keys \cup Patterns
    BY <1>5 DEF Run, OrderInv, Message
  <2>2. RunEffect
    BY <1>5, RunRan
  <2>3. ran' \in Seq(Nat)
    BY <2>1, <2>2 DEF RunEffect
  <2>4. SUFFICES /\ access' \in [Clients -> {"none", "read", "write", "admin"}]
                 /\ store' \in [Keys -> {"none", "chars", "bytes", "rows", "empty"}]
                 /\ single' \in [Keys -> Lists(Clients)] /\ multi' \in [Patterns -> Lists(Clients)]
                 /\ fault' \in BOOLEAN
                 /\ pushed' \subseteq [to : Clients, key : Keys, fmt : Formats]
                 /\ asked' \in [Clients -> Lists(Keys \cup Patterns)]
    BY <2>2, <2>3 DEF RunEffect
  <2>5. CASE SetOne
    <3>1. PICK style \in Formats :
             /\ style = (IF cur.m = "set" THEN "chars" ELSE "bytes")
             /\ \/ store' = [store EXCEPT ![cur.key] = style] /\ pushed' = Publish(cur.key, style)
                \/ pushed' = {} /\ UNCHANGED store
      BY <2>5 DEF SetOne, Formats
    <3>2. /\ cur.key \in Keys
          /\ UNCHANGED <<access, single, multi, fault, asked>>
      BY <2>5 DEF SetOne, subs, Keys
    <3>3. pushed' \subseteq [to : Clients, key : Keys, fmt : Formats]
      <4>1. PICK k \in Keys : k = cur.key
        BY <3>2
      <4>2. Publish(k, style) \subseteq [to : Clients, key : Keys, fmt : Formats]
        BY PublishType
      <4>3. pushed' = Publish(k, style) \/ pushed' = {}
        BY <3>1, <4>1
      <4> QED
        BY <4>2, <4>3
    <3>4. store' \in [Keys -> {"none", "chars", "bytes", "rows", "empty"}]
      BY <3>1, <3>2 DEF Formats
    <3> QED
      BY <3>2, <3>3, <3>4
  <2>6. CASE SetTable
    <3>1. /\ store' \in [Keys -> {"none", "chars", "bytes", "rows", "empty"}]
          /\ pushed' \subseteq [to : Clients, key : Keys, fmt : Formats]
      <4>1. "bytes" \in Formats /\ cur.key \in Keys
        BY <2>6 DEF SetTable, Keys, Formats
      <4> QED
        BY <2>6, <4>1, PublishType DEF SetTable
    <3> QED
      BY <2>6, <3>1 DEF SetTable, subs
  <2>7. CASE Get \/ Gets
    BY <2>7 DEF Get, Gets, subs
  <2>8. CASE Del \/ DelsOne
    BY <2>8 DEF Del, DelsOne, subs
  <2>9. CASE DelsTable
    BY <2>9 DEF DelsTable, subs
  <2>10. CASE Sub
    <3>1. /\ single' \in [Keys -> Lists(Clients)] /\ multi' \in [Patterns -> Lists(Clients)]
      <4>1. CASE cur.key \in Patterns
        <5>1. Add(multi[cur.key], cur.cid, cur.fmt) \in Lists(Clients)
          BY <2>1, <4>1, AddList
        <5>2. /\ multi' = [multi EXCEPT ![cur.key] = Add(multi[cur.key], cur.cid, cur.fmt)]
              /\ UNCHANGED single
          BY <2>10, <4>1 DEF Sub, Subscribe
        <5> QED
          BY <5>1, <5>2
      <4>2. CASE cur.key \notin Patterns
        <5>1. Add(single[cur.key], cur.cid, cur.fmt) \in Lists(Clients)
          BY <2>1, <4>2, AddList
        <5>2. /\ single' = [single EXCEPT ![cur.key] = Add(single[cur.key], cur.cid, cur.fmt)]
              /\ UNCHANGED multi
          BY <2>10, <4>2 DEF Sub, Subscribe
        <5> QED
          BY <5>1, <5>2
      <4> QED
        BY <4>1, <4>2
    <3>2. asked' \in [Clients -> Lists(Keys \cup Patterns)]
      BY <2>1, <2>10, AddList DEF Sub
    <3> QED
      BY <2>10, <3>1, <3>2 DEF Sub
  <2>11. CASE Unsub
    <3>1. /\ single' \in [Keys -> Lists(Clients)] /\ multi' \in [Patterns -> Lists(Clients)]
      <4>1. /\ \A k \in Keys : Without(single[k], cur.cid) \in Lists(Clients)
            /\ \A p \in Patterns : Without(multi[p], cur.cid) \in Lists(Clients)
        BY WithoutList
      <4>2. \/ UnsubWhole(cur.cid)
            \/ /\ cur.key \in Patterns /\ UNCHANGED single
               /\ multi' = [multi EXCEPT ![cur.key] = Without(multi[cur.key], cur.cid)]
            \/ /\ UNCHANGED multi
               /\ single' = [single EXCEPT ![cur.key] = Without(single[cur.key], cur.cid)]
        BY <2>11 DEF Unsub
      <4>3. CASE UnsubWhole(cur.cid)
        BY <4>1, <4>3 DEF UnsubWhole
      <4>4. CASE /\ cur.key \in Patterns /\ UNCHANGED single
                 /\ multi' = [multi EXCEPT ![cur.key] = Without(multi[cur.key], cur.cid)]
        BY <4>1, <4>4
      <4>5. CASE /\ UNCHANGED multi
                 /\ single' = [single EXCEPT ![cur.key] = Without(single[cur.key], cur.cid)]
        BY <4>1, <4>5
      <4> QED
        BY <4>2, <4>3, <4>4, <4>5
    <3>2. asked' \in [Clients -> Lists(Keys \cup Patterns)]
      BY <2>1, <2>11, WithoutList, NoSubsList DEF Unsub
    <3> QED
      BY <2>11, <3>1, <3>2 DEF Unsub
  <2>12. CASE Auth
    BY <2>12 DEF Auth, subs
  <2> QED
    BY <1>5, <2>5, <2>6, <2>7, <2>8, <2>9, <2>10, <2>11, <2>12 DEF Run
<1>6. CASE Reply
  <2>1. cur.id \in Ids
    BY <1>6, ServerAssumption DEF Reply, OrderInv, Ids
  <2>2. replies' \in [Ids -> Nat]
    <3>1. UNCHANGED replies \/ replies' = [replies EXCEPT ![cur.id] = replies[cur.id] + 1]
      BY <1>6 DEF Reply
    <3>2. replies \in [Ids -> Nat] /\ 1 \in Nat
      BY DEF TypeOK
    <3> HIDE DEF TypeOK
    <3> QED
      BY <2>1, <3>1, <3>2, Bump
  <2> QED
    BY <1>6, <2>2 DEF Reply, subs
<1>7. CASE UNCHANGED vars
  <2>1. UNCHANGED <<auth, access, on, gen, recv, store, single, multi, rpc, cur, result, fault,
                    nmsg, log, ran, replies, pushed, asked>>
    BY <1>7 DEF vars, subs, history
  <2> QED
    BY <2>1
<1> QED
  BY <1>1, <1>2, <1>3, <1>4, <1>5, <1>6, <1>7 DEF Next, RStep
-----------------------------------------------------------------------------
(***************************************************************************)
(* What each step does to the messages.                                    *)
(***************************************************************************)

\* The network thread puts a new message at the end,
LEMMA ReceiveEffect ==
    ASSUME TypeOK, NEW c \in Clients, Receive(c)
    PROVE  /\ Len(recv') = Len(recv) + 1
           /\ \A j \in 1 .. Len(recv) : recv'[j] = recv[j]
           /\ recv'[Len(recv) + 1].id = nmsg + 1
           /\ recv'[Len(recv) + 1].cid = c
           /\ recv'[Len(recv) + 1].gen = gen[c]
           /\ recv'[Len(recv) + 1].m \in {"set", "bset"} => recv'[Len(recv) + 1].key \in Keys
           /\ nmsg' = nmsg + 1 /\ UNCHANGED <<rpc, cur, result, fault, log, ran, replies>>
<1>1. PICK cmd \in Commands[c], f \in Formats :
        recv' = Append(recv, [id |-> nmsg + 1, cid |-> c, gen |-> gen[c],
                              m |-> cmd.m, key |-> cmd.key, fmt |-> f])
  BY DEF Receive
<1>2. recv \in Seq(Message)
  BY DEF TypeOK
<1> DEFINE msg == [id |-> nmsg + 1, cid |-> c, gen |-> gen[c], m |-> cmd.m, key |-> cmd.key, fmt |-> f]
<1>3. msg \in Message /\ (msg.m \in {"set", "bset"} => msg.key \in Keys)
  BY SentType
<1>4. msg.id = nmsg + 1 /\ msg.cid = c /\ msg.gen = gen[c]
  OBVIOUS
<1>5. recv' = Append(recv, msg)
  BY <1>1
<1> HIDE DEF msg
<1>6. /\ Len(recv') = Len(recv) + 1 /\ \A j \in 1 .. Len(recv) : recv'[j] = recv[j]
      /\ recv'[Len(recv) + 1] = msg
  BY <1>2, <1>3, <1>5, AppendProperties
<1> QED
  BY <1>3, <1>4, <1>6 DEF Receive

\* and R takes the first one.
LEMMA TakeEffect ==
    ASSUME TypeOK, Take
    PROVE  /\ recv \in Seq(Message) /\ Len(recv) \in Nat \ {0} /\ Len(recv') = Len(recv) - 1
           /\ Head(recv) = recv[1] /\ recv[1] \in Message
           /\ \A j \in 1 .. Len(recv') : j + 1 \in 1 .. Len(recv) /\ recv'[j] = recv[j + 1]
           /\ \A j \in 2 .. Len(recv) : j - 1 \in 1 .. Len(recv') /\ recv'[j - 1] = recv[j]
<1>1. recv \in Seq(Message) /\ recv # <<>> /\ recv' = Tail(recv)
  BY DEF TypeOK, Take
<1>2. Len(recv) \in Nat \ {0} /\ Len(recv') = Len(recv) - 1
  BY <1>1
<1> QED
  BY <1>1, <1>2

LEMMA OrderStep == TypeOK /\ OrderInv /\ [Next]_vars => OrderInv'
<1> SUFFICES ASSUME TypeOK, OrderInv, [Next]_vars PROVE OrderInv'
  OBVIOUS
<1>1. /\ nmsg \in Nat /\ Len(recv) \in Nat /\ cur \in Message \cup {NoMsg} /\ cur.id \in Nat
      /\ recv \in Seq(Message) /\ \A j \in 1 .. Len(recv) : recv[j] \in Message /\ recv[j].id \in Nat
      /\ MaxMsgs \in Nat /\ nmsg <= MaxMsgs /\ NoMsg.id = 0
  <2>1. nmsg \in Nat /\ MaxMsgs \in Nat /\ nmsg <= MaxMsgs /\ NoMsg.id = 0
    BY ServerAssumption DEF TypeOK, NoMsg
  <2>2. recv \in Seq(Message) /\ cur \in Message \cup {NoMsg}
    BY DEF TypeOK
  <2>3. Len(recv) \in Nat /\ \A j \in 1 .. Len(recv) : recv[j] \in Message
    BY <2>2
  <2>4. \A msg \in Message : msg.id \in Nat
    BY DEF Message
  <2> QED
    BY <2>1, <2>2, <2>3, <2>4
<1>2. ASSUME NEW c \in Clients, Receive(c) PROVE OrderInv'
  <2>1. nmsg' = nmsg + 1 /\ Len(recv') = Len(recv) + 1 /\ recv'[Len(recv) + 1].id = nmsg + 1
        /\ (\A j \in 1 .. Len(recv) : recv'[j] = recv[j]) /\ UNCHANGED <<rpc, cur, result, replies>>
    BY <1>2, ReceiveEffect
  <2>2. (rpc = "idle" <=> cur = NoMsg)' /\ (rpc = "reply" => result \in {"ok", "null", "error"})'
    BY <2>1 DEF OrderInv
  <2>3. (cur # NoMsg => cur.id \in 1 .. nmsg)' /\ (\A i \in Ids : nmsg < i => replies[i] = 0)'
    BY <1>1, <2>1 DEF OrderInv, Ids
  <2>4. \A j \in 1 .. Len(recv) : recv'[j].id \in cur.id + 1 .. nmsg
    BY <1>1, <2>1 DEF OrderInv
  <2>5. cur.id <= nmsg
    BY <1>1 DEF OrderInv
  <2>6. (\A j \in 1 .. Len(recv) : recv[j].id \in cur.id + 1 .. nmsg)'
    <3> SUFFICES ASSUME NEW j \in 1 .. Len(recv) + 1 PROVE recv'[j].id \in cur.id + 1 .. nmsg + 1
      BY <2>1
    <3> QED
      BY <1>1, <2>1, <2>4, <2>5
  <2>7. (\A i, j \in 1 .. Len(recv) : i < j => recv[i].id < recv[j].id)'
    <3> SUFFICES ASSUME NEW i \in 1 .. Len(recv) + 1, NEW j \in 1 .. Len(recv) + 1, i < j
                 PROVE  recv'[i].id < recv'[j].id
      BY <2>1
    <3>1. CASE j = Len(recv) + 1
      BY <1>1, <2>1, <2>4, <3>1
    <3>2. CASE j # Len(recv) + 1
      <4>1. i \in 1 .. Len(recv) /\ j \in 1 .. Len(recv)
        BY <1>1, <3>2, SMTT(20)
      <4> QED
        BY <2>1, <4>1 DEF OrderInv
    <3> QED
      BY <3>1, <3>2
  <2> QED
    BY <2>2, <2>3, <2>6, <2>7 DEF OrderInv
<1>3. CASE Take
  <2>1. recv[1].id > 0 /\ recv[1].id \in 1 .. nmsg /\ cur.id = 0
    BY <1>1, <1>3, TakeEffect DEF OrderInv, Take
  <2>2. recv[1] # NoMsg
    BY <1>1, <2>1
  <2>3. nmsg' = nmsg /\ result' = result
        /\ \/ rpc' = rpc /\ cur' = cur /\ replies' = replies
           \/ rpc' = "run" /\ cur' = recv[1] /\ replies' = replies
           \/ rpc' = "idle" /\ cur' = NoMsg
              /\ replies' = [replies EXCEPT ![recv[1].id] = replies[recv[1].id] + 2]
    BY <1>3, TakeEffect DEF Take, Refuse
  <2>4. (rpc = "idle" <=> cur = NoMsg)' /\ (cur # NoMsg => cur.id \in 1 .. nmsg)'
        /\ (rpc = "reply" => result \in {"ok", "null", "error"})'
    BY <1>3, <2>1, <2>2, <2>3 DEF OrderInv, Take
  <2>5. (\A i \in Ids : nmsg < i => replies[i] = 0)'
    <3>1. ASSUME NEW i \in Ids, nmsg < i PROVE replies'[i] = 0
      <4>1. replies[i] = 0 /\ i # recv[1].id /\ replies \in [Ids -> Nat]
        BY <1>1, <2>1, <3>1, SMTT(20) DEF OrderInv, Ids, TypeOK
      <4> QED
        BY <2>3, <4>1
    <3> QED
      BY <2>3, <3>1
  <2>6. \A j \in 1 .. Len(recv') : recv'[j].id \in recv[1].id + 1 .. nmsg /\ recv'[j].id \in cur.id + 1 .. nmsg
    <3> SUFFICES ASSUME NEW j \in 1 .. Len(recv')
                 PROVE  recv'[j].id \in recv[1].id + 1 .. nmsg /\ recv'[j].id \in cur.id + 1 .. nmsg
      OBVIOUS
    <3>1. j + 1 \in 1 .. Len(recv) /\ recv'[j] = recv[j + 1] /\ 1 < j + 1 /\ 1 \in 1 .. Len(recv)
      BY <1>1, <1>3, TakeEffect
    <3>2. recv[1].id < recv[j + 1].id /\ recv[j + 1].id \in cur.id + 1 .. nmsg
      BY <3>1 DEF OrderInv
    <3> QED
      BY <1>1, <2>1, <3>1, <3>2
  <2>7. (\A i, j \in 1 .. Len(recv) : i < j => recv[i].id < recv[j].id)'
    BY <1>1, <1>3, TakeEffect DEF OrderInv
  <2>8. (\A j \in 1 .. Len(recv) : recv[j].id \in cur.id + 1 .. nmsg)'
    BY <1>1, <2>1, <2>3, <2>6
  <2> QED
    BY <2>4, <2>5, <2>7, <2>8 DEF OrderInv
<1>4. CASE Run
  BY <1>4, RunRan DEF OrderInv, RunEffect
<1>5. CASE Reply
  <2>1. cur.id \in 1 .. nmsg /\ UNCHANGED <<recv, nmsg>> /\ rpc' = "idle" /\ cur' = NoMsg
    BY <1>5 DEF Reply, OrderInv
  <2>2. (\A i \in Ids : nmsg < i => replies[i] = 0)'
    <3>1. ASSUME NEW i \in Ids, nmsg < i PROVE replies'[i] = 0
      <4>1. replies[i] = 0 /\ i # cur.id /\ replies \in [Ids -> Nat]
        BY <1>1, <2>1, <3>1 DEF OrderInv, Ids, TypeOK
      <4> QED
        BY <1>5, <4>1 DEF Reply
    <3> QED
      BY <2>1, <3>1
  <2>3. (\A j \in 1 .. Len(recv) : recv[j].id \in cur.id + 1 .. nmsg)'
    BY <1>1, <2>1 DEF OrderInv
  <2> QED
    BY <2>1, <2>2, <2>3 DEF OrderInv
<1>6. ASSUME UNCHANGED <<recv, rpc, cur, result, nmsg, replies>> PROVE OrderInv'
  BY <1>6 DEF OrderInv
<1>7. ASSUME NEW c \in Clients, Connect(c) \/ Disconnect(c) PROVE OrderInv'
  BY <1>6, <1>7 DEF Connect, Disconnect, history
<1>8. CASE UNCHANGED vars
  BY <1>6, <1>8 DEF vars, history
<1> QED
  BY <1>2, <1>3, <1>4, <1>5, <1>7, <1>8 DEF Next, RStep
-----------------------------------------------------------------------------
(***************************************************************************)
(* The log and the answers.                                                *)
(***************************************************************************)
LogInOrder == log = IF rpc = "run" /\ IsWrite(cur.m) THEN Append(ran, cur.id) ELSE ran
Answered   == \A i \in 1 .. nmsg : /\ Open(i) => replies[i] = 0
                                   /\ ~Open(i) => replies[i] \in {1, 2}

LEMMA LoggedDef == LoggedAsRun <=> LogInOrder /\ (~fault => Answered)
  BY DEF LoggedAsRun, LogInOrder, Answered, Open

LEMMA LoggedStep == TypeOK /\ OrderInv /\ LoggedAsRun /\ [Next]_vars => LoggedAsRun'
<1> SUFFICES ASSUME TypeOK, OrderInv, LoggedAsRun, [Next]_vars PROVE LoggedAsRun'
  OBVIOUS
<1>1. LogInOrder /\ (~fault => Answered)
  BY LoggedDef
<1>2. SUFFICES LogInOrder' /\ (~fault => Answered)'
  BY DEF LoggedAsRun, LogInOrder, Answered, Open
<1>3. /\ nmsg \in Nat /\ Len(recv) \in Nat /\ replies \in [Ids -> Nat] /\ 1 .. nmsg \subseteq Ids
      /\ NoMsg.id = 0
  BY ServerAssumption DEF TypeOK, Ids, NoMsg
<1> DEFINE OpenAfter(i) == i = cur'.id \/ \E j \in 1 .. Len(recv') : recv'[j].id = i
<1>a. ASSUME \A i \in 1 .. nmsg' : (OpenAfter(i) => replies'[i] = 0)
                                   /\ (~OpenAfter(i) => replies'[i] \in {1, 2})
      PROVE  Answered'
  BY <1>a DEF Answered, Open
<1> HIDE DEF OpenAfter
<1>4. ASSUME NEW c \in Clients, Receive(c) PROVE LogInOrder' /\ Answered'
  <2>1. nmsg' = nmsg + 1 /\ Len(recv') = Len(recv) + 1 /\ recv'[Len(recv) + 1].id = nmsg + 1
        /\ (\A j \in 1 .. Len(recv) : recv'[j] = recv[j]) /\ UNCHANGED <<rpc, cur, log, ran, replies>>
    BY <1>4, ReceiveEffect
  <2>2. nmsg + 1 \in Ids /\ ~fault
    BY <1>3, <1>4, ServerAssumption DEF Receive, Ids
  <2>3. replies[nmsg + 1] = 0 /\ OpenAfter(nmsg + 1)
    BY <1>3, <2>1, <2>2 DEF OrderInv, OpenAfter
  <2>4. ASSUME NEW i \in 1 .. nmsg PROVE OpenAfter(i) <=> Open(i)
    BY <1>3, <2>1, <2>4 DEF Open, OpenAfter
  <2>5. ASSUME NEW i \in 1 .. nmsg + 1
        PROVE  (OpenAfter(i) => replies[i] = 0) /\ (~OpenAfter(i) => replies[i] \in {1, 2})
    <3>1. CASE i = nmsg + 1
      BY <2>3, <3>1
    <3>2. CASE i # nmsg + 1
      <4>1. i \in 1 .. nmsg
        BY <1>3, <3>2
      <4> QED
        BY <1>1, <2>2, <2>4, <4>1 DEF Answered
    <3> QED
      BY <3>1, <3>2
  <2> QED
    BY <1>1, <1>a, <2>1, <2>5 DEF LogInOrder
<1>5. CASE Take
  <2> DEFINE msg == recv[1]
  <2>1. /\ Len(recv') = Len(recv) - 1 /\ 1 \in 1 .. Len(recv) /\ nmsg' = nmsg
        /\ \A j \in 1 .. Len(recv') : j + 1 \in 1 .. Len(recv) /\ recv'[j] = recv[j + 1]
        /\ \A j \in 2 .. Len(recv) : j - 1 \in 1 .. Len(recv') /\ recv'[j - 1] = recv[j]
    BY <1>3, <1>5, TakeEffect DEF Take
  <2>2. log = ran /\ ran' = ran /\ cur.id = 0 /\ rpc = "idle" /\ ~fault
    BY <1>1, <1>3, <1>5 DEF Take, LogInOrder, OrderInv
  <2>3. msg.id \in 1 .. nmsg
    BY <2>1, <2>2, <1>3 DEF OrderInv
  <2>4. \/ fault' /\ log' = log /\ rpc' = rpc
        \/ /\ rpc' = "run" /\ cur' = msg /\ replies' = replies
           /\ log' = IF IsWrite(msg.m) THEN Append(log, msg.id) ELSE log
        \/ /\ rpc' = "idle" /\ cur' = NoMsg /\ log' = log
           /\ replies' = [replies EXCEPT ![msg.id] = replies[msg.id] + 2]
    BY <1>5, TakeEffect DEF Take, Refuse, LogWrites
  <2> HIDE DEF msg
  <2>5. LogInOrder'
    BY <2>2, <2>4 DEF LogInOrder
  <2>6. \A i \in 1 .. nmsg : Open(i) <=> i = msg.id \/ \E j \in 1 .. Len(recv') : recv'[j].id = i
    <3> SUFFICES ASSUME NEW i \in 1 .. nmsg
                 PROVE  Open(i) <=> i = msg.id \/ \E j \in 1 .. Len(recv') : recv'[j].id = i
      OBVIOUS
    <3>1. Open(i) => i = msg.id \/ \E j \in 1 .. Len(recv') : recv'[j].id = i
      <4> SUFFICES ASSUME Open(i), i # msg.id PROVE \E j \in 1 .. Len(recv') : recv'[j].id = i
        OBVIOUS
      <4>1. PICK j \in 1 .. Len(recv) : recv[j].id = i
        BY <2>2 DEF Open, OpenAfter
      <4>2. j \in 2 .. Len(recv)
        BY <1>3, <4>1 DEF msg
      <4> QED
        BY <2>1, <4>1, <4>2
    <3>2. i = msg.id => Open(i)
      BY <2>1 DEF Open, msg
    <3>3. ASSUME NEW j \in 1 .. Len(recv'), recv'[j].id = i PROVE Open(i)
      BY <2>1, <3>3 DEF Open, OpenAfter
    <3> QED
      BY <3>1, <3>2, <3>3
  <2>7. \A j \in 1 .. Len(recv') : recv'[j].id # msg.id
    <3> SUFFICES ASSUME NEW j \in 1 .. Len(recv') PROVE recv'[j].id # msg.id
      OBVIOUS
    <3>1. recv'[j] = recv[j + 1] /\ j + 1 \in 1 .. Len(recv) /\ 1 < j + 1
      BY <1>3, <2>1
    <3>2. msg.id < recv[j + 1].id
      BY <2>1, <3>1 DEF OrderInv, msg
    <3>3. recv[j + 1].id \in cur.id + 1 .. nmsg
      BY <3>1 DEF OrderInv
    <3> QED
      BY <1>3, <2>2, <2>3, <3>1, <3>2, <3>3
  <2>8. CASE rpc' = "run" /\ cur' = msg /\ replies' = replies
    <3>1. \A i \in 1 .. nmsg : OpenAfter(i) <=> Open(i)
      BY <2>6, <2>8 DEF Open, OpenAfter
    <3> QED
      BY <1>1, <1>a, <2>1, <2>2, <2>5, <2>8, <3>1 DEF Answered
  <2>9. CASE cur' = NoMsg /\ replies' = [replies EXCEPT ![msg.id] = replies[msg.id] + 2]
    <3>1. \A i \in 1 .. nmsg : OpenAfter(i) <=> \E j \in 1 .. Len(recv') : recv'[j].id = i
      BY <1>3, <2>9 DEF Open, OpenAfter
    <3>2. replies[msg.id] = 0 /\ replies'[msg.id] = 2 /\ ~OpenAfter(msg.id)
      <4>1. replies[msg.id] = 0
        BY <1>1, <2>2, <2>3, <2>6 DEF Answered
      <4> QED
        BY <1>3, <2>3, <2>7, <2>9, <3>1, <4>1
    <3>3. ASSUME NEW i \in 1 .. nmsg, i # msg.id
          PROVE  replies'[i] = replies[i] /\ (OpenAfter(i) <=> Open(i))
      <4>1. replies'[i] = replies[i]
        BY <1>3, <2>9, <3>3
      <4> QED
        BY <2>6, <3>1, <3>3, <4>1
    <3>4. ASSUME NEW i \in 1 .. nmsg
          PROVE  (OpenAfter(i) => replies'[i] = 0) /\ (~OpenAfter(i) => replies'[i] \in {1, 2})
      BY <1>1, <2>2, <3>2, <3>3 DEF Answered
    <3>5. Answered'
      BY <1>a, <2>1, <3>4
    <3> QED
      BY <2>5, <3>5
  <2> QED
    BY <2>4, <2>5, <2>8, <2>9
<1>6. CASE Run
  <2>1. RunEffect
    BY <1>6, RunRan
  <2>2. LogInOrder'
    BY <1>1, <2>1 DEF LogInOrder, RunEffect
  <2>3. Answered'
    BY <1>1, <2>1 DEF Answered, RunEffect, Open
  <2> QED
    BY <2>2, <2>3
<1>7. CASE Reply
  <2>1. cur.id \in 1 .. nmsg /\ cur' = NoMsg /\ UNCHANGED <<recv, nmsg, fault>> /\ ~fault
    BY <1>7 DEF Reply, OrderInv
  <2>2. replies' = [replies EXCEPT ![cur.id] = replies[cur.id] + 1]
    BY <1>7 DEF Reply, OrderInv, Replies
  <2>3. LogInOrder'
    BY <1>1, <1>7 DEF Reply, LogInOrder
  <2>4. ~OpenAfter(cur.id)
    BY <1>3, <2>1 DEF OpenAfter, OrderInv
  <2>5. replies[cur.id] = 0 /\ replies'[cur.id] = 1
    <3>1. replies[cur.id] = 0
      BY <1>1, <2>1 DEF Answered, Open
    <3> QED
      BY <1>3, <2>1, <2>2, <3>1
  <2>6. ASSUME NEW i \in 1 .. nmsg, i # cur.id
        PROVE  replies'[i] = replies[i] /\ (OpenAfter(i) <=> Open(i))
    BY <1>3, <2>1, <2>2, <2>6, SMTT(30) DEF Open, OpenAfter
  <2>7. Answered'
    BY <1>1, <1>a, <2>1, <2>4, <2>5, <2>6 DEF Answered
  <2> QED
    BY <2>3, <2>7
<1>8. ASSUME UNCHANGED <<recv, rpc, cur, fault, nmsg, log, ran, replies>>
      PROVE  LogInOrder' /\ (~fault => Answered)'
  BY <1>1, <1>8 DEF LogInOrder, Answered, Open
<1>9. ASSUME NEW c \in Clients, Connect(c) \/ Disconnect(c)
      PROVE  LogInOrder' /\ (~fault => Answered)'
  BY <1>8, <1>9 DEF Connect, Disconnect, history
<1>10. CASE UNCHANGED vars
  BY <1>8, <1>10 DEF vars, history
<1> QED
  BY <1>4, <1>5, <1>6, <1>7, <1>9, <1>10 DEF Next, RStep
-----------------------------------------------------------------------------
(***************************************************************************)
(* The connections of a cid.                                               *)
(***************************************************************************)

\* What is pending was pending, but for what has just come.
LEMMA PendingStep ==
    ASSUME TypeOK, OrderInv, [Next]_vars, NEW m \in Pending'
    PROVE  m \in Pending \/ \E c \in Clients : Receive(c) /\ m = recv'[Len(recv) + 1]
<1>1. Len(recv) \in Nat
  BY DEF TypeOK
<1>2. ASSUME NEW c \in Clients, Receive(c) PROVE m \in Pending \/ m = recv'[Len(recv) + 1]
  <2>1. Len(recv') = Len(recv) + 1 /\ cur' = cur /\ \A j \in 1 .. Len(recv) : recv'[j] = recv[j]
    BY <1>2, ReceiveEffect
  <2> QED
    BY <1>1, <2>1 DEF Pending
<1>3. CASE Take
  <2>1. 1 \in 1 .. Len(recv) /\ \A j \in 1 .. Len(recv') : j + 1 \in 1 .. Len(recv) /\ recv'[j] = recv[j + 1]
    BY <1>1, <1>3, TakeEffect
  <2>2. cur' = cur \/ cur' = recv[1] \/ cur' = NoMsg
    BY <1>3, TakeEffect DEF Take, Refuse
  <2>3. CASE m \in {cur'} \ {NoMsg}
    BY <2>1, <2>2, <2>3 DEF Pending
  <2>4. CASE \E j \in 1 .. Len(recv') : m = recv'[j]
    BY <2>1, <2>4 DEF Pending
  <2> QED
    BY <2>3, <2>4 DEF Pending
<1>4. ASSUME UNCHANGED recv, cur' = cur \/ cur' = NoMsg PROVE m \in Pending
  BY <1>4 DEF Pending
<1>5. CASE Run
  BY <1>4, <1>5, RunRan DEF RunEffect
<1>6. CASE Reply
  BY <1>4, <1>6 DEF Reply
<1>7. ASSUME NEW c \in Clients, Connect(c) \/ Disconnect(c) PROVE m \in Pending
  BY <1>4, <1>7 DEF Connect, Disconnect
<1>8. CASE UNCHANGED vars
  BY <1>4, <1>8 DEF vars
<1> QED
  BY <1>2, <1>3, <1>5, <1>6, <1>7, <1>8 DEF Next, RStep

LEMMA PendingType == TypeOK => Pending \subseteq Message
<1> SUFFICES ASSUME TypeOK PROVE Pending \subseteq Message
  OBVIOUS
<1>1. recv \in Seq(Message) /\ cur \in Message \cup {NoMsg}
  BY DEF TypeOK
<1>2. \A j \in 1 .. Len(recv) : recv[j] \in Message
  BY <1>1
<1> QED
  BY <1>1, <1>2 DEF Pending

LEMMA SetStep == TypeOK /\ OrderInv /\ SetInv /\ [Next]_vars => SetInv'
<1> SUFFICES ASSUME TypeOK, OrderInv, SetInv, [Next]_vars, NEW m \in Pending', m.m \in {"set", "bset"}
             PROVE  m.key \in Keys
  BY DEF SetInv
<1> QED
  BY PendingStep, ReceiveEffect DEF SetInv

\* Only the current connection of a cid asks for anything.
LEMMA AskedStep ==
    ASSUME TypeOK, OrderInv, [Next]_vars, NEW c \in Clients, asked'[c] # asked[c]
    PROVE  \/ Connect(c) /\ asked'[c] = NoSubs
           \/ Sub /\ rpc = "run" /\ c = cur.cid /\ Current /\ asked'[c] = Add(asked[c], cur.key, cur.fmt)
           \/ /\ Unsub /\ rpc = "run" /\ c = cur.cid /\ Current
              /\ asked'[c] = IF cur.key \in {AllKeys, AllTables} THEN NoSubs ELSE Without(asked[c], cur.key)
<1>1. asked \in [Clients -> Lists(Keys \cup Patterns)]
  BY DEF TypeOK
<1>2. ASSUME NEW d \in Clients, Connect(d) PROVE Connect(c) /\ asked'[c] = NoSubs
  BY <1>1, <1>2 DEF Connect
<1>3. ASSUME Sub, rpc = "run"
      PROVE  c = cur.cid /\ Current /\ asked'[c] = Add(asked[c], cur.key, cur.fmt)
  <2>1. Current /\ asked' = [asked EXCEPT ![cur.cid] = Add(asked[cur.cid], cur.key, cur.fmt)]
    BY <1>3 DEF Sub
  <2> QED
    BY <1>1, <2>1
<1>4. ASSUME Unsub, rpc = "run"
      PROVE  /\ c = cur.cid /\ Current
             /\ asked'[c] = IF cur.key \in {AllKeys, AllTables} THEN NoSubs ELSE Without(asked[c], cur.key)
  <2>1. Current
    BY <1>4 DEF Unsub
  <2>2. asked' = [asked EXCEPT ![cur.cid] = IF cur.key \in {AllKeys, AllTables} THEN NoSubs
                                            ELSE Without(asked[cur.cid], cur.key)]
    BY <1>4, <2>1 DEF Unsub
  <2> QED
    BY <1>1, <2>1, <2>2
<1>5. CASE Run
  <2>1. Sub \/ Unsub
    BY <1>5 DEF Run, SetOne, SetTable, Get, Gets, Del, DelsOne, DelsTable, Auth
  <2> QED
    BY <1>3, <1>4, <1>5, <2>1 DEF Run
<1>6. asked' # asked
  OBVIOUS
<1>7. ~Take /\ ~Reply /\ (\A d \in Clients : ~Receive(d) /\ ~Disconnect(d)) /\ ~(UNCHANGED vars)
  BY <1>6 DEF Take, Reply, Receive, Disconnect, history, vars
<1> QED
  BY <1>2, <1>5, <1>7 DEF Next, RStep

LEMMA CidStep == TypeOK /\ OrderInv /\ CidInv /\ [Next]_vars => CidInv'
<1> SUFFICES ASSUME TypeOK, OrderInv, CidInv, [Next]_vars PROVE CidInv'
  OBVIOUS
<1>1. /\ gen \in [Clients -> Nat] /\ Len(recv) \in Nat /\ recv \in Seq(Message)
      /\ \A j \in 1 .. Len(recv) : recv[j] \in Message /\ recv[j] \in Pending
  <2>1. gen \in [Clients -> Nat] /\ Len(recv) \in Nat /\ recv \in Seq(Message)
    BY DEF TypeOK
  <2> QED
    BY <2>1 DEF Pending
<1>2. \A msg \in Message : msg.cid \in Clients /\ msg.gen \in Nat
  BY DEF Message
<1>3. \A c \in Clients : gen[c] \in Nat /\ (gen'[c] = gen[c] \/ (gen'[c] = gen[c] + 1 /\ Connect(c)))
  <2>1. gen' = gen \/ \E c \in Clients : Connect(c) /\ gen' = [gen EXCEPT ![c] = gen[c] + 1]
    <3>1. CASE Run
      BY <3>1, RunRan DEF RunEffect
    <3> QED
      BY <3>1 DEF Next, RStep, Take, Reply, Receive, Disconnect, Connect, vars
  <2> QED
    BY <1>1, <2>1
<1>4. (\A m \in Pending : m.gen <= gen[m.cid])'
  <2> SUFFICES ASSUME NEW m \in Pending' PROVE m.gen <= gen'[m.cid]
    OBVIOUS
  <2>1. CASE m \in Pending
    <3>1. m.cid \in Clients /\ m.gen \in Nat /\ m.gen <= gen[m.cid]
      BY <1>2, <2>1, PendingType DEF CidInv
    <3> QED
      BY <1>3, <3>1
  <2>2. ASSUME NEW c \in Clients, Receive(c), m = recv'[Len(recv) + 1] PROVE m.gen <= gen'[m.cid]
    <3>1. m.cid = c /\ m.gen = gen[c] /\ gen' = gen
      BY <2>2, ReceiveEffect DEF Receive
    <3> QED
      BY <1>3, <3>1
  <2> QED
    BY <2>1, <2>2, PendingStep
<1>5. ASSUME NEW c \in Clients, Receive(c)
      PROVE  (\A j \in 1 .. Len(recv) : recv'[j] = recv[j]) /\ Len(recv') = Len(recv) + 1
             /\ (\A j \in 1 .. Len(recv) : recv[j].cid = c => recv[j].gen <= gen[c])
             /\ recv'[Len(recv) + 1].cid = c /\ recv'[Len(recv) + 1].gen = gen[c]
             /\ cur' = cur /\ (cur # NoMsg /\ cur.cid = c => cur.gen <= gen[c])
  <2>1. \A j \in 1 .. Len(recv) : recv[j].cid = c => recv[j].gen <= gen[c]
    BY <1>1 DEF CidInv
  <2>2. cur # NoMsg => cur \in Pending
    BY DEF Pending
  <2>3. cur # NoMsg /\ cur.cid = c => cur.gen <= gen[c]
    BY <2>2 DEF CidInv
  <2> QED
    BY <1>5, <2>1, <2>3, ReceiveEffect
<1>6. (\A i, j \in 1 .. Len(recv) : i < j /\ recv[i].cid = recv[j].cid => recv[i].gen <= recv[j].gen)'
  <2> SUFFICES ASSUME NEW i \in 1 .. Len(recv'), NEW j \in 1 .. Len(recv'), i < j,
                      recv'[i].cid = recv'[j].cid
               PROVE  recv'[i].gen <= recv'[j].gen
    OBVIOUS
  <2>1. ASSUME NEW c \in Clients, Receive(c) PROVE recv'[i].gen <= recv'[j].gen
    <3>1. i \in 1 .. Len(recv)
      BY <1>1, <1>5, <2>1
    <3>2. CASE j = Len(recv) + 1
      BY <1>5, <2>1, <3>1, <3>2
    <3>3. CASE j # Len(recv) + 1
      <4>1. j \in 1 .. Len(recv)
        BY <1>1, <1>5, <2>1, <3>3
      <4> QED
        BY <1>5, <2>1, <3>1, <4>1 DEF CidInv
    <3> QED
      BY <3>2, <3>3
  <2>2. CASE Take
    <3>1. /\ i + 1 \in 1 .. Len(recv) /\ recv'[i] = recv[i + 1]
          /\ j + 1 \in 1 .. Len(recv) /\ recv'[j] = recv[j + 1]
      BY <2>2, TakeEffect
    <3>2. i + 1 < j + 1
      BY <1>1, <2>2, TakeEffect
    <3> QED
      BY <3>1, <3>2 DEF CidInv
  <2>3. CASE UNCHANGED recv
    BY <2>3 DEF CidInv
  <2>4. CASE Run
    BY <2>3, <2>4, RunRan DEF RunEffect
  <2> QED
    BY <2>1, <2>2, <2>3, <2>4 DEF Next, RStep, Connect, Disconnect, Reply, vars
<1>7. (cur # NoMsg => \A j \in 1 .. Len(recv) : recv[j].cid = cur.cid => cur.gen <= recv[j].gen)'
  <2> SUFFICES ASSUME cur' # NoMsg, NEW j \in 1 .. Len(recv'), recv'[j].cid = cur'.cid
               PROVE  cur'.gen <= recv'[j].gen
    OBVIOUS
  <2>1. ASSUME NEW c \in Clients, Receive(c) PROVE cur'.gen <= recv'[j].gen
    <3>1. CASE j = Len(recv) + 1
      BY <1>5, <2>1, <3>1
    <3>2. CASE j # Len(recv) + 1
      <4>1. j \in 1 .. Len(recv)
        BY <1>1, <1>5, <2>1, <3>2
      <4> QED
        BY <1>5, <2>1, <4>1 DEF CidInv
    <3> QED
      BY <3>1, <3>2
  <2>2. CASE Take
    <3>1. j + 1 \in 1 .. Len(recv) /\ recv'[j] = recv[j + 1] /\ 1 < j + 1 /\ 1 \in 1 .. Len(recv)
      BY <1>1, <2>2, TakeEffect
    <3>2. cur = NoMsg
      BY <2>2 DEF Take, OrderInv
    <3>3. cur' = recv[1]
      BY <2>2, <3>2, TakeEffect DEF Take, Refuse
    <3> QED
      BY <3>1, <3>3 DEF CidInv
  <2>3. CASE UNCHANGED <<recv, cur>>
    BY <2>3 DEF CidInv
  <2>4. CASE Run
    BY <2>3, <2>4, RunRan DEF RunEffect
  <2> QED
    BY <2>1, <2>2, <2>3, <2>4 DEF Next, RStep, Connect, Disconnect, Reply, vars
<1>8. (\A m \in Pending : m.gen # gen[m.cid] => DOMAIN asked[m.cid] = {})'
  <2> SUFFICES ASSUME NEW m \in Pending', m.gen # gen'[m.cid] PROVE DOMAIN asked'[m.cid] = {}
    OBVIOUS
  <2>1. m \in Pending
    <3>1. ASSUME NEW c \in Clients, Receive(c), m = recv'[Len(recv) + 1] PROVE FALSE
      BY <3>1, ReceiveEffect DEF Receive
    <3> QED
      BY <3>1, PendingStep
  <2>2. m.cid \in Clients /\ m.gen \in Nat /\ m.gen <= gen[m.cid]
    BY <1>2, <2>1, PendingType DEF CidInv
  <2>3. CASE gen'[m.cid] # gen[m.cid]
    <3>1. Connect(m.cid)
      BY <1>3, <2>2, <2>3
    <3>2. asked \in [Clients -> Lists(Keys \cup Patterns)]
      BY DEF TypeOK
    <3>3. asked'[m.cid] = NoSubs
      BY <2>2, <3>1, <3>2 DEF Connect
    <3> QED
      BY <3>3, NoSubsList
  <2>4. CASE gen'[m.cid] = gen[m.cid]
    <3>1. DOMAIN asked[m.cid] = {}
      BY <2>1, <2>4 DEF CidInv
    <3>2. CASE asked'[m.cid] = asked[m.cid]
      BY <3>1, <3>2
    <3>3. CASE asked'[m.cid] = NoSubs
      BY <3>3, NoSubsList
    <3>4. CASE asked'[m.cid] = Without(asked[m.cid], cur.key)
      BY <3>1, <3>4 DEF Without
    <3>5. ASSUME rpc = "run", m.cid = cur.cid, Current PROVE FALSE
      <4>1. cur # NoMsg /\ gen[m.cid] = cur.gen
        BY <3>5 DEF OrderInv, Current
      <4>2. m # cur
        BY <2>4, <4>1
      <4>3. PICK j \in 1 .. Len(recv) : m = recv[j]
        BY <2>1, <4>2 DEF Pending
      <4>4. cur.gen <= m.gen
        BY <3>5, <4>1, <4>3 DEF CidInv
      <4> QED
        BY <1>3, <2>2, <2>4, <4>1, <4>4
    <3> QED
      BY <2>2, <3>2, <3>3, <3>4, <3>5, AskedStep
  <2> QED
    BY <2>3, <2>4
<1> QED
  BY <1>4, <1>6, <1>7, <1>8 DEF CidInv
-----------------------------------------------------------------------------
(***************************************************************************)
(* The maps of subscribers.                                                *)
(***************************************************************************)
Subscribed(c) ==
    \A a \in DOMAIN asked[c] :
        /\ a \in Patterns => c \in DOMAIN multi[a] /\ multi[a][c] = asked[c][a]
        /\ a \in Keys => c \in DOMAIN single[a] /\ single[a][c] = asked[c][a]

\* A change of one entry of a map of lists leaves the others.
LEMMA SubUpdate ==
    ASSUME TypeOK, OrderInv, CidInv, SubInv, Sub, rpc = "run", NEW c \in Clients, on[c]
    PROVE  Subscribed(c)'
<1>1. cur \in Pending /\ cur \in Message /\ cur # NoMsg
  BY PendingType DEF OrderInv, Pending, TypeOK
<1>0. PICK who, key, fmt : who = cur.cid /\ key = cur.key /\ fmt = cur.fmt
  OBVIOUS
<1>2. who \in Clients /\ key \in Keys \cup Patterns /\ fmt \in Formats
  BY <1>0, <1>1 DEF Message
<1>3. /\ single \in [Keys -> Lists(Clients)] /\ multi \in [Patterns -> Lists(Clients)]
      /\ asked[c] \in Lists(Keys \cup Patterns) /\ asked \in [Clients -> Lists(Keys \cup Patterns)]
  BY DEF TypeOK
<1>4. Subscribed(c)
  BY DEF SubInv, Subscribed
<1>5. ASSUME NEW a \in Patterns
      PROVE  multi'[a] = IF a = key THEN Add(multi[a], who, fmt) ELSE multi[a]
  BY <1>0, <1>2, <1>3 DEF Sub, Subscribe
<1>6. ASSUME NEW a \in Keys
      PROVE  single'[a] = IF a = key THEN Add(single[a], who, fmt) ELSE single[a]
  <2>1. a = key => key \notin Patterns
    BY ServerAssumption
  <2> QED
    BY <1>0, <1>2, <1>3, <2>1 DEF Sub, Subscribe
<1>7. asked'[c] = IF c = who /\ Current THEN Add(asked[c], key, fmt) ELSE asked[c]
  BY <1>0, <1>2, <1>3 DEF Sub
<1>8. (c = who /\ ~Current) => DOMAIN asked[c] = {}
  BY <1>0, <1>1 DEF CidInv, Current
<1> SUFFICES ASSUME NEW a \in DOMAIN asked'[c]
             PROVE  /\ a \in Patterns => c \in DOMAIN multi'[a] /\ multi'[a][c] = asked'[c][a]
                    /\ a \in Keys => c \in DOMAIN single'[a] /\ single'[a][c] = asked'[c][a]
  BY DEF Subscribed
<1>9. CASE c = who
  <2>1. Current /\ asked'[c] = Add(asked[c], key, fmt)
    BY <1>7, <1>8, <1>9
  <2>2. CASE a = key
    <3>1. asked'[c][a] = fmt
      BY AddEntry, <2>1, <2>2
    <3>2. ASSUME a \in Patterns PROVE c \in DOMAIN multi'[a] /\ multi'[a][c] = fmt
      <4>1. multi[a] \in Lists(Clients) /\ multi'[a] = Add(multi[a], c, fmt)
        BY <1>3, <1>5, <1>9, <2>2, <3>2
      <4> QED
        BY AddEntry, <1>9, <4>1
    <3>3. ASSUME a \in Keys PROVE c \in DOMAIN single'[a] /\ single'[a][c] = fmt
      <4>1. single[a] \in Lists(Clients) /\ single'[a] = Add(single[a], c, fmt)
        BY <1>3, <1>6, <1>9, <2>2, <3>3
      <4> QED
        BY AddEntry, <1>9, <4>1
    <3> QED
      BY <3>1, <3>2, <3>3
  <2>3. CASE a # key
    BY <1>4, <1>5, <1>6, AddEntry, <2>1, <2>3 DEF Subscribed
  <2> QED
    BY <2>2, <2>3
<1>10. CASE c # who
  <2>1. asked'[c] = asked[c] /\ a \in DOMAIN asked[c]
    BY <1>7, <1>10
  <2>2. ASSUME a \in Patterns PROVE c \in DOMAIN multi'[a] /\ multi'[a][c] = asked'[c][a]
    <3>1. multi[a] \in Lists(Clients) /\ c \in DOMAIN multi[a] \ {who} /\ multi[a][c] = asked[c][a]
      BY <1>3, <1>4, <1>10, <2>1, <2>2 DEF Subscribed
    <3> QED
      BY <1>5, AddEntry, <2>1, <2>2, <3>1
  <2>3. ASSUME a \in Keys PROVE c \in DOMAIN single'[a] /\ single'[a][c] = asked'[c][a]
    <3>1. single[a] \in Lists(Clients) /\ c \in DOMAIN single[a] \ {who} /\ single[a][c] = asked[c][a]
      BY <1>3, <1>4, <1>10, <2>1, <2>3 DEF Subscribed
    <3> QED
      BY <1>6, AddEntry, <2>1, <2>3, <3>1
  <2> QED
    BY <2>2, <2>3
<1> QED
  BY <1>9, <1>10

LEMMA UnsubUpdate ==
    ASSUME TypeOK, OrderInv, CidInv, SubInv, Unsub, rpc = "run", NEW c \in Clients, on[c]
    PROVE  Subscribed(c)'
<1>1. cur \in Pending /\ cur \in Message /\ cur # NoMsg
  BY PendingType DEF OrderInv, Pending, TypeOK
<1>0. PICK who, key, fmt : who = cur.cid /\ key = cur.key /\ fmt = cur.fmt
  OBVIOUS
<1>2. who \in Clients /\ key \in Keys \cup Patterns
  BY <1>0, <1>1 DEF Message
<1>3. /\ single \in [Keys -> Lists(Clients)] /\ multi \in [Patterns -> Lists(Clients)]
      /\ asked[c] \in Lists(Keys \cup Patterns) /\ asked \in [Clients -> Lists(Keys \cup Patterns)]
  BY DEF TypeOK
<1>4. Subscribed(c)
  BY DEF SubInv, Subscribed
<1> DEFINE Whole == key \in {AllKeys, AllTables}
<1>5. ASSUME NEW a \in Patterns
      PROVE  multi'[a] = IF Whole \/ a = key THEN Without(multi[a], who) ELSE multi[a]
  <2>1. CASE Whole
    BY <1>0, <2>1 DEF Unsub, UnsubWhole
  <2>2. CASE ~Whole /\ key \in Patterns
    BY <1>0, <1>3, <2>2 DEF Unsub
  <2>3. CASE ~Whole /\ key \notin Patterns
    BY <1>0, <2>3 DEF Unsub
  <2> QED
    BY <2>1, <2>2, <2>3
<1>6. ASSUME NEW a \in Keys
      PROVE  single'[a] = IF Whole \/ a = key THEN Without(single[a], who) ELSE single[a]
  <2>1. CASE Whole
    BY <1>0, <2>1 DEF Unsub, UnsubWhole
  <2>2. CASE ~Whole /\ key \in Patterns
    BY <1>0, <2>2, ServerAssumption DEF Unsub
  <2>3. CASE ~Whole /\ key \notin Patterns
    BY <1>0, <1>3, <2>3 DEF Unsub
  <2> QED
    BY <2>1, <2>2, <2>3
<1>7. asked'[c] = IF c = who /\ Current THEN IF Whole THEN NoSubs ELSE Without(asked[c], key)
                  ELSE asked[c]
  <2>1. CASE Current
    <3>1. asked' = [asked EXCEPT ![who] = IF Whole THEN NoSubs ELSE Without(asked[who], key)]
      BY <1>0, <2>1 DEF Unsub
    <3> QED
      BY <1>2, <1>3, <2>1, <3>1
  <2>2. CASE ~Current
    BY <1>0, <2>2 DEF Unsub
  <2> QED
    BY <2>1, <2>2
<1>8. (c = who /\ ~Current) => DOMAIN asked[c] = {}
  BY <1>0, <1>1 DEF CidInv, Current
<1> SUFFICES ASSUME NEW a \in DOMAIN asked'[c]
             PROVE  /\ a \in Patterns => c \in DOMAIN multi'[a] /\ multi'[a][c] = asked'[c][a]
                    /\ a \in Keys => c \in DOMAIN single'[a] /\ single'[a][c] = asked'[c][a]
  BY DEF Subscribed
<1> HIDE DEF Whole
<1>9. CASE c = who
  <2>1. Current /\ ~Whole /\ asked'[c] = Without(asked[c], key)
    BY <1>7, <1>8, WithoutEntry, NoSubsList, <1>9
  <2>2. a # key /\ a \in DOMAIN asked[c] /\ asked'[c][a] = asked[c][a]
    BY WithoutEntry, NoSubsList, <2>1
  <2> QED
    BY <1>4, <1>5, <1>6, <2>1, <2>2 DEF Subscribed
<1>10. CASE c # who
  <2>1. asked'[c] = asked[c] /\ a \in DOMAIN asked[c]
    BY <1>7, <1>10
  <2>2. ASSUME a \in Patterns PROVE c \in DOMAIN multi'[a] /\ multi'[a][c] = asked'[c][a]
    <3>1. multi[a] \in Lists(Clients) /\ c \in DOMAIN multi[a] \ {who} /\ multi[a][c] = asked[c][a]
      BY <1>3, <1>4, <1>10, <2>1, <2>2 DEF Subscribed
    <3> QED
      BY <1>5, WithoutEntry, <2>1, <2>2, <3>1
  <2>3. ASSUME a \in Keys PROVE c \in DOMAIN single'[a] /\ single'[a][c] = asked'[c][a]
    <3>1. single[a] \in Lists(Clients) /\ c \in DOMAIN single[a] \ {who} /\ single[a][c] = asked[c][a]
      BY <1>3, <1>4, <1>10, <2>1, <2>3 DEF Subscribed
    <3> QED
      BY <1>6, WithoutEntry, <2>1, <2>3, <3>1
  <2> QED
    BY <2>2, <2>3
<1> QED
  BY <1>9, <1>10

LEMMA SubStep == TypeOK /\ OrderInv /\ CidInv /\ SubInv /\ [Next]_vars => SubInv'
<1> SUFFICES ASSUME TypeOK, OrderInv, CidInv, SubInv, [Next]_vars, NEW c \in Clients, on'[c]
             PROVE  Subscribed(c)'
  BY DEF SubInv, Subscribed
<1>1. on \in [Clients -> BOOLEAN]
  BY DEF TypeOK
<1>2. ASSUME on[c], UNCHANGED <<single, multi>>, asked'[c] = asked[c] PROVE Subscribed(c)'
  BY <1>2 DEF SubInv, Subscribed
<1>3. ASSUME NEW d \in Clients, Connect(d) PROVE Subscribed(c)'
  <2>1. CASE asked'[c] = NoSubs
    BY <2>1, NoSubsList DEF Subscribed
  <2>2. CASE asked'[c] = asked[c] /\ d # c
    BY <1>1, <1>2, <1>3, <2>2 DEF Connect, subs
  <2>3. asked \in [Clients -> Lists(Keys \cup Patterns)]
    BY DEF TypeOK
  <2> QED
    BY <1>3, <2>1, <2>2, <2>3 DEF Connect
<1>4. ASSUME NEW d \in Clients, Disconnect(d) PROVE Subscribed(c)'
  BY <1>1, <1>2, <1>4 DEF Disconnect, Clear, subs, history
<1>5. CASE Run
  <2>1. on[c] /\ rpc = "run"
    BY <1>5, RunRan DEF RunEffect
  <2>2. CASE Sub \/ Unsub
    BY <2>1, <2>2, SubUpdate, UnsubUpdate
  <2>3. ASSUME UNCHANGED <<subs, asked>> PROVE Subscribed(c)'
    BY <1>2, <2>1, <2>3 DEF subs
  <2> QED
    BY <1>5, <2>2, <2>3 DEF Run, SetOne, SetTable, Get, Gets, Del, DelsOne, DelsTable, Auth
<1>6. CASE Take \/ Reply \/ (\E d \in Clients : Receive(d)) \/ UNCHANGED vars
  BY <1>2, <1>6 DEF Take, Reply, Receive, vars, subs, history
<1> QED
  BY <1>3, <1>4, <1>5, <1>6 DEF Next, RStep
\* A new value is published to whoever has an entry for its key, or for a
\* string that covers it.
LEMMA PublishCovers ==
    ASSUME TypeOK, SubInv, NEW k \in Keys, NEW style \in Formats, NEW c \in Clients, on[c],
           NEW a \in DOMAIN asked[c], a = k \/ (a \in Patterns /\ k \in Covers[a])
    PROVE  \E p \in Publish(k, style) : p.to = c /\ p.key = k /\ p.fmt = Sent(k, style, asked[c][a])
<1> DEFINE news(f) == [to |-> c, key |-> k, fmt |-> Sent(k, style, f)]
<1> SUFFICES news(asked[c][a]) \in Publish(k, style)
  OBVIOUS
<1>1. CASE a = k
  <2>1. c \in DOMAIN single[k] /\ single[k][c] = asked[c][a]
    BY <1>1 DEF SubInv
  <2>2. news(single[k][c]) \in To(single[k], k, style)
    BY <2>1 DEF To
  <2> QED
    BY <2>1, <2>2 DEF Publish
<1>2. CASE a \in Patterns /\ k \in Covers[a]
  <2>1. c \in DOMAIN multi[a] /\ multi[a][c] = asked[c][a]
    BY <1>2 DEF SubInv
  <2>2. news(multi[a][c]) \in To(multi[a], k, style)
    BY <2>1 DEF To
  <2>3. Publishes(a, k)
    BY <1>2 DEF Publishes
  <2> QED
    BY <1>2, <2>1, <2>2, <2>3 DEF Publish
<1> QED
  BY <1>1, <1>2

\* a client has the value of a command, in the format it asked for or in bytes
Reached(c, command, f, ps) ==
    \E p \in ps : /\ p.to = c /\ p.key = command.key
                  /\ \/ p.fmt = f
                     \/ command.m = "bset" /\ command.key \in SingleKeys /\ p.fmt = "bytes"

LEMMA AskedReceiveStep ==
    TypeOK /\ OrderInv /\ SubInv /\ SetInv /\ AskedReceive /\ [Next]_vars => AskedReceive'
<1> SUFFICES ASSUME TypeOK, OrderInv, SubInv, SetInv, AskedReceive, [Next]_vars,
                    rpc' = "reply", result' = "ok", cur'.m \in {"set", "bset"},
                    NEW c \in Clients, on'[c], NEW a \in DOMAIN asked'[c],
                    a = cur'.key \/ (a \in Patterns /\ cur'.key \in Covers[a])
             PROVE  Reached(c, cur', asked'[c][a], pushed')
  BY DEF AskedReceive, Reached
<1>1. /\ on \in [Clients -> BOOLEAN] /\ asked \in [Clients -> Lists(Keys \cup Patterns)]
  BY DEF TypeOK
<1>2. ASSUME on[c], asked'[c] = asked[c], UNCHANGED <<rpc, cur, result, pushed>>
      PROVE  Reached(c, cur', asked'[c][a], pushed')
  BY <1>2 DEF AskedReceive, Reached
<1>3. ASSUME NEW d \in Clients, Connect(d)
      PROVE  Reached(c, cur', asked'[c][a], pushed')
  <2>1. CASE d = c
    BY <1>1, <1>3, <2>1, NoSubsList DEF Connect
  <2>2. CASE d # c
    BY <1>1, <1>2, <1>3, <2>2 DEF Connect
  <2> QED
    BY <2>1, <2>2
<1>4. ASSUME NEW d \in Clients, Disconnect(d)
      PROVE  Reached(c, cur', asked'[c][a], pushed')
  BY <1>1, <1>2, <1>4 DEF Disconnect, history
<1>5. CASE Run
  <2>1. on' = on /\ cur' = cur /\ cur # NoMsg
    BY <1>5, RunRan DEF RunEffect, Run, OrderInv
  <2>2. cur.key \in Keys
    BY <2>1 DEF SetInv, Pending
  <2>3. SetOne \/ SetTable
    BY <1>5, <2>1 DEF Run, Get, Gets, Del, DelsOne, DelsTable, Sub, Unsub, Auth
  <2>4. PICK style \in Formats :
           /\ asked' = asked /\ pushed' = Publish(cur.key, style)
           /\ style = "bytes" /\ cur.key \in SingleKeys => cur.m = "bset"
    <3>1. CASE SetOne
      BY <2>1, <3>1 DEF SetOne, Ran, Formats
    <3>2. CASE SetTable
      <4>1. asked' = asked /\ pushed' = Publish(cur.key, "bytes") /\ cur.key \in TableKeys
        BY <3>2 DEF SetTable, Ran
      <4>2. cur.key \notin SingleKeys
        BY <4>1, ServerAssumption
      <4> QED
        BY <4>1, <4>2 DEF Formats
    <3> QED
      BY <2>3, <3>1, <3>2
  <2>5. PICK p \in pushed' : p.to = c /\ p.key = cur.key /\ p.fmt = Sent(cur.key, style, asked[c][a])
    BY <2>1, <2>2, <2>4, PublishCovers
  <2>6. p.fmt = asked'[c][a] \/ (cur.m = "bset" /\ cur.key \in SingleKeys /\ p.fmt = "bytes")
    BY <2>4, <2>5 DEF Sent
  <2> QED
    BY <2>1, <2>5, <2>6 DEF Reached
<1>6. CASE Take \/ Reply \/ (\E d \in Clients : Receive(d)) \/ UNCHANGED vars
  BY <1>2, <1>6 DEF Take, Refuse, Reply, Receive, vars, history
<1> QED
  BY <1>3, <1>4, <1>5, <1>6 DEF Next, RStep

-----------------------------------------------------------------------------
LEMMA Start == Init => IInv
<1> SUFFICES ASSUME Init PROVE IInv
  OBVIOUS
<1>1. TypeOK
  BY TypeInit
<1>2. recv = <<>> /\ Len(recv) = 0 /\ cur = NoMsg /\ cur.id = 0 /\ rpc = "idle" /\ nmsg = 0
      /\ log = <<>> /\ ran = <<>> /\ replies = [i \in Ids |-> 0]
  BY DEF Init, NoMsg
<1>3. Pending = {}
  BY <1>2 DEF Pending
<1>4. OrderInv /\ CidInv /\ SetInv
  BY <1>2, <1>3 DEF OrderInv, CidInv, SetInv
<1>5. \A c \in Clients : DOMAIN asked[c] = {}
  BY NoSubsList DEF Init
<1>6. SubInv /\ AskedReceive
  BY <1>2, <1>5 DEF SubInv, AskedReceive
<1>7. LoggedAsRun
  BY <1>2 DEF LoggedAsRun
<1> QED
  BY <1>1, <1>4, <1>6, <1>7 DEF IInv

LEMMA Step == IInv /\ [Next]_vars => IInv'
  BY TypeStep, OrderStep, CidStep, SubStep, SetStep, LoggedStep, AskedReceiveStep DEF IInv

LEMMA Invariant == Spec => []IInv
  BY Start, Step, PTL DEF Spec

(***************************************************************************)
(* TypeCorrect: lists, messages and counts are what sisdb_io.h declares,   *)
(* whatever the clients send.                                              *)
(***************************************************************************)
THEOREM TypeCorrect == Spec => []TypeOK
<1>1. IInv => TypeOK
  BY DEF IInv
<1> QED
  BY <1>1, Invariant, PTL

(***************************************************************************)
(* InOrder: the commands of all clients are taken in the order in which    *)
(* the network thread has queued them, none is lost and none is taken      *)
(* twice (recv_list and cb_reader_recv).                                   *)
(***************************************************************************)
THEOREM InOrder == Spec => []OrderInv
<1>1. IInv => OrderInv
  BY DEF IInv
<1> QED
  BY <1>1, Invariant, PTL

(***************************************************************************)
(* OneLog: the write-ahead log of cb_reader_recv holds the write commands  *)
(* in the order in which they are executed, and every command gets its     *)
(* answers when R is done with it, not before and not later.               *)
(***************************************************************************)
THEOREM OneLog == Spec => []LoggedAsRun
<1>1. IInv => LoggedAsRun
  BY DEF IInv
<1> QED
  BY <1>1, Invariant, PTL

(***************************************************************************)
(* AllSubscribersServed: sisdb_make_sub_message leaves no connection out   *)
(* that has subscribed to the key and not cancelled, in its last format,   *)
(* for any number of clients, of connections of a cid, and of commands.    *)
(***************************************************************************)
THEOREM AllSubscribersServed == Spec => []AskedReceive
<1>1. IInv => AskedReceive
  BY DEF IInv
<1> QED
  BY <1>1, Invariant, PTL

=============================================================================
