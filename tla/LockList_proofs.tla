--------------------------- MODULE LockList_proofs ---------------------------
(***************************************************************************)
(* Theorems about LockList, for every set of readers and producers, every  *)
(* save mode, maxsize and bound on the pushes.                             *)
(***************************************************************************)
EXTENDS LockList, TLAPS

(***************************************************************************)
(* The inductive invariant.  Order relates the queue, the watcher and the  *)
(* readers: the watcher's cursor is a live node, a watcher that is about   *)
(* to pop has a successor, and a reader that has fetched its next node has *)
(* fetched the successor of its cursor; a reader that was not opened has   *)
(* no thread.  SizeOrder says that sizes add up along the queue and that   *)
(* what is in it has a size size_t can hold.                               *)
(***************************************************************************)
QueueOrder ==
    /\ rhead <= rtail
    /\ watch # Null => rhead < watch /\ watch <= rtail
    /\ wpc \in {"check", "scan", "pop"} => watch # Null /\ watch < rtail

ReaderOrder ==
    \A r \in Readers :
        /\ cursor[r] <= rtail
        /\ rpc[r] = "place" => cursor[r] = Null /\ nxt[r] <= rtail
        /\ rpc[r] = "next" => cursor[r] # Null
        /\ rpc[r] \in {"deliver", "cb", "cbpush"} =>
             cursor[r] # Null /\ nxt[r] = cursor[r] + 1 /\ nxt[r] <= rtail
        /\ rpc[r] = "uaf" => cursor[r] < rhead
        /\ owner[r] = "idle" => rpc[r] = "none"

\* what TypeOK says of everything but the sizes, and of the sizes
CoreType ==
    /\ rhead \in Node /\ rtail \in Node
    /\ dangling \in BOOLEAN
    /\ watch \in Node \cup {Null}
    /\ wpc \in WatchPc
    /\ todo \subseteq Readers
    /\ users \subseteq Readers
    /\ owner \in [Readers -> {"idle", "register", "open", "closing", "closed"}]
    /\ status \in [Readers -> {"NONE", "WORK", "EXIT"}]
    /\ rpc \in [Readers -> ReaderPc]
    /\ cursor \in [Readers -> Node \cup {Null}]
    /\ nxt \in [Readers -> Node]
    /\ isrealtime \in [Readers -> BOOLEAN]
    /\ seen \in [Readers -> Node \cup {Null}]
    /\ base \in [Readers -> Node]
    /\ ppc \in [Producers -> {"idle", "notice"}]
    /\ cpc \in {"idle", "reset"}

SizeType == cursize \in Nat /\ off \in [Node -> Nat]

SizeOrder ==
    /\ off[rtail] - off[rhead] < Wrap
    /\ \A n \in 1 .. rtail : Size(n) \in 1 .. Wrap - 1
    /\ \A n, m \in 0 .. rtail : n <= m => off[n] <= off[m]

Order == CoreType /\ QueueOrder /\ ReaderOrder

IInv == Order /\ SizeType /\ SizeOrder

\* what the proofs about cursors need of the constants
LEMMA Bounds == MaxPush \in Nat /\ MaxSize \in Nat /\ HeadReaders \subseteq Readers
  BY ConstAssumption

LEMMA SizeBounds == Wrap \in Nat /\ \A size \in Sizes : size \in Nat /\ 1 <= size /\ size < Wrap
  BY ConstAssumption

LEMMA Types == IInv => TypeOK
  BY DEF IInv, Order, CoreType, SizeType, TypeOK

\* what a push does to the queue, its size aside
LEMMA AppendStep ==
    ASSUME Append
    PROVE  rtail < MaxPush /\ rtail' = rtail + 1 /\ UNCHANGED <<rhead, dangling, cursize>>
  BY DEF Append

\* what a cleaning step does to the queue, its size aside
LEMMA PopStep ==
    ASSUME Clean
    PROVE  /\ wpc = "pop" /\ SaveMode # "ALL"
           /\ rhead' \in {rhead, rhead + 1}
           /\ watch' = watch + 1 /\ wpc' = IF watch' < rtail THEN "check" ELSE "sleep"
           /\ UNCHANGED <<rtail, off, todo, readerVars, ownVars, status, ppc, cpc>>
<1>1. rhead' \in {rhead, rhead + 1}
  BY DEF Clean, Pop
<1>2. SaveMode # "ALL"
  BY DEF Clean
<1> QED
  BY <1>1, <1>2 DEF Clean

LEMMA InitIInv == Init => IInv
<1> SUFFICES ASSUME Init PROVE IInv
  OBVIOUS
<1> USE ConstAssumption DEF Node, Null, ReaderPc, WatchPc
<1>1. isrealtime \in [Readers -> BOOLEAN]
  <2>1. \A r \in Readers : (r \notin HeadReaders) \in BOOLEAN
    BY Zenon
  <2> QED
    BY <2>1, Zenon DEF Init
<1>2. /\ rhead = 0 /\ rtail = 0 /\ dangling = FALSE /\ cursize = 0
      /\ watch = Null /\ wpc = "sleep" /\ todo = {} /\ users = {} /\ cpc = "idle"
      /\ off = [n \in Node |-> 0]
      /\ owner = [r \in Readers |-> "idle"] /\ status = [r \in Readers |-> "NONE"]
      /\ rpc = [r \in Readers |-> "none"]
      /\ cursor = [r \in Readers |-> Null] /\ nxt = [r \in Readers |-> 0]
      /\ seen = [r \in Readers |-> Null] /\ base = [r \in Readers |-> 0]
      /\ ppc = [p \in Producers |-> "idle"]
  BY Zenon DEF Init
<1>3. dangling \in BOOLEAN /\ todo \subseteq Readers /\ users \subseteq Readers
  BY <1>2
<1>4. /\ owner \in [Readers -> {"idle", "register", "open", "closing", "closed"}]
      /\ status \in [Readers -> {"NONE", "WORK", "EXIT"}]
      /\ rpc \in [Readers -> ReaderPc]
      /\ ppc \in [Producers -> {"idle", "notice"}]
  BY <1>2
<1>5. /\ cursor \in [Readers -> Node \cup {Null}] /\ nxt \in [Readers -> Node]
      /\ seen \in [Readers -> Node \cup {Null}] /\ base \in [Readers -> Node]
      /\ watch \in Node \cup {Null} /\ rhead \in Node /\ rtail \in Node
      /\ cursize \in Nat /\ wpc \in WatchPc /\ cpc \in {"idle", "reset"}
      /\ off \in [Node -> Nat]
  BY <1>2
<1>6. CoreType /\ SizeType
  BY <1>1, <1>3, <1>4, <1>5, Zenon DEF CoreType, SizeType
<1>7. QueueOrder /\ ReaderOrder
  BY <1>2 DEF QueueOrder, ReaderOrder
<1>8. SizeOrder
  BY <1>2 DEF SizeOrder
<1> QED
  BY <1>6, <1>7, <1>8 DEF IInv, Order

LEMMA StepOrder == Order /\ [Next]_vars => Order'
<1> SUFFICES ASSUME Order, [Next]_vars PROVE Order'
  OBVIOUS
<1> USE Bounds DEF Order, CoreType, QueueOrder, ReaderOrder, Node, Null, ReaderPc,
        WatchPc, queueVars, watchVars, readerVars, ownVars, Goto
<1>1. ASSUME NEW p \in Producers, Push(p) PROVE Order'
  BY <1>1, AppendStep DEF Push
<1>2. ASSUME NEW p \in Producers, PushNotice(p) PROVE Order'
  BY <1>2 DEF PushNotice, NoticeWatcher, WatcherMutexFree
<1>3. ASSUME NEW r \in Readers, Open(r) PROVE Order'
  BY <1>3 DEF Open
<1>4. ASSUME NEW r \in Readers, Register(r) \/ CloseBegin(r) \/ CloseEnd(r) PROVE Order'
  BY <1>4 DEF Register, CloseBegin, CloseEnd
<1>5. ASSUME NEW r \in Readers, CloseNotice(r) PROVE Order'
  BY <1>5 DEF CloseNotice, NoticeReader, ReaderMutexFree
<1>6. ASSUME NEW r \in Readers, Start(r) \/ Exit(r) PROVE Order'
  BY <1>6 DEF Start, Exit
<1>7. ASSUME NEW r \in Readers, Locate(r) PROVE Order'
  BY <1>7 DEF Locate
<1>8. ASSUME NEW r \in Readers, Place(r) PROVE Order'
  BY <1>8 DEF Place
<1>9. ASSUME NEW r \in Readers, Resume(r) PROVE Order'
  BY <1>9 DEF Resume
<1>10. ASSUME NEW r \in Readers, FetchNext(r) PROVE Order'
  BY <1>10 DEF FetchNext
<1>11. ASSUME NEW r \in Readers, BreakOut(r) \/ Wake(r) PROVE Order'
  BY <1>11 DEF BreakOut, Wake
<1>12. ASSUME NEW r \in Readers, Realtime(r) PROVE Order'
  <2>1. isrealtime' \in [Readers -> BOOLEAN]
    BY <1>12, Zenon DEF Realtime
  <2> QED
    BY <1>12, <2>1 DEF Realtime
<1>13. ASSUME NEW r \in Readers, Deliver(r) PROVE Order'
  BY <1>13 DEF Deliver
<1>14. ASSUME NEW r \in Readers, CbPush(r) PROVE Order'
  BY <1>14, AppendStep DEF CbPush
<1>15. ASSUME NEW r \in Readers, CbNotice(r) PROVE Order'
  BY <1>15 DEF CbNotice, NoticeWatcher, WatcherMutexFree
<1>16. ASSUME NEW r \in Readers, CbEnd(r) PROVE Order'
  BY <1>16 DEF CbEnd
<1>17. ASSUME NEW r \in Readers, NotifyUser(r) PROVE Order'
  BY <1>17 DEF NotifyUser, NoticeReader, ReaderMutexFree
<1>18. CASE WatcherTimeout \/ WatcherResume \/ LockUsersNotify \/ NotifyDone
  BY <1>18 DEF WatcherTimeout, WatcherResume, LockUsersNotify, NotifyDone
<1>19. CASE Fetch
  BY <1>19 DEF Fetch
<1>20. CASE LockUsersScan \/ ScanDone
  BY <1>20 DEF LockUsersScan, ScanDone
<1>21. ASSUME NEW r \in Readers, ScanUser(r) PROVE Order'
  BY <1>21 DEF ScanUser
<1>22. CASE Clean
  <2>1. dangling' \in BOOLEAN
    BY <1>22, Zenon DEF Clean, Pop
  <2>2. rhead < watch /\ watch < rtail
    BY <1>22, PopStep
  <2>3. CoreType'
    BY <1>22, <2>1, <2>2, PopStep
  <2>4. QueueOrder' /\ ReaderOrder'
    BY <1>22, <2>2, PopStep
  <2> QED
    BY <2>3, <2>4
<1>23. CASE Clear \/ ClearSize
  <2>1. CASE Clear
    <3>1. dangling' \in BOOLEAN
      BY <2>1, Zenon DEF Clear
    <3> QED
      BY <2>1, <3>1 DEF Clear, WatchLocked
  <2>2. CASE ClearSize
    BY <2>2 DEF ClearSize
  <2> QED
    BY <1>23, <2>1, <2>2
<1>24. CASE UNCHANGED vars
  BY <1>24 DEF vars
<1> QED
  BY <1>1, <1>2, <1>3, <1>4, <1>5, <1>6, <1>7, <1>8, <1>9, <1>10, <1>11, <1>12,
     <1>13, <1>14, <1>15, <1>16, <1>17, <1>18, <1>19, <1>20, <1>21, <1>22, <1>23, <1>24
     DEF Next, ReaderStep, WatcherStep

\* off and rtail change only together, and rhead only grows
LEMMA QueueStep ==
    ASSUME Order, [Next]_vars
    PROVE  \/ Append
           \/ /\ UNCHANGED <<rtail, off>> /\ rhead' >= rhead /\ rhead' <= rtail
<1> USE DEF queueVars, Order, CoreType, QueueOrder, Node, Null
<1>1. CASE Clean
  BY <1>1, PopStep, Bounds
<1>2. CASE Clear
  BY <1>2 DEF Clear
<1>3. CASE \E p \in Producers : Push(p)
  BY <1>3 DEF Push
<1>4. CASE \E r \in Readers : CbPush(r)
  BY <1>4 DEF CbPush
<1>5. CASE UNCHANGED <<rhead, rtail, off>>
  BY <1>5, Bounds
<1>6. \/ Clean \/ Clear \/ (\E p \in Producers : Push(p)) \/ (\E r \in Readers : CbPush(r))
      \/ UNCHANGED <<rhead, rtail, off>>
  BY DEF Next, vars, ReaderStep, WatcherStep, PushNotice, NoticeWatcher, Open, Register,
     CloseBegin, CloseNotice, CloseEnd, Start, Exit, Locate, Place, Resume, FetchNext,
     BreakOut, Deliver, CbNotice, CbEnd, Realtime, Wake, WatcherTimeout, WatcherResume,
     LockUsersNotify, NotifyUser, NotifyDone, Fetch, LockUsersScan, ScanUser, ScanDone,
     ClearSize
<1> QED
  BY <1>1, <1>2, <1>3, <1>4, <1>5, <1>6

\* the sizes stay numbers: Plus and Minus count modulo Wrap
LEMMA StepSizeType == IInv /\ [Next]_vars => SizeType'
<1> SUFFICES ASSUME IInv, [Next]_vars PROVE SizeType'
  OBVIOUS
<1> USE Bounds DEF IInv, Order, CoreType, QueueOrder, SizeType, Node, Null
<1>1. off' \in [Node -> Nat]
  <2>1. CASE Append
    <3>1. PICK size \in Sizes : off' = [off EXCEPT ![rtail + 1] = off[rtail] + size]
      BY <2>1, Zenon DEF Append
    <3>2. rtail \in Node /\ off[rtail] + size \in Nat
      BY SizeBounds
    <3> HIDE DEF Node
    <3> QED
      BY <3>1, <3>2
  <2> QED
    BY <2>1, QueueStep
<1>2. cursize' \in Nat
  <2>1. CASE Clean
    <3>1. watch \in 1 .. rtail /\ rhead + 1 \in 1 .. rtail
      BY <2>1, PopStep
    <3>2. Size(watch) \in 1 .. Wrap - 1 /\ Size(rhead + 1) \in 1 .. Wrap - 1
      BY <3>1 DEF SizeOrder
    <3>3. \A x \in Nat : \A y \in 1 .. Wrap - 1 : Plus(x, y) \in Nat /\ Minus(x, y) \in Nat
      BY ConstAssumption DEF Plus, Minus
    <3>4. cursize' \in {Plus(cursize, Size(rhead + 1)), Plus(cursize, Size(watch)),
                        Minus(Plus(cursize, Size(watch)), Size(rhead + 1))}
      BY <2>1 DEF Clean
    <3>5. /\ Plus(cursize, Size(rhead + 1)) \in Nat
          /\ Plus(cursize, Size(watch)) \in Nat
          /\ Minus(Plus(cursize, Size(watch)), Size(rhead + 1)) \in Nat
      BY <3>2, <3>3
    <3> QED
      BY <3>4, <3>5
  <2>2. CASE ~Clean
    BY <2>2 DEF Next, vars, queueVars, ReaderStep, WatcherStep, Push, Append, PushNotice,
       Open, Register, CloseBegin, CloseNotice, CloseEnd, Start, Exit, Locate, Place, Resume,
       FetchNext, BreakOut, Deliver, CbPush, CbNotice, CbEnd, Realtime, Wake, WatcherTimeout,
       WatcherResume, LockUsersNotify, NotifyUser, NotifyDone, Fetch, LockUsersScan, ScanUser,
       ScanDone, Clear, ClearSize
  <2> QED
    BY <2>1, <2>2
<1> QED
  BY <1>1, <1>2

LEMMA StepSizeOrder == IInv /\ [Next]_vars => SizeOrder'
<1> SUFFICES ASSUME IInv, [Next]_vars PROVE SizeOrder'
  OBVIOUS
<1> USE Bounds DEF IInv, Order, CoreType, QueueOrder, SizeType, SizeOrder, Size, Node, Null
<1>1. CASE Append
  <2>1. PICK size \in Sizes :
          /\ off[rtail] + size - off[rhead] < Wrap
          /\ off' = [off EXCEPT ![rtail + 1] = off[rtail] + size]
    BY <1>1 DEF Append
  <2>2. rtail' = rtail + 1 /\ rhead' = rhead /\ rtail + 1 \in Node
    BY <1>1, AppendStep
  <2>3. size \in Nat /\ 1 <= size /\ size < Wrap /\ Wrap \in Nat
    BY SizeBounds
  <2>4. /\ \A n \in 0 .. rtail : n \in Node /\ n # rtail + 1
        /\ rtail \in 0 .. rtail /\ rhead \in 0 .. rtail
    BY <2>2
  <2>5. /\ \A n \in 0 .. rtail : off'[n] = off[n] /\ off[n] \in Nat
        /\ off'[rtail + 1] = off[rtail] + size
    <3> HIDE DEF Node
    <3> QED
      BY <2>1, <2>2, <2>4
  <2> HIDE DEF SizeType
  <2>6. off'[rtail'] - off'[rhead'] < Wrap
    <3>1. off'[rtail'] = off[rtail] + size /\ off'[rhead'] = off[rhead]
      BY <2>2, <2>4, <2>5
    <3>2. off[rtail] \in Nat /\ off[rhead] \in Nat
      BY <2>4, <2>5
    <3> HIDE DEF IInv
    <3> QED
      BY <2>1, <2>3, <3>1, <3>2
  <2>7. ASSUME NEW n \in 1 .. rtail' PROVE off'[n] - off'[n - 1] \in 1 .. Wrap - 1
    <3>1. CASE n = rtail + 1
      <4>1. off'[n] - off'[n - 1] = size
        BY <2>4, <2>5, <2>3, <3>1
      <4> QED
        BY <4>1, <2>3
    <3>2. CASE n \in 1 .. rtail
      <4>1. n \in 0 .. rtail /\ n - 1 \in 0 .. rtail
        BY <3>2
      <4> QED
        BY <2>5, <3>2, <4>1
    <3> QED
      BY <2>2, <3>1, <3>2
  <2>8. ASSUME NEW n \in 0 .. rtail', NEW m \in 0 .. rtail', n <= m PROVE off'[n] <= off'[m]
    <3>1. CASE m = rtail + 1 /\ n = rtail + 1
      BY <3>1, <2>4, <2>5, <2>3
    <3>2. CASE m = rtail + 1 /\ n \in 0 .. rtail
      <4>1. off[n] <= off[rtail] /\ off[n] \in Nat /\ off[rtail] \in Nat
        BY <3>2, <2>4, <2>5
      <4>2. off'[n] = off[n] /\ off'[m] = off[rtail] + size
        BY <3>2, <2>5
      <4> QED
        BY <4>1, <4>2, <2>3
    <3>3. CASE m \in 0 .. rtail /\ n \in 0 .. rtail
      BY <2>5, <2>8, <3>3
    <3> QED
      BY <2>2, <2>8, <3>1, <3>2, <3>3
  <2> QED
    BY <2>6, <2>7, <2>8
<1>2. CASE UNCHANGED <<rtail, off>> /\ rhead' >= rhead /\ rhead' <= rtail
  <2>1. rhead' \in 0 .. rtail /\ rhead \in 0 .. rtail /\ rhead <= rhead'
    <3>1. Order'
      BY StepOrder
    <3>2. rhead' \in Node
      BY <3>1
    <3> QED
      BY <1>2, <3>2
  <2>2. off[rhead] <= off[rhead'] /\ off[rhead'] \in Nat /\ off[rhead] \in Nat /\ off[rtail] \in Nat
    BY <1>2, <2>1
  <2>3. off[rtail] - off[rhead'] < Wrap
    BY <2>2, SizeBounds
  <2> QED
    BY <1>2, <2>3
<1> QED
  BY <1>1, <1>2, QueueStep

LEMMA StepIInv == IInv /\ [Next]_vars => IInv'
  BY StepOrder, StepSizeType, StepSizeOrder DEF IInv

\* Type correctness, and the order of queue, watcher and readers, in every
\* reachable state of the list (all actions of LockList).
THEOREM TypeCorrect == Spec => []TypeOK
  BY Types, InitIInv, StepIInv, PTL DEF Spec

LEMMA Inductive == Spec => []IInv
  BY InitIInv, StepIInv, PTL DEF Spec

---------------------------------------------------------------------------
\* The node and the object a protected reader uses have not been freed by the
\* watcher (Clean): protection puts the cursor at or past the watcher's, which
\* is past the dummy.
THEOREM ProtectedAlive == Spec => []ProtectedIsAlive
<1>1. ASSUME IInv PROVE ProtectedIsAlive
  <2> SUFFICES ASSUME NEW r \in Readers, Protected(r)
               PROVE /\ cursor[r] > rhead
                     /\ rpc[r] \in {"cb", "cbpush", "deliver"} => nxt[r] > rhead
                     /\ rpc[r] # "uaf"
    BY DEF ProtectedIsAlive
  <2> USE <1>1 DEF IInv, Order, CoreType, Node, Null
  <2>1. cursor[r] \in Int /\ cursor[r] > rhead
    BY DEF Protected, QueueOrder
  <2> QED
    BY <2>1 DEF ReaderOrder
<1> QED
  BY <1>1, Inductive, PTL

\* One step of the list keeps a protected reader protected, unless the reader
\* is closed or the list cleared.
LEMMA KeepsProtected ==
    ASSUME IInv, [Next]_vars, NEW q \in Readers, Protected(q)
    PROVE  Protected(q)' \/ owner'[q] = "closed" \/ watch' = Null
<1> USE Bounds DEF IInv, Order, CoreType, QueueOrder, ReaderOrder, Protected, Node, Null,
        queueVars, watchVars, readerVars, ownVars, Goto
<1> DEFINE Goal == Protected(q)' \/ owner'[q] = "closed" \/ watch' = Null
<1>1. ASSUME NEW p \in Producers, Push(p) \/ PushNotice(p) PROVE Goal
  BY <1>1, AppendStep DEF Push, PushNotice, NoticeWatcher, WatcherMutexFree
<1>2. ASSUME NEW r \in Readers, Open(r) \/ Register(r) PROVE Goal
  BY <1>2 DEF Open, Register
<1>3. ASSUME NEW r \in Readers, CloseBegin(r) \/ CloseEnd(r) PROVE Goal
  BY <1>3 DEF CloseBegin, CloseEnd
<1>4. ASSUME NEW r \in Readers, CloseNotice(r) \/ Start(r) \/ Exit(r) \/ Locate(r) PROVE Goal
  BY <1>4 DEF CloseNotice, NoticeReader, Start, Exit, Locate
<1>5. ASSUME NEW r \in Readers, Place(r) PROVE Goal
  BY <1>5 DEF Place
<1>6. ASSUME NEW r \in Readers, Resume(r) \/ FetchNext(r) \/ BreakOut(r) PROVE Goal
  BY <1>6 DEF Resume, FetchNext, BreakOut
<1>7. ASSUME NEW r \in Readers, Deliver(r) PROVE Goal
  BY <1>7 DEF Deliver
<1>8. ASSUME NEW r \in Readers, CbPush(r) \/ CbNotice(r) PROVE Goal
  BY <1>8, AppendStep DEF CbPush, CbNotice, NoticeWatcher, WatcherMutexFree
<1>9. ASSUME NEW r \in Readers, CbEnd(r) PROVE Goal
  BY <1>9 DEF CbEnd
<1>10. ASSUME NEW r \in Readers, Realtime(r) \/ Wake(r) \/ NotifyUser(r) PROVE Goal
  BY <1>10 DEF Realtime, Wake, NotifyUser, NoticeReader
<1>11. CASE WatcherTimeout \/ WatcherResume \/ LockUsersNotify \/ NotifyDone
  BY <1>11 DEF WatcherTimeout, WatcherResume, LockUsersNotify, NotifyDone
<1>12. CASE Fetch
  BY <1>12 DEF Fetch
<1>13. CASE LockUsersScan
  BY <1>13 DEF LockUsersScan, UsersWriteLocked
<1>14. ASSUME NEW r \in Readers, ScanUser(r) PROVE Goal
  BY <1>14 DEF ScanUser
<1>15. CASE ScanDone
  BY <1>15 DEF ScanDone
<1>16. CASE Clean
  BY <1>16, PopStep
<1>17. CASE Clear \/ ClearSize
  BY <1>17 DEF Clear, ClearSize
<1>18. CASE UNCHANGED vars
  BY <1>18 DEF vars
<1> QED
  BY <1>1, <1>2, <1>3, <1>4, <1>5, <1>6, <1>7, <1>8, <1>9, <1>10, <1>11, <1>12, <1>13,
     <1>14, <1>15, <1>16, <1>17, <1>18 DEF Next, ReaderStep, WatcherStep

\* The watcher never overtakes a reader it has once seen at or ahead of its
\* cursor, whatever the interleaving of readers, owners and producers.
THEOREM ProtectionLasts == Spec => ProtectedStep
<1>1. ASSUME IInv, [Next]_vars
      PROVE  [\A r \in Readers : Protected(r) =>
                 Protected(r)' \/ owner'[r] = "closed" \/ watch' = Null]_vars
  BY <1>1, KeepsProtected
<1> QED
  BY <1>1, Inductive, PTL DEF Spec, ProtectedStep

---------------------------------------------------------------------------
(* SIZE mode: what the watcher has passed and kept                         *)

CountInv ==
    SaveMode = "SIZE" /\ ~MayClear =>
        /\ cpc = "idle"
        /\ watch = Null => cursize = 0
        /\ watch # Null => cursize = Kept

\* what the steps other than Fetch, Clean and Clear leave alone
LEMMA Idle ==
    ASSUME IInv, [Next]_vars, ~Fetch, ~Clean, ~Clear, ~ClearSize
    PROVE  /\ UNCHANGED <<rhead, watch, cursize, cpc>>
           /\ \A n \in 0 .. rtail : off'[n] = off[n]
<1> USE DEF IInv
<1>1. UNCHANGED <<rhead, watch, cursize, cpc>>
  BY DEF Next, vars, queueVars, watchVars, ReaderStep, WatcherStep, Push, Append, PushNotice,
     NoticeWatcher, Open, Register, CloseBegin, CloseNotice, CloseEnd, Start, Exit, Locate,
     Place, Resume, FetchNext, BreakOut, Deliver, CbPush, CbNotice, CbEnd, Realtime, Wake,
     WatcherTimeout, WatcherResume, LockUsersNotify, NotifyUser, NotifyDone,
     LockUsersScan, ScanUser, ScanDone
<1>2. \A n \in 0 .. rtail : off'[n] = off[n]
  <2>1. CASE Append
    <3>1. \A n \in 0 .. rtail : n \in Node /\ n # rtail + 1
      BY Bounds DEF Order, CoreType, Node
    <3>2. \E size : off' = [off EXCEPT ![rtail + 1] = off[rtail] + size]
      BY <2>1, Zenon DEF Append
    <3> QED
      BY <3>1, <3>2 DEF SizeType
  <2> QED
    BY <2>1, QueueStep
<1> QED
  BY <1>1, <1>2

\* Clean in SIZE mode: what it counts, and when it pops
LEMMA CleanStep ==
    ASSUME IInv, SaveMode = "SIZE", Clean, cursize = Kept
    PROVE  /\ UNCHANGED <<off, cpc>> /\ watch' = watch + 1 /\ watch # Null /\ watch' # Null
           /\ \/ rhead' = rhead + 1
              \/ rhead' = rhead /\ off[watch] - off[rhead] <= MaxSize
           /\ cursize' = off[watch] - off[rhead']
<1> USE ConstAssumption DEF IInv, Order, CoreType, SizeType, QueueOrder, SizeOrder, Node, Null
<1>1. /\ rhead < watch /\ watch < rtail /\ watch # Null /\ watch + 1 # Null
      /\ watch \in 0 .. rtail /\ rhead \in 0 .. rtail /\ rhead + 1 \in 0 .. rtail
      /\ watch - 1 \in 0 .. rtail
  BY DEF Clean
<1>2. Plus(cursize, Size(watch)) = off[watch] - off[rhead]
  <2>1. off[watch] - off[rhead] < Wrap
    BY <1>1
  <2>2. cursize + Size(watch) = off[watch] - off[rhead]
    <3>1. off[watch] \in Nat /\ off[watch - 1] \in Nat /\ off[rhead] \in Nat
      BY <1>1
    <3>2. cursize = off[watch - 1] - off[rhead]
      BY DEF Kept
    <3>3. Size(watch) = off[watch] - off[watch - 1]
      BY DEF Size
    <3> HIDE DEF IInv
    <3> QED
      BY <3>1, <3>2, <3>3
  <2> QED
    BY <2>1, <2>2 DEF Plus
<1>3. Minus(off[watch] - off[rhead], Size(rhead + 1)) = off[watch] - off[rhead + 1]
  <2>1. off[rhead + 1] <= off[watch] /\ Size(rhead + 1) = off[rhead + 1] - off[rhead]
    BY <1>1, SMTT(20) DEF Size
  <2>2. off[watch] \in Nat /\ off[rhead] \in Nat /\ off[rhead + 1] \in Nat
    BY <1>1
  <2> HIDE DEF IInv, Order, CoreType, SizeType, QueueOrder, SizeOrder, Node
  <2> QED
    BY <2>1, <2>2 DEF Minus
<1>4. /\ watch' = watch + 1 /\ UNCHANGED <<off, cpc>>
      /\ \/ rhead' = rhead + 1 /\ cursize' = Minus(Plus(cursize, Size(watch)), Size(rhead + 1))
         \/ /\ rhead' = rhead /\ cursize' = Plus(cursize, Size(watch))
            /\ Plus(cursize, Size(watch)) <= MaxSize
  BY DEF Clean, Pop
<1> QED
  BY <1>1, <1>2, <1>3, <1>4

LEMMA FetchStep ==
    ASSUME Order, Fetch
    PROVE  /\ UNCHANGED <<rhead, cursize, cpc, off>>
           /\ watch' = watch \/ (watch = Null /\ watch' = rhead + 1)
<1> QED
  BY DEF Fetch, queueVars

LEMMA StepCount == IInv /\ CountInv /\ [Next]_vars => CountInv'
<1> SUFFICES ASSUME IInv, CountInv, [Next]_vars, SaveMode = "SIZE", ~MayClear
             PROVE  /\ cpc' = "idle"
                    /\ watch' = Null => cursize' = 0
                    /\ watch' # Null => cursize' = Kept'
  BY DEF CountInv
<1> USE DEF IInv, Order, CoreType, SizeType, QueueOrder, Node, Null
<1>1. /\ cpc = "idle"
      /\ watch = Null => cursize = 0
      /\ watch # Null => cursize = Kept
  BY DEF CountInv
<1>2. CASE Clean
  <2>1. watch # Null
    BY <1>2 DEF Clean
  <2>2. /\ cpc' = "idle" /\ watch' # Null
        /\ cursize' = off[watch] - off[rhead'] /\ watch' = watch + 1 /\ off' = off
    BY <1>1, <1>2, <2>1, CleanStep
  <2> QED
    BY <2>1, <2>2, ConstAssumption DEF Kept
<1>3. CASE Fetch
  <2>1. CASE watch' = watch
    BY <1>1, <1>3, <2>1, FetchStep DEF Kept
  <2>2. CASE watch = Null /\ watch' = rhead + 1
    BY <1>1, <1>3, <2>2, FetchStep, ConstAssumption DEF Kept
  <2> QED
    BY <1>3, <2>1, <2>2, FetchStep
<1>4. CASE Clear \/ ClearSize
  BY <1>1, <1>4 DEF Clear, ClearSize
<1>5. CASE ~Fetch /\ ~Clean /\ ~Clear /\ ~ClearSize
  <2>1. CASE watch = Null
    BY <1>1, <1>5, <2>1, Idle
  <2>2. CASE watch # Null
    <3>1. watch - 1 \in 0 .. rtail /\ rhead \in 0 .. rtail
      BY <2>2, ConstAssumption
    <3> QED
      BY <1>1, <1>5, <2>2, <3>1, Idle DEF Kept
  <2> QED
    BY <2>1, <2>2
<1> QED
  BY <1>2, <1>3, <1>4, <1>5

LEMMA Counting == ~MayClear => (Spec => []CountInv)
<1>1. Init => CountInv
  BY DEF Init, CountInv
<1> QED
  BY <1>1, Inductive, StepCount, PTL DEF Spec

\* As long as the list is not cleared, cursize is the size of what the list
\* keeps although every user has passed it, whatever the sizes of the objects.
THEOREM CountsLength ==
    ASSUME ~MayClear
    PROVE  Spec => []CountedLength
<1>1. CountInv => CountedLength
  BY DEF CountInv, CountedLength
<1> QED
  BY <1>1, Counting, PTL

\* the least size an object may have, if there is one
Least(size) == size \in Sizes /\ \A other \in Sizes : size <= other

SpanOver(size) ==
    \A m, n \in 0 .. rtail : n <= m => size * (m - n) <= off[m] - off[n]
BoundOver(size) ==
    SaveMode = "SIZE" /\ watch # Null => size * (watch - 1 - rhead) <= MaxSize

LEMMA OneMore ==
    ASSUME NEW size \in Nat, NEW count \in Int
    PROVE  size * (count + 1) = size * count + size /\ size * count \in Int
<1> QED
  BY SMT

LEMMA StepSpan ==
    ASSUME NEW size, Least(size), IInv, SpanOver(size), [Next]_vars
    PROVE  SpanOver(size)'
<1> USE ConstAssumption DEF IInv, Order, CoreType, SizeType, Least, Node
<1>1. CASE Append
  <2>1. PICK grown \in Sizes : off' = [off EXCEPT ![rtail + 1] = off[rtail] + grown]
    BY <1>1 DEF Append
  <2>2. /\ rtail' = rtail + 1 /\ rtail \in Nat /\ rtail + 1 \in Node
        /\ \A n \in 0 .. rtail : off'[n] = off[n] /\ off[n] \in Nat
        /\ off'[rtail + 1] = off[rtail] + grown
    <3>1. rtail' = rtail + 1 /\ rtail \in Node /\ rtail < MaxPush /\ MaxPush \in Nat
      BY <1>1, Bounds DEF Append
    <3>2. off \in [Node -> Nat]
      OBVIOUS
    <3>3. rtail \in Nat /\ rtail + 1 \in Node
      BY <3>1
    <3>4. \A n \in 0 .. rtail : n \in Node /\ n # rtail + 1
      BY <3>1, <3>3
    <3> HIDE DEF IInv, Order, CoreType, SizeType, Least, Node
    <3>5. \A n \in 0 .. rtail : off'[n] = off[n] /\ off[n] \in Nat
      BY <2>1, <3>2, <3>4
    <3> QED
      BY <2>1, <3>1, <3>2, <3>3, <3>5
  <2>3. size \in Nat /\ grown \in Nat /\ size <= grown
    BY SizeBounds
  <2>4. ASSUME NEW m \in 0 .. rtail', NEW n \in 0 .. rtail', n <= m
        PROVE  size * (m - n) <= off'[m] - off'[n]
    <3>1. CASE m \in 0 .. rtail
      <4>1. n \in 0 .. rtail /\ size * (m - n) <= off[m] - off[n]
        BY <2>4, <3>1 DEF SpanOver
      <4> QED
        BY <2>2, <3>1, <4>1
    <3>2. CASE m = rtail + 1 /\ n \in 0 .. rtail
      <4>1. size * (rtail - n) <= off[rtail] - off[n] /\ rtail - n \in Int /\ m - n = (rtail - n) + 1
        BY <2>2, <3>2 DEF SpanOver
      <4>2. size * ((rtail - n) + 1) = size * (rtail - n) + size /\ size * (rtail - n) \in Int
        BY <2>3, <4>1, OneMore
      <4>3. off[rtail] \in Nat /\ off[n] \in Nat /\ off'[m] = off[rtail] + grown /\ off'[n] = off[n]
        BY <2>2, <3>2
      <4> HIDE DEF IInv, Order, CoreType, SizeType, Least, Node
      <4> QED
        BY <2>3, <4>1, <4>2, <4>3
    <3>3. CASE m = rtail + 1 /\ n = rtail + 1
      <4>1. m - n = 0 /\ off'[m] - off'[n] = 0
        BY <2>2, <2>3, <3>3
      <4> QED
        BY <2>3, <4>1
    <3> QED
      BY <2>2, <2>4, <3>1, <3>2, <3>3
  <2> QED
    BY <2>4 DEF SpanOver
<1>2. CASE UNCHANGED <<rtail, off>>
  BY <1>2 DEF SpanOver
<1> QED
  BY <1>1, <1>2, QueueStep

LEMMA StepBound ==
    ASSUME NEW size, Least(size), ~MayClear, IInv, CountInv, SpanOver(size), BoundOver(size),
           [Next]_vars
    PROVE  BoundOver(size)'
<1> SUFFICES ASSUME SaveMode = "SIZE", watch' # Null
             PROVE  size * (watch' - 1 - rhead') <= MaxSize
  BY DEF BoundOver
<1> USE ConstAssumption DEF IInv, Order, CoreType, SizeType, QueueOrder, Node, Null
<1>1. CASE Clean
  <2>1. watch # Null /\ rhead < watch /\ watch < rtail
    BY <1>1 DEF Clean
  <2>2. cursize = Kept /\ size * (watch - 1 - rhead) <= MaxSize
    BY <2>1 DEF CountInv, BoundOver
  <2>3. /\ off' = off /\ watch' = watch + 1
        /\ \/ rhead' = rhead + 1
           \/ rhead' = rhead /\ off[watch] - off[rhead] <= MaxSize
    BY <1>1, <2>2, CleanStep
  <2>4. /\ watch \in 0 .. rtail /\ rhead \in 0 .. rtail /\ rhead <= watch
        /\ off[watch] \in Nat /\ off[rhead] \in Nat /\ MaxSize \in Nat /\ size \in Nat
    BY <2>1, SizeBounds DEF Least
  <2>5. size * (watch - rhead) <= off[watch] - off[rhead]
    BY <2>4 DEF SpanOver
  <2> HIDE DEF IInv, Order, CoreType, SizeType, QueueOrder, Node
  <2>6. CASE rhead' = rhead + 1
    <3>1. watch' - 1 - rhead' = watch - 1 - rhead
      BY <2>3, <2>4, <2>6
    <3> QED
      BY <2>2, <3>1
  <2>7. CASE rhead' = rhead /\ off[watch] - off[rhead] <= MaxSize
    <3>1. watch' - 1 - rhead' = watch - rhead /\ watch - rhead \in Int
      BY <2>3, <2>4, <2>7
    <3>2. size * (watch - rhead) \in Int
      BY <2>4, <3>1, OneMore
    <3> QED
      BY <2>4, <2>5, <2>7, <3>1, <3>2
  <2> QED
    BY <2>3, <2>6, <2>7
<1>2. CASE Fetch
  <2>1. CASE watch' = watch
    BY <1>2, <2>1, FetchStep DEF BoundOver
  <2>2. CASE watch = Null /\ watch' = rhead + 1
    <3>1. watch' - 1 - rhead' = 0 /\ size \in Nat /\ MaxSize \in Nat
      BY <1>2, <2>2, FetchStep, SizeBounds DEF Least
    <3> QED
      BY <3>1
  <2> QED
    BY <1>2, <2>1, <2>2, FetchStep
<1>3. CASE Clear \/ ClearSize
  BY <1>3 DEF Clear, ClearSize, CountInv
<1>4. CASE ~Fetch /\ ~Clean /\ ~Clear /\ ~ClearSize
  BY <1>4, Idle DEF BoundOver
<1> QED
  BY <1>1, <1>2, <1>3, <1>4

KeptInv == \A size \in Sizes : Least(size) => SpanOver(size) /\ BoundOver(size)

\* In SIZE mode a list that is not cleared keeps, of what every user has passed,
\* no more objects than maxsize holds of the least size (Clean after Clean),
\* whatever sizes the objects have.
THEOREM RetainBounded ==
    ASSUME ~MayClear
    PROVE  Spec => []RetainBound
<1>1. Init => KeptInv
  <2> SUFFICES ASSUME Init, NEW size \in Sizes PROVE SpanOver(size) /\ BoundOver(size)
    BY DEF KeptInv
  <2>1. rtail = 0 /\ watch = Null /\ off[0] = 0 /\ size \in Nat
    BY SizeBounds, Bounds DEF Init, Node
  <2>2. \A m, n \in 0 .. rtail : m - n = 0 /\ off[m] - off[n] = 0
    BY <2>1
  <2>3. size * 0 = 0
    BY <2>1
  <2> QED
    BY <2>1, <2>2, <2>3 DEF SpanOver, BoundOver
<1>2. IInv /\ CountInv /\ KeptInv /\ [Next]_vars => KeptInv'
  <2> SUFFICES ASSUME IInv, CountInv, KeptInv, [Next]_vars, NEW size \in Sizes, Least(size)
               PROVE  SpanOver(size)' /\ BoundOver(size)'
    BY DEF KeptInv, Least
  <2> QED
    BY StepSpan, StepBound DEF KeptInv
<1>3. KeptInv => RetainBound
  BY DEF KeptInv, BoundOver, Least, RetainBound
<1> QED
  BY <1>1, <1>2, <1>3, Inductive, Counting, PTL DEF Spec

---------------------------------------------------------------------------
(* ALL mode implements BroadcastLog                                        *)

\* the last node handed over is the one under the cursor, or the next one
\* while the callback runs
SeenInv ==
    \A r \in Readers :
        seen[r] = IF rpc[r] \in {"cb", "cbpush"} THEN nxt[r] ELSE cursor[r]

AllInv == rhead = 0 /\ wpc \notin {"check", "scan", "pop"} /\ SeenInv

LEMMA StepAll ==
    ASSUME SaveMode = "ALL", ~MayClear, IInv, AllInv, [Next]_vars
    PROVE  AllInv' /\ [Log!LogNext]_(Log!logVars)
<1> USE Bounds DEF IInv, Order, CoreType, ReaderOrder, AllInv, SeenInv, Node, Null,
        queueVars, watchVars, readerVars, ownVars, Goto,
        Log!logVars, Log!LogNext, Log!AppendLog, Log!Join, Log!HandOver, Log!NotJoined
<1> DEFINE Goal == AllInv' /\ [Log!LogNext]_(Log!logVars)
<1>1. ASSUME NEW p \in Producers, Push(p) PROVE Goal
  BY <1>1, AppendStep DEF Push
<1>2. ASSUME NEW p \in Producers, PushNotice(p) PROVE Goal
  BY <1>2 DEF PushNotice, NoticeWatcher, WatcherMutexFree
<1>3. ASSUME NEW r \in Readers, Open(r) \/ Register(r) \/ CloseBegin(r) \/ CloseEnd(r) PROVE Goal
  <2>1. UNCHANGED <<rhead, rtail, wpc, seen, nxt, cursor>>
    BY <1>3 DEF Open, Register, CloseBegin, CloseEnd
  <2>2. CASE Open(r)
    <3>1. ASSUME NEW q \in Readers
          PROVE  rpc'[q] \in {"cb", "cbpush"} <=> rpc[q] \in {"cb", "cbpush"}
      BY <2>2 DEF Open
    <3> QED
      BY <2>1, <3>1
  <2>3. CASE Register(r) \/ CloseBegin(r) \/ CloseEnd(r)
    BY <2>1, <2>3 DEF Register, CloseBegin, CloseEnd
  <2> QED
    BY <1>3, <2>2, <2>3
<1>4. ASSUME NEW r \in Readers, CloseNotice(r) \/ NotifyUser(r) PROVE Goal
  BY <1>4 DEF CloseNotice, NotifyUser, NoticeReader, ReaderMutexFree
<1>5. ASSUME NEW r \in Readers, Start(r) \/ Exit(r) \/ Locate(r) \/ Resume(r) PROVE Goal
  BY <1>5 DEF Start, Exit, Locate, Resume
<1>6. ASSUME NEW r \in Readers, Place(r) PROVE Goal
  <2>1. AllInv'
    BY <1>6 DEF Place
  <2>2. seen[r] = Null /\ nxt[r] \in 0 .. rtail /\ seen' = [seen EXCEPT ![r] = nxt[r]]
        /\ rtail' = rtail
    BY <1>6 DEF Place
  <2>3. Log!Join(r)
    BY <2>2
  <2> QED
    BY <2>1, <2>3
<1>7. ASSUME NEW r \in Readers, FetchNext(r) \/ BreakOut(r) PROVE Goal
  BY <1>7 DEF FetchNext, BreakOut
<1>8. ASSUME NEW r \in Readers, Deliver(r) PROVE Goal
  BY <1>8 DEF Deliver
<1>9. ASSUME NEW r \in Readers, CbPush(r) PROVE Goal
  BY <1>9, AppendStep DEF CbPush
<1>10. ASSUME NEW r \in Readers, CbNotice(r) PROVE Goal
  BY <1>10 DEF CbNotice, NoticeWatcher, WatcherMutexFree
<1>11. ASSUME NEW r \in Readers, CbEnd(r) \/ Realtime(r) \/ Wake(r) PROVE Goal
  BY <1>11 DEF CbEnd, Realtime, Wake
<1>12. CASE WatcherTimeout \/ WatcherResume \/ LockUsersNotify \/ NotifyDone
  BY <1>12 DEF WatcherTimeout, WatcherResume, LockUsersNotify, NotifyDone
<1>13. CASE Fetch
  BY <1>13 DEF Fetch
<1>14. ASSUME LockUsersScan \/ ScanDone \/ Clean \/ Clear \/ \E r \in Readers : ScanUser(r) PROVE FALSE
  BY <1>14 DEF LockUsersScan, ScanDone, Clean, ScanUser, Clear
<1>15. CASE ClearSize
  BY <1>15 DEF ClearSize
<1>16. CASE UNCHANGED vars
  BY <1>16 DEF vars
<1> QED
  BY <1>1, <1>2, <1>3, <1>4, <1>5, <1>6, <1>7, <1>8, <1>9, <1>10, <1>11, <1>12, <1>13,
     <1>14, <1>15, <1>16 DEF Next, ReaderStep, WatcherStep

\* A list that keeps everything hands every reader a gapless, ordered run of
\* the pushed objects: each step of it is a step of BroadcastLog or none.
THEOREM Implements ==
    ASSUME SaveMode = "ALL", ~MayClear
    PROVE  Spec => ImplementsLog
<1>1. Init => Log!LogInit /\ AllInv
  BY DEF Init, Log!LogInit, Log!NotJoined, AllInv, SeenInv, Null
<1>2. IInv /\ AllInv /\ [Next]_vars => AllInv' /\ [Log!LogNext]_(Log!logVars)
  BY StepAll
<1> QED
  BY <1>1, <1>2, Inductive, PTL DEF Spec, ImplementsLog, Log!LogSpec

---------------------------------------------------------------------------
(* cb_realtime comes after the history, in ALL mode                        *)

\* A reader that is told so has seen the node under its cursor, at which it
\* found no next one; a reader that has no cursor yet was told nothing.
Told(r) ==
    /\ base[r] <= rtail
    /\ rpc[r] \in {"none", "spawned"} => status[r] # "WORK" /\ cursor[r] = Null
    /\ cursor[r] = Null => ~isrealtime[r] /\ rpc[r] # "rtcheck"
    /\ (isrealtime[r] \/ rpc[r] = "rtcheck") /\ status[r] = "WORK" => seen[r] >= base[r]

\* the object of the dummy is never NULL for a reader that comes to it
ToldInv ==
    /\ rhead = 0 \/ dangling
    /\ wpc \notin {"check", "scan", "pop"}
    /\ SeenInv
    /\ \A r \in HeadReaders : Told(r)

LEMMA StepTold ==
    ASSUME SaveMode = "ALL", IInv, ToldInv, [Next]_vars
    PROVE  ToldInv'
<1> USE Bounds DEF IInv, Order, CoreType, QueueOrder, ReaderOrder, ToldInv, SeenInv, Told, Node, Null,
        queueVars, watchVars, readerVars, ownVars, Goto
<1>1. ASSUME NEW p \in Producers, Push(p) PROVE ToldInv'
  BY <1>1, AppendStep DEF Push
<1>2. ASSUME NEW p \in Producers, PushNotice(p) PROVE ToldInv'
  BY <1>2 DEF PushNotice, NoticeWatcher, WatcherMutexFree
<1>3. ASSUME NEW r \in Readers, Open(r) PROVE ToldInv'
  BY <1>3 DEF Open
<1>4. ASSUME NEW r \in Readers, Register(r) \/ CloseBegin(r) \/ CloseEnd(r) PROVE ToldInv'
  BY <1>4 DEF Register, CloseBegin, CloseEnd
<1>5. ASSUME NEW r \in Readers, CloseNotice(r) \/ NotifyUser(r) PROVE ToldInv'
  BY <1>5 DEF CloseNotice, NotifyUser, NoticeReader, ReaderMutexFree
<1>6. ASSUME NEW r \in Readers, Start(r) \/ Exit(r) PROVE ToldInv'
  BY <1>6 DEF Start, Exit
<1>7. ASSUME NEW r \in Readers, Locate(r) \/ Resume(r) PROVE ToldInv'
  BY <1>7 DEF Locate, Resume
<1>8. ASSUME NEW r \in Readers, Place(r) PROVE ToldInv'
  BY <1>8 DEF Place
<1>9. ASSUME NEW r \in Readers, FetchNext(r) PROVE ToldInv'
  BY <1>9 DEF FetchNext
<1>10. ASSUME NEW r \in Readers, BreakOut(r) PROVE ToldInv'
  BY <1>10 DEF BreakOut
<1>11. ASSUME NEW r \in Readers, Deliver(r) PROVE ToldInv'
  BY <1>11 DEF Deliver
<1>12. ASSUME NEW r \in Readers, CbPush(r) PROVE ToldInv'
  BY <1>12, AppendStep DEF CbPush
<1>13. ASSUME NEW r \in Readers, CbNotice(r) PROVE ToldInv'
  BY <1>13 DEF CbNotice, NoticeWatcher, WatcherMutexFree
<1>14. ASSUME NEW r \in Readers, CbEnd(r) \/ Wake(r) PROVE ToldInv'
  BY <1>14 DEF CbEnd, Wake
<1>15. ASSUME NEW r \in Readers, Realtime(r) PROVE ToldInv'
  <2>1. /\ UNCHANGED <<rhead, rtail, dangling, wpc, status, cursor, nxt, seen, base>>
        /\ rpc[r] = "rtcheck" /\ rpc' = [rpc EXCEPT ![r] = "sleep"]
        /\ \A q \in Readers : q # r => isrealtime'[q] = isrealtime[q]
    BY <1>15 DEF Realtime
  <2>2. ASSUME NEW q \in HeadReaders PROVE Told(q)'
    <3>1. q \in Readers
      BY Bounds
    <3>2. CASE q = r
      BY <2>1, <2>2, <3>1, <3>2
    <3>3. CASE q # r
      BY <2>1, <2>2, <3>1, <3>3
    <3> QED
      BY <3>2, <3>3
  <2> QED
    BY <2>1, <2>2
<1>16. CASE WatcherTimeout \/ WatcherResume \/ LockUsersNotify \/ NotifyDone \/ Fetch
  BY <1>16 DEF WatcherTimeout, WatcherResume, LockUsersNotify, NotifyDone, Fetch
<1>17. ASSUME LockUsersScan \/ ScanDone \/ Clean \/ \E r \in Readers : ScanUser(r) PROVE FALSE
  BY <1>17 DEF LockUsersScan, ScanDone, Clean, ScanUser
<1>18. CASE Clear
  <2>1. rhead' = rtail /\ dangling' = (dangling \/ rhead < rtail)
    BY <1>18 DEF Clear
  <2>2. rhead' = 0 \/ dangling'
    <3>1. CASE rhead < rtail
      BY <2>1, <3>1
    <3>2. CASE rhead = 0 /\ ~(rhead < rtail)
      BY <2>1, <3>2
    <3>3. CASE dangling
      BY <2>1, <3>3
    <3> QED
      BY <3>1, <3>2, <3>3
  <2>3. UNCHANGED <<rtail, wpc, readerVars, status>>
    BY <1>18 DEF Clear
  <2> QED
    BY <2>2, <2>3
<1>19. CASE ClearSize
  BY <1>19 DEF ClearSize
<1>20. CASE UNCHANGED vars
  BY <1>20 DEF vars
<1> QED
  BY <1>1, <1>2, <1>3, <1>4, <1>5, <1>6, <1>7, <1>8, <1>9, <1>10, <1>11, <1>12, <1>13,
     <1>14, <1>15, <1>16, <1>17, <1>18, <1>19, <1>20 DEF Next, ReaderStep, WatcherStep

\* In a list that keeps everything, cleared or not, a HEAD reader gets
\* cb_realtime after all that was in the list when it chose its start: a
\* callback that pushes, a notice that is lost and an exit in between change
\* nothing about it (Realtime after FetchNext).
THEOREM HistoryFirst ==
    ASSUME SaveMode = "ALL"
    PROVE  Spec => []RealtimeAfterHistory
<1>1. Init => ToldInv
  <2> SUFFICES ASSUME Init PROVE ToldInv
    OBVIOUS
  <2>1. \A r \in HeadReaders : r \in Readers /\ ~isrealtime[r]
    <3> SUFFICES ASSUME NEW r \in HeadReaders PROVE r \in Readers /\ ~isrealtime[r]
      OBVIOUS
    <3>1. r \in Readers
      BY Bounds
    <3>2. isrealtime[r] = (r \notin HeadReaders)
      BY <3>1 DEF Init
    <3> QED
      BY <3>1, <3>2
  <2>2. \A r \in Readers : /\ base[r] = 0 /\ status[r] = "NONE" /\ cursor[r] = Null /\ rpc[r] = "none"
                           /\ seen[r] = cursor[r]
    BY DEF Init
  <2> QED
    BY <2>1, <2>2 DEF Init, ToldInv, Told, SeenInv
<1>2. IInv /\ ToldInv /\ [Next]_vars => ToldInv'
  BY StepTold
<1>3. ToldInv => RealtimeAfterHistory
  BY DEF ToldInv, Told, RealtimeAfterHistory
<1> QED
  BY <1>1, <1>2, <1>3, Inductive, PTL DEF Spec
=============================================================================
