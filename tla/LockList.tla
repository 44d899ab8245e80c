------------------------------ MODULE LockList ------------------------------
(***************************************************************************)
(* s_sis_lock_list (src/core/sis_list.lock.c): a linked queue with many    *)
(* producers, one thread per reader and one watcher thread which wakes the *)
(* readers and frees what nobody needs any more.                           *)
(*                                                                         *)
(* Nodes are numbered in the order they are pushed; node 0 is the dummy    *)
(* sis_lock_queue_create allocates.  The live nodes are rhead .. rtail: a  *)
(* node below rhead has been freed, and the object of node n is referenced *)
(* by the queue exactly while n > rhead.                                   *)
(*                                                                         *)
(* Every wait thread holds the mutex of its own s_sis_wait except inside   *)
(* pthread_cond_timedwait, and sis_thread_wait_notice takes that mutex: a  *)
(* notice therefore waits until its target sleeps.                         *)
(***************************************************************************)
EXTENDS Integers, FiniteSets

CONSTANTS
    Readers,      \* the s_sis_lock_reader objects
    Producers,    \* the threads that call sis_lock_list_push
    HeadReaders,  \* readers created with SIS_UNLOCK_READER_HEAD; the others are TAIL
    Echo,         \* readers whose cb_recv may push to this same list
    SaveMode,     \* "ALL", "NONE" or "SIZE", chosen by sis_lock_list_create
    MaxSize,      \* maxsize in SIZE mode
    Sizes,        \* the sizes an object may have
    Wrap,         \* size_t counts modulo Wrap
    MaxPush,      \* bound: nodes pushed in a behaviour
    MayClear      \* bound: whether the owner calls sis_lock_list_clear

ASSUME ConstAssumption ==
    /\ HeadReaders \subseteq Readers
    /\ Echo \subseteq Readers
    /\ SaveMode \in {"ALL", "NONE", "SIZE"}
    /\ MaxSize \in Nat
    /\ Wrap \in Nat \ {0}
    /\ Sizes \subseteq 1 .. Wrap - 1
    /\ MaxPush \in Nat
    /\ MayClear \in BOOLEAN

Null == -1        \* a cursor that is still NULL

VARIABLES
    rhead, rtail, \* the queue
    dangling,     \* the dummy's obj pointer still names a released object
    cursize,      \* size of what the watcher has passed and kept, as it counts
    off,          \* size of the objects pushed up to a node
    watch,        \* watcher->cursor
    wpc,          \* control state of the watcher thread
    todo,         \* users the watcher's current loop over users has still to visit
    users,        \* the registered readers
    owner,        \* per reader: progress of sis_lock_reader_open / _close
    status,       \* per reader: work_status of its wait thread
    rpc,          \* per reader: control state of its thread
    cursor, nxt,  \* per reader: reader->cursor and the local `next'
    isrealtime,   \* per reader: reader->isrealtime
    seen,         \* history: last node handed to cb_recv (or the start node)
    base,         \* history: the tail when the reader chose its start
    ppc,          \* per producer: inside sis_lock_list_push?
    cpc           \* the thread that calls sis_lock_list_clear

queueVars  == <<rhead, rtail, dangling, cursize, off>>
watchVars  == <<watch, wpc, todo>>
readerVars == <<rpc, cursor, nxt, isrealtime, seen, base>>
ownVars    == <<users, owner>>
vars == <<queueVars, watchVars, readerVars, ownVars, status, ppc, cpc>>

Node == 0 .. MaxPush
ReaderPc == {"none", "spawned", "top", "place", "next", "deliver", "cb", "cbpush",
             "rtcheck", "sleep", "woken", "done", "uaf", "ghost"}
WatchPc  == {"sleep", "woken", "late", "lock", "notify", "fetch", "check", "scan", "pop"}

TypeOK ==
    /\ rhead \in Node /\ rtail \in Node
    /\ dangling \in BOOLEAN
    /\ cursize \in Nat
    /\ off \in [Node -> Nat]
    /\ watch \in Node \cup {Null}
    /\ wpc \in WatchPc
    /\ todo \subseteq Readers
    /\ users \subseteq Readers
    /\ owner \in [Readers -> {"idle", "register", "open", "closing", "closed"}]
    /\ status \in [Readers -> {"NONE", "WORK", "EXIT"}]
    /\ rpc \in [Readers -> ReaderPc]
    /\ cursor \in [Readers -> Node \cup {Null}]
    /\ nxt \in [Readers -> Node]
    /\ isrealtime \in [Readers -> BOOLEAN]
    /\ seen \in [Readers -> Node \cup {Null}]
    /\ base \in [Readers -> Node]
    /\ ppc \in [Producers -> {"idle", "notice"}]
    /\ cpc \in {"idle", "reset"}

Init ==
    /\ rhead = 0 /\ rtail = 0 /\ dangling = FALSE /\ cursize = 0
    /\ off = [n \in Node |-> 0]
    /\ watch = Null /\ wpc = "sleep" /\ todo = {}
    /\ users = {} /\ owner = [r \in Readers |-> "idle"]
    /\ status = [r \in Readers |-> "NONE"]
    /\ rpc = [r \in Readers |-> "none"]
    /\ cursor = [r \in Readers |-> Null] /\ nxt = [r \in Readers |-> 0]
    /\ isrealtime = [r \in Readers |-> r \notin HeadReaders]
    /\ seen = [r \in Readers |-> Null] /\ base = [r \in Readers |-> 0]
    /\ ppc = [p \in Producers |-> "idle"]
    /\ cpc = "idle"

(***************************************************************************)
(* Locks.  userslock is held for writing by an owner that is closing a     *)
(* reader, and for reading by the watcher in its two loops over users.     *)
(***************************************************************************)
UsersReadLocked  == wpc \in {"notify", "scan"}
UsersWriteLocked == \E r \in Readers : owner[r] = "closing"
WatchLocked      == wpc \in {"fetch", "check", "scan", "pop"}

\* mutation: a timed wait that does not release the mutex
WaitKeepsMutex(r) == rpc[r] \in {"none", "spawned", "woken", "done", "ghost"}

ReaderMutexFree(r) == rpc[r] \in {"none", "spawned", "sleep", "woken", "done", "ghost"}
WatcherMutexFree   == wpc \in {"sleep", "woken", "late"}

\* sis_thread_wait_notice on a reader
NoticeReader(r) ==
    /\ ReaderMutexFree(r)
    /\ rpc' = [rpc EXCEPT ![r] = IF @ = "sleep" THEN "woken" ELSE @]
    /\ UNCHANGED <<cursor, nxt, isrealtime, seen, base>>

\* sis_thread_wait_notice on the watcher: a watcher that has timed out but not
\* yet returned from the wait does not see it
NoticeWatcher ==
    /\ WatcherMutexFree
    /\ wpc' = IF wpc = "sleep" THEN "woken" ELSE wpc
    /\ UNCHANGED <<watch, todo>>

---------------------------------------------------------------------------
(* Producers: sis_lock_list_push links the node, then notifies the watcher *)

\* sis_lock_queue_push; what is in the list at one time fits into memory
Append ==
    /\ rtail < MaxPush
    /\ \E size \in Sizes :
         /\ off[rtail] + size - off[rhead] < Wrap
         /\ off' = [off EXCEPT ![rtail + 1] = off[rtail] + size]
    /\ rtail' = rtail + 1
    /\ UNCHANGED <<rhead, dangling, cursize>>

Push(p) ==
    /\ ppc[p] = "idle"
    /\ Append
    /\ ppc' = [ppc EXCEPT ![p] = "notice"]
    /\ UNCHANGED <<watchVars, readerVars, ownVars, status, cpc>>

PushNotice(p) ==
    /\ ppc[p] = "notice"
    /\ NoticeWatcher
    /\ ppc' = [ppc EXCEPT ![p] = "idle"]
    /\ UNCHANGED <<queueVars, readerVars, ownVars, status, cpc>>

---------------------------------------------------------------------------
(* The owner of a reader: sis_lock_reader_open and sis_lock_reader_close   *)

\* the thread is started first ...
Open(r) ==
    /\ owner[r] = "idle"
    /\ owner' = [owner EXCEPT ![r] = "register"]
    /\ rpc' = [rpc EXCEPT ![r] = "spawned"]
    /\ UNCHANGED <<queueVars, watchVars, users, cursor, nxt, isrealtime, seen, base,
                   status, ppc, cpc>>

\* ... and the reader joins users afterwards
Register(r) ==
    /\ owner[r] = "register"
    /\ ~UsersReadLocked /\ ~UsersWriteLocked
    /\ users' = users \cup {r}
    /\ owner' = [owner EXCEPT ![r] = "open"]
    /\ UNCHANGED <<queueVars, watchVars, readerVars, status, ppc, cpc>>

\* mutation: the reader is destroyed but stays among the users
CloseKeepsUser(r) ==
    /\ owner[r] = "open"
    /\ ~UsersReadLocked /\ ~UsersWriteLocked
    /\ IF status[r] = "WORK"
         THEN /\ status' = [status EXCEPT ![r] = "EXIT"]
              /\ owner' = [owner EXCEPT ![r] = "closing"]
         ELSE /\ owner' = [owner EXCEPT ![r] = "closed"]
              /\ UNCHANGED status
    /\ UNCHANGED <<users, queueVars, watchVars, readerVars, ppc, cpc>>

\* The reader leaves users; sis_wait_thread_destroy waits for the thread only
\* if the thread has already set its status to WORK.
CloseBegin(r) ==
    /\ owner[r] = "open"
    /\ ~UsersReadLocked /\ ~UsersWriteLocked
    /\ users' = users \ {r}
    /\ IF status[r] = "WORK"
         THEN /\ status' = [status EXCEPT ![r] = "EXIT"]
              /\ owner' = [owner EXCEPT ![r] = "closing"]
         ELSE /\ owner' = [owner EXCEPT ![r] = "closed"]
              /\ UNCHANGED status
    /\ UNCHANGED <<queueVars, watchVars, readerVars, ppc, cpc>>

CloseNotice(r) ==
    /\ owner[r] = "closing" /\ status[r] # "NONE"
    /\ NoticeReader(r)
    /\ UNCHANGED <<queueVars, watchVars, ownVars, status, ppc, cpc>>

\* the thread has set NONE; the reader is freed and userslock released
CloseEnd(r) ==
    /\ owner[r] = "closing" /\ status[r] = "NONE"
    /\ owner' = [owner EXCEPT ![r] = "closed"]
    /\ UNCHANGED <<queueVars, watchVars, readerVars, users, status, ppc, cpc>>

---------------------------------------------------------------------------
(* _thread_reader                                                          *)

Goto(r, pc) == rpc' = [rpc EXCEPT ![r] = pc]

\* the reader may have been closed, and freed, before its thread first ran
Start(r) ==
    /\ rpc[r] = "spawned"
    /\ IF owner[r] = "closed"
         THEN Goto(r, "ghost") /\ UNCHANGED status
         ELSE Goto(r, "top") /\ status' = [status EXCEPT ![r] = "WORK"]
    /\ UNCHANGED <<queueVars, watchVars, ownVars, cursor, nxt, isrealtime, seen, base,
                   ppc, cpc>>

\* mutation: the thread ends without sis_wait_thread_stop
ExitSilently(r) ==
    /\ rpc[r] = "top" /\ status[r] = "EXIT"
    /\ Goto(r, "done")
    /\ UNCHANGED <<queueVars, watchVars, ownVars, cursor, nxt, isrealtime, seen, base,
                   status, ppc, cpc>>

\* the loop condition: sis_wait_thread_noexit, else sis_wait_thread_stop
Exit(r) ==
    /\ rpc[r] = "top" /\ status[r] = "EXIT"
    /\ Goto(r, "done")
    /\ status' = [status EXCEPT ![r] = "NONE"]
    /\ UNCHANGED <<queueVars, watchVars, ownVars, cursor, nxt, isrealtime, seen, base,
                   ppc, cpc>>

\* first round: read the head or the tail of the queue under its lock
Locate(r) ==
    /\ rpc[r] = "top" /\ status[r] # "EXIT" /\ cursor[r] = Null
    /\ nxt' = [nxt EXCEPT ![r] = IF r \in HeadReaders THEN rhead ELSE rtail]
    /\ base' = [base EXCEPT ![r] = rtail]
    /\ Goto(r, "place")
    /\ UNCHANGED <<queueVars, watchVars, ownVars, cursor, isrealtime, seen, status, ppc, cpc>>

\* store it in reader->cursor, where the watcher looks for it
Place(r) ==
    /\ rpc[r] = "place"
    /\ cursor' = [cursor EXCEPT ![r] = nxt[r]]
    /\ seen' = [seen EXCEPT ![r] = nxt[r]]
    /\ Goto(r, "next")
    /\ UNCHANGED <<queueVars, watchVars, ownVars, nxt, isrealtime, base, status, ppc, cpc>>

Resume(r) ==
    /\ rpc[r] = "top" /\ status[r] # "EXIT" /\ cursor[r] # Null
    /\ Goto(r, "next")
    /\ UNCHANGED <<queueVars, watchVars, ownVars, cursor, nxt, isrealtime, seen, base,
                   status, ppc, cpc>>

\* mutation: the newest node is fetched and not the next one
FetchNewest(r) ==
    /\ rpc[r] = "next"
    /\ IF cursor[r] < rhead
         THEN Goto(r, "uaf") /\ UNCHANGED nxt
         ELSE IF cursor[r] < rtail
         THEN Goto(r, "deliver") /\ nxt' = [nxt EXCEPT ![r] = rtail]
         ELSE Goto(r, "rtcheck") /\ UNCHANGED nxt
    /\ UNCHANGED <<queueVars, watchVars, ownVars, cursor, isrealtime, seen, base,
                   status, ppc, cpc>>

\* sis_lock_queue_next(work_queue, reader->cursor)
FetchNext(r) ==
    /\ rpc[r] = "next"
    /\ IF cursor[r] < rhead
         THEN Goto(r, "uaf") /\ UNCHANGED nxt
         ELSE IF cursor[r] < rtail
         THEN Goto(r, "deliver") /\ nxt' = [nxt EXCEPT ![r] = cursor[r] + 1]
         ELSE Goto(r, "rtcheck") /\ UNCHANGED nxt
    /\ UNCHANGED <<queueVars, watchVars, ownVars, cursor, isrealtime, seen, base,
                   status, ppc, cpc>>

\* the accelerated exit inside the inner loop
BreakOut(r) ==
    /\ rpc[r] = "deliver" /\ status[r] = "EXIT"
    /\ Goto(r, "rtcheck")
    /\ UNCHANGED <<queueVars, watchVars, ownVars, cursor, nxt, isrealtime, seen, base,
                   status, ppc, cpc>>

\* Read next->obj.  The object of the dummy is NULL after a pop (and the node
\* is skipped), but a released pointer after a clear.
Deliver(r) ==
    /\ rpc[r] = "deliver" /\ status[r] # "EXIT"
    /\ IF nxt[r] < rhead \/ (nxt[r] = rhead /\ dangling)
         THEN Goto(r, "uaf") /\ UNCHANGED <<cursor, seen>>
         ELSE IF nxt[r] = rhead
         THEN /\ cursor' = [cursor EXCEPT ![r] = nxt[r]]
              /\ Goto(r, "next") /\ UNCHANGED seen
         ELSE /\ seen' = [seen EXCEPT ![r] = nxt[r]]
              /\ Goto(r, "cb") /\ UNCHANGED cursor
    /\ UNCHANGED <<queueVars, watchVars, ownVars, nxt, isrealtime, base, status, ppc, cpc>>

\* cb_recv pushes to the list it reads (cb_reader_convert does)
CbPush(r) ==
    /\ rpc[r] = "cb" /\ r \in Echo
    /\ Append
    /\ Goto(r, "cbpush")
    /\ UNCHANGED <<watchVars, ownVars, cursor, nxt, isrealtime, seen, base, status, ppc, cpc>>

CbNotice(r) ==
    /\ rpc[r] = "cbpush"
    /\ NoticeWatcher
    /\ Goto(r, "cb")
    /\ UNCHANGED <<queueVars, ownVars, cursor, nxt, isrealtime, seen, base, status, ppc, cpc>>

\* mutation: one object per round of the outer loop
CbEndOnce(r) ==
    /\ rpc[r] = "cb"
    /\ cursor' = [cursor EXCEPT ![r] = nxt[r]]
    /\ Goto(r, "rtcheck")
    /\ UNCHANGED <<queueVars, watchVars, ownVars, nxt, isrealtime, seen, base, status, ppc, cpc>>

\* cb_recv returns and the cursor moves
CbEnd(r) ==
    /\ rpc[r] = "cb"
    /\ cursor' = [cursor EXCEPT ![r] = nxt[r]]
    /\ Goto(r, "next")
    /\ UNCHANGED <<queueVars, watchVars, ownVars, nxt, isrealtime, seen, base, status, ppc, cpc>>

\* cb_realtime, once, then into the timed wait
Realtime(r) ==
    /\ rpc[r] = "rtcheck"
    /\ isrealtime' = [isrealtime EXCEPT ![r] = TRUE]
    /\ Goto(r, "sleep")
    /\ UNCHANGED <<queueVars, watchVars, ownVars, cursor, nxt, seen, base, status, ppc, cpc>>

\* mutation: a wait without a timeout
WakeOnNotice(r) ==
    /\ rpc[r] = "woken"
    /\ Goto(r, "top")
    /\ UNCHANGED <<queueVars, watchVars, ownVars, cursor, nxt, isrealtime, seen, base,
                   status, ppc, cpc>>

\* the wait ends, by a notice or by its timeout: the loop does the same
Wake(r) ==
    /\ rpc[r] \in {"sleep", "woken"}
    /\ Goto(r, "top")
    /\ UNCHANGED <<queueVars, watchVars, ownVars, cursor, nxt, isrealtime, seen, base,
                   status, ppc, cpc>>

---------------------------------------------------------------------------
(* _thread_watcher                                                         *)

\* the timed wait ends without a notice; the thread still has to take its
\* mutex back, and a notice that comes now is lost
WatcherTimeout ==
    /\ wpc = "sleep"
    /\ wpc' = "late"
    /\ UNCHANGED <<queueVars, watch, todo, readerVars, ownVars, status, ppc, cpc>>

\* SIS_WAIT_NOTICE leads to the readers, SIS_WAIT_TIMEOUT past them
WatcherResume ==
    /\ wpc \in {"woken", "late"}
    /\ wpc' = IF wpc = "woken" /\ users # {} THEN "lock" ELSE "fetch"
    /\ UNCHANGED <<queueVars, watch, todo, readerVars, ownVars, status, ppc, cpc>>

LockUsersNotify ==
    /\ wpc = "lock" /\ ~UsersWriteLocked
    /\ todo' = users
    /\ wpc' = "notify"
    /\ UNCHANGED <<queueVars, watch, readerVars, ownVars, status, ppc, cpc>>

\* sis_wait_thread_notice(other->work_thread), under userslock
NotifyUser(r) ==
    /\ wpc = "notify" /\ r \in todo
    /\ NoticeReader(r)
    /\ todo' = todo \ {r}
    /\ UNCHANGED <<queueVars, watch, wpc, ownVars, status, ppc, cpc>>

NotifyDone ==
    /\ wpc = "notify" /\ todo = {}
    /\ wpc' = "fetch"
    /\ UNCHANGED <<queueVars, watch, todo, readerVars, ownVars, status, ppc, cpc>>

\* under watchlock: place the watcher's cursor, look for a node after it
Fetch ==
    /\ wpc = "fetch"
    /\ IF SaveMode = "ALL"
         THEN wpc' = "sleep" /\ UNCHANGED watch
         ELSE /\ watch' = IF watch = Null /\ rhead < rtail THEN rhead + 1 ELSE watch
              /\ wpc' = IF watch' # Null /\ watch' < rtail THEN "check" ELSE "sleep"
    /\ UNCHANGED <<queueVars, todo, readerVars, ownVars, status, ppc, cpc>>

\* _unlock_check_user_cursor, one user after the other
LockUsersScan ==
    /\ wpc = "check" /\ ~UsersWriteLocked
    /\ todo' = users
    /\ wpc' = "scan"
    /\ UNCHANGED <<queueVars, watch, readerVars, ownVars, status, ppc, cpc>>

\* mutation: the user's cursor is compared with the head of the queue
ScanAtHead(r) ==
    /\ wpc = "scan" /\ r \in todo
    /\ IF cursor[r] = rhead
         THEN wpc' = "sleep" /\ todo' = {}
         ELSE todo' = todo \ {r} /\ UNCHANGED wpc
    /\ UNCHANGED <<queueVars, watch, readerVars, ownVars, status, ppc, cpc>>

ScanUser(r) ==
    /\ wpc = "scan" /\ r \in todo
    /\ IF cursor[r] = watch
         THEN wpc' = "sleep" /\ todo' = {}
         ELSE todo' = todo \ {r} /\ UNCHANGED wpc
    /\ UNCHANGED <<queueVars, watch, readerVars, ownVars, status, ppc, cpc>>

ScanDone ==
    /\ wpc = "scan" /\ todo = {}
    /\ wpc' = "pop"
    /\ UNCHANGED <<queueVars, watch, todo, readerVars, ownVars, status, ppc, cpc>>

Size(n) == off[n] - off[n - 1]
Plus(x, y)  == IF x + y < Wrap THEN x + y ELSE x + y - Wrap
Minus(x, y) == IF y <= x THEN x - y ELSE x - y + Wrap

\* sis_lock_queue_pop frees the dummy and takes the obj of its heir
Pop ==
    /\ rhead' = rhead + 1
    /\ dangling' = FALSE

\* mutation: the object is counted after the comparison
CleanLate ==
    /\ wpc = "pop"
    /\ \/ /\ SaveMode = "NONE"
          /\ Pop
          /\ cursize' = Plus(cursize, Size(rhead + 1))
       \/ /\ SaveMode = "SIZE" /\ cursize > MaxSize
          /\ Pop
          /\ cursize' = Minus(Plus(cursize, Size(watch)), Size(rhead + 1))
       \/ /\ SaveMode = "SIZE" /\ cursize <= MaxSize
          /\ cursize' = Plus(cursize, Size(watch))
          /\ UNCHANGED <<rhead, dangling>>
    /\ watch' = watch + 1
    /\ wpc' = IF watch' < rtail THEN "check" ELSE "sleep"
    /\ UNCHANGED <<rtail, off, todo, readerVars, ownVars, status, ppc, cpc>>

\* mutation: the object that goes is not discounted
CleanKeepsCount ==
    /\ wpc = "pop"
    /\ \/ /\ SaveMode = "NONE"
          /\ Pop
          /\ cursize' = Plus(cursize, Size(rhead + 1))
       \/ /\ SaveMode = "SIZE"
          /\ IF Plus(cursize, Size(watch)) > MaxSize THEN Pop ELSE UNCHANGED <<rhead, dangling>>
          /\ cursize' = Plus(cursize, Size(watch))
    /\ watch' = watch + 1
    /\ wpc' = IF watch' < rtail THEN "check" ELSE "sleep"
    /\ UNCHANGED <<rtail, off, todo, readerVars, ownVars, status, ppc, cpc>>

\* mutation: a list that is too large is emptied
CleanToTail ==
    /\ wpc = "pop"
    /\ LET over == SaveMode = "NONE" \/ Plus(cursize, Size(watch)) > MaxSize
       IN  /\ rhead' = IF over THEN rtail - 1 ELSE rhead
           /\ dangling' = (dangling /\ ~over)
           /\ cursize' = IF over THEN 0 ELSE Plus(cursize, Size(watch))
    /\ watch' = watch + 1
    /\ wpc' = IF watch' < rtail THEN "check" ELSE "sleep"
    /\ UNCHANGED <<rtail, off, todo, readerVars, ownVars, status, ppc, cpc>>

\* In NONE mode the oldest object goes, and its size is added up.  In SIZE mode
\* the object under the watcher's cursor is counted, and if that exceeds
\* maxsize the oldest object goes and is discounted.
Clean ==
    /\ wpc = "pop"
    /\ \/ /\ SaveMode = "NONE"
          /\ Pop
          /\ cursize' = Plus(cursize, Size(rhead + 1))
       \/ /\ SaveMode = "SIZE" /\ Plus(cursize, Size(watch)) > MaxSize
          /\ Pop
          /\ cursize' = Minus(Plus(cursize, Size(watch)), Size(rhead + 1))
       \/ /\ SaveMode = "SIZE" /\ Plus(cursize, Size(watch)) <= MaxSize
          /\ cursize' = Plus(cursize, Size(watch))
          /\ UNCHANGED <<rhead, dangling>>
    /\ watch' = watch + 1
    /\ wpc' = IF watch' < rtail THEN "check" ELSE "sleep"
    /\ UNCHANGED <<rtail, off, todo, readerVars, ownVars, status, ppc, cpc>>

---------------------------------------------------------------------------
(* sis_lock_list_clear                                                     *)

\* sis_lock_queue_clear under watchlock; the last node keeps its obj pointer
Clear ==
    /\ MayClear /\ SaveMode # "NONE" /\ cpc = "idle"
    /\ ~WatchLocked
    /\ rhead' = rtail
    /\ dangling' = (dangling \/ rhead < rtail)
    /\ watch' = Null
    /\ cpc' = "reset"
    /\ UNCHANGED <<rtail, cursize, off, wpc, todo, readerVars, ownVars, status, ppc>>

\* cursize is reset after watchlock is released
ClearSize ==
    /\ cpc = "reset"
    /\ cursize' = 0
    /\ cpc' = "idle"
    /\ UNCHANGED <<rhead, rtail, dangling, off, watchVars, readerVars, ownVars, status, ppc>>

---------------------------------------------------------------------------
ReaderStep(r) ==
    \/ Start(r) \/ Exit(r) \/ Locate(r) \/ Place(r) \/ Resume(r) \/ FetchNext(r)
    \/ BreakOut(r) \/ Deliver(r) \/ CbEnd(r) \/ Realtime(r) \/ Wake(r)

WatcherStep ==
    \/ WatcherTimeout \/ WatcherResume \/ LockUsersNotify \/ NotifyDone
    \/ Fetch \/ LockUsersScan \/ ScanDone \/ Clean
    \/ \E r \in Readers : ScanUser(r)

Next ==
    \/ \E p \in Producers : Push(p) \/ PushNotice(p)
    \/ \E r \in Readers :
         \/ Open(r) \/ Register(r) \/ CloseBegin(r) \/ CloseNotice(r) \/ CloseEnd(r)
         \/ ReaderStep(r) \/ CbPush(r) \/ CbNotice(r) \/ NotifyUser(r)
    \/ WatcherStep
    \/ Clear \/ ClearSize

Spec == Init /\ [][Next]_vars

(***************************************************************************)
(* Fairness: every thread that can run does (WF).  A notice needs the      *)
(* mutex of a thread which is free for the whole of a wait of seconds, so  *)
(* whoever is blocked on it gets it although the thread keeps taking it    *)
(* back (SF); likewise userslock.  Pushing, opening, closing and clearing  *)
(* are decisions of the callers and get no fairness; a callback that has   *)
(* begun ends.                                                             *)
(***************************************************************************)
Fairness ==
    /\ \A p \in Producers : SF_vars(PushNotice(p))
    /\ \A r \in Readers :
         /\ SF_vars(Register(r)) /\ SF_vars(NotifyUser(r)) /\ SF_vars(CbNotice(r))
         /\ WF_vars(CloseNotice(r)) /\ WF_vars(CloseEnd(r)) /\ WF_vars(ReaderStep(r))
    /\ WF_vars(WatcherStep)

FairSpec == Spec /\ Fairness

---------------------------------------------------------------------------
(* Properties                                                              *)

\* A reader the watcher knows of and has not overtaken: its cursor is at or
\* ahead of the watcher's, strictly ahead if the running check has passed it.
\* A closing reader counts, because its owner keeps userslock until it stops.
Protected(r) ==
    /\ r \in users \/ owner[r] = "closing"
    /\ watch # Null /\ cursor[r] >= watch
    /\ (wpc = "pop" \/ (wpc = "scan" /\ r \notin todo)) => cursor[r] > watch

\* The cleaning watcher (Clean) never overtakes a reader it has once seen at or
\* ahead of its own cursor: whatever the reader, its owner and the producers
\* do between the check of the cursors and the pop, the reader stays protected
\* until it is closed or the list is cleared.
ProtectedStep ==
    [][\A r \in Readers : Protected(r) =>
          Protected(r)' \/ owner'[r] = "closed" \/ watch' = Null]_vars

\* What a protected reader may touch is there: the node under its cursor and
\* the object in its callback have not been freed by Clean.
ProtectedIsAlive ==
    \A r \in Readers : Protected(r) =>
        /\ cursor[r] > rhead
        /\ rpc[r] \in {"cb", "cbpush", "deliver"} => nxt[r] > rhead
        /\ rpc[r] # "uaf"

Kept == off[watch - 1] - off[rhead]

\* sis_list.lock.h on cursize: the size of the data, as the watcher counts it.
\* In SIZE mode it is the size of what every user has passed and the list
\* still keeps (Clean counts and discounts, ClearSize resets).
CountedLength ==
    SaveMode = "SIZE" /\ watch # Null /\ cpc = "idle" => cursize = Kept

\* sis_list.lock.h:185 on maxsize: the greatest size of the data, controlled by
\* the watcher.  Clean drops one object for one it counts, whatever the two are,
\* so that it bounds how many objects are kept, by maxsize over the least size one
\* may have, and their size only where all have that.
RetainBound ==
    SaveMode = "SIZE" /\ watch # Null /\ cpc = "idle" =>
        \A size \in Sizes : (\A other \in Sizes : size <= other) =>
            size * (watch - 1 - rhead) <= MaxSize

\* cb_realtime tells a HEAD reader that the history has been read: a working
\* reader that was told so has been handed everything that was in the list
\* when it chose its start (Realtime after FetchNext found no next node).
RealtimeAfterHistory ==
    \A r \in HeadReaders :
        isrealtime[r] /\ status[r] = "WORK" => seen[r] >= base[r]

\* Each reader is handed a gapless, ordered run of the list: the list that
\* keeps everything implements BroadcastLog.
Log == INSTANCE BroadcastLog WITH len <- rtail, pos <- seen
ImplementsLog == Log!LogSpec

\* sis_list.lock.h on maxsize n: what a user has not processed is kept until
\* no user needs it.
UnreadIsKept ==
    \A r \in users : cursor[r] # Null => cursor[r] >= rhead

\* sis_lock_list_push returns: notifying the watcher never blocks a producer
\* for good (the header calls the list a non-blocking one).
PushReturns == \A p \in Producers : ppc[p] = "notice" ~> ppc[p] = "idle"

\* sis_lock_reader_close returns, although it waits for the reader's thread
\* while it keeps the watcher out of the users.
CloseReturns == \A r \in Readers : owner[r] = "closing" ~> owner[r] = "closed"

\* A reader that is not closed is eventually handed every object pushed after
\* it has joined, notice or no notice (the timed waits make up for lost ones).
EventuallyDelivered ==
    \A r \in Readers : \A n \in 1 .. MaxPush :
        (seen[r] # Null /\ n <= rtail) ~>
            (seen[r] >= n \/ owner[r] \in {"closing", "closed"})

\* In NONE mode the watcher eventually frees all objects but the last one,
\* once the producers are quiet and whether or not readers come and go (unless
\* a reader it had overtaken has crashed on a freed node).
Reclaimed ==
    <>[](rtail > 0 => rhead = rtail - 1 \/ \E r \in Readers : rpc[r] = "uaf")
=============================================================================
