# sisdb: verification

TLA+ models, model checking and proofs for sisdb, an in-memory database for
time series written in C. Chinese comments of the code are quoted with a
translation. Paths are relative to the repository.

## 1. The system

| part | code | state it keeps | operations |
|---|---|---|---|
| lock list | `src/core/sis_list.lock.c` | linked queue, users, a cursor per reader, the watcher's cursor and size counter | push, reader create / open / close, clear, destroy; a thread per reader, a watcher thread |
| wait threads, rw mutex | `src/core/sis_thread.c`, `src/os/linux/os_thread.c` | status NONE / WORK / EXIT, mutex and condition of a wait, pool of waits | create, open, start, wait, notice, stop, destroy; lock and try-lock for reading and writing |
| dataset durability | `src/workers/sisdb`, `sisdb_wlog`, `sisdb_wsdb`, `sisdb_rsdb` | `work_keys`, `wlog_open`, `wlog_lock`, the open log, the files `<db>.log`, `<db>.sdb` and its index, the copy in `safe_path` | set, del, save, pack, daily save, log open / write / close / move / read, load |
| server | `src/workers/sisdb_server` | `recv_list`, datasets, users and their access, converts | start (load, replay, open network), queue a message, check access, log, execute, reply, convert, stop |
| collects, subscriptions | `src/workers/sisdb/sisdb_collect*.c`, `sisdb_io.c` | ordered records per key and table, two maps of subscribers | get, set, update and delete by range; subscribe, unsubscribe, publish |
| disk files | `src/core/disk` | file units, head and tail, blocks, index, dictionaries | write start / stop, write, read, subscribe, pack, move, delete |
| service threads | `src/worker.c` | tree of workers, work mode | create, destroy, notice, working loop in four modes |
| network | `src/core/net` | sockets, contexts with buffers, handshake state, a lock list of contexts with input | open, accept, connect, read, send, disconnect, reconnect |
| stream dataset | `src/workers/sdcdb` | a day's status, compressed output in a lock list, readers | init, start, publish, stop, subscribe |
| client | `src/workers/sisdb_client`, `src/client/api_sisdb` | status of the connection, pending requests and subscriptions by serial | login, ask with and without waiting, sub, unsub, answers, reconnect |
| SNO readers, writers | `src/workers/sisdb_rsno`, `sisdb_wsno` | a file and its playback | sub, unsub, write |
| containers, objects | `src/core/sis_list.c`, `sis_dict.c`, `sis_map.c`, `sis_obj.c`, ... | sequential structures, reference counts | |
| formats, configuration, numerics | `src/core/sis_dynamic.c`, `zip`, `sis_json.c`, `ai`, ... | none shared | |

How they interact. The network's threads push a received message into the
server's `recv_list` (a lock list). The one reader of that list, thread **R**
here, executes the commands in order: access, write-ahead log, command, reply.
A second reader of the same list converts messages for other datasets and
pushes the results into the list it reads from. Each dataset has a service
thread, **W** here, which once a day saves memory to the sdb file, deletes the
log and on Fridays packs the file. R and W meet at `wlog_lock`. At the start
the server loads the files, replays the logs and then opens the network. A
crash may stop all of it anywhere.

What is hard: the lock list (producers, readers, owners and the watcher move
concurrently; memory is freed by looking at cursors other threads move; notices
get lost and take mutexes), durability (order of log, memory and file; crashes
between any two steps; W between two steps of R), locks taken again by their
owner, subscription tables changed while they are walked, shutdown order.
`PROJECT.json` lists these hazards at their lines.

What makes each part correct:

* lock list: each reader gets every object once and in order; nothing a reader
  may use is freed; memory is freed in the end and stays within its bound;
  pushes and closes return; the end of history is announced after the history.
* durability: an acknowledged write survives a crash, a deleted key stays
  deleted, the log goes away only when the file replaces it, start and commands
  terminate.
* server: only permitted commands run, each gets one reply, a disconnected
  client leaves nothing behind.
* collects: a range query returns the records of the range, an update keeps the
  order; subscriptions: who is subscribed hears of each change and nobody else.
* disk files: what was written is read, once, in order, also after packing.
* network, stream, client: no message is lost or doubled within a connection; a
  reconnect restores what was subscribed (it does not: `client_v_resub`).

## 2. The project

| module | what it is |
|---|---|
| `LockList`, `BroadcastLog`, `LockList_proofs` | the lock list, what it promises, proofs (3) |
| `SisdbWal`, `DurableStore`, `Dataset_proofs` | durability of a dataset, what it promises, proofs (4) |
| `WorkThread`, `RwMutex`, `WorkThread_proofs` | wait threads, their pool, service threads of workers; the read-write mutex; proofs (5) |
| `SisdbServer`, `SisdbServer_proofs` | commands, access, log order, answers, subscriptions; proofs (6) |
| `NetServer`, `NetServer_proofs` | the listening side of the network class; proofs (7) |
| `SisdbCollect`, `StructList`, `SisDict`, `Dataset_proofs`, `Containers_proofs` | a collect of records and the structures below; proofs about the collect, the list and the dictionary (8) |
| `FullText`, `DiskFile`, `FullText_proofs` | reading a file block by block; files with an index; proofs about the reading (9) |
| `BitStream`, `Sdcdb`, `Sdcdb_proofs` | compressed records; the streaming dataset; proofs about the dataset (10) |
| `SisdbClient` | the client worker and the C interface, across breaks of the connection (11) |
| `MCThreads`, `MCServer`, `MCDataset`, `MCData` | instances for TLC |

An `MC` module holds several modules, or one in several configurations, side by side. Its
variable `part` is chosen by `Init`; only that part moves in a behaviour, and each property is
stated for its own part. The parts do not interact in these modules: they share a run, nothing
else. A part that theorems speak of is extended and not instantiated, so that the run
and the theorem name the same definition; only `DeletedOnlyIfSaved` is checked by way of an instance
(`SavesReplaceLog` of `MCDataset`). `LockList` is checked directly, and so are most modules with a
violation. `CONSTANT Parts` of `MCData` and `MCServer` chooses which of its parts a run has.

| run | module, bounds | properties |
|---|---|---|
| `locklist_all` | `LockList`: 2 producers, 1 reader from the head, 3 pushes, ALL | `ImplementsLog`, `RealtimeAfterHistory`, `PushReturns`, `CloseReturns`, `EventuallyDelivered`, no deadlock |
| `locklist_size` | a reader that pushes from its callback, 4 pushes of sizes 1 and 2, maxsize 2, `Wrap` 16 | `ProtectedIsAlive`, `CountedLength`, `RetainBound` |
| `locklist_clear` | 1 producer, 1 reader, 3 pushes of objects larger than maxsize, clear at any moment | `ProtectedStep` |
| `wal` | `MCDataset`: `SisdbWal` with 2 keys, set and del, 4 commands, 2 crashes while serving (log); with set, save, pack, 6 commands, 2 crashes while serving (saves); with set and del, the daily save, recursive mutex, failing saves, torn records, 2 commands, 2 crashes anywhere (days); `SisdbCollect` (times 1, 3, 9, 5 records, writes of 2, positions and counts -2 .. 2) | `Recovered`, `ImplementsStore`, `WriteAhead`; `DeletedOnlyIfSaved` (as `SavesReplaceLog`); `CommandReturns`, `WorkCompletes` (as `CommandsReturn`, `DaysComplete`); `SearchesExact`, `GetExact` (as `LookupsExact`), `KeysOrdered` |
| `threads` | `WorkThread` (2 workers, modes once, notice, gaps, pool of 2), `RwMutex` (3 threads, 1 writer), `LockList` (1 producer, 1 reader, 2 pushes, NONE) | `WaitsAreOwn`, `FreedAfterThread`, `NoticeWorks`, `DestroyReturns`; `Exclusion`, `WaitersGetIn`; `Reclaimed` (as `AllReclaimed`) |
| `server` | `MCServer`: `SisdbServer` (2 clients, a single key, a table, 3 subscription strings, 3 messages, 2 connections of one cid); `NetServer` (2 places, 2 connections, the first with 2 requests and the second with 1 in any pieces, TCP or WebSocket); `SisdbClient` (2 threads, 1 key, 2 requests, 2 connections with a break between them, 1 message the server sends unasked, made by the C interface or from a configuration with or without login) | `AskedReceive`, `LoggedAsRun`, `AnswersCome`; `RequestsWhole`, `AnswersInOrder`, `CallbacksPaired`, `EveryRequestAnswered`; `AsksReturn` |
| `data` | `StructList` (4 records, capacity from 2), `SisDict` (4 keys with collisions), `FullText` (pieces of 6, tail of 5, bodies of 1, 4, 12, one unit of 1 .. 3 blocks or two units of 2 or 3), `DiskFile` (2 keys, 4 writes, 3 sessions, pages of 1, units of 2 blocks, blocks compressed or not), `BitStream` (22 words, 4 chars, 2 keys, 2 batches), `Sdcdb` (3 publications, 2 keys, 1 subscriber, blocks of 2, 2 dates, 2 starts, failed starts or crashes) | `KeepsSequence`; `FoundIfThere`, `WalkComplete` (as `DictFaithful`); `ReadsWhole`; `PlayedAsWritten`, `GetsSurvivors` (as `FileFaithful`); `BatchesDecode`; `SubscribersDecode`, `LogDecodes` |
| `wal_v_stale` | violation of `Recovered` | after a manual save nothing is logged any more |
| `net_v_next` | violation of `NextIsHandled` | the write thread waits for its own mutex |
| `server_v_pattern` | violation of `OnlyAsked` | a multiple subscription is sent every key |
| `data_v_unpacked` | violation of `FileInAnyForm` (`PlayedInAnyForm` of `DiskFile`) | a file of blocks that were not compressed is misread |
| `client_v_resub` | violation of `Resubscribed` | no subscription outlives a break |

Type invariants of the modules with proofs are proved (`TypeCorrect`, `RwTypeCorrect`,
`NetTypeCorrect`, `ListTypeCorrect`, `CollectTypeCorrect`, `TextTypeCorrect`; that of `Sdcdb`
is part of `StreamSound`), so no run lists them.

Left for later: the parts named in section 13. The modules of sections 8 to 11 are
only model-checked but for `SisdbCollect`, `StructList`, `SisDict` (8), `FullText` (9) and
`Sdcdb` (10).

## 3. LockList

`LockList` is the whole of `sis_list.lock.c` but for the ZERO callback of idle
readers, the destruction of a list, and the wait and fast queues of the same
file. Nodes are numbered in the order of pushes; node 0 is the dummy. `rhead` and
`rtail` are the queue's ends: a node below `rhead` is freed, the object of a
node is referenced while its number is above `rhead`.

| model | code |
|---|---|
| `Push`, `PushNotice` | `sis_lock_list_push`: link under the queue lock, then notify the watcher |
| `Open`, `Register` | `sis_lock_reader_open`: start the thread, then join `users` |
| `CloseBegin`, `CloseNotice`, `CloseEnd` | `sis_lock_reader_close`: leave `users` and, through the list's free function, wait for the thread, all under `userslock` |
| `Start` ... `Wake` | `_thread_reader`; `Locate` and `Place` are the read of the head or tail under the queue lock and the store to `reader->cursor`, between which the watcher may run |
| `CbPush`, `CbNotice` | a callback that pushes to its own list, as `cb_reader_convert` does |
| `WatcherTimeout` ... `Clean` | `_thread_watcher`: notify loop, placement of its cursor, scan of the cursors, pop and size accounting |
| `Clear`, `ClearSize` | `sis_lock_list_clear`, with the reset of `cursize` after the unlock |

A wait thread holds the mutex of its own wait except inside the timed wait, and a
notice takes that mutex: `ReaderMutexFree` and `WatcherMutexFree` say when
a notice gets through. A watcher whose wait has timed out and that has not yet
got its mutex back is in state "late": a notice that comes then is lost. A reader
that is closed before its thread has set its status is freed at once; the thread
that then starts on freed memory is state "ghost", where the model follows it no
further. "uaf" is a reader that has followed a freed node. `off` gives each node the
size of all objects up to it, so that sizes are differences, and `cursize`
counts modulo `Wrap` as `size_t` does. `Append` assumes that what is in the list
at one time is smaller than `Wrap`: it fits into memory.

`seen` and `base` are history: the last node handed over, and the tail when
the reader chose its start.

Properties. `ImplementsLog`: the list that keeps everything refines
`BroadcastLog`, in which readers join at some position and then get one object
after the other. `ProtectedStep` and `ProtectedIsAlive`: a reader whose cursor
was at or ahead of the watcher's is never overtaken, and what it uses is not
freed. `CountedLength`: the size counter. `RetainBound`, what the code does to bound its memory: it
keeps no more objects than maxsize holds of the least size. That is not the bound of the
header, which fails with two sizes (first observation below).
`RealtimeAfterHistory`: the end-of-history flag. `PushReturns`, `CloseReturns`,
`EventuallyDelivered`, `Reclaimed`: liveness.

Two nodes are enough for `Reclaimed`, which is about the last object and one before
it. Three or four are enough for the watcher to be behind, at and ahead of a
reader with a node to spare on either side; four pushes of sizes 1 and 2 with maxsize 2 let
the watcher pop a small object for a large one and a large one for a small one after the bound
is reached. Deadlock is checked in
`locklist_all`: the watcher's own timeout must always be possible. The other runs stop when their
pushes are used up, so they do not check it.

Fairness (`Fairness`): each thread runs when it can (weak). A blocked notice or
lock is granted in the end although the mutex is taken again and again (strong): the
other side is free for the whole of a wait of seconds, and pthread mutexes
are not held meanwhile. Callbacks end. Callers owe nothing: pushing, opening,
closing and clearing get no fairness.

Observations made with TLC while modelling, for which no run is kept
(`sis_list.lock.c` and `.h`):

* the size of what is kept goes beyond maxsize when objects differ in size: the watcher drops
  one object for each object it counts (`.c:660`), so that a large object may follow a small one
  that goes for it; TLC shows it with sizes 1 and 2 and maxsize 2, against `.h:185`
  "最大数据长度 由 watcher 控制" (greatest length of the data, controlled by the watcher);
* `_thread_watcher` (`.c:638`) compares each user's cursor with its own position
  only. A reader that has read the head and stores it after the watcher has gone on
  is behind it and is not seen again, and its unread node is freed, although
  `.h:246` says that data is kept until no user needs it;
* a callback that pushes to its own list (`sisdb_convert.c:116`) holds its reader's wait
  mutex while `sis_lock_list_push` takes the watcher's; the watcher holds its own
  while it notifies the reader: both wait for ever; `locklist_all`, which has `PushReturns`, has
  no such callback;
* a clear resets `cursize` after the unlock, between two updates of the watcher,
  and spoils the count (`.c:754`), which is why `CountsLength` excludes clears;
* a reader closed in the middle of its history leaves through the accelerated
  exit and is told that the history is complete (`.c:448`, against `.c:474`);
* a clear frees data that readers have not read (`.c:750`, against `.h:251`);
* a reader's thread can be asleep before the reader is among the users
  (`.c:546`, against the comment in `.c:545`).

### Proofs (`LockList_proofs`)

For every number of readers and producers, every bound and every size:
`TypeCorrect`; `ProtectedAlive` and `ProtectionLasts` in all save modes;
`CountsLength` and `RetainBounded` in all modes and for mixed sizes, if the list is not
cleared; `Implements` for ALL mode without clear;
`HistoryFirst` for ALL mode, with clears. The other modes are left out of the
last two because there the watcher may free what a reader has not read (the second
observation), and then a reader that is told that its history is complete has not
had all of it. The assumptions are those of `ConstAssumption`.

The inductive invariant `IInv` has three parts. `Order` is needed because
types alone do not say that the watcher's cursor is a live node (`QueueOrder`)
or that what a reader has fetched is the successor of its cursor
(`ReaderOrder`). `SizeType` and `SizeOrder` say that sizes add up along the
queue and that what is in it can be counted in a `size_t`; without that the
discount in `Clean` could wrap round. Each action preserves `Order` by a step
of its own (`StepOrder`); the size parts follow from what the action does to the
queue (`QueueStep`). `KeepsProtected` is the step lemma behind
`ProtectionLasts`; it needs `QueueOrder` in the step where the watcher pops:
a protected cursor is then strictly ahead and stays at or ahead.
`CountInv` strengthens `CountedLength` with the state before the watcher has a
cursor. For `RetainBound`, `SpanOver` says that n objects have at least n times the
least size: an object is dropped for the one just counted unless the count, which
`CountInv` ties to the sizes, is within maxsize, so that their number is bounded too
(`BoundOver`). `AllInv` says that
the list never pops in ALL mode and that `seen` follows the cursor, which makes
each step a step of `BroadcastLog` or a stutter. `ToldInv` is about readers: one that
is told, or about to be told, that its history is over has found no successor of its
cursor, and its cursor is the last node handed over. That needs to know that the
dummy's own object is never taken for one of the history (`rhead = 0 \/ dangling`),
and that the flag stays down until there is a cursor.

## 4. SisdbWal

One dataset with its log, its sdb file and the two threads. A key holds one
value; the k-th command writes k, and 0 is "no such key". The log is represented
by the last record of each key (`logv`), by whether it holds a save or pack
command (`logAdmin`) and by whether it ends in a torn record (`torn`). The sdb
file is what its index leads to (`sdb`) and how complete the pair of files is
(`sdbFile`).

| model | code |
|---|---|
| `LoadDisk`, `ReplayLog`, `Serve` | `_sisdb_server_load` in `sisdb_server_init`, then the network is opened |
| `Receive`, `WriteLog`, `Apply`, `Reply` | `cb_reader_recv`: the message, `cmd_sisdb_wlog`, the command, the answer |
| `SaveLock` ... `SaveUnlock`, `MoveLog` | `_sisdb_save` with `cmd_sisdb_wsdb_save` and `sis_disk_file_write_stop`, then `cmd_sisdb_wlog_move` |
| `PackLock` ... `PackUnlock` | `_sisdb_pack` with `cmd_sisdb_wsdb_pack` and `sis_disk_file_pack` |
| `WorkBegin`, `WorkEnd` | `sisdb_working` around the two |
| `Crash` | the process stops; the disk stays, and the last record may be torn |

`Loads` is what reading gives: nothing without work or index file; with a work
file that lacks its tail, the number of units is read from other bytes, and the
open may fail or not. `lock` counts, as a recursive mutex does; `Recursive`
chooses the build, since a default pthread mutex is not recursive and a
critical section of Windows is.

Two crashes are needed because what the first recovery leaves behind (a torn
log, a reopened one, a log next to a file that already holds it) matters to the
second. Six commands allow write, save, write, pack, write, crash. The runs
end when the commands are used up, so deadlock is not checked. Fairness: the
start, R and W run (weak); commands and crashes come when they come.

Further observations, seen with TLC while modelling, for which no run is kept:

* a torn record at the end of the log hides what a reopened log appends after it
  (`sis_disk_files.c:139`), so that `Recovered` is false with `TornWrites`;
* a last block of the log shorter than 18 bytes is not read (section 9); `ReplayLog` has
  blocks of commands, which are longer but for the shortest keys;
* with a default mutex the daily save waits for itself: `sisdb_working` holds
  `wlog_lock` when `_sisdb_save` takes it (`sisdb.c:298`, `sisdb.c:272`);
* the daily save can come between R's log record and its application and delete
  the record (`sisdb.c:306`), also with a recursive lock, so that `Recovered` and
  `DeletedOnlyIfSaved` are false with `Daily`;
* the replay of a logged save or pack takes `wlog_lock`, which the replay
  holds (`sisdb.c:689`);
* rewriting the index leaves a window without one, in which a crash hides the
  saved data (`sis_disk_write.c:798`, `sisdb_wsdb.c:151`);
* a key that was deleted and is not in memory is not in the save, but still in
  the file, so that it comes back (`sisdb_wsdb.c:167`): `DeletedOnlyIfSaved` is false with deletions.

The safety parts leave out what the properties are false for and what is listed here; the part
"days" of `wal` has all of it but the logged save and pack, only for liveness, and only with a
recursive mutex.

### Proofs (`Dataset_proofs`)

`TypeCorrect` without assumption. `LoggedFirst` for builds whose lock is not
recursive: between log and application nobody can delete the log, because the lock
is free and W cannot get past its own second lock. `LogRecovers` and
`LogImplementsStore` for sets and deletes without saves and torn records, with
any number of crashes: `LogInv` says that the last record of each key is its
acknowledged value, or that of the command in progress or interrupted.
`SavedBeforeDeleted` for sets, saves and packs with crashes while serving:
`SaveInv` follows the file through the steps of a save and a pack. The
assumptions leave out just the situations listed above.

## 5. WorkThread and RwMutex

`WorkThread` is `sis_thread.c`'s wait (a mutex with a condition), the pool of
waits, and the service thread of `worker.c` on top.

| model | code |
|---|---|
| `MallocBegin` ... `Take` | `sis_wait_malloc` and `sis_wait_thread_create`: the search of the pool has no lock, so two creators may be inside (`overlap`) |
| `Open`, `StartWork`, `LockStart` | `sis_work_thread_open`, `sis_wait_thread_start`: the status becomes WORK when the thread first runs |
| `CheckExit` ... `Work` | `_service_work_thread` and `sis_work_thread_wait` in its modes |
| `StopUnlock`, `Finish` | `sis_wait_thread_stop` and the last `LOG` of the thread |
| `Destroy` ... `FreeWorker` | `sis_worker_destroy`, `sis_wait_thread_destroy` and `sis_wait_free` |
| `Notice` | `sis_work_thread_notice` |

`WaitsAreOwn`: as long as no two allocations have overlapped, no two live workers have
the same wait. It is not enough that the allocations of those two did not: a creator
that overlaps each of two others in turn can clear the pool between them, and the
third is then given the wait of the first (TLC, three workers).
`FreedAfterThread`: a worker is freed after its thread has finished, unless it was
destroyed before the thread had started. `NoticeWorks`, `DestroyReturns`:
notices and destructions take effect. `early` and `overlap` name the two
exceptions, which the code really has: they are the races of the hazards list.
Fairness: every thread runs; a mutex that is free again and again is granted
(strong), since a thread gives it up in each wait of seconds.

`RwMutex` is the read-write mutex of the same file. A lock that cannot be had is
tried again after a sleep of 10 ms, so only who can have it all the time gets it
(weak fairness). `WaitersGetIn` says what is left: a writer alone gets in; a reader
gets in, meets a writer, or is shut out by `try_write_b`, which a failed try of the
write side leaves set (`sis_thread.c:106`). It is modelled as a part of the library that has no
user yet, and is not among the hazards.

Observations: workers of the mode ONCE never call their working function
(`worker.c:11`, against `worker.h:27`); a notice that comes during work is not
lost, since the notifier waits for the mutex until the thread sleeps again
(`worker.h:28` says the opposite); the last `LOG` of a service thread uses the worker's
name when the owner may already have freed it (`worker.c:167`); nothing in
the repository uses the read-write mutex.

### Proofs (`WorkThread_proofs`)

For every set of workers, every choice of modes and every size of the pool:
`TypeCorrect`, `OwnWaits` (`WaitsAreOwn`), `FreedAfterItsThread`
(`FreedAfterThread`), and `HeldWhileInside`: with neither of the two races, the
mutex of a wait is held by the worker the wait belongs to exactly while its
thread is not in the timed wait. The only assumption is `WorkAssumption`. None of the
three is inductive. `LifeInv` ties status, thread and owner of a worker together: a
status NONE belongs to a thread that has not started or is at its last `LOG`. With it
`DestroyInv` knows, when the owner sees NONE in its loop, which of the two it is.
`PoolInv` says that a wait in use belongs to one worker, and one that a
creator has found to nobody; a wait goes back to the pool while its worker is
freed, which is where `HeldInv` needs `early`.

About `RwMutex`, for every number of threads and writers: `RwTypeCorrect`, `WriterAlone` (`Exclusion`).
The code looks at its counters only, so the invariant (`Counted`) says that they count
who is inside; `MoveOne` is the lemma that a thread that goes from one place to
another changes the number at each by one.

## 6. SisdbServer

The command path. `Connect`, `Receive`, `Disconnect` are the network thread's
callbacks; `Take` is the part of `cb_reader_recv` up to the command (access,
`cmd_sisdb_wlog`), `SetOne` ... `Auth` the commands, `Reply` the answer. A
command and its publications are one step of R, which is the only thread that
touches the keys and the subscriptions. `fault` is set when the program uses a null or
mistyped pointer; the behaviour ends there.

`AskedReceive`: who asked for a key and still wants it is sent every new value, in
the format asked for last, whatever others do and although a cid may be given to
another connection. `Sent` is the choice of `_send_sub_message`: rows are converted for those
who asked for chars, but a single key that `bset` has written goes out in bytes to everybody
(`sisdb_io.c:388-393`; the comment there says that the type is wrong and has the error that
was meant commented out). `AskedReceive` makes just that exception. `LoggedAsRun`: the log holds
the write commands in the order in which they run, and no command is answered twice but a refused
one. `AnswersCome`: every command is answered. `OnlyAsked` is violated: `_set_sub_info_style` takes
`sis_strcasecmp` for an equality test.

Observations: with `user_auth` the first message of every client, also its
login, dereferences an entry that does not exist (`sisdb_server.c:341`); the test in
`cmd_sisdb_clear` is inverted (`sisdb.c:717`), so that a disconnect never
unsubscribes; users with "write" access are read-write users and are never
refused the administration methods; `dels` of `*.*` with a single key treats its
string as records (`sisdb_io.c:286`); a refused command is answered twice
(`sisdb_server.c:443`).

Bounds of the run: `c1` has the commands on the table, `bset` of the single key, the deletions and a
subscription by a list of keys; `c2`, which may leave and come back under its cid, sets the single
key, subscribes to it and cancels that, or all. Together they hold every branch of the
commands, and three messages are subscribe, disturb, set. `bset` of an
empty value and data that is no record fail; `bset` of the table is like `set` there and is left
to the proofs. Fairness: R, the thread of a reader, is woken for what is queued (weak).

### Proofs (`SisdbServer_proofs`)

For any clients, keys, patterns, commands, and numbers of messages and connections,
under `ServerAssumption` (keys and patterns are different names, and only keys are
set): `TypeCorrect`; `InOrder`, messages are taken in the order in which the network
thread queued them, each once; `OneLog` (`LoggedAsRun`); `AllSubscribersServed`
(`AskedReceive`).

`LoggedAsRun` needs `OrderInv`: what is queued was numbered after what is at work,
and nothing is answered that has not been taken. `AskedReceive` is a relation between what
connections asked for and what publications were sent, and rests on `SubInv`: what a
connection asked for stands in the map of its kind, in its last format. That is not
inductive by itself, because a command that a former connection of the same cid left in the
queue could still change the maps. `CidInv` says why it cannot spoil the new one:
what the former connection sent comes first, and until it is done with, the new
one has asked for nothing.

## 7. NetServer

L is the thread of the libuv loop, T the thread of the write queue, A the thread that
takes messages and answers each. The stream of a client is a sequence of parts, two for
each request and one for the handshake before them. A piece is any number of parts that follow
each other (`MaySend`): half a request, several, the end of one with the start of the next,
the handshake with requests behind it, and perhaps data that is no packet at its end. `Decode` is the
whole loop over the buffer.

| model | code |
|---|---|
| `NewConnect`, `Break`, `Delete`, `Closed` | `cb_server_new_connect`, `cb_server_read_after` on an error, `sis_socket_server_delete`, `cb_session_closed`; places are taken from and given back to the index list |
| `ReadAfter`, `Decode`, `Handshake` | `cb_server_recv_after`, `sis_net_recv_message`, `sis_ws_recv_hand_ask` |
| `Push`, `TPop`, `TWrite`, `TWake`, `StartWrite`, `Stop` | `sis_net_queue_push`, `_thread_net_reader`, `cb_server_write` with its failures, `sis_net_queue_stop` |
| `AsyncWrite`, `WriteAfter`, `LNotice` | `_cb_server_async_write`, `cb_server_write_after` |
| `ATake` ... `ANotice` | `cb_sis_reader_recv`, `sis_net_class_send`, `sis_socket_server_send` |

`RequestsWhole`, `AnswersInOrder`, `CallbacksPaired` hold whatever clients do;
`EveryRequestAnswered` is for behaviours in which nobody disconnects, since
`NextIsHandled` is violated otherwise: T tells itself that the queue may go on while it
holds its own wait's mutex (`net_v_next`). In the run the second connection sends one request. Two
places and two connections let a
connection reuse the place of one that is still being closed, or find none and be refused. In a
behaviour in which clients disconnect, `mayBreak`, libuv may also refuse to wake the loop or to
write, clients may send nonsense, or requests before they have the answer to the handshake. Fairness: the
three threads run (weak); a notice to T is granted (strong), because T sleeps
13 ms at a time without the mutex.

Observations: what comes in one piece with the handshake stays in the buffer until the next piece,
since `cb_server_recv_after` looks at the status (`sis_net.c:459`), which is set only when the answer
to the handshake is out, so that a client that sends its first request with the handshake and then
waits gets no answer; a connection that finds no place is neither accepted nor closed
(`sis_net.uv.c:543`, whose log says "close"). That T uses a session while L frees it is not modelled:
looking it up and using it is one step.

### Proofs (`NetServer_proofs`)

For any number of places, connections and requests, with or without the handshake and
with clients that break off at any point: `NetTypeCorrect`, `EachRequestOnce`
(`RequestsWhole`), `StartThenEnd` (`CallbacksPaired`), `OrderOnTheWire`
(`AnswersInOrder`), under `NetAssumption`.

The invariant `IInv` has, besides the types, six parts, and the argument goes along the way of a message.
`StageInv`: one thread has started a write, and only one node is live. `SlotInv`: a
place is given to a new connection only when nothing of the old one is under way, so
that what is in the queue, live or waiting for A belongs to the connection of its
place; this is what the delay of the index list (`sis_index_list_new`) is for, and
what each of the ends of a connection has to keep. `BufferInv`: a buffer holds what its client has
sent after the last request decoded, in order; `Joined` is the lemma that what a piece adds keeps
that. `StreamInv`: no request is decoded before the handshake has its answer, and none that was not
sent whole. `ReadyInv`: the requests of a connection nobody has taken are
those after the last one handed up, each once. `OrderInv`: along ready,
the message at A, the queue, the live node and the wire the numbers of a connection
decrease, which makes `AnswersInOrder` inductive whichever thread starts a write.
`Under` and the predicates above it name these places.

## 8. SisdbCollect, StructList, SisDict

`SisdbCollect` is one collect: its records, ordered by their time, and the step
index, by which a search guesses where to start. The operators named after
functions return what these return; actions are the writes (`CollectUpdate`, `Wpush`) and
the deletions. `SearchesExact` and `GetExact` compare every search, get and
deletion range with a definition by sets over all times, counts and offsets,
negative and past the end included. `KeysOrdered`: writes, loads and
deletions keep the order the searches need.

`StructList` is `s_sis_struct_list`, whose records may be given up at the front by
moving `start`; `KeepsSequence` compares the buffer with the sequence it stands
for. `SisDict` is the dictionary with incremental rehash and safe iterator;
`FoundIfThere` and `WalkComplete` are what the maps of keys and subscriptions rely
on. Four keys with equal hashes modulo 2 and 4 make chains that split. `With` and
`Without` are what `dictAddRaw` and `dictGenericDelete` make of the tables; `held` is the
set the dictionary stands for, `stay` the keys that are there since the walk began.

`Dataset_proofs` shows `CollectTypeCorrect`, `SearchesAndGets` (`LookupsExact`) and
`OrderKept` (`KeysOrdered`) for every table, all natural times, lists and writes of any
length and all integer positions, counts and offsets (`CollectAssumption` says no more).
The inductive invariant is `CollectInv`: types, `KeysOrdered`, and `StepFits`, that the
step index counts the records that are there. `GotoPlace` needs nothing else: wherever
the division leads, a walk begins inside the list. `WalkInOrder` says that a walk
which turns nowhere has then passed all records on its way and no other, and
`SearchLeftIs`, `SearchRightIs` and `SearchIs` follow from it; `RangeIs` and `CountIs`, for
lists in any order, keep gets and deletions inside the list. For the order,
`UpdateByTime`, `UpdateByRest` and `UpdateByBoth` treat one record of a write by the key of
its table, `UpdatedKeeps` a whole write, `RemovedGood` a deletion. An argument over the
positions of a list or the records of a write takes the least number for which it fails
(`LeastNat`, from the well-foundedness of the naturals); for that, `Updated` is a
recursive function.

`Containers_proofs` shows `ListTypeCorrect` and `SequenceKept` (`KeepsSequence`) for
every set of records, first capacity, reserve and longest list, assuming only that the
last three are natural numbers (`ListAssumption`). The two properties together are
inductive: `KeepsSequence` says where the records are, the types that positions are
not negative. `BufferSize`, `MoveBuffer` and `StoreBuffer` say
what a buffer is after a `memmove` or a write, the first one only if the records to be moved
lie inside it, so each use shows that too. `GrownFits` is what the operations need of
`_struct_list_grow`: the same records, perhaps elsewhere, and room behind
them. `ShowsAppended`, `ShowsPart`, `ShowsReplaced`, `JoinParts` and `InsertParts` relate
positions of the buffer to those of the sequence, and each operation has a lemma of its own.
With `GrownInPlace` (`start` goes back to 0, the records stay) `GrownFits` is false, and
the run finds it.

`Containers_proofs` also shows `DictionaryFaithful` (`DictFaithful`) for every set of
keys, finite or not, every hash function, first size of a table and number of empty buckets a
step may pass (`DictAssumption`: the hashes are natural numbers, the last two at least 1).
The inductive invariant `DictInv` has three parts, checked by TLC on the instance of the
run before the proof. `DictOK`: every key is in the chain of its hash, once, in one of
the tables, the buckets that the rehash has passed are empty, and the
second table is there exactly during a rehash. `IterOK`: types, and that a walk and the
`iterators` that hold the rehash go together. `WalkOK`: of the keys that stay, those not
yet returned are exactly those `Ahead` of the iterator - in a later bucket, in its chain
from the saved entry on, or in the second table while it walks the first.
`AllLinked` moves a chain, whatever collides in the new table; `UsedIs` counts the keys
of a table. `KeptIn` says what a step may do to a table under a walk: an added key puts
its chain one place back, a deleted one closes it up, and the order of the others
stays (`LinkedKept`, `UnlinkedKept`); a table that is opened during the walk is walked second.
`AheadSaved` and `AheadChain` show that each answer passes one key.
That the deleted key is the one just returned is needed in `DictDeleteOK`, where the saved
entry must survive. The loops of the code (`Used`, `NextPower`, `MoveBucket`) are
recursive functions; `LoopExists` shows that such a function exists, and `AllSteps`
carries a fact through it. With `MoveBucketHead` (only the first key of a chain moves)
`MoveBucketOK` is false, and the run finds it.

Observations: a table with an index and unique fields loses its order when an old
time comes with new unique fields (`sisdb_collect_set.c:113`), and its first
write is not checked; `del` with min and a count needs a record of exactly that time;
`sisdb_collect_search_last` is used by nobody; the walk of the save
(`sisdb_wsdb.c:167`) uses the dictionary's iterator while another thread may
write to it, which no iterator allows.

## 9. FullText and DiskFile

`FullText` is `sis_files_read_fulltext`: a file is read in pieces, and heads,
lengths, bodies and the tail may be cut anywhere. Sizes are on a small scale that keeps
their order: a head of 1, a length of 1 or 2, a tail of `MinBuffer`, pieces of
one more, bodies from smaller than the tail to larger than two pieces.
`ReadsWhole`: callbacks get all blocks of all units, in order.

`DiskFile` is a file with an index, written in sessions (create or append),
over units limited in size, then played in full, played by key or read by key.
`Write` is `sis_disk_file_write_sdb` with everything it calls: the
dictionary block of a new key, the page that is flushed, the index units it replaces,
the unit that is full. `WriteStop` flushes, writes the index and the tails of
the units that are open. `packs` says whether blocks get shorter by snappy: those that do not are
stored as they are. `FullPlay` is `sis_disk_file_read_sub` with the buffer omem of the reader: a
compressed block takes the place of what is in omem; another one is appended to it, and omem is
not cleared after a dictionary or a block of records, so that it is read at the wrong place and
gives `Noise`, a record nobody wrote. The play by key and the get use a buffer of their own for
each block.

`PlayedAsWritten`: the records come out in the order they were written in, each under its key, in
a full play of compressed blocks and in a play by key of any blocks. `PlayedInAnyForm` asks the
same of a full play of any blocks and is violated (`data_v_unpacked`). `GetsSurvivors`: a get finds
just what later writes have not replaced. They are stated for files whose sessions knew
all keys, pages and units (`whole`, `PagesKnown`); with four writes in three
sessions such files have two units and two sessions, and pages of one record.
`FullText` has only the cutting into blocks, whatever is done to their bytes.
`InOrder` sorts a page by the order of the day. The comparator of the code
(`sis_disk_read.c:448`) answers 1 or 0, never -1, which C does not allow; the merge sort that
glibc's `qsort` is still sorts with it, and that is what is modelled.

Observations (files that are not `whole`, and short blocks), for which no run is kept:

* an appending session opens the last unit only, so dictionary blocks in earlier
  units are not loaded; keys get numbers from 0 again and the records of the file
  come out under other keys (`sis_disk_write.c:771` says that the dictionary is
  loaded);
* the count in the tail is written to the units that the session has opened, so
  the first unit, from which it is read, keeps an old count;
* each index block sets `sno_pages` (`sis_disk_read.c:1331`), the last one wins: a
  filtered play stops early, an append uses page numbers again
  (`sis_disk_write.c:763` asks for the largest);
* `sis_disk_file_valid` accepts every file, so a file without tail is appended to;
* a dictionary of at most two characters is not stored (`sis_disk_write.c:455`), a
  key of one character is dropped (`sis_disk.c:383`);
* in a log or a stream, which have no tail, a last block shorter than
  `SIS_DISK_MIN_BUFFER` is not read (`sis_disk.h:230` excepts the end of the file):
  a recovery can lose the last command.

### Proofs (`FullText_proofs`)

`EveryBlockOnce` (`ReadsWhole`) and `TextTypeCorrect`, for every file of any number of
units and blocks, bodies of any size and every size of a read. `TextAssumption` says that
a read asks for at least one byte, that a head with its length is no longer than the tail
(18 bytes in the code), and that the bound `Cuts` cuts files into units that are not empty.

The reader knows numbers of bytes, the property speaks of blocks. The invariant ties
them together: the reader stands where a block starts (`OnHead`) or at the body it waits
for (`OnBody`), with all blocks before it given. `Start` adds the sizes of blocks up;
what it needs (`StartIs`, `StartsAscend`) rests on `AllSteps`, an induction over a range
that follows from the well-foundedness of `<`. The critical step is `ParseEndKeeps`, where
the reader gives a unit up with less than `MinBuffer` unread: before the end of a unit
stands its tail, of `MinBuffer`, or its last block (`UnitInside`), so nothing of it can be
missing, except a last block shorter than that. The proof needs just the exception that
`ReadsWhole` makes (last observation above).

## 10. BitStream and Sdcdb

`BitStream` is the compressed format of records. A 64-bit word is the set of its bits,
a stream a sequence of bits; `Put...` and `Get...` are the functions of
`sis_bits.c` of these names. `Encode` is `sis_bits_struct_encode`; `Deliver` is the way
of a block to its receiver (`sdcdb_worker_unzip_set`, `sis_bits_struct_decode`)
together with the sender's choice to start anew (`sis_bits_struct_flush`) or go on.
`BatchesDecode`: the receiver gets the batches that were written. 22 words at the ends of
the levels, with all their differences, two keys on both sides of the 8-bit
numbers and two batches in one or two blocks reach every level a writer uses.

`Sdcdb` is the streaming dataset above that: a record is its number and the number of
the record it is the difference to, so that a receiver with another previous record is seen
to decode nonsense.

| model | code |
|---|---|
| `Publish`, `InputRecord`, `InputTimeout` | `_sdcdb_write` into the input queue; `cb_input_reader` with a record or after a silence; `NewBlock` is `_sdcdb_new_data` |
| `Subscribe`, `Unsubscribe`, `RealtimeStart` | `_sdcdb_sub` for today's data, `sdcdb_move_reader`, `sdcdb_reader_realtime_start` |
| `ReadOutput`, `Send`, `Chosen`, `SendFiltered` | `cb_output_reader`, `cb_output_reader_send`, `cb_unzip_reply` with the choice it makes and the compressor of the subscriber |
| `WriteLog` | `cb_wlog_reader` |
| `StartDay` | `cmd_sdcdb_start` with new keys and tables: `_sdcdb_write_init` with the start of all subscribers |
| `StartFails` | `cmd_sdcdb_start` without them: `_sdcdb_write_init` fails (`sdcdb.c:436`) and leaves everything as it is, the command ignores that (`sdcdb.c:568`) and starts all subscribers, an open reader where it stands |
| `Stop`, `ClearData` | `cmd_sdcdb_stop`, `cmd_sdcdb_clear` |
| `Restart` | the process is killed; `sdcdb_init` and `sdcdb_wlog_load` fill the list from the log |

`SubscribersDecode`: a subscriber of everything, of one key compressed or of one
key plain gets its records once, in order and decoded right, and lacks none from where
it began, unless a clear, a crash or a missing table lost it (`dropped`). Where it began is the
first record for a subscriber from the head (`ishead`) whose reader has not been started in the middle of
the list (`since`), and the first record it got for all others.
`LogDecodes`: each part of the log decodes by itself, has no record twice and holds what
its reader has passed. Blocks of two records and an `InitSize` of one make every third
block an initial one; three publications on two keys, one subscriber of any kind
who comes and goes, two dates and two starts or crashes reach a block in the
middle of a stream, a new day and a recovery with one or two parts.

The list outputs is `LockList` in ALL mode from the head, of which `Sdcdb` uses what
`LockList_proofs` proves (`Implements`): a reader gets every block in order. Where the code clears a
list or queue that somebody still reads, the program uses freed nodes: `fault` is
set and the behaviour ends. The commands and the thread of the input queue are steps
that do not overlap; in the code they share `cur_object` without a lock.

Observations:

* a batch of several records without a previous one is read whole without
  memory, so that its second record is wrong, and with it the key until the
  next initial block (`sis_bits.c:891`); `BatchesDecode` leaves such keys out;
* a text that differs only in case is not sent (`sis_bits.c:404`), the least 64-bit
  difference is written as 0, the level of 12 bits of `put_uint` is never chosen, the
  size of a decoded batch is kept in 16 bits, a count beyond 65536 wraps;
* a failed start cuts the stream of a subscriber from the head: its reader goes on where it
  stands, waits for an initial block, and all that lies before that block is never sent to it,
  although nothing lost it and `sdcdb.h:79` says of `ishead` "是否从头发送" (whether to send from
  the head). TLC shows it with one subscriber, three publications and one failed start. Without
  the condition on `since` `SubscribersDecode` would be false;
* a start with an unchanged date, and every recovery from a log with two parts,
  leaves the compressor without tables: everything published by `spub` and `ipub`
  is dropped from then on (`sdcdb.c:452`, `sdcdb.c:462`); after a stop the log is not
  opened again for that date either;
* a plain `sub` of `*.*` gets no data (`sdcdb.c:92` sends compressed blocks only to
  those who asked for them);
* the tests of `cmd_sdcdb_clear` are inverted (`sdcdb.c:1016`, `sdcdb.c:1028`);
* a recovery replays the "set" of each part of a log, which clears the blocks of the part
  before, so the second crash of a day loses what the first recovered
  (`sdcdb.c:459`);
* the compressor of a filtered subscriber that outlives a day has no buffer in the next
  (`sdcdb.c:1445`, the clear of `cur_sbits` unlinks it), and the next block for it is
  written through a null pointer: a `fault`;
* `cmd_sdcdb_stop` says that the day is over while blocks are still queued, begun or on
  their way to a reader;
* the comment in `sdcdb.c:365` says that a log that exists is read from the head, the
  code reads from the tail then, which is what `LogDecodes` needs.

### Proofs (`Sdcdb_proofs`)

`SubscribersServed` (`SubscribersDecode`) and `LogIsReadBack` (`LogDecodes`) hold for any
keys, connections and dates, blocks of any size, any number of publications, starts and
crashes; no constant needs an assumption. What the model assumes stays: a `fault` ends a
behaviour, so that nothing is said of what freed nodes or a missing buffer lead to.

The invariant is `StreamInv`. `Follows(P, recs, m, n)` says that records are those that one
writes whose memory is `m` before and `n` after them; `Linked` that there are memories
`ms[0], ms[1], ...` such that every block of a list follows from that of the block before it,
or from none when it is initial. These memories are not state: the invariant says that some
exist (`Flows`), and that with them

* the sender's `ago` is that after the current block (`CurrentSound`);
* a reader that has begun has `ms[pos]`, as memory of its decompressor or of its client,
  and its compressor has the memory of the client (`Remembered`, `Zips`);
* each part of the log is linked by itself, and the last one ends with `ms` at the place of
  the log's reader while the file is open (`Parts`), which waits for an initial block
  otherwise (`Begins`).

The second half is about order: `Coming(l, n, cur, ins)` is what one who has read `n` blocks
has yet to read; each block lies before what comes behind it (`Ordered`), the log before what
its reader has not passed (`LogSound`), and what a subscriber got before what is to come for
it (`Gets`, which also says that it has all it asked for of what it passed). `NothingLost` and
`HasPassed` tie this to the history. Both halves are needed: without the order a block read
twice would decode, without the memories an ordered one would not.

`EncodeSeqIs` and `UnzipIs` are the heart of it: who has the memory a block was written from
reads what was written and ends with the writer's memory. They, `UnzippedIs` and `ChosenIs` are
about recursive functions; each shows by `AllSteps` (induction over a range, from the
well-foundedness of `<`) that the function takes the values of an explicit one. There is
a lemma per action (`PublishKeeps` to `ReadOutputKeeps`, put together by `StepKeeps`). `BegunSound` is
about readers that are started anywhere in the list, with `since` at their place; `StartFailsKeeps`
applies it to those a failed start finds open. Actions that
only add are covered by `Later` and `SoundFrom`: what was sound stays so when more is published,
written or pushed. `SendIs` serves the three kinds of subscribers, of whom the filtered one goes
through both directions of the compression.

## 11. SisdbClient

Users are the threads that call a client, L the thread of the libuv loop, R the reader of
received messages; the server is outside and answers as `SisdbServer` does.
A message of a user waits in `wire`, an answer for R in `ready`; a break loses `wire`,
and what is in `ready` is handed over with the next connection, whose cid is again 0.

A client is made in one of two ways (`api`). The C interface calls `sisdb_client_init` without an
argument and stores name and password only then (`api_sisdb.c:20`, `api_sisdb.c:26-27`), so that
`auth` is false for every client it makes; such a client has the commands, and only it can
subscribe. A worker from a configuration may have a login, and has the methods of the worker, which
ask and wait or do not. `Init` has just these.

| model | code |
|---|---|
| `Call`, `Check`, `SendAsk`, `Return` | `api_sisdb_command_ask`, `api_sisdb_command_sub` and the `ask` methods: look at the status, register the request, look again (`cmd_sisdb_client_send_cb`), send, and wait for the answer in a loop |
| `Connect`, `Break` | `cb_client_connected` with the handshake and `_cb_connected`; `cb_client_disconnect` with `_cb_disconnect` |
| `Take`, `Reply` | `cb_sis_reader_recv` and `_cb_recv` in status WORK |
| `Take`, `Work` | the branch of `_cb_recv` for the answer to the login, and its last line, which sets the status. Its walk over `asks`, which sends subscriptions again, never finds one |
| `Serve`, `Publish` | the server: external |

`AsksReturn`: who waits comes back, unless its request was under way in a break (`cut`).
`Resubscribed`, that subscriptions are sent again after a break, is what `sisdb_client.h:52` says, and is violated
(`client_v_resub`): only the branch of the login sends them again, and no client that has
subscriptions logs in. Fairness: users, R and the server go on, and
`_thread_keep_connect` opens the connection again every five seconds (all weak). The
last connection does not break (`MaxConns`). Two threads and two requests put every step
of one call beside every step of another; a single thread was also run with three
requests and with three connections.

Observations:

* a thread that waits for an answer the break has lost waits for ever:
  `_cb_disconnect` releases nobody and the loop has no timeout
  (`sisdb_client.c:478`), and its entry stays in `asks`: this is the exception of `AsksReturn`;
* `_cb_recv` sets WORK at the end of the login's branch (`sisdb_client.c:250`). If the
  connection breaks just before, that overwrites INIT, and the next connection, which
  finds WORK, sends no login;
* `sisdb_client_ask_unsub` compares the command of the subscription ("ds.sub") with
  that of the call ("ds.unsub") and deletes nothing (`sisdb_client.c:379`, against
  `api_sisdb.c:154`): a later `sub` of the key is refused;
* a `sub` that fails for lack of a connection is kept: the caller is told of an error, and
  a second try is refused;
* `asks` is used by all users and R without a lock, and an answer "SUB_STOP" uses its
  entry after deleting it (`sisdb_client.c:226`);
* `_thread_keep_connect` opens again while a slow connect is pending
  (`sis_net.uv.c:862`).

## 12. Abstractions

* The queue lock of the lock list covers one access each and is part of the
  action; `userslock` and `watchlock` are held over several actions and are states.
* A callback is one state: what it does with the object is not part of the list.
* The size of an object is a small number; 1024, the least maxsize, is not
  related to it.
* A log of `SisdbWal` is its last record per key: all its commands set one value.
* The walk of a save over `work_keys` is one step. In the code R may change the
  map meanwhile (listed as a hazard).
* Commands on tables and on several keys are in `SisdbServer`, not in `SisdbWal`;
  files of several units are in `DiskFile`, not in `SisdbWal`.
* In `SisdbClient` an operation on the map of asks is one step, and so is the opening of a
  connection up to the end of the handshake; the server, which is outside, accepts every login.
* Bytes: keys, values, formats, packets and records are members of small sets.
* In `DiskFile` a crash inside a session is not modelled; `SisdbWal` has crashes
  but no units.

## 13. Not modelled

* `sis_obj.c`: reference counts are changed by several threads without an atomic
  operation. A model would say no more than this sentence; `LockList` says
  whether the queue still holds an object.
* The connecting side of the network class is modelled as far as `SisdbClient` needs it: not
  its loops and handles, and not the end of a client.
* Of `sdcdb`: `zpub`, the gets and playbacks of earlier days, the conversion of a log into
  SNO files, and lists that keep nothing or a size (`LockList` has these modes).
* `sisdb_rsno`, `sisdb_wsno`: callers of the disk files; the thread of a playback and
  its cancellation are not modelled.
* The end of the server, in which datasets are destroyed before their reader
  (hazard at `sisdb_server.c:192`), and the administration commands.
* The wait queue of `sis_list.lock.c` and the ZERO callback of idle readers; of the fast
  queue, `Sdcdb` has what its only user does.
* KDB, KEY and ANY records of disk files, the time limits of a reader.
* Float fields of compressed records (their rounding drifts: a matter of numerics), the
  conversions of `sis_dynamic`, snappy, configuration, JSON, CSV, log, time, numeric
  code (`core/ai`), memdb, the process: functions on data, or
  input and output, without shared state.
* What TLC checks only on the instances above: every liveness property, which
  TLAPS cannot prove; `BatchesDecode`, because the bit stream is written with recursive
  operators, which the provers do not take, and is a matter of the levels of numbers, which
  the run visits; and `FileFaithful` of `DiskFile`, whose plays and gets are folds and
  sorts over records, so that a proof would be an induction over operators. Both keep
  bounds that reach each of their cases.
