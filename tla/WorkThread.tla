----------------------------- MODULE WorkThread -----------------------------
(***************************************************************************)
(* The service threads of workers (worker.c) on top of the wait threads    *)
(* and the pool of waits (sis_thread.c).  A wait is a mutex with a         *)
(* condition; a thread holds the mutex of its wait except inside the timed *)
(* wait, and a notice takes it.  Anybody creates and notifies workers,     *)
(* an owner destroys them once.                                            *)
(***************************************************************************)
EXTENDS Naturals, FiniteSets

CONSTANTS Workers, InModes,    \* InModes: the work modes configured
          PoolSize       \* SIS_MAX_WAIT

Modes == {"once", "notice", "gaps", "plans"}
Null  == "null"
Waits == 1 .. PoolSize

ASSUME WorkAssumption == PoolSize \in Nat /\ InModes \subseteq Modes /\ Null \notin Workers

VARIABLES
    mode,                \* work-time of the configuration
    inited, used,        \* __sys_wait_init, __sys_wait_pool[i].used
    held,                \* who holds the mutex of a wait
    mpc, slot,           \* a creator inside sis_wait_malloc; the wait it has found
    life, status, wait,  \* of a worker: made, live, freed; work_status; work_wait
    isfirst,             \* s_sis_work_thread.isfirst
    pc,                  \* its service thread
    dpc,                 \* its owner in sis_wait_thread_destroy
    overlap, early       \* history: some allocations have overlapped; the workers
                         \* whose destroy did not find their thread working

pool  == <<inited, used, mpc, slot, overlap>>
owner == <<life, wait, dpc, early>>
vars  == <<mode, pool, held, owner, status, isfirst, pc>>

Alive(w) == life[w] \in {"made", "live"}
\* the steps in which a thread runs with the mutex of its wait
Inside == {"check", "decide", "work", "stop"}

Init ==
    /\ mode \in [Workers -> InModes]
    /\ inited = FALSE /\ used = [i \in Waits |-> FALSE]
    /\ held = [i \in Waits |-> Null]
    /\ mpc = [w \in Workers |-> "idle"] /\ slot = [w \in Workers |-> 0]
    /\ life = [w \in Workers |-> "none"] /\ status = [w \in Workers |-> "none"]
    /\ wait = [w \in Workers |-> 0] /\ isfirst = [w \in Workers |-> FALSE]
    /\ pc = [w \in Workers |-> "off"] /\ dpc = [w \in Workers |-> "idle"]
    /\ overlap = FALSE /\ early = {}

-----------------------------------------------------------------------------
(* sis_wait_malloc: nothing protects the pool.                             *)

Allocating == {w \in Workers : mpc[w] # "idle"}

MallocBegin(w) ==
    /\ mpc[w] = "idle" /\ life[w] = "none"
    /\ mpc' = [mpc EXCEPT ![w] = IF inited THEN "search" ELSE "reset"]
    /\ overlap' = (overlap \/ Allocating # {})
    /\ UNCHANGED <<mode, inited, used, slot, held, owner, status, isfirst, pc>>

ResetPool(w) ==
    /\ mpc[w] = "reset"
    /\ used' = [i \in Waits |-> FALSE] /\ held' = [i \in Waits |-> Null]
    /\ inited' = TRUE
    /\ mpc' = [mpc EXCEPT ![w] = "search"]
    /\ UNCHANGED <<mode, slot, overlap, owner, status, isfirst, pc>>

FreeWaits == {i \in Waits : ~used[i]}

Found(w, i) ==
    /\ mpc[w] = "search"
    /\ mpc' = [mpc EXCEPT ![w] = "take"]
    /\ slot' = [slot EXCEPT ![w] = i]
    /\ UNCHANGED <<mode, inited, used, overlap, held, owner, status, isfirst, pc>>

SearchAny(w) == Found(w, 1)
Search(w) == \E i \in FreeWaits : (\A j \in FreeWaits : i <= j) /\ Found(w, i)

\* sis_thread_wait_init, then the rest of sis_wait_thread_create
Take(w) ==
    /\ mpc[w] = "take"
    /\ used' = [used EXCEPT ![slot[w]] = TRUE]
    /\ wait' = [wait EXCEPT ![w] = slot[w]]
    /\ life' = [life EXCEPT ![w] = "made"]
    /\ mpc' = [mpc EXCEPT ![w] = "idle"] /\ slot' = [slot EXCEPT ![w] = 0]
    /\ UNCHANGED <<mode, inited, overlap, held, dpc, early, status, isfirst, pc>>

\* sis_wait_thread_open; the worker is then complete and can be found
Open(w) ==
    /\ life[w] = "made"
    /\ life' = [life EXCEPT ![w] = "live"]
    /\ pc' = [pc EXCEPT ![w] = "init"]
    /\ UNCHANGED <<mode, pool, held, wait, dpc, early, status, isfirst>>

-----------------------------------------------------------------------------
(* _service_work_thread.  A thread whose worker is freed is not followed   *)
(* any further.                                                            *)

Thread(w, from, to) ==
    /\ pc[w] = from /\ Alive(w)
    /\ pc' = [pc EXCEPT ![w] = to]
    /\ UNCHANGED <<mode, pool, owner>>

\* work_init, and the first half of sis_wait_thread_start
StartWork(w) ==
    /\ Thread(w, "init", "lock")
    /\ status' = [status EXCEPT ![w] = "work"]
    /\ UNCHANGED <<held, isfirst>>

Acquire(w) ==
    /\ held[wait[w]] = Null
    /\ held' = [held EXCEPT ![wait[w]] = w]

LockStart(w) ==
    /\ Thread(w, "lock", "check")
    /\ Acquire(w)
    /\ UNCHANGED <<status, isfirst>>

CheckExit(w) ==
    /\ status[w] = "exit" /\ Thread(w, "check", "stop")
    /\ UNCHANGED <<held, status, isfirst>>

\* sis_work_thread_wait up to the timed wait
WaitOnce(w) ==
    /\ mode[w] = "once" /\ status[w] # "exit" /\ Thread(w, "check", "decide")
    /\ status' = [status EXCEPT ![w] = "exit"]
    /\ UNCHANGED <<held, isfirst>>

WaitFirst(w) ==
    /\ mode[w] \in {"gaps", "plans"} /\ ~isfirst[w] /\ status[w] # "exit"
    /\ Thread(w, "check", "decide")
    /\ isfirst' = [isfirst EXCEPT ![w] = TRUE]
    /\ UNCHANGED <<held, status>>

Sleep(w) ==
    /\ mode[w] = "notice" \/ (mode[w] \in {"gaps", "plans"} /\ isfirst[w])
    /\ status[w] # "exit" /\ Thread(w, "check", "sleep")
    /\ held' = [held EXCEPT ![wait[w]] = IF @ = w THEN Null ELSE @]
    /\ UNCHANGED <<status, isfirst>>

Timeout(w) ==
    /\ Thread(w, "sleep", "late")
    /\ UNCHANGED <<held, status, isfirst>>

WakeUnheard(w) ==
    /\ Thread(w, "woken", "check")
    /\ Acquire(w)
    /\ UNCHANGED <<status, isfirst>>

\* the wait returns SIS_WAIT_NOTICE: work in the notice mode only; the pause of
\* 100 msec that follows otherwise is part of the step
WakeByNotice(w) ==
    /\ Thread(w, "woken", IF mode[w] = "notice" /\ status[w] # "exit" THEN "decide" ELSE "check")
    /\ Acquire(w)
    /\ UNCHANGED <<status, isfirst>>

\* the wait returns SIS_WAIT_TIMEOUT: work if the minute is right
WakeByTime(w) ==
    /\ \E to \in IF mode[w] = "notice" THEN {"check"} ELSE {"decide", "check"} :
        Thread(w, "late", to)
    /\ Acquire(w)
    /\ UNCHANGED <<status, isfirst>>

Decide(w) ==
    /\ Thread(w, "decide", CASE status[w] = "exit" -> "stop"
                             [] status[w] = "work" -> "work"
                             [] OTHER -> "check")
    /\ UNCHANGED <<held, status, isfirst>>

Work(w) ==
    /\ Thread(w, "work", "check")
    /\ UNCHANGED <<held, status, isfirst>>

\* work_uninit and sis_wait_thread_stop: the mutex first, the status last
StopUnlock(w) ==
    /\ Thread(w, "stop", "finish")
    /\ held' = [held EXCEPT ![wait[w]] = IF @ = w THEN Null ELSE @]
    /\ UNCHANGED <<status, isfirst>>

FinishSilently(w) ==
    /\ Thread(w, "finish", "log")
    /\ UNCHANGED <<held, status, isfirst>>

\* what is left is a LOG, which reads worker->workername
Finish(w) ==
    /\ Thread(w, "finish", "log")
    /\ status' = [status EXCEPT ![w] = "none"]
    /\ UNCHANGED <<held, isfirst>>

-----------------------------------------------------------------------------
(* sis_worker_destroy with sis_wait_thread_destroy, and the notices.       *)

Destroy(w) ==
    /\ life[w] = "live" /\ dpc[w] = "idle"
    /\ dpc' = [dpc EXCEPT ![w] = IF status[w] = "work" THEN "set" ELSE "free"]
    /\ early' = IF status[w] = "work" THEN early ELSE early \cup {w}
    /\ UNCHANGED <<mode, pool, held, life, wait, status, isfirst, pc>>

SetExit(w) ==
    /\ dpc[w] = "set"
    /\ status' = [status EXCEPT ![w] = "exit"]
    /\ dpc' = [dpc EXCEPT ![w] = "loop"]
    /\ UNCHANGED <<mode, pool, held, life, wait, early, isfirst, pc>>

Woken(i) == [w \in Workers |-> IF wait[w] = i /\ pc[w] = "sleep" /\ Alive(w) THEN "woken" ELSE pc[w]]

\* the owner only sets the flag and relies on the timeout
DestroyQuietly(w) ==
    /\ dpc[w] = "loop"
    /\ dpc' = [dpc EXCEPT ![w] = "free"]
    /\ UNCHANGED <<mode, pool, held, life, wait, early, status, isfirst, pc>>

DestroyLoop(w) ==
    /\ dpc[w] = "loop"
    /\ \/ /\ status[w] = "none"
          /\ dpc' = [dpc EXCEPT ![w] = "free"]
          /\ UNCHANGED pc
       \/ /\ status[w] # "none" /\ held[wait[w]] = Null
          /\ pc' = Woken(wait[w])
          /\ UNCHANGED dpc
    /\ UNCHANGED <<mode, pool, held, life, wait, early, status, isfirst>>

FreeWorker(w) ==
    /\ dpc[w] = "free"
    /\ used' = [used EXCEPT ![wait[w]] = FALSE]
    /\ life' = [life EXCEPT ![w] = "freed"]
    /\ dpc' = [dpc EXCEPT ![w] = "done"]
    /\ UNCHANGED <<mode, inited, mpc, slot, overlap, held, wait, early, status, isfirst, pc>>

\* sis_work_thread_notice, when it gets the mutex
Notice(w) ==
    /\ life[w] = "live" /\ dpc[w] = "idle" /\ held[wait[w]] = Null
    /\ pc' = Woken(wait[w])
    /\ UNCHANGED <<mode, pool, held, owner, status, isfirst>>

-----------------------------------------------------------------------------
ThreadStep(w) ==
    \/ StartWork(w) \/ LockStart(w) \/ CheckExit(w)
    \/ WaitOnce(w) \/ WaitFirst(w) \/ Sleep(w) \/ Timeout(w)
    \/ WakeByNotice(w) \/ WakeByTime(w) \/ Decide(w) \/ Work(w)
    \/ StopUnlock(w) \/ Finish(w)

CreatorStep(w) == ResetPool(w) \/ Search(w) \/ Take(w)
OwnerStep(w) == SetExit(w) \/ DestroyLoop(w) \/ FreeWorker(w)

Next == \E w \in Workers :
    \/ MallocBegin(w) \/ CreatorStep(w) \/ Open(w)
    \/ ThreadStep(w) \/ Destroy(w) \/ OwnerStep(w) \/ Notice(w)

Spec == Init /\ [][Next]_vars

\* Every thread runs; a mutex that is free again and again is granted in the
\* end.  Nobody has to create, destroy or notify.
Fairness ==
    \A w \in Workers :
        /\ WF_vars(CreatorStep(w)) /\ WF_vars(ThreadStep(w)) /\ SF_vars(OwnerStep(w))
        /\ SF_vars(LockStart(w) \/ WakeByNotice(w) \/ WakeByTime(w))

FairSpec == Spec /\ Fairness

-----------------------------------------------------------------------------

TypeOK ==
    /\ mode \in [Workers -> Modes]
    /\ inited \in BOOLEAN /\ used \in [Waits -> BOOLEAN]
    /\ held \in [Waits -> Workers \cup {Null}]
    /\ mpc \in [Workers -> {"idle", "reset", "search", "take"}]
    /\ slot \in [Workers -> Waits \cup {0}]
    /\ life \in [Workers -> {"none", "made", "live", "freed"}]
    /\ status \in [Workers -> {"none", "work", "exit"}]
    /\ wait \in [Workers -> Waits \cup {0}]
    /\ isfirst \in [Workers -> BOOLEAN]
    /\ pc \in [Workers -> Inside \cup {"off", "init", "lock", "sleep", "woken", "late",
                                        "finish", "log"}]
    /\ dpc \in [Workers -> {"idle", "set", "loop", "free", "done"}]
    /\ overlap \in BOOLEAN /\ early \subseteq Workers

\* sis_wait_malloc: two workers that exist at the same time have different
\* waits, if no two allocations have ever overlapped (the pool has no lock).
WaitsAreOwn ==
    ~overlap => \A v, w \in Workers : v # w /\ Alive(v) /\ Alive(w) => wait[v] # wait[w]

\* sis_wait_thread_destroy: a worker is freed when its thread has nothing left
\* to do but its last LOG, unless the destroy came before the thread had started.
FreedAfterThread ==
    \A w \in Workers \ early : life[w] = "freed" => pc[w] = "log"

\* sis_work_thread_wait: a notice that reaches a waiting worker of the notice
\* mode makes it work, unless the worker is being destroyed (or another one was freed
\* too early and its thread keeps the mutex).
NoticeWorks ==
    \A w \in Workers :
        (pc[w] = "woken" /\ mode[w] = "notice")
            ~> (pc[w] = "work" \/ dpc[w] # "idle" \/ early # {})

\* sis_wait_thread_destroy: the destruction of a worker comes to an end.  Not
\* promised are a worker of the mode ONCE, whose thread may set its status at the
\* same time, and a wait left locked by the thread of a worker freed too early.
DestroyReturns ==
    \A w \in Workers :
        (dpc[w] # "idle" /\ mode[w] # "once") ~> (life[w] = "freed" \/ early # {})
=============================================================================
