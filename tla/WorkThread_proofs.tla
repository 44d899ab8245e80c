-------------------------- MODULE WorkThread_proofs --------------------------
(***************************************************************************)
(* Theorems about sis_thread: about WorkThread, for every set of workers,  *)
(* every choice of modes and every size of the pool, and at the end about  *)
(* RwMutex, for every set of threads and of writers.                       *)
(***************************************************************************)
EXTENDS WorkThread, RwMutex, FiniteSetTheorems, TLAPS

(***************************************************************************)
(* Where a worker is in its life: a creator works on a worker that does    *)
(* not exist yet, an owner on one that does, and its thread has not        *)
(* started exactly if its status still is what it was at first.            *)
(***************************************************************************)
LifeInv ==
    \A w \in Workers :
        /\ mpc[w] # "idle" => life[w] = "none"
        /\ life[w] \in {"none", "made"} => pc[w] = "off" /\ dpc[w] = "idle"
        /\ life[w] = "freed" <=> dpc[w] = "done"
        /\ pc[w] \in {"off", "init"} => status[w] = "none"
        /\ status[w] = "none" => pc[w] \in {"off", "init", "log"}

(***************************************************************************)
(* The owner leaves its loop when the status is NONE again, which only     *)
(* the last step of a thread that has once worked can have brought about.  *)
(***************************************************************************)
DestroyInv ==
    \A w \in Workers :
        /\ dpc[w] \in {"set", "loop"} => pc[w] \notin {"off", "init"}
        /\ dpc[w] \in {"free", "done"} /\ w \notin early => pc[w] = "log"

(***************************************************************************)
(* A wait belongs to the worker that has taken it and, from the end of the *)
(* search on, to its creator.  As long as allocations do not overlap, the  *)
(* pool is reset before anybody has a wait, and a search meets no other.   *)
(***************************************************************************)
PoolInv ==
    ~overlap =>
        /\ \A v, w \in Workers : mpc[v] # "idle" /\ mpc[w] # "idle" => v = w
        /\ \A w \in Workers :
              /\ Alive(w) => wait[w] \in Waits /\ used[wait[w]]
              /\ mpc[w] = "take" => slot[w] \in Waits /\ ~used[slot[w]]
              /\ mpc[w] = "reset" => ~inited
              /\ ~inited => life[w] = "none" /\ mpc[w] \in {"idle", "reset"}

\* whoever holds the mutex of a wait is a thread at work on that wait
HeldInv ==
    ~overlap /\ early = {} =>
        /\ \A i \in Waits : held[i] # Null =>
              /\ Alive(held[i]) /\ wait[held[i]] = i /\ pc[held[i]] \in Inside
        /\ \A w \in Workers : Alive(w) /\ pc[w] \in Inside => held[wait[w]] = w

IInv == TypeOK /\ LifeInv /\ DestroyInv /\ PoolInv /\ WaitsAreOwn /\ HeldInv
-----------------------------------------------------------------------------
LEMMA TypeInit == Init => TypeOK
<1> SUFFICES ASSUME Init PROVE TypeOK
  OBVIOUS
<1>1. mode \in [Workers -> Modes]
  BY WorkAssumption DEF Init
<1>2. inited \in BOOLEAN /\ overlap \in BOOLEAN /\ early \subseteq Workers
  BY DEF Init
<1> QED
  BY <1>1, <1>2 DEF Init, TypeOK, Inside

LEMMA TypeStep == TypeOK /\ [Next]_vars => TypeOK'
<1> SUFFICES ASSUME TypeOK, [Next]_vars PROVE TypeOK'
  OBVIOUS
<1> USE WorkAssumption DEF TypeOK, Inside, Thread, Acquire, pool, owner
<1>1. ASSUME NEW w \in Workers, MallocBegin(w) PROVE TypeOK'
  BY <1>1 DEF MallocBegin
<1>2. ASSUME NEW w \in Workers, ResetPool(w) PROVE TypeOK'
  BY <1>2 DEF ResetPool
<1>3. ASSUME NEW w \in Workers, Search(w) PROVE TypeOK'
  BY <1>3 DEF Search, Found, FreeWaits
<1>4. ASSUME NEW w \in Workers, Take(w) PROVE TypeOK'
  BY <1>4 DEF Take
<1>5. ASSUME NEW w \in Workers, Open(w) PROVE TypeOK'
  BY <1>5 DEF Open
<1>6. ASSUME NEW w \in Workers, StartWork(w) PROVE TypeOK'
  BY <1>6 DEF StartWork
<1>7. ASSUME NEW w \in Workers, LockStart(w) PROVE TypeOK'
  BY <1>7 DEF LockStart
<1>8. ASSUME NEW w \in Workers, CheckExit(w) PROVE TypeOK'
  BY <1>8 DEF CheckExit
<1>9. ASSUME NEW w \in Workers, WaitOnce(w) PROVE TypeOK'
  BY <1>9 DEF WaitOnce
<1>10. ASSUME NEW w \in Workers, WaitFirst(w) PROVE TypeOK'
  BY <1>10 DEF WaitFirst
<1>11. ASSUME NEW w \in Workers, Sleep(w) PROVE TypeOK'
  BY <1>11 DEF Sleep
<1>12. ASSUME NEW w \in Workers, Timeout(w) PROVE TypeOK'
  BY <1>12 DEF Timeout
<1>13. ASSUME NEW w \in Workers, WakeByNotice(w) PROVE TypeOK'
  BY <1>13 DEF WakeByNotice
<1>14. ASSUME NEW w \in Workers, WakeByTime(w) PROVE TypeOK'
  <2>1. PICK to \in {"decide", "check"} : Thread(w, "late", to)
    BY <1>14 DEF WakeByTime
  <2> QED
    BY <1>14, <2>1 DEF WakeByTime
<1>15. ASSUME NEW w \in Workers, Decide(w) PROVE TypeOK'
  <2>1. PICK to \in {"stop", "work", "check"} : Thread(w, "decide", to)
    <3>1. CASE status[w] = "exit"
      BY <1>15, <3>1 DEF Decide
    <3>2. CASE status[w] = "work"
      BY <1>15, <3>2 DEF Decide
    <3>3. CASE status[w] = "none"
      BY <1>15, <3>3 DEF Decide
    <3> QED
      BY <3>1, <3>2, <3>3
  <2> QED
    BY <1>15, <2>1 DEF Decide
<1>16. ASSUME NEW w \in Workers, Work(w) PROVE TypeOK'
  BY <1>16 DEF Work
<1>17. ASSUME NEW w \in Workers, StopUnlock(w) PROVE TypeOK'
  BY <1>17 DEF StopUnlock
<1>18. ASSUME NEW w \in Workers, Finish(w) PROVE TypeOK'
  BY <1>18 DEF Finish
<1>19. ASSUME NEW w \in Workers, Destroy(w) PROVE TypeOK'
  BY <1>19 DEF Destroy
<1>20. ASSUME NEW w \in Workers, SetExit(w) PROVE TypeOK'
  BY <1>20 DEF SetExit
<1>21. ASSUME NEW w \in Workers, DestroyLoop(w) PROVE TypeOK'
  BY <1>21 DEF DestroyLoop, Woken
<1>22. ASSUME NEW w \in Workers, FreeWorker(w) PROVE TypeOK'
  BY <1>22 DEF FreeWorker
<1>23. ASSUME NEW w \in Workers, Notice(w) PROVE TypeOK'
  BY <1>23 DEF Notice, Woken
<1>24. CASE UNCHANGED vars
  BY <1>24 DEF vars
<1> QED
  BY <1>1, <1>2, <1>3, <1>4, <1>5, <1>6, <1>7, <1>8, <1>9, <1>10, <1>11, <1>12, <1>13, <1>14, <1>15, <1>16, <1>17, <1>18, <1>19, <1>20, <1>21, <1>22, <1>23, <1>24
     DEF Next, ThreadStep, CreatorStep, OwnerStep

LEMMA LifeInit == Init => LifeInv /\ DestroyInv
  BY DEF Init, LifeInv, DestroyInv

LEMMA LifeStep == TypeOK /\ LifeInv /\ DestroyInv /\ [Next]_vars => LifeInv' /\ DestroyInv'
<1> SUFFICES ASSUME TypeOK, LifeInv, DestroyInv, [Next]_vars PROVE LifeInv' /\ DestroyInv'
  OBVIOUS
<1> USE DEF TypeOK, LifeInv, DestroyInv, Thread, pool, owner
<1>1. ASSUME NEW w \in Workers, MallocBegin(w) PROVE LifeInv' /\ DestroyInv'
  BY <1>1 DEF MallocBegin
<1>2. ASSUME NEW w \in Workers, ResetPool(w) PROVE LifeInv' /\ DestroyInv'
  BY <1>2 DEF ResetPool
<1>3. ASSUME NEW w \in Workers, Search(w) PROVE LifeInv' /\ DestroyInv'
  BY <1>3 DEF Search, Found, FreeWaits
<1>4. ASSUME NEW w \in Workers, Take(w) PROVE LifeInv' /\ DestroyInv'
  BY <1>4 DEF Take
<1>5. ASSUME NEW w \in Workers, Open(w) PROVE LifeInv' /\ DestroyInv'
  BY <1>5 DEF Open
<1>6. ASSUME NEW w \in Workers, StartWork(w) PROVE LifeInv' /\ DestroyInv'
  BY <1>6 DEF StartWork
<1>7. ASSUME NEW w \in Workers, LockStart(w) PROVE LifeInv' /\ DestroyInv'
  BY <1>7 DEF LockStart
<1>8. ASSUME NEW w \in Workers, CheckExit(w) PROVE LifeInv' /\ DestroyInv'
  BY <1>8 DEF CheckExit
<1>9. ASSUME NEW w \in Workers, WaitOnce(w) PROVE LifeInv' /\ DestroyInv'
  BY <1>9 DEF WaitOnce
<1>10. ASSUME NEW w \in Workers, WaitFirst(w) PROVE LifeInv' /\ DestroyInv'
  BY <1>10 DEF WaitFirst
<1>11. ASSUME NEW w \in Workers, Sleep(w) PROVE LifeInv' /\ DestroyInv'
  BY <1>11 DEF Sleep
<1>12. ASSUME NEW w \in Workers, Timeout(w) PROVE LifeInv' /\ DestroyInv'
  BY <1>12 DEF Timeout
<1>13. ASSUME NEW w \in Workers, WakeByNotice(w) PROVE LifeInv' /\ DestroyInv'
  BY <1>13 DEF WakeByNotice
<1>14. ASSUME NEW w \in Workers, WakeByTime(w) PROVE LifeInv' /\ DestroyInv'
  BY <1>14 DEF WakeByTime
<1>15. ASSUME NEW w \in Workers, Decide(w) PROVE LifeInv' /\ DestroyInv'
  BY <1>15 DEF Decide
<1>16. ASSUME NEW w \in Workers, Work(w) PROVE LifeInv' /\ DestroyInv'
  BY <1>16 DEF Work
<1>17. ASSUME NEW w \in Workers, StopUnlock(w) PROVE LifeInv' /\ DestroyInv'
  BY <1>17 DEF StopUnlock
<1>18. ASSUME NEW w \in Workers, Finish(w) PROVE LifeInv' /\ DestroyInv'
  BY <1>18 DEF Finish
<1>19. ASSUME NEW w \in Workers, Destroy(w) PROVE LifeInv' /\ DestroyInv'
  BY <1>19 DEF Destroy
<1>20. ASSUME NEW w \in Workers, SetExit(w) PROVE LifeInv' /\ DestroyInv'
  BY <1>20 DEF SetExit
<1>21. ASSUME NEW w \in Workers, DestroyLoop(w) PROVE LifeInv' /\ DestroyInv'
  BY <1>21 DEF DestroyLoop, Woken
<1>22. ASSUME NEW w \in Workers, FreeWorker(w) PROVE LifeInv' /\ DestroyInv'
  BY <1>22 DEF FreeWorker
<1>23. ASSUME NEW w \in Workers, Notice(w) PROVE LifeInv' /\ DestroyInv'
  BY <1>23 DEF Notice, Woken
<1>24. CASE UNCHANGED vars
  BY <1>24 DEF vars
<1> QED
  BY <1>1, <1>2, <1>3, <1>4, <1>5, <1>6, <1>7, <1>8, <1>9, <1>10, <1>11, <1>12, <1>13, <1>14, <1>15, <1>16, <1>17, <1>18, <1>19, <1>20, <1>21, <1>22, <1>23, <1>24
     DEF Next, ThreadStep, CreatorStep, OwnerStep

LEMMA PoolInit == Init => PoolInv /\ WaitsAreOwn /\ HeldInv
  BY DEF Init, PoolInv, WaitsAreOwn, HeldInv, Alive

LEMMA PoolStep ==
    TypeOK /\ LifeInv /\ DestroyInv /\ PoolInv /\ WaitsAreOwn /\ [Next]_vars => PoolInv' /\ WaitsAreOwn'
<1> SUFFICES ASSUME TypeOK, LifeInv, DestroyInv, PoolInv, WaitsAreOwn, [Next]_vars
             PROVE  PoolInv' /\ WaitsAreOwn'
  OBVIOUS
<1> USE WorkAssumption DEF TypeOK, LifeInv, PoolInv, WaitsAreOwn, Alive, Allocating, Thread, pool, owner
<1>1. ASSUME NEW w \in Workers, MallocBegin(w) PROVE PoolInv' /\ WaitsAreOwn'
  <2>1. CASE overlap \/ Allocating # {}
    BY <1>1, <2>1 DEF MallocBegin
  <2>2. CASE ~overlap /\ Allocating = {}
    <3>1. \A v \in Workers : mpc[v] = "idle"
      BY <2>2
    <3>2. mpc' = [mpc EXCEPT ![w] = IF inited THEN "search" ELSE "reset"]
      BY <1>1 DEF MallocBegin
    <3>3. UNCHANGED <<inited, used, wait, life, slot>> /\ life[w] = "none"
      BY <1>1 DEF MallocBegin
    <3> QED
      BY <2>2, <3>1, <3>2, <3>3
  <2> QED
    BY <2>1, <2>2
<1>2. ASSUME NEW w \in Workers, ResetPool(w) PROVE PoolInv' /\ WaitsAreOwn'
  BY <1>2 DEF ResetPool
<1>3. ASSUME NEW w \in Workers, Search(w) PROVE PoolInv' /\ WaitsAreOwn'
  BY <1>3 DEF Search, Found, FreeWaits
<1>4. ASSUME NEW w \in Workers, Take(w) PROVE PoolInv' /\ WaitsAreOwn'
  BY <1>4 DEF Take
<1>5. ASSUME NEW w \in Workers, Open(w) PROVE PoolInv' /\ WaitsAreOwn'
  BY <1>5 DEF Open
<1>6. ASSUME NEW w \in Workers, StartWork(w) PROVE PoolInv' /\ WaitsAreOwn'
  BY <1>6 DEF StartWork
<1>7. ASSUME NEW w \in Workers, LockStart(w) PROVE PoolInv' /\ WaitsAreOwn'
  BY <1>7 DEF LockStart
<1>8. ASSUME NEW w \in Workers, CheckExit(w) PROVE PoolInv' /\ WaitsAreOwn'
  BY <1>8 DEF CheckExit
<1>9. ASSUME NEW w \in Workers, WaitOnce(w) PROVE PoolInv' /\ WaitsAreOwn'
  BY <1>9 DEF WaitOnce
<1>10. ASSUME NEW w \in Workers, WaitFirst(w) PROVE PoolInv' /\ WaitsAreOwn'
  BY <1>10 DEF WaitFirst
<1>11. ASSUME NEW w \in Workers, Sleep(w) PROVE PoolInv' /\ WaitsAreOwn'
  BY <1>11 DEF Sleep
<1>12. ASSUME NEW w \in Workers, Timeout(w) PROVE PoolInv' /\ WaitsAreOwn'
  BY <1>12 DEF Timeout
<1>13. ASSUME NEW w \in Workers, WakeByNotice(w) PROVE PoolInv' /\ WaitsAreOwn'
  BY <1>13 DEF WakeByNotice
<1>14. ASSUME NEW w \in Workers, WakeByTime(w) PROVE PoolInv' /\ WaitsAreOwn'
  BY <1>14 DEF WakeByTime
<1>15. ASSUME NEW w \in Workers, Decide(w) PROVE PoolInv' /\ WaitsAreOwn'
  BY <1>15 DEF Decide
<1>16. ASSUME NEW w \in Workers, Work(w) PROVE PoolInv' /\ WaitsAreOwn'
  BY <1>16 DEF Work
<1>17. ASSUME NEW w \in Workers, StopUnlock(w) PROVE PoolInv' /\ WaitsAreOwn'
  BY <1>17 DEF StopUnlock
<1>18. ASSUME NEW w \in Workers, Finish(w) PROVE PoolInv' /\ WaitsAreOwn'
  BY <1>18 DEF Finish
<1>19. ASSUME NEW w \in Workers, Destroy(w) PROVE PoolInv' /\ WaitsAreOwn'
  BY <1>19 DEF Destroy
<1>20. ASSUME NEW w \in Workers, SetExit(w) PROVE PoolInv' /\ WaitsAreOwn'
  BY <1>20 DEF SetExit
<1>21. ASSUME NEW w \in Workers, DestroyLoop(w) PROVE PoolInv' /\ WaitsAreOwn'
  BY <1>21 DEF DestroyLoop, Woken
<1>22. ASSUME NEW w \in Workers, FreeWorker(w) PROVE PoolInv' /\ WaitsAreOwn'
  BY <1>22 DEF FreeWorker
<1>23. ASSUME NEW w \in Workers, Notice(w) PROVE PoolInv' /\ WaitsAreOwn'
  BY <1>23 DEF Notice, Woken
<1>24. CASE UNCHANGED vars
  BY <1>24 DEF vars
<1> QED
  BY <1>1, <1>2, <1>3, <1>4, <1>5, <1>6, <1>7, <1>8, <1>9, <1>10, <1>11, <1>12, <1>13, <1>14, <1>15, <1>16, <1>17, <1>18, <1>19, <1>20, <1>21, <1>22, <1>23, <1>24
     DEF Next, ThreadStep, CreatorStep, OwnerStep

LEMMA HeldStep == IInv /\ [Next]_vars => HeldInv'
<1> SUFFICES ASSUME IInv, [Next]_vars PROVE HeldInv'
  OBVIOUS
<1> USE WorkAssumption DEF IInv, TypeOK, LifeInv, DestroyInv, PoolInv, WaitsAreOwn, HeldInv, Alive, Inside, Acquire, Thread, pool, owner
<1>1. ASSUME NEW w \in Workers, MallocBegin(w) PROVE HeldInv'
  BY <1>1 DEF MallocBegin
<1>2. ASSUME NEW w \in Workers, ResetPool(w) PROVE HeldInv'
  BY <1>2 DEF ResetPool
<1>3. ASSUME NEW w \in Workers, Search(w) PROVE HeldInv'
  BY <1>3 DEF Search, Found, FreeWaits
<1>4. ASSUME NEW w \in Workers, Take(w) PROVE HeldInv'
  BY <1>4 DEF Take
<1>5. ASSUME NEW w \in Workers, Open(w) PROVE HeldInv'
  BY <1>5 DEF Open
<1>6. ASSUME NEW w \in Workers, StartWork(w) PROVE HeldInv'
  BY <1>6 DEF StartWork
<1>7. ASSUME NEW w \in Workers, LockStart(w) PROVE HeldInv'
  BY <1>7 DEF LockStart
<1>8. ASSUME NEW w \in Workers, CheckExit(w) PROVE HeldInv'
  BY <1>8 DEF CheckExit
<1>9. ASSUME NEW w \in Workers, WaitOnce(w) PROVE HeldInv'
  BY <1>9 DEF WaitOnce
<1>10. ASSUME NEW w \in Workers, WaitFirst(w) PROVE HeldInv'
  BY <1>10 DEF WaitFirst
<1>11. ASSUME NEW w \in Workers, Sleep(w) PROVE HeldInv'
  BY <1>11 DEF Sleep
<1>12. ASSUME NEW w \in Workers, Timeout(w) PROVE HeldInv'
  BY <1>12 DEF Timeout
<1>13. ASSUME NEW w \in Workers, WakeByNotice(w) PROVE HeldInv'
  BY <1>13 DEF WakeByNotice
<1>14. ASSUME NEW w \in Workers, WakeByTime(w) PROVE HeldInv'
  BY <1>14 DEF WakeByTime
<1>15. ASSUME NEW w \in Workers, Decide(w) PROVE HeldInv'
  BY <1>15 DEF Decide
<1>16. ASSUME NEW w \in Workers, Work(w) PROVE HeldInv'
  BY <1>16 DEF Work
<1>17. ASSUME NEW w \in Workers, StopUnlock(w) PROVE HeldInv'
  BY <1>17 DEF StopUnlock
<1>18. ASSUME NEW w \in Workers, Finish(w) PROVE HeldInv'
  BY <1>18 DEF Finish
<1>19. ASSUME NEW w \in Workers, Destroy(w) PROVE HeldInv'
  BY <1>19 DEF Destroy
<1>20. ASSUME NEW w \in Workers, SetExit(w) PROVE HeldInv'
  BY <1>20 DEF SetExit
<1>21. ASSUME NEW w \in Workers, DestroyLoop(w) PROVE HeldInv'
  BY <1>21 DEF DestroyLoop, Woken
<1>22. ASSUME NEW w \in Workers, FreeWorker(w) PROVE HeldInv'
  BY <1>22 DEF FreeWorker
<1>23. ASSUME NEW w \in Workers, Notice(w) PROVE HeldInv'
  BY <1>23 DEF Notice, Woken
<1>24. CASE UNCHANGED vars
  BY <1>24 DEF vars
<1> QED
  BY <1>1, <1>2, <1>3, <1>4, <1>5, <1>6, <1>7, <1>8, <1>9, <1>10, <1>11, <1>12, <1>13, <1>14, <1>15, <1>16, <1>17, <1>18, <1>19, <1>20, <1>21, <1>22, <1>23, <1>24
     DEF Next, ThreadStep, CreatorStep, OwnerStep

LEMMA Invariant == Spec => []IInv
<1>1. Init => IInv
  BY TypeInit, LifeInit, PoolInit DEF IInv
<1>2. IInv /\ [Next]_vars => IInv'
  BY TypeStep, LifeStep, PoolStep, HeldStep DEF IInv
<1> QED
  BY <1>1, <1>2, PTL DEF Spec

-----------------------------------------------------------------------------
\* Every reachable state of workers, waits and their owners is typed.
THEOREM TypeCorrect == Spec => []TypeOK
<1>1. IInv => TypeOK
  BY DEF IInv
<1> QED
  BY <1>1, Invariant, PTL

\* As long as no two allocations overlap, no wait has two workers
\* (sis_wait_malloc, sis_wait_free).
THEOREM OwnWaits == Spec => []WaitsAreOwn
<1>1. IInv => WaitsAreOwn
  BY DEF IInv
<1> QED
  BY <1>1, Invariant, PTL

\* However creations, notices, timeouts and destructions of any number of
\* workers interleave, a worker is freed after its thread
\* (sis_wait_thread_destroy).
THEOREM FreedAfterItsThread == Spec => []FreedAfterThread
<1>1. IInv => FreedAfterThread
  BY DEF IInv, LifeInv, DestroyInv, FreedAfterThread
<1> QED
  BY <1>1, Invariant, PTL

\* As long as no two allocations overlap and no destroy comes too early, the
\* mutex of a wait is held by the worker that owns the wait, and exactly while
\* its thread does not wait: a destroyer or a notice that finds the mutex free
\* finds the thread where it can be woken (sis_thread_wait_notice).
MutexWhileInside ==
    ~overlap /\ early = {} =>
        \A w \in Workers : Alive(w) => (pc[w] \in Inside <=> held[wait[w]] = w)

THEOREM HeldWhileInside == Spec => []MutexWhileInside
<1>1. IInv => MutexWhileInside
  BY WorkAssumption DEF IInv, TypeOK, PoolInv, HeldInv, MutexWhileInside
<1> QED
  BY <1>1, Invariant, PTL

-----------------------------------------------------------------------------
(* The read-write mutex.                                                   *)


(***************************************************************************)
(* The code only looks at its counters.  That they keep threads apart      *)
(* rests on their counting who is inside: each of the four ways in and the *)
(* two ways out changes the counter and the set of threads together.       *)
(***************************************************************************)
Counted == /\ IsFiniteSet(Readers) /\ reads_i = Cardinality(Readers)
           /\ IsFiniteSet(Writing) /\ writes_i = Cardinality(Writing)

\* what the guards of LockR, LockW and of the two tries keep
Apart == writes_i = 0 \/ (writes_i = 1 /\ reads_i = 0)

RwInv == RwTypeOK /\ Counted /\ Apart

-----------------------------------------------------------------------------
\* A thread that starts or stops to be at a place changes the set of those
\* there by one element.
At(x) == {u \in Threads : at[u] = x}

Change(x, from, to) == IF to = x /\ from # x THEN 1 ELSE IF from = x /\ to # x THEN -1 ELSE 0

LEMMA MoveOne ==
    ASSUME RwTypeOK, NEW t \in Threads, NEW from, NEW to, Go(t, from, to),
           NEW x, IsFiniteSet(At(x))
    PROVE  /\ IsFiniteSet(At(x)')
           /\ Cardinality(At(x)') = Cardinality(At(x)) + Change(x, from, to)
<1>1. /\ at[t] = from
      /\ \A u \in Threads : at'[u] = IF u = t THEN to ELSE at[u]
  BY DEF Go, RwTypeOK
<1>2. CASE from # x /\ to = x
  <2>1. At(x)' = At(x) \cup {t} /\ t \notin At(x)
    BY <1>1, <1>2 DEF At
  <2> QED
    BY <1>2, <2>1, FS_AddElement DEF Change
<1>3. CASE from = x /\ to # x
  <2>1. At(x)' = At(x) \ {t} /\ t \in At(x)
    BY <1>1, <1>3 DEF At
  <2>2. Cardinality(At(x)) \in Nat
    BY FS_CardinalityType
  <2> QED
    BY <1>3, <2>1, <2>2, FS_RemoveElement DEF Change
<1>4. CASE (from = x) = (to = x)
  <2>1. At(x)' = At(x)
    BY <1>1, <1>4 DEF At
  <2>2. Cardinality(At(x)) \in Nat
    BY FS_CardinalityType
  <2> QED
    BY <1>4, <2>1, <2>2 DEF Change
<1> QED
  BY <1>2, <1>3, <1>4

LEMMA InitRwInv == RwInit => RwInv
<1> SUFFICES ASSUME RwInit PROVE RwInv
  OBVIOUS
<1>1. RwTypeOK
  BY DEF RwInit, RwTypeOK
<1>2. Readers = {} /\ Writing = {}
  BY DEF RwInit, Readers, Writing
<1> QED
  BY <1>1, <1>2, FS_EmptySet DEF RwInit, RwInv, Counted, Apart

LEMMA StepRwInv == RwInv /\ [RwNext]_rwvars => RwInv'
<1> SUFFICES ASSUME RwInv, [RwNext]_rwvars PROVE RwInv'
  OBVIOUS
<1> DEFINE Moved(from, to) ==
      /\ IsFiniteSet(Readers') /\ IsFiniteSet(Writing')
      /\ Cardinality(Readers') = Cardinality(Readers) + Change("read", from, to)
      /\ Cardinality(Writing') = Cardinality(Writing) + Change("write", from, to)
<1>1. ASSUME NEW t \in Threads, NEW from, NEW to, Go(t, from, to)
      PROVE  Moved(from, to)
  <2>1. Readers = At("read") /\ Writing = At("write")
    BY DEF Readers, Writing, At
  <2>2. Readers' = At("read")' /\ Writing' = At("write")'
    BY DEF Readers, Writing, At
  <2>3. RwTypeOK /\ IsFiniteSet(Readers) /\ IsFiniteSet(Writing)
    BY DEF RwInv, Counted
  <2> QED
    BY <1>1, <2>1, <2>2, <2>3, MoveOne
<1> HIDE DEF Moved
<1> USE DEF RwInv, RwTypeOK, Apart, Counted
<1>2. ASSUME NEW t \in Threads, Call(t) PROVE RwInv'
  <2>1. PICK to \in {"want_r", "try_r", "want_w", "try_w"} : Go(t, "out", to)
    BY <1>2 DEF Call
  <2>2. RwTypeOK'
    BY <1>2, <2>1 DEF Go, Call, lock
  <2> QED
    BY <1>1, <1>2, <2>1, <2>2 DEF Moved, Change, Call, lock
<1>3. ASSUME NEW t \in Threads, LockR(t) PROVE RwInv'
  <2>1. RwTypeOK'
    BY <1>3 DEF Go, LockR
  <2> QED
    BY <1>1, <1>3, <2>1 DEF Moved, Change, LockR, ReadersOut
<1>4. ASSUME NEW t \in Threads, TryLockR(t) PROVE RwInv'
  <2>1. RwTypeOK'
    BY <1>4 DEF Go, TryLockR
  <2> QED
    BY <1>1, <1>4, <2>1 DEF Moved, Change, TryLockR, ReadersOut
<1>5. ASSUME NEW t \in Threads, UnlockR(t) PROVE RwInv'
  <2>1. Moved("read", "out")
    BY <1>1, <1>5 DEF UnlockR
  <2>2. reads_i > 0
    BY <2>1, FS_CardinalityType DEF Moved, Change
  <2>3. RwTypeOK'
    BY <1>5, <2>2 DEF Go, UnlockR
  <2> QED
    BY <1>5, <2>1, <2>2, <2>3 DEF Moved, Change, UnlockR
<1>6. ASSUME NEW t \in Threads, LockW(t) PROVE RwInv'
  <2>1. RwTypeOK'
    BY <1>6 DEF Go, LockW, Busy
  <2> QED
    BY <1>1, <1>6, <2>1 DEF Moved, Change, LockW, Busy
<1>7. ASSUME NEW t \in Threads, TryLockW(t) PROVE RwInv'
  <2>1. RwTypeOK'
    BY <1>7 DEF Go, TryLockW, Busy
  <2> QED
    BY <1>1, <1>7, <2>1 DEF Moved, Change, TryLockW, Busy
<1>8. ASSUME NEW t \in Threads, UnlockW(t) PROVE RwInv'
  <2>1. Moved("write", "out")
    BY <1>1, <1>8 DEF UnlockW
  <2>2. writes_i > 0
    BY <2>1, FS_CardinalityType DEF Moved, Change
  <2>3. RwTypeOK'
    BY <1>8, <2>2 DEF Go, UnlockW
  <2> QED
    BY <1>8, <2>1, <2>2, <2>3 DEF Moved, Change, UnlockW
<1>9. CASE UNCHANGED rwvars
  BY <1>9 DEF rwvars, lock, Readers, Writing
<1> QED
  BY <1>2, <1>3, <1>4, <1>5, <1>6, <1>7, <1>8, <1>9 DEF RwNext, Step

LEMMA RwInvariant == RwSpec => []RwInv
  BY InitRwInv, StepRwInv, PTL DEF RwSpec

-----------------------------------------------------------------------------
\* The counters are natural numbers, so no unlock takes one below zero, and
\* every thread is at a step of the code.
THEOREM RwTypeCorrect == RwSpec => []RwTypeOK
<1>1. RwInv => RwTypeOK
  BY DEF RwInv
<1> QED
  BY <1>1, RwInvariant, PTL

\* A writer is alone, however lock, try and unlock of any number of threads
\* interleave.
THEOREM WriterAlone == RwSpec => []Exclusion
<1>1. RwInv => Exclusion
  BY FS_EmptySet DEF RwInv, RwTypeOK, Counted, Apart, Exclusion
<1> QED
  BY <1>1, RwInvariant, PTL
=============================================================================
