------------------------------ MODULE RwMutex ------------------------------
(***************************************************************************)
(* The read-write mutex of sis_thread.c: two counters and a flag under a   *)
(* mutex.  A lock that cannot be had is tried again after a sleep; a try   *)
(* gives up at once.                                                       *)
(***************************************************************************)
EXTENDS Naturals, FiniteSets

CONSTANTS Threads, Writers      \* only Writers ask for the write side

VARIABLES try_write_b, reads_i, writes_i,
          at                    \* what each thread is doing with the lock

lock == <<try_write_b, reads_i, writes_i>>
rwvars == <<lock, at>>

RwInit ==
    /\ try_write_b = FALSE /\ reads_i = 0 /\ writes_i = 0
    /\ at = [t \in Threads |-> "out"]

Go(t, from, to) == at[t] = from /\ at' = [at EXCEPT ![t] = to]

\* the caller of lock_r, lock_w or a try
Call(t) ==
    /\ \E to \in {"want_r", "try_r"} \cup (IF t \in Writers THEN {"want_w", "try_w"} ELSE {}) :
        Go(t, "out", to)
    /\ UNCHANGED lock

ReadersOut == try_write_b \/ writes_i > 0

LockRInGap(t) ==
    /\ Go(t, "want_r", "read") /\ writes_i = 0
    /\ reads_i' = reads_i + 1
    /\ UNCHANGED <<try_write_b, writes_i>>

\* sis_mutex_rw_lock_r: one round that succeeds; the others change nothing
LockR(t) ==
    /\ Go(t, "want_r", "read") /\ ~ReadersOut
    /\ reads_i' = reads_i + 1
    /\ UNCHANGED <<try_write_b, writes_i>>

TryLockR(t) ==
    /\ Go(t, "try_r", IF ReadersOut THEN "out" ELSE "read")
    /\ reads_i' = IF ReadersOut THEN reads_i ELSE reads_i + 1
    /\ UNCHANGED <<try_write_b, writes_i>>

UnlockR(t) ==
    /\ Go(t, "read", "out")
    /\ reads_i' = reads_i - 1
    /\ UNCHANGED <<try_write_b, writes_i>>

Busy == reads_i > 0 \/ writes_i > 0

LockWOverReaders(t) ==
    /\ Go(t, "want_w", IF writes_i > 0 THEN "want_w" ELSE "write")
    /\ try_write_b' = (writes_i > 0)
    /\ writes_i' = IF writes_i > 0 THEN writes_i ELSE writes_i + 1
    /\ UNCHANGED reads_i

\* one round of sis_mutex_rw_lock_w
LockW(t) ==
    /\ Go(t, "want_w", IF Busy THEN "want_w" ELSE "write")
    /\ try_write_b' = Busy
    /\ writes_i' = IF Busy THEN writes_i ELSE writes_i + 1
    /\ UNCHANGED reads_i

\* sis_mutex_rw_try_lock_w: a failed try leaves try_write_b set
TryLockW(t) ==
    /\ Go(t, "try_w", IF Busy THEN "out" ELSE "write")
    /\ try_write_b' = Busy
    /\ writes_i' = IF Busy THEN writes_i ELSE writes_i + 1
    /\ UNCHANGED reads_i

UnlockW(t) ==
    /\ Go(t, "write", "out")
    /\ writes_i' = writes_i - 1
    /\ UNCHANGED <<try_write_b, reads_i>>

Step(t) == LockR(t) \/ TryLockR(t) \/ UnlockR(t) \/ LockW(t) \/ TryLockW(t) \/ UnlockW(t)

RwNext == \E t \in Threads : Call(t) \/ Step(t)

RwSpec == RwInit /\ [][RwNext]_rwvars

\* Who is inside leaves, and who waits tries again and again; no more is
\* promised, since a sleep of 10 msec may miss every moment the lock is free.
RwFairness ==
    \A t \in Threads :
        /\ WF_rwvars(UnlockR(t) \/ UnlockW(t) \/ TryLockR(t) \/ TryLockW(t))
        /\ WF_rwvars(LockW(t)) /\ WF_rwvars(LockR(t))

-----------------------------------------------------------------------------
RwTypeOK ==
    /\ try_write_b \in BOOLEAN /\ reads_i \in Nat /\ writes_i \in Nat
    /\ at \in [Threads -> {"out", "want_r", "try_r", "read", "want_w", "try_w", "write"}]

Readers  == {t \in Threads : at[t] = "read"}
Writing  == {t \in Threads : at[t] = "write"}

\* A writer is alone.
Exclusion == Writing # {} => Readers = {} /\ Cardinality(Writing) = 1

\* Who waits gets in: a thread that alone writes does, since its flag keeps new
\* readers out until those inside have left; a reader does, or meets a writer
\* inside, or is shut out by the flag that a failed try of the write side has
\* left behind (sis_mutex_rw_lock_w, sis_mutex_rw_lock_r).
WaitersGetIn ==
    \A t \in Threads :
        /\ Writers = {t} => (at[t] = "want_w" ~> at[t] = "write")
        /\ at[t] = "want_r" ~> \/ at[t] = "read" \/ Writing # {}
                               \/ try_write_b /\ \A u \in Threads : at[u] # "want_w"
=============================================================================
