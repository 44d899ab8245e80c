---------------------------- MODULE DurableStore ----------------------------
(***************************************************************************)
(* What README.MD promises of a dataset: a write goes to the log and then  *)
(* to the database, and is answered after that; a crash loses what was     *)
(* visible, and the store comes back with all that had been logged.        *)
(***************************************************************************)
EXTENDS Integers

CONSTANTS Keys, MaxOps

VARIABLES
    db,       \* what a restart brings back
    view,     \* what a client can read
    stage,    \* how far the current write is
    key, val, \* the current write
    up        \* whether the store serves

storeVars == <<db, view, stage, key, val, up>>

Absent == [k \in Keys |-> 0]

StoreInit ==
    /\ db = Absent /\ view = Absent
    /\ stage = "none" /\ key \in Keys /\ val = 0
    /\ up = FALSE

Accept ==
    /\ up /\ stage = "none" /\ stage' = "accepted"
    /\ key' \in Keys /\ val' \in 0 .. MaxOps
    /\ UNCHANGED <<db, view, up>>

Commit ==
    /\ up /\ stage = "accepted" /\ stage' = "logged"
    /\ db' = [db EXCEPT ![key] = val]
    /\ UNCHANGED <<view, key, val, up>>

Show ==
    /\ up /\ stage = "logged" /\ stage' = "applied"
    /\ view' = [view EXCEPT ![key] = val]
    /\ UNCHANGED <<db, key, val, up>>

Answer ==
    /\ up /\ stage = "applied" /\ stage' = "none"
    /\ key' \in Keys /\ val' = 0
    /\ UNCHANGED <<db, view, up>>

Fail ==
    /\ up /\ up' = FALSE
    /\ view' = Absent /\ stage' = "none" /\ key' \in Keys /\ val' = 0
    /\ UNCHANGED db

\* all that was logged, and nothing else, is visible again
Recover ==
    /\ ~up /\ up' = TRUE
    /\ view' = db
    /\ UNCHANGED <<db, stage, key, val>>

StoreNext == Accept \/ Commit \/ Show \/ Answer \/ Fail \/ Recover

StoreSpec == StoreInit /\ [][StoreNext]_storeVars
=============================================================================
