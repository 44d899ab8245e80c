--------------------------- MODULE BroadcastLog ---------------------------
(***************************************************************************)
(* What a shared list that keeps everything promises its subscribers       *)
(* (src/core/sis_list.lock.h): objects are appended to one log; a reader   *)
(* joins at some position of it and is then handed every later object,     *)
(* one at a time, in the order of the log.                                 *)
(***************************************************************************)
EXTENDS Integers

CONSTANTS Readers, MaxPush

NotJoined == -1

VARIABLES
    len,    \* length of the log
    pos     \* per reader: the last position handed over

logVars == <<len, pos>>

LogTypeOK ==
    /\ len \in 0 .. MaxPush
    /\ pos \in [Readers -> {NotJoined} \cup (0 .. MaxPush)]

LogInit == len = 0 /\ pos = [r \in Readers |-> NotJoined]

AppendLog ==
    /\ len < MaxPush
    /\ len' = len + 1
    /\ UNCHANGED pos

Join(r) ==
    /\ pos[r] = NotJoined
    /\ \E n \in 0 .. len : pos' = [pos EXCEPT ![r] = n]
    /\ UNCHANGED len

HandOver(r) ==
    /\ pos[r] # NotJoined /\ pos[r] < len
    /\ pos' = [pos EXCEPT ![r] = @ + 1]
    /\ UNCHANGED len

LogNext == AppendLog \/ \E r \in Readers : Join(r) \/ HandOver(r)

LogSpec == LogInit /\ [][LogNext]_logVars
=============================================================================
