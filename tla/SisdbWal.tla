------------------------------ MODULE SisdbWal ------------------------------
(***************************************************************************)
(* Durability of one dataset: the write-ahead log (workers/sisdb_wlog),    *)
(* the sdb file (workers/sisdb_wsdb, sisdb_rsdb on core/disk) and their    *)
(* use by workers/sisdb and by the server's reader thread.                 *)
(*                                                                         *)
(* Thread "R" is the server's reader (cb_reader_recv), which executes the  *)
(* clients' commands one after the other; thread "W" is the dataset's own  *)
(* service thread (sisdb_working), which saves once a day.  A crash stops  *)
(* both and keeps the disk; the restart loads the sdb file, replays the    *)
(* log and then serves.                                                    *)
(*                                                                         *)
(* A key holds one value (CHARS or BYTES collects); the k-th command       *)
(* writes the value k and 0 stands for "no such key".  A log of such       *)
(* commands is described by the last logged value of each key.             *)
(***************************************************************************)
EXTENDS Integers

CONSTANTS
    Keys,         \* keys of the dataset
    Ops,          \* the commands clients send: a subset of {"set", "del", "save", "pack"}
    Daily,        \* whether a new day comes and W saves
    Recursive,    \* whether wlog_lock may be taken twice (CRITICAL_SECTION; a
                  \* default pthread mutex may not)
    CrashIn,      \* where crashes strike: a subset of {"serve", "save", "pack"}
    TornWrites,   \* whether a crash may leave part of a log record
    MaxOps,       \* bound: commands in a behaviour
    MaxCrash      \* bound: crashes in a behaviour

ASSUME WalAssumption ==
    /\ Keys # {}
    /\ Ops \subseteq {"set", "del", "save", "pack"}
    /\ CrashIn \subseteq {"serve", "save", "pack"}
    /\ Daily \in BOOLEAN /\ Recursive \in BOOLEAN /\ TornWrites \in BOOLEAN
    /\ MaxOps \in Nat /\ MaxCrash \in Nat
    \* what replaying a logged save or pack does on a build with recursive
    \* locks is not modelled
    /\ Recursive => Ops \cap {"save", "pack"} = {}

NoRec == -1                       \* the log holds no record of this key
Value == 0 .. MaxOps
Empty == [k \in Keys |-> 0]
Threads == {"R", "W"}

VARIABLES
    \* on disk
    logv,       \* last value the readable part of the log holds, per key
    logAdmin,   \* the readable part of the log holds a save or pack command
    torn,       \* the log ends in a torn record: what follows is not read back
    sdb,        \* what the index of the sdb file leads to, per key
    sdbFile,    \* "none", "noindex", "notail" (index but no tail), "whole"
    safe,       \* the copy pack keeps in safe_path: its sdb and sdbFile
    \* in memory
    mem,        \* work_keys
    wlogOpen,   \* sisdb: context->wlog_open
    wlogFile,   \* sisdb_wlog: context->wlog is not NULL
    lock,       \* owner and depth of wlog_lock
    ridx,       \* the index the running save will write
    pc,         \* control state of R and W
    req,        \* the command R executes
    phase,      \* "load", "replay", "ready", "serve"
    \* history and bounds
    acked,      \* last acknowledged value per key
    flight,     \* the command a crash interrupted
    nops, ncrash, newday

logVars  == <<logv, logAdmin, torn>>
sdbVars  == <<sdb, sdbFile, safe>>
diskVars == <<logVars, sdbVars>>
wlogVars == <<wlogOpen, wlogFile>>
histVars == <<acked, flight, nops, ncrash, newday>>
vars == <<diskVars, mem, wlogVars, lock, ridx, pc, req, phase, histVars>>

Request == [op : {"none", "set", "del", "save", "pack"}, key : Keys, val : Value]
Pcs == {"idle", "wlog", "apply", "reply", "savelock", "data", "index", "entries", "tail",
        "unlock", "move", "packlock", "aside", "create", "rewrite", "packunlock", "finish"}

TypeOK ==
    /\ logv \in [Keys -> Value \cup {NoRec}]
    /\ logAdmin \in BOOLEAN /\ torn \in BOOLEAN
    /\ sdb \in [Keys -> Value] /\ sdbFile \in {"none", "noindex", "notail", "whole"}
    /\ safe \in [sdb : [Keys -> Value], file : {"none", "noindex", "notail", "whole"}]
    /\ mem \in [Keys -> Value] /\ ridx \in [Keys -> Value]
    /\ wlogOpen \in BOOLEAN /\ wlogFile \in BOOLEAN
    /\ lock \in [owner : Threads \cup {"none"}, depth : 0 .. 2]
    /\ pc \in [Threads -> Pcs]
    /\ req \in Request /\ flight \in Request
    /\ phase \in {"load", "replay", "ready", "serve"}
    /\ acked \in [Keys -> Value]
    /\ nops \in 0 .. MaxOps /\ ncrash \in 0 .. MaxCrash /\ newday \in BOOLEAN

NoReq == [op |-> "none", key |-> CHOOSE k \in Keys : TRUE, val |-> 0]

Init ==
    /\ logv = [k \in Keys |-> NoRec] /\ logAdmin = FALSE /\ torn = FALSE
    /\ sdb = Empty /\ sdbFile = "none"
    /\ safe = [sdb |-> Empty, file |-> "none"]
    /\ mem = Empty /\ ridx = Empty
    /\ wlogOpen = FALSE /\ wlogFile = FALSE
    /\ lock = [owner |-> "none", depth |-> 0]
    /\ pc = [t \in Threads |-> "idle"]
    /\ req = NoReq /\ flight = NoReq
    /\ phase = "load"
    /\ acked = Empty
    /\ nops = 0 /\ ncrash = 0 /\ newday = Daily

Goto(t, label) == pc' = [pc EXCEPT ![t] = label]

\* mutation: no thread may take wlog_lock twice
CanLockOnce(t) == lock.owner = "none"

CanLock(t) == lock.owner = "none" \/ (Recursive /\ lock.owner = t)
Lock(t) == CanLock(t) /\ lock' = [owner |-> t, depth |-> lock.depth + 1]
Unlock(t) ==
    lock' = [owner |-> IF lock.depth = 1 THEN "none" ELSE t, depth |-> lock.depth - 1]

---------------------------------------------------------------------------
(* Start: _sisdb_server_load, rdisk and then rlog                          *)

\* What reading the sdb file can give.  Without work or index file it gives
\* nothing; with a work file that lacks its tail the number of files is taken
\* from arbitrary bytes, and the open may fail.  Failing is no error.
Loads ==
    CASE sdbFile = "whole"  -> {sdb}
      [] sdbFile = "notail" -> {sdb, Empty}
      [] OTHER              -> {Empty}

LoadDisk ==
    /\ phase = "load"
    /\ mem' \in Loads
    /\ phase' = "replay"
    /\ UNCHANGED <<diskVars, wlogVars, lock, ridx, pc, req, histVars>>

\* mutation: the log is read but nothing is executed
ReplayNothing ==
    /\ phase = "replay" /\ ~logAdmin
    /\ phase' = "ready"
    /\ UNCHANGED <<mem, diskVars, wlogVars, lock, ridx, pc, req, histVars>>

\* rlog holds wlog_lock while the commands of the log are executed; a save or
\* pack among them takes wlog_lock again.  A record takes at least the 18 bytes of
\* SIS_DISK_MIN_BUFFER here; sis_files_read_fulltext drops a last one that is shorter (a
\* binary message of a few characters, see ReadsWhole in FullText).
ReplayLog ==
    /\ phase = "replay" /\ ~logAdmin
    /\ mem' = [k \in Keys |-> IF logv[k] # NoRec THEN logv[k] ELSE mem[k]]
    /\ phase' = "ready"
    /\ UNCHANGED <<diskVars, wlogVars, lock, ridx, pc, req, histVars>>

\* the network is opened; what has been recovered is what clients now see
Serve ==
    /\ phase = "ready"
    /\ phase' = "serve"
    /\ acked' = mem
    /\ flight' = NoReq
    /\ UNCHANGED <<diskVars, mem, wlogVars, lock, ridx, pc, req, nops, ncrash, newday>>

---------------------------------------------------------------------------
(* R: cb_reader_recv                                                       *)

\* bound: pack is not asked for while the sdb file lacks its index
Receive(op, k) ==
    /\ phase = "serve" /\ pc["R"] = "idle" /\ nops < MaxOps
    /\ op = "pack" => sdbFile # "noindex"
    /\ nops' = nops + 1
    /\ req' = [op |-> op, key |-> k, val |-> IF op = "set" THEN nops + 1 ELSE 0]
    /\ Goto("R", "wlog")
    /\ UNCHANGED <<diskVars, mem, wlogVars, lock, ridx, phase, acked, flight, ncrash, newday>>

\* mutation: deletions are not logged
WriteLogOfSets ==
    /\ pc["R"] = "wlog" /\ CanLock("R")
    /\ wlogOpen' = TRUE
    /\ wlogFile' = (~wlogOpen \/ wlogFile)
    /\ logv' = IF wlogFile' /\ ~torn /\ req.op = "set"
                 THEN [logv EXCEPT ![req.key] = req.val] ELSE logv
    /\ logAdmin' = (logAdmin \/ (wlogFile' /\ ~torn /\ req.op \in {"save", "pack"}))
    /\ Goto("R", CASE req.op = "save" -> "savelock"
                   [] req.op = "pack" -> "packlock"
                   [] OTHER           -> "apply")
    /\ UNCHANGED <<torn, sdbVars, mem, lock, ridx, req, phase, histVars>>

\* mutation: the record that opens the log is not written
WriteLogOpened ==
    /\ pc["R"] = "wlog" /\ CanLock("R")
    /\ wlogOpen' = TRUE
    /\ wlogFile' = (~wlogOpen \/ wlogFile)
    /\ logv' = IF wlogOpen /\ wlogFile' /\ ~torn /\ req.op = "set"
                 THEN [logv EXCEPT ![req.key] = req.val] ELSE logv
    /\ logAdmin' = (logAdmin \/ (wlogFile' /\ ~torn /\ req.op \in {"save", "pack"}))
    /\ Goto("R", CASE req.op = "save" -> "savelock"
                   [] req.op = "pack" -> "packlock"
                   [] OTHER           -> "apply")
    /\ UNCHANGED <<torn, sdbVars, mem, lock, ridx, req, phase, histVars>>

\* cmd_sisdb_wlog: every command with the write bit, save and pack included,
\* is logged before it is executed.  The log is opened when wlog_open is not
\* set; a write without an open log fails, which the server ignores.
WriteLog ==
    LET writes == ~wlogOpen \/ wlogFile
        reads  == writes /\ ~torn
    IN  /\ pc["R"] = "wlog" /\ CanLock("R")
        /\ wlogOpen' = TRUE
        /\ wlogFile' = writes
        /\ logv' = IF reads /\ req.op \in {"set", "del"}
                     THEN [logv EXCEPT ![req.key] = req.val] ELSE logv
        /\ logAdmin' = (logAdmin \/ (reads /\ req.op \in {"save", "pack"}))
        /\ Goto("R", CASE req.op = "save" -> "savelock"
                       [] req.op = "pack" -> "packlock"
                       [] OTHER           -> "apply")
        /\ UNCHANGED <<torn, sdbVars, mem, lock, ridx, req, phase, histVars>>

\* cmd_sisdb_set, cmd_sisdb_del on a single key
Apply ==
    /\ pc["R"] = "apply"
    /\ mem' = [mem EXCEPT ![req.key] = req.val]
    /\ Goto("R", "reply")
    /\ UNCHANGED <<diskVars, wlogVars, lock, ridx, req, phase, histVars>>

Reply ==
    /\ pc["R"] = "reply"
    /\ acked' = IF req.op \in {"set", "del"} THEN [acked EXCEPT ![req.key] = req.val] ELSE acked
    /\ req' = NoReq
    /\ Goto("R", "idle")
    /\ UNCHANGED <<diskVars, mem, wlogVars, lock, ridx, phase, flight, nops, ncrash, newday>>

---------------------------------------------------------------------------
(* _sisdb_save, by thread t, and the move of the log after it              *)

SaveLock(t) ==
    /\ pc[t] = "savelock"
    /\ Lock(t)
    /\ Goto(t, "data")
    /\ UNCHANGED <<diskVars, mem, wlogVars, ridx, req, phase, histVars>>

\* No keys, no file, and the save succeeds.
SaveNothing(t) ==
    /\ pc[t] = "data" /\ mem = Empty
    /\ Goto(t, "unlock")
    /\ UNCHANGED <<diskVars, mem, wlogVars, lock, ridx, req, phase, histVars>>

\* A file without its tail, whose number of units is read from arbitrary
\* bytes, may fail to open; the calls that follow do nothing and the save
\* succeeds.
SaveFails(t) ==
    /\ pc[t] = "data" /\ mem # Empty
    /\ sdbFile \in {"noindex", "notail"}
    /\ Goto(t, "unlock")
    /\ UNCHANGED <<diskVars, mem, wlogVars, lock, ridx, req, phase, histVars>>

\* mutation: the old entry of a key wins over the new one
SaveDataOnce(t) ==
    /\ pc[t] = "data" /\ mem # Empty
    /\ IF sdbFile \in {"none", "noindex"}
         THEN ridx' = mem /\ sdbFile' = "noindex"
         ELSE /\ ridx' = [k \in Keys |-> IF sdb[k] # 0 THEN sdb[k] ELSE mem[k]]
              /\ sdbFile' = "notail"
    /\ Goto(t, "index")
    /\ UNCHANGED <<logVars, sdb, safe, mem, wlogVars, lock, req, phase, histVars>>

\* The values are appended, over the old tail; the entries of the old index,
\* if there is one, are kept for the keys that are not written.
SaveData(t) ==
    /\ pc[t] = "data" /\ mem # Empty
    /\ IF sdbFile \in {"none", "noindex"}
         THEN ridx' = mem /\ sdbFile' = "noindex"
         ELSE /\ ridx' = [k \in Keys |-> IF mem[k] # 0 THEN mem[k] ELSE sdb[k]]
              /\ sdbFile' = "notail"
    /\ Goto(t, "index")
    /\ UNCHANGED <<logVars, sdb, safe, mem, wlogVars, lock, req, phase, histVars>>

\* write_stop deletes the index, ...
SaveDropIndex(t) ==
    /\ pc[t] = "index"
    /\ sdb' = Empty /\ sdbFile' = "noindex"
    /\ Goto(t, "entries")
    /\ UNCHANGED <<logVars, safe, mem, wlogVars, lock, ridx, req, phase, histVars>>

\* ... writes it anew and ...
SaveIndex(t) ==
    /\ pc[t] = "entries"
    /\ sdb' = ridx /\ sdbFile' = "notail"
    /\ Goto(t, "tail")
    /\ UNCHANGED <<logVars, safe, mem, wlogVars, lock, ridx, req, phase, histVars>>

\* ... closes the work file with its tail
SaveTail(t) ==
    /\ pc[t] = "tail"
    /\ sdbFile' = "whole" /\ ridx' = Empty
    /\ Goto(t, "unlock")
    /\ UNCHANGED <<logVars, sdb, safe, mem, wlogVars, lock, req, phase, histVars>>

SaveUnlock(t) ==
    /\ pc[t] = "unlock"
    /\ Unlock(t)
    /\ Goto(t, "move")
    /\ UNCHANGED <<diskVars, mem, wlogVars, ridx, req, phase, histVars>>

\* cmd_sisdb_wlog_move deletes the log and forgets an open one; wlog_open is
\* left as it is.  W packs on Fridays.
MoveLog(t) ==
    /\ pc[t] = "move"
    /\ logv' = [k \in Keys |-> NoRec] /\ logAdmin' = FALSE /\ torn' = FALSE
    /\ wlogFile' = FALSE
    /\ \E next \in IF t = "R" THEN {"reply"} ELSE {"packlock", "finish"} : Goto(t, next)
    /\ UNCHANGED <<sdbVars, mem, wlogOpen, lock, ridx, req, phase, histVars>>

Save(t) ==
    \/ SaveLock(t) \/ SaveNothing(t) \/ SaveFails(t) \/ SaveData(t) \/ SaveDropIndex(t)
    \/ SaveIndex(t) \/ SaveTail(t) \/ SaveUnlock(t) \/ MoveLog(t)

---------------------------------------------------------------------------
(* _sisdb_pack: the file goes to safe_path and is rewritten from there     *)

PackLock(t) ==
    /\ pc[t] = "packlock"
    /\ Lock(t)
    /\ Goto(t, "aside")
    /\ UNCHANGED <<diskVars, mem, wlogVars, ridx, req, phase, histVars>>

\* the renames fail if there is no file, and leave an older safe copy alone
PackAside(t) ==
    /\ pc[t] = "aside"
    /\ safe' = IF sdbFile = "none" THEN safe ELSE [sdb |-> sdb, file |-> sdbFile]
    /\ sdb' = Empty /\ sdbFile' = "none"
    /\ Goto(t, "create")
    /\ UNCHANGED <<logVars, mem, wlogVars, lock, ridx, req, phase, histVars>>

PackCreate(t) ==
    /\ pc[t] = "create"
    /\ sdbFile' = "noindex"
    /\ Goto(t, "rewrite")
    /\ UNCHANGED <<logVars, sdb, safe, mem, wlogVars, lock, ridx, req, phase, histVars>>

\* the new file is read from the safe copy, indexed and closed; the copy stays
PackRewrite(t) ==
    /\ pc[t] = "rewrite" /\ safe.file \in {"notail", "whole"}
    /\ sdb' = safe.sdb /\ sdbFile' = "whole"
    /\ Goto(t, "packunlock")
    /\ UNCHANGED <<logVars, safe, mem, wlogVars, lock, ridx, req, phase, histVars>>

\* the copy cannot be read: the new file is deleted and the copy moved back
PackUndo(t) ==
    /\ pc[t] = "rewrite" /\ safe.file # "whole"
    /\ sdb' = safe.sdb /\ sdbFile' = safe.file
    /\ safe' = [sdb |-> Empty, file |-> "none"]
    /\ Goto(t, "packunlock")
    /\ UNCHANGED <<logVars, mem, wlogVars, lock, ridx, req, phase, histVars>>

PackUnlock(t) ==
    /\ pc[t] = "packunlock"
    /\ Unlock(t)
    /\ Goto(t, IF t = "R" THEN "reply" ELSE "finish")
    /\ UNCHANGED <<diskVars, mem, wlogVars, ridx, req, phase, histVars>>

Pack(t) ==
    \/ PackLock(t) \/ PackAside(t) \/ PackCreate(t) \/ PackRewrite(t) \/ PackUndo(t)
    \/ PackUnlock(t)

---------------------------------------------------------------------------
(* W: sisdb_working, after save_time on a new day                          *)

\* it takes wlog_lock, closes an open log and calls _sisdb_save, which takes
\* wlog_lock again
WorkBegin ==
    /\ phase = "serve" /\ pc["W"] = "idle" /\ newday
    /\ Lock("W")
    /\ wlogFile' = (wlogFile /\ ~wlogOpen)
    /\ wlogOpen' = FALSE
    /\ Goto("W", "savelock")
    /\ UNCHANGED <<diskVars, mem, ridx, req, phase, histVars>>

\* mutation: wlog_lock is not released
WorkEndLocked ==
    /\ pc["W"] = "finish"
    /\ newday' = FALSE
    /\ Goto("W", "idle")
    /\ UNCHANGED <<lock, diskVars, mem, wlogVars, ridx, req, phase, acked, flight, nops, ncrash>>

WorkEnd ==
    /\ pc["W"] = "finish"
    /\ Unlock("W")
    /\ newday' = FALSE
    /\ Goto("W", "idle")
    /\ UNCHANGED <<diskVars, mem, wlogVars, ridx, req, phase, acked, flight, nops, ncrash>>

---------------------------------------------------------------------------
(* A crash of the server                                                   *)

Windows ==
    {w \in {"save", "pack"} :
        \E t \in Threads :
            pc[t] \in IF w = "save" THEN {"index", "entries", "tail"} ELSE {"create", "rewrite"}}

\* R has come to write a record and may leave a part of it in the file
HalfWritten == pc["R"] = "wlog" /\ CanLock("R") /\ (~wlogOpen \/ wlogFile)

Crash ==
    /\ phase = "serve" /\ ncrash < MaxCrash
    /\ (IF Windows = {} THEN {"serve"} ELSE Windows) \subseteq CrashIn
    /\ torn' \in {torn} \cup {x \in {TRUE} : TornWrites /\ HalfWritten}
    /\ ncrash' = ncrash + 1
    /\ flight' = req /\ req' = NoReq
    /\ mem' = Empty /\ ridx' = Empty
    /\ wlogOpen' = FALSE /\ wlogFile' = FALSE
    /\ lock' = [owner |-> "none", depth |-> 0]
    /\ pc' = [t \in Threads |-> "idle"]
    /\ phase' = "load"
    /\ UNCHANGED <<logv, logAdmin, sdbVars, acked, nops, newday>>

---------------------------------------------------------------------------
Execute == WriteLog \/ Apply \/ Reply \/ Save("R") \/ Pack("R")

Work == WorkBegin \/ WorkEnd \/ Save("W") \/ Pack("W")

Next ==
    \/ LoadDisk \/ ReplayLog \/ Serve
    \/ \E op \in Ops, k \in Keys : Receive(op, k)
    \/ Execute
    \/ Work
    \/ Crash

Spec == Init /\ [][Next]_vars

(***************************************************************************)
(* Fairness: the start and the two threads run; commands and crashes come  *)
(* when they come.                                                         *)
(***************************************************************************)
FairSpec ==
    /\ Spec
    /\ WF_vars(LoadDisk) /\ WF_vars(ReplayLog) /\ WF_vars(Serve)
    /\ WF_vars(Execute) /\ WF_vars(Work)

---------------------------------------------------------------------------
(* Properties                                                              *)

\* What reading the disk gives after a crash now, when the sdb file is whole
Saved == IF sdbFile = "whole" THEN sdb ELSE Empty
Recoverable == [k \in Keys |-> IF logv[k] # NoRec THEN logv[k] ELSE Saved[k]]

\* README.MD: after a power loss the sdb file and then the log are read, to
\* restore the database as it was.  When LoadDisk and ReplayLog are done every
\* key has its last acknowledged value, or that of the interrupted command.
Recovered ==
    phase = "ready" =>
        \A k \in Keys :
            \/ mem[k] = acked[k]
            \/ flight.op \in {"set", "del"} /\ flight.key = k /\ mem[k] = flight.val

\* README.MD: a command first goes to the log and, when that has succeeded, to
\* the database.  While serving, what Apply puts into the database is the last
\* record of that key in a log that has an open file and no torn record.
WriteAhead ==
    [][\A k \in Keys :
          phase = "serve" /\ phase' = "serve" /\ mem'[k] # mem[k] =>
              logv[k] = mem'[k] \/ ~wlogFile \/ torn]_vars

\* The comment in _sisdb_server_save: save memory to disk and clear the log.
\* The log is deleted (MoveLog) only when the sdb file holds all it says.
KeepsWhatItDeletes ==
    \A k \in Keys : logv[k] # NoRec /\ logv'[k] = NoRec => Saved'[k] = logv[k]
DeletedOnlyIfSaved == [][KeepsWhatItDeletes]_vars

\* Writes are durable: the log and the recovery implement DurableStore.
Stage == CASE pc["R"] = "wlog"  -> "accepted"
           [] pc["R"] = "apply" -> "logged"
           [] pc["R"] = "reply" -> "applied"
           [] OTHER             -> "none"
View == IF phase = "serve" THEN mem ELSE Empty
Store == INSTANCE DurableStore WITH
            db <- Recoverable, view <- View, stage <- Stage,
            key <- req.key, val <- req.val, up <- phase = "serve"
ImplementsStore == Store!StoreSpec

\* A command the server has accepted is answered, unless the server crashes.
CommandReturns == pc["R"] # "idle" ~> pc["R"] = "idle"

\* The daily save ends, unless the server crashes.
WorkCompletes == pc["W"] # "idle" ~> pc["W"] = "idle"
=============================================================================
