--------------------------- MODULE Dataset_proofs ---------------------------
(***************************************************************************)
(* Theorems about the dataset of a server: its durability (SisdbWal), for  *)
(* every set of keys and every bound on the commands and the crashes, and  *)
(* its collects (SisdbCollect), for all tables, times, records and ranges. *)
(***************************************************************************)
EXTENDS SisdbWal, SisdbCollect, SequenceTheorems, WellFoundedInduction, TLAPS

-----------------------------------------------------------------------------
(* SisdbWal.                                                               *)

(***************************************************************************)
(* Who holds wlog_lock, and how often, follows from where R and W are.  A  *)
(* lock that cannot be taken twice stops W at its second call.             *)
(***************************************************************************)
InSave == {"data", "index", "entries", "tail", "unlock"}
InPack == {"aside", "create", "rewrite", "packunlock"}
Holds  == InSave \cup InPack

LockInv ==
    /\ lock.owner = "none" <=> lock.depth = 0
    /\ lock.owner = "R" <=> pc["R"] \in Holds
    /\ lock.owner = "R" => lock.depth = 1
    /\ lock.owner = "W" <=> pc["W"] # "idle"
    /\ pc["W"] \in Holds => lock.depth = 2
    /\ lock.owner = "W" /\ pc["W"] \notin Holds => lock.depth = 1
    /\ pc["W"] \notin {"wlog", "apply", "reply"}
    /\ pc["R"] # "finish"
    /\ ~Recursive => pc["W"] \in {"idle", "savelock"}
    /\ Recursive => pc["R"] \in {"idle", "wlog", "apply", "reply"}
    /\ pc["R"] # "idle" => req.op \in Ops
    /\ phase # "serve" => pc["R"] = "idle" /\ pc["W"] = "idle"

IInv == TypeOK /\ LockInv

LEMMA NoReqType == NoReq \in Request
<1>1. (CHOOSE k \in Keys : TRUE) \in Keys
  BY WalAssumption
<1> QED
  BY <1>1, WalAssumption DEF NoReq, Request, Value

LEMMA InitIInv == Init => IInv
<1> SUFFICES ASSUME Init PROVE IInv
  OBVIOUS
<1> USE WalAssumption, NoReqType DEF Init, Value, Empty, Threads, Pcs, NoRec
<1>1. TypeOK
  <2>1. newday \in BOOLEAN
    BY Zenon
  <2>2. /\ logAdmin \in BOOLEAN /\ torn \in BOOLEAN
        /\ wlogOpen \in BOOLEAN /\ wlogFile \in BOOLEAN
    OBVIOUS
  <2>3. /\ logv \in [Keys -> Value \cup {NoRec}]
        /\ sdb \in [Keys -> Value] /\ mem \in [Keys -> Value]
        /\ ridx \in [Keys -> Value] /\ acked \in [Keys -> Value]
        /\ safe \in [sdb : [Keys -> Value], file : {"none", "noindex", "notail", "whole"}]
    OBVIOUS
  <2>4. /\ lock \in [owner : Threads \cup {"none"}, depth : 0 .. 2]
        /\ pc \in [Threads -> Pcs]
        /\ req \in Request /\ flight \in Request
        /\ nops \in 0 .. MaxOps /\ ncrash \in 0 .. MaxCrash
    OBVIOUS
  <2>5. /\ sdbFile \in {"none", "noindex", "notail", "whole"}
        /\ phase \in {"load", "replay", "ready", "serve"}
    OBVIOUS
  <2> HIDE DEF Init, Value, Threads, Pcs
  <2> QED
    BY <2>1, <2>2, <2>3, <2>4, <2>5 DEF TypeOK
<1>2. LockInv
  BY DEF LockInv, Holds, InSave, InPack
<1> QED
  BY <1>1, <1>2 DEF IInv

LEMMA StepIInv == IInv /\ [Next]_vars => IInv'
<1> SUFFICES ASSUME IInv, [Next]_vars PROVE IInv'
  OBVIOUS
<1> USE WalAssumption DEF IInv, TypeOK, LockInv, Holds, InSave, InPack, Value, Empty,
        Threads, Pcs, NoRec, Request, logVars, sdbVars, diskVars, wlogVars, histVars, Goto,
        CanLock, Lock, Unlock
<1>1. CASE LoadDisk
  BY <1>1 DEF LoadDisk, Loads
<1>2. CASE ReplayLog
  BY <1>2 DEF ReplayLog
<1>3. CASE Serve
  BY <1>3, NoReqType DEF Serve
<1>4. ASSUME NEW op \in Ops, NEW k \in Keys, Receive(op, k) PROVE IInv'
  BY <1>4 DEF Receive
<1>5. CASE WriteLog
  BY <1>5 DEF WriteLog
<1>6. CASE Apply
  BY <1>6 DEF Apply
<1>7. CASE Reply
  BY <1>7, NoReqType DEF Reply
<1>8. ASSUME NEW t \in Threads, SaveLock(t) PROVE IInv'
  BY <1>8 DEF SaveLock
<1>9. ASSUME NEW t \in Threads, SaveNothing(t) \/ SaveFails(t) PROVE IInv'
  BY <1>9 DEF SaveNothing, SaveFails
<1>10. ASSUME NEW t \in Threads, SaveData(t) PROVE IInv'
  BY <1>10 DEF SaveData
<1>11. ASSUME NEW t \in Threads, SaveDropIndex(t) \/ SaveIndex(t) \/ SaveTail(t)
       PROVE  IInv'
  BY <1>11 DEF SaveDropIndex, SaveIndex, SaveTail
<1>12. ASSUME NEW t \in Threads, SaveUnlock(t) PROVE IInv'
  BY <1>12 DEF SaveUnlock
<1>13. ASSUME NEW t \in Threads, MoveLog(t) PROVE IInv'
  <2>1. PICK next \in IF t = "R" THEN {"reply"} ELSE {"packlock", "finish"} : Goto(t, next)
    BY <1>13 DEF MoveLog
  <2>2. /\ t = "R" => next = "reply"
        /\ t = "W" => next \in {"packlock", "finish"}
    BY <2>1
  <2>3. TypeOK'
    <3>1. logv' \in [Keys -> Value \cup {NoRec}]
      BY <1>13 DEF MoveLog
    <3>2. logAdmin' \in BOOLEAN /\ torn' \in BOOLEAN /\ wlogFile' \in BOOLEAN
      BY <1>13 DEF MoveLog
    <3>3. wlogOpen' \in BOOLEAN /\ newday' \in BOOLEAN
      BY <1>13 DEF MoveLog
    <3>4. UNCHANGED <<sdbVars, mem, ridx, req, phase, histVars, lock>>
      BY <1>13 DEF MoveLog
    <3>5. pc' \in [Threads -> Pcs]
      BY <2>1, <2>2
    <3> QED
      BY <3>1, <3>2, <3>3, <3>4, <3>5
  <2>4. LockInv'
    <3>1. pc' = [pc EXCEPT ![t] = next] /\ pc[t] = "move"
      BY <1>13, <2>1 DEF MoveLog
    <3>2. UNCHANGED <<lock, req, phase>>
      BY <1>13 DEF MoveLog
    <3> QED
      BY <2>2, <3>1, <3>2
  <2> QED
    BY <2>3, <2>4
<1>14. ASSUME NEW t \in Threads, PackLock(t) PROVE IInv'
  BY <1>14 DEF PackLock
<1>15. ASSUME NEW t \in Threads, PackAside(t) \/ PackCreate(t) PROVE IInv'
  BY <1>15 DEF PackAside, PackCreate
<1>16. ASSUME NEW t \in Threads, PackRewrite(t) \/ PackUndo(t) PROVE IInv'
  BY <1>16 DEF PackRewrite, PackUndo
<1>17. ASSUME NEW t \in Threads, PackUnlock(t) PROVE IInv'
  BY <1>17 DEF PackUnlock
<1>18. CASE WorkBegin
  <2>1. wlogFile' \in BOOLEAN
    BY <1>18, Zenon DEF WorkBegin
  <2> QED
    <3>1. TypeOK'
      <4>1. wlogOpen' \in BOOLEAN /\ newday' \in BOOLEAN
        BY <1>18 DEF WorkBegin
      <4>2. /\ UNCHANGED <<diskVars, mem, ridx, req, phase, histVars>>
            /\ lock' \in [owner : Threads \cup {"none"}, depth : 0 .. 2]
            /\ pc' \in [Threads -> Pcs]
        BY <1>18 DEF WorkBegin
      <4> QED
        BY <2>1, <4>1, <4>2
    <3>2. LockInv'
      BY <1>18 DEF WorkBegin
    <3> QED
      BY <3>1, <3>2
<1>19. CASE WorkEnd
  <2>1. TypeOK'
    <3>1. newday' \in BOOLEAN
      BY <1>19, Zenon DEF WorkEnd
    <3> QED
      BY <1>19, <3>1 DEF WorkEnd
  <2>2. LockInv'
    BY <1>19 DEF WorkEnd
  <2> QED
    BY <2>1, <2>2
<1>20. CASE Crash
  <2>1. torn' \in BOOLEAN
    BY <1>20 DEF Crash
  <2>2. /\ lock' = [owner |-> "none", depth |-> 0]
        /\ pc' = [t \in Threads |-> "idle"]
        /\ phase' = "load"
    BY <1>20, Zenon DEF Crash
  <2>3. LockInv'
    BY <2>2
  <2>4. TypeOK'
    <3>1. wlogOpen' \in BOOLEAN /\ wlogFile' \in BOOLEAN
      BY <1>20 DEF Crash
    <3>2. /\ flight' \in Request /\ req' \in Request
          /\ mem' \in [Keys -> Value] /\ ridx' \in [Keys -> Value]
          /\ ncrash' \in 0 .. MaxCrash
      BY <1>20, NoReqType DEF Crash
    <3>3. UNCHANGED <<logv, logAdmin, sdbVars, acked, nops, newday>>
      BY <1>20 DEF Crash
    <3>4. /\ lock' \in [owner : Threads \cup {"none"}, depth : 0 .. 2]
          /\ pc' \in [Threads -> Pcs]
      BY <2>2
    <3> QED
      BY <2>1, <2>2, <3>1, <3>2, <3>3, <3>4
  <2> QED
    BY <2>3, <2>4
<1>21. CASE UNCHANGED vars
  BY <1>21 DEF vars
<1> QED
  BY <1>1, <1>2, <1>3, <1>4, <1>5, <1>6, <1>7, <1>8, <1>9, <1>10, <1>11, <1>12, <1>13,
     <1>14, <1>15, <1>16, <1>17, <1>18, <1>19, <1>20, <1>21
     DEF Next, Execute, Work, Save, Pack, Threads

LEMMA Inductive == Spec => []IInv
<1> QED
  BY InitIInv, StepIInv, PTL DEF Spec

\* Type correctness of the disk, the memory and the two threads.
THEOREM TypeCorrect == Spec => []TypeOK
<1>1. IInv => TypeOK
  BY DEF IInv
<1> QED
  BY <1>1, Inductive, PTL

---------------------------------------------------------------------------
(***************************************************************************)
(* Write-ahead.  Between WriteLog and Apply the record stays the last one  *)
(* of its key: with a lock that cannot be taken twice nobody else gets to  *)
(* delete the log, and W closes it at most.                                *)
(***************************************************************************)
AheadInv ==
    pc["R"] = "apply" => logv[req.key] = req.val \/ ~wlogFile \/ torn

LEMMA InitAhead == Init => AheadInv
<1> QED
  BY DEF Init, AheadInv, Threads

LEMMA StepAhead ==
    ASSUME ~Recursive
    PROVE  IInv /\ AheadInv /\ [Next]_vars => AheadInv'
<1> SUFFICES ASSUME IInv, AheadInv, [Next]_vars PROVE AheadInv'
  OBVIOUS
<1> USE WalAssumption DEF IInv, TypeOK, LockInv, Holds, InSave, InPack, AheadInv,
        Threads, Pcs, Request, logVars, sdbVars, diskVars, wlogVars, histVars, Goto
<1>1. CASE LoadDisk \/ ReplayLog \/ Serve
  BY <1>1 DEF LoadDisk, ReplayLog, Serve
<1>2. ASSUME NEW op \in Ops, NEW k \in Keys, Receive(op, k) PROVE AheadInv'
  BY <1>2 DEF Receive
<1>3. CASE WriteLog
  BY <1>3 DEF WriteLog
<1>4. CASE Apply \/ Reply
  BY <1>4 DEF Apply, Reply
<1>5. ASSUME NEW t \in Threads, Save(t) PROVE AheadInv'
  BY <1>5 DEF Save, SaveLock, SaveNothing, SaveFails, SaveData, SaveDropIndex, SaveIndex,
              SaveTail, SaveUnlock, MoveLog
<1>6. ASSUME NEW t \in Threads, Pack(t) PROVE AheadInv'
  BY <1>6 DEF Pack, PackLock, PackAside, PackCreate, PackRewrite, PackUndo, PackUnlock
<1>7. CASE WorkBegin \/ WorkEnd
  BY <1>7 DEF WorkBegin, WorkEnd
<1>8. CASE Crash
  BY <1>8 DEF Crash
<1>9. CASE UNCHANGED vars
  BY <1>9 DEF vars
<1> QED
  BY <1>1, <1>2, <1>3, <1>4, <1>5, <1>6, <1>7, <1>8, <1>9 DEF Next, Execute, Work

\* With a lock that cannot be taken twice, what is applied while serving has
\* been logged before.
THEOREM LoggedFirst ==
    ASSUME ~Recursive
    PROVE  Spec => WriteAhead
<1> DEFINE Ahead(k) ==
        phase = "serve" /\ phase' = "serve" /\ mem'[k] # mem[k] =>
            logv[k] = mem'[k] \/ ~wlogFile \/ torn
<1>1. ASSUME IInv, AheadInv, [Next]_vars PROVE \A k \in Keys : Ahead(k)
  <2> USE <1>1
  <2>1. CASE Apply
    BY <2>1 DEF Apply, AheadInv, IInv, TypeOK
  <2>2. CASE LoadDisk \/ ReplayLog \/ Serve \/ Crash
    BY <2>2 DEF LoadDisk, ReplayLog, Serve, Crash
  <2>3. CASE \E op \in Ops, k \in Keys : Receive(op, k)
    BY <2>3 DEF Receive
  <2>4. CASE WriteLog \/ Reply \/ WorkBegin \/ WorkEnd
    BY <2>4 DEF WriteLog, Reply, WorkBegin, WorkEnd
  <2>5. CASE \E t \in Threads : Save(t)
    BY <2>5 DEF Save, SaveLock, SaveNothing, SaveFails, SaveData, SaveDropIndex, SaveIndex,
                SaveTail, SaveUnlock, MoveLog
  <2>6. CASE \E t \in Threads : Pack(t)
    BY <2>6 DEF Pack, PackLock, PackAside, PackCreate, PackRewrite, PackUndo, PackUnlock
  <2>7. CASE UNCHANGED vars
    BY <2>7 DEF vars
  <2> QED
    BY <2>1, <2>2, <2>3, <2>4, <2>5, <2>6, <2>7 DEF Next, Execute, Work, Threads
<1>2. IInv /\ AheadInv /\ [Next]_vars => AheadInv'
  BY StepAhead
<1>3. IInv /\ AheadInv /\ [Next]_vars =>
        [\A k \in Keys :
            phase = "serve" /\ phase' = "serve" /\ mem'[k] # mem[k] =>
                logv[k] = mem'[k] \/ ~wlogFile \/ torn]_vars
  BY <1>1
<1> QED
  BY <1>2, <1>3, InitAhead, Inductive, PTL DEF Spec, WriteAhead

---------------------------------------------------------------------------
(***************************************************************************)
(* The log alone.  Without saves, packs and torn records the log is all    *)
(* there is on disk, it stays open while the server runs, and the database *)
(* differs from it at most in the key of a logged command that is still to *)
(* be applied.                                                             *)
(***************************************************************************)
LogOnly == Ops \subseteq {"set", "del"} /\ ~Daily /\ ~TornWrites

Rec(k) == IF logv[k] # NoRec THEN logv[k] ELSE 0

\* the command in progress, or the one a crash has interrupted, is on k
Pending(k) == pc["R"] \in {"apply", "reply"} /\ req.key = k
Cut(k) == flight.op \in {"set", "del"} /\ flight.key = k /\ flight.val = Rec(k)

LogInv ==
    /\ ~newday /\ ~torn /\ ~logAdmin
    /\ sdb = Empty /\ sdbFile = "none"
    /\ wlogFile <=> wlogOpen
    /\ pc["W"] = "idle" /\ pc["R"] \in {"idle", "wlog", "apply", "reply"}
    /\ pc["R"] = "idle" => req = NoReq
    /\ pc["R"] \in {"apply", "reply"} => logv[req.key] = req.val
    /\ phase \in {"load", "replay"} => mem = Empty
    /\ phase = "ready" => \A k \in Keys : mem[k] = Rec(k)
    /\ phase = "serve" => \A k \in Keys :
         /\ mem[k] = Rec(k) \/ (pc["R"] = "apply" /\ req.key = k)
         /\ acked[k] = Rec(k) \/ Pending(k)
    /\ phase # "serve" => \A k \in Keys : acked[k] = Rec(k) \/ Cut(k)

LEMMA InitLog == ASSUME LogOnly PROVE Init => LogInv
<1> SUFFICES ASSUME Init PROVE LogInv
  OBVIOUS
<1>1. ~newday /\ ~torn /\ ~logAdmin /\ (wlogFile <=> wlogOpen)
  BY Zenon DEF Init, LogOnly
<1>2. /\ sdb = Empty /\ sdbFile = "none" /\ phase = "load" /\ mem = Empty /\ req = NoReq
      /\ pc["W"] = "idle" /\ pc["R"] = "idle"
      /\ \A k \in Keys : acked[k] = Rec(k)
  BY DEF Init, Threads, Empty, Rec
<1> QED
  BY <1>1, <1>2 DEF LogInv

LEMMA StepLog ==
    ASSUME LogOnly
    PROVE  IInv /\ LogInv /\ [Next]_vars => LogInv'
<1> SUFFICES ASSUME IInv, LogInv, [Next]_vars PROVE LogInv'
  OBVIOUS
<1> USE WalAssumption DEF LogOnly, IInv, TypeOK, LockInv, Holds, InSave, InPack, LogInv,
        Rec, Pending, Cut, NoRec, Empty, Value, Threads, Pcs, Request, logVars, sdbVars,
        diskVars, wlogVars, histVars, Goto
<1>1. CASE LoadDisk
  BY <1>1 DEF LoadDisk, Loads
<1>2. CASE ReplayLog
  BY <1>2 DEF ReplayLog
<1>3. CASE Serve
  BY <1>3 DEF Serve
<1>4. ASSUME NEW op \in Ops, NEW k \in Keys, Receive(op, k) PROVE LogInv'
  BY <1>4 DEF Receive
<1>5. CASE WriteLog
  BY <1>5, ZenonT(40) DEF WriteLog
<1>6. CASE Apply
  BY <1>6 DEF Apply
<1>7. CASE Reply
  BY <1>7 DEF Reply
<1>8. ASSUME NEW t \in Threads, Save(t) PROVE LogInv'
  BY <1>8 DEF Save, SaveLock, SaveNothing, SaveFails, SaveData, SaveDropIndex, SaveIndex,
              SaveTail, SaveUnlock, MoveLog
<1>9. ASSUME NEW t \in Threads, Pack(t) PROVE LogInv'
  BY <1>9 DEF Pack, PackLock, PackAside, PackCreate, PackRewrite, PackUndo, PackUnlock
<1>10. CASE WorkBegin \/ WorkEnd
  BY <1>10 DEF WorkBegin, WorkEnd
<1>11. CASE Crash
  <2>1. ~torn' /\ (wlogFile' <=> wlogOpen')
    <3>1. torn' = torn
      BY <1>11 DEF Crash
    <3>2. ~wlogFile' /\ ~wlogOpen'
      BY <1>11, Zenon DEF Crash
    <3> QED
      BY <3>1, <3>2
  <2>2. /\ UNCHANGED <<logv, logAdmin, sdb, sdbFile, acked, newday>>
        /\ flight' = req /\ req' = NoReq /\ mem' = Empty /\ phase' = "load"
        /\ pc' = [t \in Threads |-> "idle"] /\ phase = "serve"
    BY <1>11 DEF Crash
  <2>3. \A k \in Keys : acked'[k] = Rec(k)' \/ Cut(k)'
    BY <2>2
  <2> QED
    BY <2>1, <2>2, <2>3
<1>12. CASE UNCHANGED vars
  BY <1>12 DEF vars
<1> QED
  BY <1>1, <1>2, <1>3, <1>4, <1>5, <1>6, <1>7, <1>8, <1>9, <1>10, <1>11, <1>12
     DEF Next, Execute, Work

\* Recovery from the log alone brings back every acknowledged write, and
\* besides them at most the interrupted one.
THEOREM LogRecovers ==
    ASSUME LogOnly
    PROVE  Spec => []Recovered
<1>1. Init => LogInv
  BY InitLog
<1>2. IInv /\ LogInv /\ [Next]_vars => LogInv'
  BY StepLog
<1>3. IInv /\ LogInv => Recovered
  BY ZenonT(40) DEF LogInv, Recovered, Cut, Rec, IInv, TypeOK
<1> QED
  BY <1>1, <1>2, <1>3, Inductive, PTL DEF Spec

LEMMA StoreStep ==
    ASSUME LogOnly, IInv, LogInv, [Next]_vars
    PROVE  Store!StoreNext \/ UNCHANGED <<Recoverable, View, Stage, req.key, req.val,
                                          phase = "serve">>
<1> USE WalAssumption DEF LogOnly
<1>1. Recoverable = [k \in Keys |-> Rec(k)]
  BY DEF LogInv, Recoverable, Saved, Rec, Empty
<1>2. LogInv'
  BY StepLog
<1>3. Recoverable' = [k \in Keys |-> Rec(k)']
  BY <1>2 DEF LogInv, Recoverable, Saved, Rec, Empty
<1>4. IInv'
  BY StepIInv
<1>5. req.key \in Keys /\ req.val \in 0 .. MaxOps /\ req'.key \in Keys /\ req'.val \in 0 .. MaxOps
  BY <1>4 DEF IInv, TypeOK, Request, Value
<1>6. NoReq.val = 0
  BY DEF NoReq
<1>7. CASE LoadDisk \/ ReplayLog
  <2>1. /\ UNCHANGED <<logv, req, pc>> /\ phase # "serve" /\ phase' # "serve"
    BY <1>7 DEF LoadDisk, ReplayLog, diskVars, logVars
  <2> QED
    BY <2>1, <1>1, <1>3 DEF View, Stage, Rec
<1>8. CASE Serve
  <2>1. /\ UNCHANGED <<logv, req, pc, mem>> /\ phase = "ready" /\ phase' = "serve"
    BY <1>8 DEF Serve, diskVars, logVars
  <2>2. mem = Recoverable
    BY <2>1, <1>1 DEF LogInv, IInv, TypeOK
  <2>3. Store!Recover
    BY <2>1, <2>2, <1>1, <1>3 DEF Store!Recover, View, Stage, Rec
  <2> QED
    BY <2>3 DEF Store!StoreNext
<1>9. CASE \E op \in Ops, k \in Keys : Receive(op, k)
  <2>1. /\ UNCHANGED <<logv, mem, phase>> /\ phase = "serve"
        /\ pc["R"] = "idle" /\ pc'["R"] = "wlog"
    BY <1>9 DEF Receive, diskVars, logVars, Goto, IInv, TypeOK, Threads
  <2>2. Store!Accept
    BY <2>1, <1>1, <1>3, <1>5 DEF Store!Accept, View, Stage, Rec
  <2> QED
    BY <2>2 DEF Store!StoreNext
<1>10. CASE WriteLog
  <2>1. /\ UNCHANGED <<mem, req, phase>> /\ phase = "serve" /\ pc["R"] = "wlog"
    BY <1>10 DEF WriteLog, IInv, LockInv
  <2>2. req.op \in {"set", "del"}
    BY <2>1 DEF IInv, LockInv
  <2>3. logv' = [logv EXCEPT ![req.key] = req.val] /\ pc'["R"] = "apply"
    BY <1>10, <2>2 DEF WriteLog, Goto, IInv, TypeOK, Threads, LogInv
  <2>4. Recoverable' = [Recoverable EXCEPT ![req.key] = req.val]
    BY <2>3, <1>1, <1>3, <1>5 DEF Rec, IInv, TypeOK, NoRec
  <2>5. Store!Commit
    BY <2>1, <2>3, <2>4 DEF Store!Commit, View, Stage
  <2> QED
    BY <2>5 DEF Store!StoreNext
<1>11. CASE Apply
  <2>1. /\ UNCHANGED <<logv, req, phase>> /\ phase = "serve"
        /\ pc["R"] = "apply" /\ pc'["R"] = "reply"
        /\ mem' = [mem EXCEPT ![req.key] = req.val]
    BY <1>11 DEF Apply, diskVars, logVars, Goto, IInv, TypeOK, LockInv, Threads
  <2>2. Store!Show
    BY <2>1, <1>1, <1>3 DEF Store!Show, View, Stage, Rec
  <2> QED
    BY <2>2 DEF Store!StoreNext
<1>12. CASE Reply
  <2>1. /\ UNCHANGED <<logv, mem, phase>> /\ phase = "serve" /\ req' = NoReq
        /\ pc["R"] = "reply" /\ pc'["R"] = "idle"
    BY <1>12 DEF Reply, diskVars, logVars, Goto, IInv, TypeOK, LockInv, Threads
  <2>2. Store!Answer
    BY <2>1, <1>1, <1>3, <1>5, <1>6 DEF Store!Answer, View, Stage, Rec
  <2> QED
    BY <2>2 DEF Store!StoreNext
<1>13. CASE Crash
  <2>1. /\ logv' = logv /\ phase = "serve" /\ phase' = "load" /\ req' = NoReq
        /\ pc'["R"] = "idle"
    BY <1>13 DEF Crash, Threads
  <2>2. Store!Fail
    BY <2>1, <1>1, <1>3, <1>5, <1>6 DEF Store!Fail, Store!Absent, View, Stage, Rec, Empty
  <2> QED
    BY <2>2 DEF Store!StoreNext
<1>14. ASSUME NEW t \in Threads, Save(t) \/ Pack(t) PROVE FALSE
  BY <1>14 DEF LogInv, Threads, Save, SaveLock, SaveNothing, SaveFails, SaveData,
               SaveDropIndex, SaveIndex, SaveTail, SaveUnlock, MoveLog, Pack, PackLock,
               PackAside, PackCreate, PackRewrite, PackUndo, PackUnlock
<1>15. ~WorkBegin /\ ~WorkEnd
  BY DEF LogInv, WorkBegin, WorkEnd
<1>16. CASE UNCHANGED vars
  <2>1. UNCHANGED <<logv, req, phase, pc, mem>>
    BY <1>16 DEF vars, diskVars, logVars
  <2> QED
    BY <2>1, <1>1, <1>3 DEF View, Stage, Rec
<1> QED
  BY <1>7, <1>8, <1>9, <1>10, <1>11, <1>12, <1>13, <1>14, <1>15, <1>16
     DEF Next, Execute, Work, Threads

\* Log and recovery implement the durable store.
THEOREM LogImplementsStore ==
    ASSUME LogOnly
    PROVE  Spec => ImplementsStore
<1>1. Init => Store!StoreInit
  <2> SUFFICES ASSUME Init PROVE Store!StoreInit
    OBVIOUS
  <2>1. /\ phase = "load" /\ req = NoReq /\ pc["R"] = "idle"
        /\ \A k \in Keys : Rec(k) = 0
    BY DEF Init, Threads, Rec
  <2>2. Recoverable = Empty
    BY <2>1, InitLog DEF Recoverable, Saved, LogInv, Empty, Rec
  <2>3. NoReq.key \in Keys /\ NoReq.val = 0
    BY WalAssumption DEF NoReq
  <2> QED
    BY <2>1, <2>2, <2>3 DEF Store!StoreInit, Store!Absent, View, Stage, Empty
<1>2. IInv /\ LogInv /\ [Next]_vars => [Store!StoreNext]_<<Recoverable, View, Stage, req.key,
                                                    req.val, phase = "serve">>
  BY StoreStep
<1>3. IInv /\ LogInv /\ [Next]_vars => [Store!StoreNext]_Store!storeVars
  BY <1>2 DEF Store!storeVars
<1>4. Init => LogInv
  BY InitLog
<1>5. IInv /\ LogInv /\ [Next]_vars => LogInv'
  BY StepLog
<1> QED
  BY <1>1, <1>3, <1>4, <1>5, Inductive, PTL DEF Spec, ImplementsStore, Store!StoreSpec

---------------------------------------------------------------------------
(***************************************************************************)
(* Saving.  If no key is deleted and no crash strikes while the sdb file   *)
(* is being written, that file is whole or absent whenever a save begins,  *)
(* the database holds what the log says, and so the save holds it too by   *)
(* the time the log goes.                                                  *)
(***************************************************************************)
OnlySaves ==
    /\ Ops \subseteq {"set", "save", "pack"} /\ CrashIn \subseteq {"serve"}
    /\ ~Daily /\ ~TornWrites /\ ~Recursive

Writing == {"index", "entries", "tail", "create", "rewrite"}

SaveInv ==
    /\ ~newday /\ ~torn /\ pc["W"] = "idle"
    /\ wlogOpen /\ ~wlogFile => \A k \in Keys : logv[k] = NoRec
    /\ req.op = "set" => req.val > 0
    /\ pc["R"] = "apply" => req.op = "set" /\ logv[req.key] \in {req.val, NoRec}
    /\ safe.file \in {"none", "whole"}
    /\ pc["R"] \notin Writing => sdbFile \in {"none", "whole"}
    /\ \A k \in Keys : logv[k] # NoRec =>
         /\ logv[k] > 0
         /\ phase \in {"ready", "serve"} =>
              mem[k] = logv[k] \/ (pc["R"] = "apply" /\ req.key = k)
         /\ pc["R"] \in {"index", "entries"} => ridx[k] = logv[k]
         /\ pc["R"] \in {"tail", "unlock", "move"} => sdb[k] = logv[k]
         /\ pc["R"] \in {"unlock", "move"} => sdbFile = "whole"

LEMMA InitSave == ASSUME OnlySaves PROVE Init => SaveInv
<1> SUFFICES ASSUME Init PROVE SaveInv
  OBVIOUS
<1>1. ~newday /\ ~torn /\ ~wlogOpen
  BY Zenon DEF Init, OnlySaves
<1>2. /\ pc["W"] = "idle" /\ pc["R"] = "idle" /\ sdbFile = "none" /\ safe.file = "none"
      /\ req.op = "none" /\ \A k \in Keys : logv[k] = NoRec
  BY DEF Init, Threads, NoReq
<1> QED
  BY <1>1, <1>2 DEF SaveInv

LEMMA StepSave ==
    ASSUME OnlySaves
    PROVE  IInv /\ SaveInv /\ [Next]_vars => SaveInv'
<1> SUFFICES ASSUME IInv, SaveInv, [Next]_vars PROVE SaveInv'
  OBVIOUS
<1> USE WalAssumption DEF OnlySaves, IInv, TypeOK, LockInv, Holds, InSave, InPack, SaveInv,
        Writing, NoRec, Empty, Value, Threads, Pcs, Request, logVars, sdbVars, diskVars,
        wlogVars, histVars, Goto
<1>1. CASE LoadDisk
  BY <1>1 DEF LoadDisk, Loads
<1>2. CASE ReplayLog
  BY <1>2 DEF ReplayLog
<1>3. CASE Serve
  BY <1>3 DEF Serve
<1>4. ASSUME NEW op \in Ops, NEW k \in Keys, Receive(op, k) PROVE SaveInv'
  BY <1>4 DEF Receive
<1>5. CASE WriteLog
  <2>1. /\ phase = "serve" /\ UNCHANGED <<torn, sdb, sdbFile, safe, mem, ridx, req, phase, newday>>
        /\ pc["R"] = "wlog"
    BY <1>5 DEF WriteLog
  <2>2. CASE req.op = "set"
    <3>1. pc' = [pc EXCEPT !["R"] = "apply"]
      BY <1>5, <2>2 DEF WriteLog
    <3>2. CASE wlogOpen /\ ~wlogFile
      <4>1. logv' = logv
        BY <1>5, <3>2 DEF WriteLog
      <4> QED
        BY <2>1, <2>2, <3>1, <3>2, <4>1
    <3>3. CASE ~wlogOpen \/ wlogFile
      <4>1. logv' = [logv EXCEPT ![req.key] = req.val] /\ wlogFile'
        BY <1>5, <2>2, <3>3 DEF WriteLog
      <4> QED
        BY <2>1, <2>2, <3>1, <4>1
    <3> QED
      BY <3>2, <3>3
  <2>3. CASE req.op \in {"save", "pack"}
    <3>1. pc' = [pc EXCEPT !["R"] = IF req.op = "save" THEN "savelock" ELSE "packlock"]
      BY <1>5, <2>3 DEF WriteLog
    <3>2. logv' = logv
      BY <1>5, <2>3 DEF WriteLog
    <3>3. wlogOpen' /\ ~wlogFile' => wlogOpen /\ ~wlogFile
      BY <1>5 DEF WriteLog
    <3> QED
      BY <2>1, <2>3, <3>1, <3>2, <3>3
  <2> QED
    BY <2>1, <2>2, <2>3
<1>6. CASE Apply
  BY <1>6 DEF Apply
<1>7. CASE Reply
  BY <1>7 DEF Reply, NoReq
<1>8. ASSUME NEW t \in Threads, SaveLock(t) \/ SaveNothing(t) \/ SaveFails(t) PROVE SaveInv'
  BY <1>8 DEF SaveLock, SaveNothing, SaveFails
<1>9. ASSUME NEW t \in Threads, SaveData(t) PROVE SaveInv'
  BY <1>9 DEF SaveData
<1>10. ASSUME NEW t \in Threads, SaveDropIndex(t) \/ SaveIndex(t) \/ SaveTail(t)
       PROVE  SaveInv'
  BY <1>10 DEF SaveDropIndex, SaveIndex, SaveTail
<1>11. ASSUME NEW t \in Threads, SaveUnlock(t) PROVE SaveInv'
  BY <1>11 DEF SaveUnlock
<1>12. ASSUME NEW t \in Threads, MoveLog(t) PROVE SaveInv'
  BY <1>12 DEF MoveLog
<1>13. ASSUME NEW t \in Threads, PackLock(t) \/ PackAside(t) \/ PackCreate(t) PROVE SaveInv'
  BY <1>13 DEF PackLock, PackAside, PackCreate
<1>14. ASSUME NEW t \in Threads, PackRewrite(t) \/ PackUndo(t) \/ PackUnlock(t) PROVE SaveInv'
  BY <1>14 DEF PackRewrite, PackUndo, PackUnlock
<1>15. CASE WorkBegin \/ WorkEnd
  BY <1>15 DEF WorkBegin, WorkEnd
<1>16. CASE Crash
  <2>1. /\ UNCHANGED <<logv, sdb, sdbFile, safe, newday, torn>>
        /\ ~wlogOpen' /\ req' = NoReq /\ phase' = "load"
        /\ pc' = [t \in Threads |-> "idle"]
    BY <1>16 DEF Crash
  <2>2. pc["R"] \notin Writing
    <3>1. Windows \subseteq {"save", "pack"}
      BY DEF Windows
    <3>2. (IF Windows = {} THEN {"serve"} ELSE Windows) \subseteq {"serve"}
      BY <1>16 DEF Crash
    <3>3. "save" \notin Windows /\ "pack" \notin Windows
      BY <3>1, <3>2
    <3>4. ASSUME pc["R"] \in Writing PROVE "save" \in Windows \/ "pack" \in Windows
      BY <3>4 DEF Windows
    <3> QED
      BY <3>3, <3>4
  <2> QED
    BY <2>1, <2>2 DEF NoReq
<1>17. CASE UNCHANGED vars
  BY <1>17 DEF vars
<1> QED
  BY <1>1, <1>2, <1>3, <1>4, <1>5, <1>6, <1>7, <1>8, <1>9, <1>10, <1>11, <1>12, <1>13,
     <1>14, <1>15, <1>16, <1>17 DEF Next, Execute, Work, Save, Pack

\* Without deletions and without crashes in the middle of a save, the log is
\* deleted only when all it says has been saved.
THEOREM SavedBeforeDeleted ==
    ASSUME OnlySaves
    PROVE  Spec => DeletedOnlyIfSaved
<1> DEFINE Kept(k) == logv[k] # NoRec /\ logv'[k] = NoRec => Saved'[k] = logv[k]
<1>1. ASSUME IInv, SaveInv, [Next]_vars PROVE \A k \in Keys : Kept(k)
  <2> USE <1>1 DEF Threads
  <2>1. CASE \E t \in Threads : MoveLog(t)
    BY <2>1 DEF MoveLog, SaveInv, Saved, sdbVars
  <2>2. CASE WriteLog
    BY <2>2, WalAssumption DEF WriteLog, IInv, TypeOK, Request, Value, NoRec
  <2>3. CASE LoadDisk \/ ReplayLog \/ Serve \/ Crash \/ Apply \/ Reply
    BY <2>3 DEF LoadDisk, ReplayLog, Serve, Crash, Apply, Reply, diskVars, logVars
  <2>4. CASE (\E op \in Ops, k \in Keys : Receive(op, k)) \/ WorkBegin \/ WorkEnd
    BY <2>4 DEF Receive, WorkBegin, WorkEnd, diskVars, logVars
  <2>5. ASSUME NEW t \in Threads, Save(t), ~MoveLog(t) PROVE logv' = logv
    BY <2>5 DEF Save, SaveLock, SaveNothing, SaveFails, SaveData, SaveDropIndex, SaveIndex,
                SaveTail, SaveUnlock, diskVars, logVars
  <2>6. ASSUME NEW t \in Threads, Pack(t) PROVE logv' = logv
    BY <2>6 DEF Pack, PackLock, PackAside, PackCreate, PackRewrite, PackUndo, PackUnlock,
                diskVars, logVars
  <2>7. CASE UNCHANGED vars
    BY <2>7 DEF vars, diskVars, logVars
  <2> QED
    BY <2>1, <2>2, <2>3, <2>4, <2>5, <2>6, <2>7 DEF Next, Execute, Work
<1>2. IInv /\ SaveInv /\ [Next]_vars => [KeepsWhatItDeletes]_vars
  BY <1>1 DEF KeepsWhatItDeletes
<1>3. Init => SaveInv
  BY InitSave
<1>4. IInv /\ SaveInv /\ [Next]_vars => SaveInv'
  BY StepSave
<1> QED
  BY <1>2, <1>3, <1>4, Inductive, PTL DEF Spec, DeletedOnlyIfSaved

-----------------------------------------------------------------------------
(* SisdbCollect: least and greatest numbers.                               *)

LEMMA LeastNat ==
    ASSUME NEW T, T \subseteq Nat, T # {}
    PROVE  \E x \in T : \A y \in T : x <= y
<1>1. PICK x \in T : \A y \in T : ~ (<<y, x>> \in OpToRel(<, Nat))
  BY WFMin, NatLessThanWellFounded
<1>2. ASSUME NEW y \in T PROVE x <= y
  <2>1. y < x => <<y, x>> \in OpToRel(<, Nat)
    BY DEF OpToRel
  <2>2. x \in Nat /\ y \in Nat /\ ~(y < x)
    BY <1>1, <2>1
  <2> QED
    BY <2>2
<1> QED
  BY <1>2

LEMMA MaxIs ==
    ASSUME NEW S, S \subseteq Int, NEW x \in S, \A y \in S : y <= x
    PROVE  Max(S) = x
<1>1. /\ \A y \in S : x >= y
      /\ \A z \in S : (\A y \in S : z >= y) => z = x
  OBVIOUS
<1> QED
  BY <1>1 DEF Max

LEMMA MinIs ==
    ASSUME NEW S, S \subseteq Int, NEW x \in S, \A y \in S : x <= y
    PROVE  Min(S) = x
<1>1. /\ \A y \in S : x =< y
      /\ \A z \in S : (\A y \in S : z =< y) => z = x
  OBVIOUS
<1> QED
  BY <1>1 DEF Min

LEMMA MinOf ==
    ASSUME NEW S, S \subseteq Int, S # {}, NEW n \in Int, \A y \in S : n <= y
    PROVE  Min(S) \in S /\ \A y \in S : Min(S) <= y
<1> DEFINE T == {y - n : y \in S}
<1>1. T \subseteq Nat /\ T # {}
  <2>1. \A y \in S : y - n \in Nat
    OBVIOUS
  <2> QED
    BY <2>1
<1>2. PICK t \in T : \A u \in T : t <= u
  BY <1>1, LeastNat
<1>3. PICK x \in S : t = x - n
  BY <1>2
<1>4. \A y \in S : x <= y
  <2> TAKE y \in S
  <2>1. x - n <= y - n
    BY <1>2, <1>3
  <2> QED
    BY <2>1
<1> QED
  BY <1>4, MinIs

LEMMA MaxOf ==
    ASSUME NEW S, S \subseteq Int, S # {}, NEW n \in Int, \A y \in S : y <= n
    PROVE  Max(S) \in S /\ \A y \in S : y <= Max(S)
<1> DEFINE T == {n - y : y \in S}
<1>1. T \subseteq Nat /\ T # {}
  <2>1. \A y \in S : n - y \in Nat
    OBVIOUS
  <2> QED
    BY <2>1
<1>2. PICK t \in T : \A u \in T : t <= u
  BY <1>1, LeastNat
<1>3. PICK x \in S : t = n - x
  BY <1>2
<1>4. \A y \in S : y <= x
  <2> TAKE y \in S
  <2>1. n - x <= n - y /\ x \in Int /\ y \in Int
    BY <1>2, <1>3
  <2> QED
    BY <2>1
<1> QED
  BY <1>4, MaxIs

LEMMA MaxTwo ==
    ASSUME NEW x \in Int, NEW y \in Int PROVE Max({x, y}) = IF x > y THEN x ELSE y
  BY MaxIs

LEMMA MinTwo ==
    ASSUME NEW x \in Int, NEW y \in Int PROVE Min({x, y}) = IF x < y THEN x ELSE y
  BY MinIs

LEMMA Quotient ==
    ASSUME NEW a \in Nat, NEW b \in Nat, b > 0 PROVE a \div b \in Nat
  OBVIOUS

LEMMA QuotientInt ==
    ASSUME NEW a \in Int, NEW b \in Nat, b > 0 PROVE a \div b \in Int
  OBVIOUS

-----------------------------------------------------------------------------
(* A list in the order of its times, at positions that are not neighbours. *)

LEMMA InOrderThroughout ==
    ASSUME NEW l \in Seq([t : Nat, s : Rests]), Ascending(l),
           NEW i \in 1 .. Len(l), NEW j \in 1 .. Len(l), i <= j
    PROVE  l[i].t <= l[j].t
<1> DEFINE T == {k \in i .. Len(l) : ~(l[i].t <= l[k].t)}
<1>0. Len(l) \in Nat /\ \A k \in 1 .. Len(l) : l[k].t \in Nat
  <2>1. ASSUME NEW k \in 1 .. Len(l) PROVE l[k] \in [t : Nat, s : Rests]
    BY ElementOfSeq
  <2> QED
    BY <2>1, LenProperties
<1>1. ASSUME T # {} PROVE FALSE
  <2>1. T \subseteq Nat
    BY <1>0
  <2>2. PICK k \in T : \A m \in T : k <= m
    BY <1>1, <2>1, LeastNat
  <2>3. k # i /\ k \in i .. Len(l)
    BY <1>0, <2>2
  <2>4. k - 1 \in 1 .. Len(l) - 1 /\ k - 1 \in i .. Len(l) /\ (k - 1) + 1 = k /\ ~(k <= k - 1)
    BY <1>0, <2>3
  <2>5. l[i].t <= l[k - 1].t
    BY <2>2, <2>4
  <2>6. l[k - 1].t <= l[k].t
    BY <2>4 DEF Ascending
  <2>7. l[i].t \in Nat /\ l[k].t \in Nat /\ l[k - 1].t \in Nat
    BY <1>0, <2>3, <2>4
  <2>8. ~(l[i].t <= l[k].t)
    BY <2>2
  <2>9. \A a, b, c \in Nat : a <= b /\ b <= c => a <= c
    OBVIOUS
  <2> QED
    BY <2>5, <2>6, <2>7, <2>8, <2>9, Zenon
<1> QED
  BY <1>0, <1>1

-----------------------------------------------------------------------------
(* The collect as a search sees it.                                        *)

\* the index counts the records; where there is none no search begins
StepFits == step.count = IF HasIndex THEN Recs ELSE 0

Placed == Recs \in Nat /\ Positions = 0 .. Recs - 1 /\ \A i \in Positions : Time(list, i) \in Nat
TimesAscend == \A i, j \in Positions : i <= j => Time(list, i) <= Time(list, j)

LEMMA RowTyped == \A r \in Rows : r \in [t : Nat, s : Rests]
  BY CollectAssumption DEF Rows

LEMMA FunctionIsSeq ==
    ASSUME NEW S, NEW n \in Nat, NEW l \in [1 .. n -> S] PROVE l \in Seq(S)
  OBVIOUS

LEMMA RecordTyped ==
    ASSUME NEW l \in Seq(Rows)
    PROVE  /\ Len(l) \in Nat /\ l \in Seq([t : Nat, s : Rests])
           /\ \A i \in 1 .. Len(l) : l[i] \in Rows /\ l[i].t \in Nat
<1>1. Len(l) \in Nat
  BY LenProperties
<1>2. ASSUME NEW i \in 1 .. Len(l) PROVE l[i] \in Rows
  BY ElementOfSeq
<1>3. l \in [1 .. Len(l) -> [t : Nat, s : Rests]]
  BY <1>2, RowTyped, LenProperties
<1>4. l \in Seq([t : Nat, s : Rests])
  BY <1>1, <1>3, FunctionIsSeq
<1> QED
  BY <1>1, <1>2, <1>4, RowTyped

LEMMA IsPlaced == ASSUME CollectTypeOK PROVE Placed
<1>1. list \in Seq(Rows)
  BY DEF CollectTypeOK
<1>2. \A i \in 0 .. Len(list) - 1 : i + 1 \in 1 .. Len(list)
  BY <1>1, RecordTyped
<1> QED
  BY <1>1, <1>2, RecordTyped DEF Placed, Recs, Positions, Time

LEMMA AscendingTimes ==
    ASSUME CollectTypeOK, Ascending(list)
    PROVE  TimesAscend
<1>1. list \in Seq([t : Nat, s : Rests]) /\ Len(list) \in Nat
  BY RecordTyped DEF CollectTypeOK
<1>2. ASSUME NEW i \in Positions, NEW j \in Positions, i <= j
      PROVE  Time(list, i) <= Time(list, j)
  <2>1. i + 1 \in 1 .. Len(list) /\ j + 1 \in 1 .. Len(list) /\ i + 1 <= j + 1
    BY <1>1, <1>2 DEF Positions, Recs
  <2>2. list[i + 1].t <= list[j + 1].t
    BY <1>1, <2>1, InOrderThroughout
  <2> QED
    BY <2>2 DEF Time
<1>3. \A i, j \in Positions : i <= j => Time(list, i) <= Time(list, j)
  BY <1>2
<1> QED
  BY <1>3 DEF TimesAscend

(* Wherever the step leads, the walk begins inside the list.               *)
LEMMA GotoPlace ==
    ASSUME CollectTypeOK, StepFits, NEW f \in Nat
    PROVE  \/ StepGoto(f) = -1 /\ (Recs = 0 \/ ~HasIndex)
           \/ StepGoto(f) \in Positions /\ HasIndex
<1>1. /\ step.count \in Nat /\ step.left \in Nat /\ step.right \in Nat /\ step.step \in Int
  BY DEF CollectTypeOK
<1>2. Recs \in Nat /\ Positions = 0 .. Recs - 1
  BY IsPlaced DEF Placed
<1>3. CASE step.count < 1
  BY <1>1, <1>2, <1>3 DEF StepGoto, StepFits
<1>4. CASE step.count >= 1
  <2>1. HasIndex /\ step.count = Recs
    BY <1>4 DEF StepFits
  <2>2. ASSUME step.step > 1, f > step.left
        PROVE  Min({(f - step.left) \div step.step, step.count - 1}) \in 0 .. step.count - 1
    <3>1. f - step.left \in Nat /\ step.step \in Nat /\ step.step > 0 /\ step.count - 1 \in Nat
      BY <1>1, <1>4, <2>2
    <3>2. (f - step.left) \div step.step \in Nat
      BY <3>1, Quotient
    <3> QED
      BY <3>1, <3>2, MinTwo
  <2>3. StepGoto(f) \in 0 .. step.count - 1
    BY <1>1, <1>4, <2>2 DEF StepGoto
  <2> QED
    BY <1>2, <2>1, <2>3
<1> QED
  BY <1>1, <1>3, <1>4

\* a walk from anywhere, whatever the order of the records
LEMMA WalkEnds ==
    ASSUME Placed, NEW f \in Nat, StepGoto(f) \in Positions
    PROVE  /\ Walk(f).at \in -1 .. Recs /\ Walk(f).dir \in {-1, 0, 1}
           /\ Walk(f).dir = 0 => Walk(f).at \in Positions /\ Time(list, Walk(f).at) = f
           /\ Walk(f).dir = 1 =>
                /\ StepGoto(f) < Walk(f).at /\ Time(list, StepGoto(f)) < f
                /\ Walk(f).at < Recs => Time(list, Walk(f).at) >= f
                /\ \A i \in Positions : StepGoto(f) < i /\ i < Walk(f).at => Time(list, i) < f
           /\ Walk(f).dir = -1 =>
                /\ StepGoto(f) > Walk(f).at /\ Time(list, StepGoto(f)) > f
                /\ Walk(f).at >= 0 => Time(list, Walk(f).at) <= f
                /\ \A i \in Positions : Walk(f).at < i /\ i < StepGoto(f) => Time(list, i) > f
<1> DEFINE g == StepGoto(f)
           up == {i \in g + 1 .. Recs - 1 : Time(list, i) >= f}
           down == {i \in 0 .. g - 1 : Time(list, i) <= f}
<1>1. /\ Recs \in Nat /\ Positions = 0 .. Recs - 1 /\ g \in 0 .. Recs - 1 /\ Time(list, g) \in Nat
      /\ \A i \in Positions : Time(list, i) \in Nat
  BY DEF Placed
<1>2. /\ Walk(f) = CASE g >= Recs           -> [at |-> -1, dir |-> 0]
                     [] Time(list, g) = f -> [at |-> g, dir |-> 0]
                     [] Time(list, g) < f -> [at |-> Min(up \cup {Recs}), dir |-> 1]
                     [] Time(list, g) > f -> [at |-> Max(down \cup {-1}), dir |-> -1]
  BY DEF Walk
<1> HIDE DEF g
<1>3. ~(g >= Recs)
  BY <1>1
<1>4. CASE Time(list, g) = f
  <2>1. Walk(f) = [at |-> g, dir |-> 0]
    BY <1>1, <1>2, <1>3, <1>4
  <2> QED
    BY <1>1, <1>4, <2>1
<1>5. CASE Time(list, g) < f
  <2>1. Walk(f) = [at |-> Min(up \cup {Recs}), dir |-> 1]
    BY <1>1, <1>2, <1>3, <1>5
  <2>2. /\ Min(up \cup {Recs}) \in up \cup {Recs}
        /\ \A y \in up \cup {Recs} : Min(up \cup {Recs}) <= y
    <3>1. up \cup {Recs} \subseteq Int /\ up \cup {Recs} # {} /\ \A y \in up \cup {Recs} : 0 <= y
      BY <1>1
    <3> HIDE DEF up
    <3> QED
      BY <3>1, MinOf
  <2> DEFINE at == Min(up \cup {Recs})
  <2>3. \A i \in Positions : g < i /\ i < at => Time(list, i) < f
    <3> SUFFICES ASSUME NEW i \in Positions, g < i, i < at, ~(Time(list, i) < f) PROVE FALSE
      OBVIOUS
    <3> HIDE DEF at
    <3>1. i \in up
      BY <1>1
    <3> QED
      BY <1>1, <2>2, <3>1 DEF at
  <2> HIDE DEF at
  <2>4. at \in g + 1 .. Recs /\ (at < Recs => Time(list, at) >= f)
    BY <1>1, <2>2 DEF at
  <2>5. Walk(f).at = at /\ Walk(f).dir = 1
    BY <2>1 DEF at
  <2> QED
    BY <1>1, <1>5, <2>3, <2>4, <2>5 DEF g
<1>6. CASE Time(list, g) > f
  <2>1. Walk(f) = [at |-> Max(down \cup {-1}), dir |-> -1]
    BY <1>1, <1>2, <1>3, <1>6
  <2>2. /\ Max(down \cup {-1}) \in down \cup {-1}
        /\ \A y \in down \cup {-1} : y <= Max(down \cup {-1})
    <3>1. down \cup {-1} \subseteq Int /\ down \cup {-1} # {} /\ \A y \in down \cup {-1} : y <= g
      BY <1>1
    <3>2. g \in Int
      BY <1>1
    <3> HIDE DEF down
    <3> QED
      BY <3>1, <3>2, MaxOf
  <2> DEFINE at == Max(down \cup {-1})
  <2>3. \A i \in Positions : at < i /\ i < g => Time(list, i) > f
    <3> SUFFICES ASSUME NEW i \in Positions, at < i, i < g, ~(Time(list, i) > f) PROVE FALSE
      OBVIOUS
    <3> HIDE DEF at
    <3>1. i \in down
      BY <1>1
    <3> QED
      BY <1>1, <2>2, <3>1 DEF at
  <2> HIDE DEF at
  <2>4. at \in -1 .. g - 1 /\ (at >= 0 => Time(list, at) <= f)
    BY <1>1, <2>2 DEF at
  <2>5. Walk(f).at = at /\ Walk(f).dir = -1
    BY <2>1 DEF at
  <2> QED
    BY <1>1, <1>6, <2>3, <2>4, <2>5 DEF g
<1> QED
  BY <1>1, <1>4, <1>5, <1>6

\* with the records in order it has passed all that lie on its way, and no other
LEMMA WalkInOrder ==
    ASSUME Placed, TimesAscend, NEW f \in Nat, StepGoto(f) \in Positions
    PROVE  \/ Walk(f).dir = 0 /\ Walk(f).at \in Positions /\ Time(list, Walk(f).at) = f
           \/ /\ Walk(f).dir = 1 /\ Walk(f).at \in 1 .. Recs
              /\ \A i \in Positions : Time(list, i) < f <=> i < Walk(f).at
           \/ /\ Walk(f).dir = -1 /\ Walk(f).at \in -1 .. Recs - 2
              /\ \A i \in Positions : Time(list, i) <= f <=> i <= Walk(f).at
<1> DEFINE at == Walk(f).at  g == StepGoto(f)
<1>1. /\ Recs \in Nat /\ Positions = 0 .. Recs - 1 /\ \A i \in Positions : Time(list, i) \in Nat
      /\ g \in Positions
  BY DEF Placed
<1>2. /\ at \in -1 .. Recs /\ Walk(f).dir \in {-1, 0, 1}
      /\ Walk(f).dir = 0 => at \in Positions /\ Time(list, at) = f
      /\ Walk(f).dir = 1 =>
                /\ g < at /\ Time(list, g) < f
                /\ at < Recs => Time(list, at) >= f
                /\ \A i \in Positions : g < i /\ i < at => Time(list, i) < f
      /\ Walk(f).dir = -1 =>
                /\ g > at /\ Time(list, g) > f
                /\ at >= 0 => Time(list, at) <= f
                /\ \A i \in Positions : at < i /\ i < g => Time(list, i) > f
  BY WalkEnds
<1>3. \A i, j \in Positions : i <= j => Time(list, i) <= Time(list, j)
  BY DEF TimesAscend
<1> HIDE DEF at, g
<1>4. CASE Walk(f).dir = 1
  <2>1. ASSUME NEW i \in Positions PROVE Time(list, i) < f <=> i < at
    <3>1. CASE i <= g
      BY <1>1, <1>2, <1>3, <1>4, <3>1
    <3>2. CASE g < i /\ i < at
      BY <1>2, <1>4, <3>2
    <3>3. CASE i >= at
      <4>1. at \in Positions /\ Time(list, at) >= f /\ Time(list, at) <= Time(list, i)
        BY <1>1, <1>2, <1>3, <1>4, <3>3
      <4> QED
        BY <1>1, <1>2, <3>3, <4>1
    <3> QED
      BY <1>1, <1>2, <3>1, <3>2, <3>3
  <2> QED
    BY <1>1, <1>2, <1>4, <2>1 DEF at
<1>5. CASE Walk(f).dir = -1
  <2>1. ASSUME NEW i \in Positions PROVE Time(list, i) <= f <=> i <= at
    <3>1. CASE i >= g
      BY <1>1, <1>2, <1>3, <1>5, <3>1
    <3>2. CASE at < i /\ i < g
      BY <1>1, <1>2, <1>5, <3>2
    <3>3. CASE i <= at
      <4>1. at \in Positions /\ Time(list, at) <= f /\ Time(list, i) <= Time(list, at)
        BY <1>1, <1>2, <1>3, <1>5, <3>3
      <4> QED
        BY <1>1, <1>2, <3>3, <4>1
    <3> QED
      BY <1>1, <1>2, <3>1, <3>2, <3>3
  <2> QED
    BY <1>1, <1>2, <1>5, <2>1 DEF at
<1> QED
  BY <1>2, <1>4, <1>5 DEF at

-----------------------------------------------------------------------------
(* Searches in a list that is in order.                                    *)

\* n is the last position whose time is not after f; the first not before f
LastUpto(f, n) == n \in -1 .. Recs - 1 /\ \A i \in Positions : Time(list, i) <= f <=> i <= n
FirstFrom(f, n) ==
    \/ n = -1 /\ \A i \in Positions : Time(list, i) < f
    \/ n \in Positions /\ \A i \in Positions : Time(list, i) >= f <=> i >= n

LEMMA RunEndPlace ==
    ASSUME Placed, NEW f, NEW i \in Positions
    PROVE  /\ RunEnd(f, i) \in Positions /\ i <= RunEnd(f, i)
           /\ RunEnd(f, i) = Recs - 1 \/ Time(list, RunEnd(f, i) + 1) # f
           /\ Time(list, i) = f => Time(list, RunEnd(f, i)) = f
<1> DEFINE S == {k \in i .. Recs - 1 : k = Recs - 1 \/ Time(list, k + 1) # f}
           e == Min(S)
<1>1. Recs \in Nat /\ Positions = 0 .. Recs - 1
  BY DEF Placed
<1>2. S \subseteq Int /\ S # {} /\ i \in Int /\ \A y \in S : i <= y
  <2>1. Recs - 1 \in S
    BY <1>1
  <2>2. S \subseteq i .. Recs - 1 /\ i \in Int /\ Recs - 1 \in Int
    BY <1>1
  <2> HIDE DEF S
  <2> QED
    BY <2>1, <2>2
<1>3. e \in S /\ \A y \in S : e <= y
  <2> HIDE DEF S
  <2> QED
    BY <1>2, MinOf
<1>4. e = RunEnd(f, i)
  BY DEF RunEnd
<1>5. ASSUME Time(list, i) = f PROVE Time(list, e) = f
  <2>1. CASE e = i
    BY <1>5, <2>1
  <2>2. CASE e # i
    <3>1. e - 1 \in i .. Recs - 1 /\ ~(e <= e - 1) /\ (e - 1) + 1 = e /\ e - 1 # Recs - 1
      BY <1>1, <1>3, <2>2
    <3>2. e - 1 \notin S
      BY <1>3, <3>1
    <3>3. Time(list, (e - 1) + 1) = f
      BY <3>1, <3>2
    <3> QED
      BY <3>1, <3>3
  <2> QED
    BY <2>1, <2>2
<1>6. e \in i .. Recs - 1 /\ (e = Recs - 1 \/ Time(list, e + 1) # f)
  BY <1>3
<1> HIDE DEF e
<1> QED
  BY <1>1, <1>4, <1>5, <1>6

LEMMA RunStartPlace ==
    ASSUME Placed, NEW f, NEW i \in Positions
    PROVE  /\ RunStart(f, i) \in Positions /\ RunStart(f, i) <= i
           /\ RunStart(f, i) = 0 \/ Time(list, RunStart(f, i) - 1) # f
           /\ Time(list, i) = f => Time(list, RunStart(f, i)) = f
<1> DEFINE S == {k \in 0 .. i : k = 0 \/ Time(list, k - 1) # f}
           b == Max(S)
<1>1. Recs \in Nat /\ Positions = 0 .. Recs - 1
  BY DEF Placed
<1>2. S \subseteq Int /\ S # {} /\ i \in Int /\ \A y \in S : y <= i
  <2>1. 0 \in S
    BY <1>1
  <2> QED
    BY <1>1, <2>1
<1>3. b \in S /\ \A y \in S : y <= b
  <2> HIDE DEF S
  <2> QED
    BY <1>2, MaxOf
<1>4. b = RunStart(f, i)
  BY DEF RunStart
<1>5. ASSUME Time(list, i) = f PROVE Time(list, b) = f
  <2>1. CASE b = i
    BY <1>5, <2>1
  <2>2. CASE b # i
    <3>1. b + 1 \in 0 .. i /\ ~(b + 1 <= b) /\ (b + 1) - 1 = b /\ b + 1 # 0
      BY <1>1, <1>3, <2>2
    <3>2. b + 1 \notin S
      BY <1>3, <3>1
    <3>3. Time(list, (b + 1) - 1) = f
      BY <3>1, <3>2
    <3> QED
      BY <3>1, <3>3
  <2> QED
    BY <2>1, <2>2
<1>6. b \in 0 .. i /\ (b = 0 \/ Time(list, b - 1) # f)
  BY <1>3
<1> HIDE DEF b
<1> QED
  BY <1>1, <1>4, <1>5, <1>6

LEMMA RunEndIs ==
    ASSUME Placed, TimesAscend, NEW f \in Nat, NEW i \in Positions, Time(list, i) = f
    PROVE  LastUpto(f, RunEnd(f, i)) /\ RunEnd(f, i) >= 0 /\ Time(list, RunEnd(f, i)) = f
<1> DEFINE e == RunEnd(f, i)
<1>1. /\ Recs \in Nat /\ Positions = 0 .. Recs - 1 /\ \A k \in Positions : Time(list, k) \in Nat
      /\ \A j, k \in Positions : j <= k => Time(list, j) <= Time(list, k)
  BY DEF Placed, TimesAscend
<1>2. /\ e \in Positions
      /\ e = Recs - 1 \/ Time(list, e + 1) # f
      /\ Time(list, e) = f
  BY RunEndPlace
<1> HIDE DEF e
<1>3. ASSUME NEW k \in Positions PROVE Time(list, k) <= f <=> k <= e
  <2>1. CASE k <= e
    BY <1>1, <1>2, <2>1
  <2>2. CASE k > e
    <3>1. e + 1 \in Positions /\ e + 1 <= k /\ e <= e + 1 /\ Time(list, e + 1) # f
      BY <1>1, <1>2, <2>2
    <3>2. Time(list, e) <= Time(list, e + 1) /\ Time(list, e + 1) <= Time(list, k)
      BY <1>1, <1>2, <3>1
    <3>3. Time(list, e + 1) \in Nat /\ Time(list, k) \in Nat
      BY <1>1, <3>1
    <3> QED
      BY <1>1, <1>2, <2>2, <3>1, <3>2, <3>3
  <2> QED
    BY <1>1, <1>2, <2>1, <2>2
<1> QED
  BY <1>1, <1>2, <1>3 DEF LastUpto, e

LEMMA RunStartIs ==
    ASSUME Placed, TimesAscend, NEW f \in Nat, NEW i \in Positions, Time(list, i) = f
    PROVE  FirstFrom(f, RunStart(f, i)) /\ RunStart(f, i) \in Positions
<1> DEFINE b == RunStart(f, i)
<1>1. /\ Recs \in Nat /\ Positions = 0 .. Recs - 1 /\ \A k \in Positions : Time(list, k) \in Nat
      /\ \A j, k \in Positions : j <= k => Time(list, j) <= Time(list, k)
  BY DEF Placed, TimesAscend
<1>2. /\ b \in Positions
      /\ b = 0 \/ Time(list, b - 1) # f
      /\ Time(list, b) = f
  BY RunStartPlace
<1> HIDE DEF b
<1>3. ASSUME NEW k \in Positions PROVE Time(list, k) >= f <=> k >= b
  <2>1. CASE k >= b
    <3>1. Time(list, b) <= Time(list, k) /\ Time(list, k) \in Nat
      BY <1>1, <1>2, <2>1
    <3> QED
      BY <1>2, <2>1, <3>1
  <2>2. CASE k < b
    <3>1. b - 1 \in Positions /\ k <= b - 1 /\ b - 1 <= b /\ Time(list, b - 1) # f
      BY <1>1, <1>2, <2>2
    <3>2. Time(list, b - 1) <= Time(list, b) /\ Time(list, k) <= Time(list, b - 1)
      BY <1>1, <1>2, <3>1
    <3>3. Time(list, b - 1) \in Nat /\ Time(list, k) \in Nat
      BY <1>1, <3>1
    <3> QED
      BY <1>1, <1>2, <2>2, <3>1, <3>2, <3>3
  <2> QED
    BY <1>1, <1>2, <2>1, <2>2
<1> QED
  BY <1>1, <1>2, <1>3 DEF FirstFrom, b

LEMMA SearchLeftIs ==
    ASSUME CollectTypeOK, StepFits, HasIndex, TimesAscend, NEW f \in Nat
    PROVE  /\ LastUpto(f, SearchLeft(f).at)
           /\ SearchLeft(f).mode = "none" <=> SearchLeft(f).at = -1
           /\ SearchLeft(f).mode = "ok" <=> SearchLeft(f).at >= 0 /\ Time(list, SearchLeft(f).at) = f
<1> DEFINE w == Walk(f)
<1>0. /\ Recs \in Nat /\ Positions = 0 .. Recs - 1 /\ \A k \in Positions : Time(list, k) \in Nat
      /\ Placed
  BY IsPlaced DEF Placed
<1>1. CASE StepGoto(f) < 0
  <2>1. Recs = 0
    BY <1>0, <1>1, GotoPlace
  <2>2. SearchLeft(f) = None
    BY <1>1 DEF SearchLeft
  <2> QED
    BY <1>0, <2>1, <2>2 DEF None, LastUpto
<1>2. CASE ~(StepGoto(f) < 0)
  <2>1. StepGoto(f) \in Positions
    BY <1>0, <1>2, GotoPlace
  <2>2. \/ w.dir = 0 /\ w.at \in Positions /\ Time(list, w.at) = f
        \/ /\ w.dir = 1 /\ w.at \in 1 .. Recs
           /\ \A i \in Positions : Time(list, i) < f <=> i < w.at
        \/ /\ w.dir = -1 /\ w.at \in -1 .. Recs - 2
           /\ \A i \in Positions : Time(list, i) <= f <=> i <= w.at
    BY <1>0, <2>1, WalkInOrder
  <2>3. SearchLeft(f) =
            CASE Hit(f, w)   -> [at |-> RunEnd(f, w.at), mode |-> "ok"]
               [] ~Hit(f, w) /\ w.dir = 1 -> [at |-> w.at - 1, mode |-> "left"]
               [] ~Hit(f, w) /\ w.dir # 1 /\ ~Off(w) -> [at |-> w.at, mode |-> "left"]
               [] ~Hit(f, w) /\ w.dir # 1 /\ Off(w) -> None
    BY <1>2 DEF SearchLeft
  <2>w. Off(w) <=> w.at \notin Positions
    BY DEF Off
  <2>h. Hit(f, w) <=> w.at \in Positions /\ Time(list, w.at) = f
    BY DEF Hit, Off
  <2> HIDE DEF w
  <2>4. CASE Hit(f, w)
    <3>1. SearchLeft(f) = [at |-> RunEnd(f, w.at), mode |-> "ok"]
      BY <2>3, <2>4
    <3>2. w.at \in Positions /\ Time(list, w.at) = f
      BY <2>4, <2>h
    <3>3. LastUpto(f, RunEnd(f, w.at)) /\ RunEnd(f, w.at) >= 0 /\ Time(list, RunEnd(f, w.at)) = f
      BY <1>0, <3>2, RunEndIs
    <3>4. RunEnd(f, w.at) \in Int
      BY <3>3, <1>0 DEF LastUpto
    <3> QED
      BY <3>1, <3>3, <3>4
  <2>5. CASE ~Hit(f, w) /\ w.dir = 1
    <3>1. SearchLeft(f) = [at |-> w.at - 1, mode |-> "left"]
      BY <2>3, <2>5
    <3>2. /\ w.at \in 1 .. Recs
          /\ \A i \in Positions : Time(list, i) < f <=> i < w.at
      BY <2>2, <2>5
    <3>3. ASSUME NEW i \in Positions PROVE Time(list, i) <= f <=> i <= w.at - 1
      <4>1. CASE i < w.at
        BY <1>0, <3>2, <4>1
      <4>2. CASE ~(i < w.at)
        <5>1. w.at \in Positions /\ w.at <= i
          BY <1>0, <3>2, <4>2
        <5>2. Time(list, w.at) # f /\ Time(list, w.at) >= f
          BY <1>0, <2>5, <2>h, <3>2, <5>1
        <5>3. Time(list, w.at) <= Time(list, i)
          BY <5>1 DEF TimesAscend
        <5> QED
          BY <1>0, <3>2, <4>2, <5>1, <5>2, <5>3
      <4> QED
        BY <4>1, <4>2
    <3>4. w.at - 1 \in Positions /\ Time(list, w.at - 1) # f
      BY <1>0, <3>2
    <3>5. LastUpto(f, w.at - 1)
      BY <1>0, <3>2, <3>3 DEF LastUpto
    <3> QED
      BY <1>0, <3>1, <3>4, <3>5
  <2>6. CASE ~Hit(f, w) /\ w.dir # 1
    <3>1. /\ w.at \in -1 .. Recs - 2
          /\ \A i \in Positions : Time(list, i) <= f <=> i <= w.at
      BY <2>2, <2>6, <2>h
    <3>2. LastUpto(f, w.at)
      BY <1>0, <3>1 DEF LastUpto
    <3>3. CASE w.at \in Positions
      <4>1. SearchLeft(f) = [at |-> w.at, mode |-> "left"]
        BY <2>3, <2>6, <2>w, <3>3
      <4>2. Time(list, w.at) # f
        BY <2>6, <2>h, <3>3
      <4> QED
        BY <1>0, <3>2, <3>3, <4>1, <4>2
    <3>4. CASE w.at \notin Positions
      <4>1. SearchLeft(f) = None
        BY <2>3, <2>6, <2>w, <3>4
      <4>2. w.at = -1
        BY <1>0, <3>1, <3>4
      <4> QED
        BY <3>2, <4>1, <4>2 DEF None
    <3> QED
      BY <3>3, <3>4
  <2> QED
    BY <2>4, <2>5, <2>6
<1> QED
  BY <1>1, <1>2

LEMMA SearchRightIs ==
    ASSUME CollectTypeOK, StepFits, HasIndex, TimesAscend, NEW f \in Nat
    PROVE  /\ FirstFrom(f, SearchRight(f).at)
           /\ SearchRight(f).mode = "none" <=> SearchRight(f).at = -1
<1> DEFINE w == Walk(f)
<1>0. /\ Recs \in Nat /\ Positions = 0 .. Recs - 1 /\ \A k \in Positions : Time(list, k) \in Nat
      /\ Placed
  BY IsPlaced DEF Placed
<1>1. CASE StepGoto(f) < 0
  <2>1. Recs = 0
    BY <1>0, <1>1, GotoPlace
  <2>2. SearchRight(f) = None
    BY <1>1 DEF SearchRight
  <2> QED
    BY <1>0, <2>1, <2>2 DEF None, FirstFrom
<1>2. CASE ~(StepGoto(f) < 0)
  <2>1. StepGoto(f) \in Positions
    BY <1>0, <1>2, GotoPlace
  <2>2. \/ w.dir = 0 /\ w.at \in Positions /\ Time(list, w.at) = f
        \/ /\ w.dir = 1 /\ w.at \in 1 .. Recs
           /\ \A i \in Positions : Time(list, i) < f <=> i < w.at
        \/ /\ w.dir = -1 /\ w.at \in -1 .. Recs - 2
           /\ \A i \in Positions : Time(list, i) <= f <=> i <= w.at
    BY <1>0, <2>1, WalkInOrder
  <2>3. SearchRight(f) =
            CASE Hit(f, w)   -> [at |-> RunStart(f, w.at), mode |-> "ok"]
               [] ~Hit(f, w) /\ w.dir # 1 -> [at |-> w.at + 1, mode |-> "right"]
               [] ~Hit(f, w) /\ w.dir = 1 /\ ~Off(w) -> [at |-> w.at, mode |-> "right"]
               [] ~Hit(f, w) /\ w.dir = 1 /\ Off(w) -> None
    BY <1>2 DEF SearchRight
  <2>w. Off(w) <=> w.at \notin Positions
    BY DEF Off
  <2>h. Hit(f, w) <=> w.at \in Positions /\ Time(list, w.at) = f
    BY DEF Hit, Off
  <2> HIDE DEF w
  <2>4. CASE Hit(f, w)
    <3>1. SearchRight(f) = [at |-> RunStart(f, w.at), mode |-> "ok"]
      BY <2>3, <2>4
    <3>2. w.at \in Positions /\ Time(list, w.at) = f
      BY <2>4, <2>h
    <3>3. FirstFrom(f, RunStart(f, w.at)) /\ RunStart(f, w.at) \in Positions
      BY <1>0, <3>2, RunStartIs
    <3>4. RunStart(f, w.at) # -1
      BY <1>0, <3>3
    <3> QED
      BY <3>1, <3>3, <3>4
  <2>5. CASE ~Hit(f, w) /\ w.dir = 1
    <3>2. /\ w.at \in 1 .. Recs
          /\ \A i \in Positions : Time(list, i) < f <=> i < w.at
      BY <2>2, <2>5
    <3>3. CASE w.at \in Positions
      <4>1. SearchRight(f) = [at |-> w.at, mode |-> "right"]
        BY <2>3, <2>5, <2>w, <3>3
      <4>2. \A i \in Positions : Time(list, i) >= f <=> i >= w.at
        BY <1>0, <3>2
      <4>3. FirstFrom(f, w.at)
        BY <3>3, <4>2 DEF FirstFrom
      <4> QED
        BY <1>0, <3>3, <4>1, <4>3
    <3>4. CASE w.at \notin Positions
      <4>1. SearchRight(f) = None
        BY <2>3, <2>5, <2>w, <3>4
      <4>2. \A i \in Positions : Time(list, i) < f
        BY <1>0, <3>2, <3>4
      <4> QED
        BY <4>1, <4>2 DEF None, FirstFrom
    <3> QED
      BY <3>3, <3>4
  <2>6. CASE ~Hit(f, w) /\ w.dir # 1
    <3>1. /\ w.at \in -1 .. Recs - 2
          /\ \A i \in Positions : Time(list, i) <= f <=> i <= w.at
      BY <2>2, <2>6, <2>h
    <3>2. SearchRight(f) = [at |-> w.at + 1, mode |-> "right"]
      BY <2>3, <2>6
    <3>3. ASSUME NEW i \in Positions PROVE Time(list, i) >= f <=> i >= w.at + 1
      <4>1. CASE i > w.at
        BY <1>0, <3>1, <4>1
      <4>2. CASE ~(i > w.at)
        <5>1. w.at \in Positions /\ i <= w.at
          BY <1>0, <3>1, <4>2
        <5>2. Time(list, w.at) # f /\ Time(list, w.at) <= f
          BY <1>0, <2>6, <2>h, <3>1, <5>1
        <5>3. Time(list, i) <= Time(list, w.at)
          BY <5>1 DEF TimesAscend
        <5>4. Time(list, i) \in Nat /\ Time(list, w.at) \in Nat
          BY <1>0, <5>1
        <5>5. ~(Time(list, i) >= f)
          BY <5>2, <5>3, <5>4
        <5> QED
          BY <1>0, <3>1, <4>2, <5>1, <5>5
      <4> QED
        BY <4>1, <4>2, <1>0, <3>1
    <3>4. w.at + 1 \in Positions /\ w.at + 1 # -1
      BY <1>0, <3>1
    <3>5. FirstFrom(f, w.at + 1)
      BY <3>3, <3>4 DEF FirstFrom
    <3> QED
      BY <3>2, <3>4, <3>5
  <2> QED
    BY <2>4, <2>5, <2>6
<1> QED
  BY <1>1, <1>2
\* the record that a search for one time finds, and where a search for the last ends
LEMMA SearchIs ==
    ASSUME CollectTypeOK, StepFits, HasIndex, TimesAscend, NEW f \in Nat
    PROVE  /\ \/ Search(f) \in Positions /\ Time(list, Search(f)) = f
              \/ Search(f) = -1 /\ \A i \in Positions : Time(list, i) # f
           /\ (\E i \in Positions : Time(list, i) = f) =>
                /\ SearchLast(f).mode = "ok" /\ SearchLast(f) = [at |-> SearchLast(f).at, mode |-> "ok"]
                /\ SearchLast(f).at \in Positions /\ Time(list, SearchLast(f).at) = f
                /\ LastUpto(f, SearchLast(f).at)
<1> DEFINE w == Walk(f)
<1>0. /\ Recs \in Nat /\ Positions = 0 .. Recs - 1 /\ \A k \in Positions : Time(list, k) \in Nat
      /\ Placed /\ \A j, k \in Positions : j <= k => Time(list, j) <= Time(list, k)
  BY IsPlaced DEF Placed, TimesAscend
<1>1. CASE StepGoto(f) < 0
  <2>1. Recs = 0 /\ Positions = {}
    BY <1>0, <1>1, GotoPlace
  <2>2. Search(f) = -1
    BY <1>1 DEF Search
  <2> QED
    BY <2>1, <2>2
<1>2. CASE ~(StepGoto(f) < 0)
  <2>1. StepGoto(f) \in Positions
    BY <1>0, <1>2, GotoPlace
  <2>2. \/ w.dir = 0 /\ w.at \in Positions /\ Time(list, w.at) = f
        \/ /\ w.dir = 1 /\ w.at \in 1 .. Recs
           /\ \A i \in Positions : Time(list, i) < f <=> i < w.at
        \/ /\ w.dir = -1 /\ w.at \in -1 .. Recs - 2
           /\ \A i \in Positions : Time(list, i) <= f <=> i <= w.at
    BY <1>0, <2>1, WalkInOrder
  <2> DEFINE over == {k \in w.at + 1 .. Recs - 1 : Time(list, k) > f}
             m == Min(over \cup {Recs})
  <2>3. /\ Search(f) = IF Hit(f, w) THEN w.at ELSE -1
        /\ Hit(f, w) => SearchLast(f) = [at |-> IF w.dir = -1 THEN w.at ELSE m - 1, mode |-> "ok"]
    BY <1>2 DEF Search, SearchLast
  <2>h. Hit(f, w) <=> w.at \in Positions /\ Time(list, w.at) = f
    BY DEF Hit, Off
  <2> HIDE DEF w
  <2>4. CASE ~Hit(f, w)
    <3>1. Search(f) = -1
      BY <2>3, <2>4
    <3>2. ASSUME NEW i \in Positions, Time(list, i) = f PROVE FALSE
      <4>1. CASE w.dir = 1
        <5>1. w.at \in Positions /\ w.at <= i /\ Time(list, w.at) >= f
          BY <1>0, <2>2, <3>2, <4>1
        <5>2. Time(list, w.at) <= Time(list, i) /\ Time(list, w.at) # f
          BY <1>0, <2>4, <2>h, <5>1
        <5> QED
          BY <1>0, <3>2, <5>1, <5>2
      <4>2. CASE w.dir = -1
        <5>1. w.at \in Positions /\ i <= w.at /\ Time(list, w.at) <= f
          BY <1>0, <2>2, <3>2, <4>2
        <5>2. Time(list, i) <= Time(list, w.at) /\ Time(list, w.at) # f
          BY <1>0, <2>4, <2>h, <5>1
        <5> QED
          BY <1>0, <3>2, <5>1, <5>2
      <4> QED
        BY <2>2, <2>4, <2>h, <4>1, <4>2
    <3> QED
      BY <3>1, <3>2
  <2>5. CASE Hit(f, w) /\ w.dir = -1
    <3>1. w.at \in Positions /\ Time(list, w.at) = f /\ w.at \in -1 .. Recs - 1
      BY <1>0, <2>5, <2>h
    <3>2. \A i \in Positions : Time(list, i) <= f <=> i <= w.at
      BY <2>2, <2>5
    <3>3. SearchLast(f) = [at |-> w.at, mode |-> "ok"] /\ Search(f) = w.at
      BY <2>3, <2>5
    <3> QED
      BY <3>1, <3>2, <3>3 DEF LastUpto
  <2>6. CASE Hit(f, w) /\ w.dir # -1
    <3>1. w.at \in Positions /\ Time(list, w.at) = f
      BY <2>6, <2>h
    <3>2. /\ over \cup {Recs} \subseteq Int /\ over \cup {Recs} # {}
          /\ \A y \in over \cup {Recs} : w.at + 1 <= y
          /\ w.at + 1 \in Int
      <4>1. over \subseteq w.at + 1 .. Recs - 1 /\ w.at + 1 <= Recs /\ Recs \in Int /\ w.at + 1 \in Int
        BY <1>0, <3>1
      <4> HIDE DEF over
      <4> QED
        BY <4>1
    <3>3. m \in over \cup {Recs} /\ \A y \in over \cup {Recs} : m <= y
      <4> HIDE DEF over
      <4> QED
        BY <3>2, MinOf
    <3> HIDE DEF m
    <3>4. m \in w.at + 1 .. Recs /\ (m < Recs => Time(list, m) > f)
      BY <1>0, <3>1, <3>3
    <3>5. ASSUME NEW i \in Positions, i < m PROVE Time(list, i) <= f
      <4>1. CASE i <= w.at
        BY <1>0, <3>1, <4>1
      <4>2. CASE i > w.at
        <5>1. i \in w.at + 1 .. Recs - 1 /\ ~(m <= i)
          BY <1>0, <3>1, <3>4, <3>5, <4>2
        <5>2. i \notin over
          BY <3>3, <5>1
        <5> QED
          BY <1>0, <5>1, <5>2
      <4> QED
        BY <1>0, <3>1, <4>1, <4>2
    <3>6. ASSUME NEW i \in Positions, i >= m PROVE ~(Time(list, i) <= f)
      <4>1. m \in Positions /\ Time(list, m) > f
        BY <1>0, <3>1, <3>4, <3>6
      <4>2. Time(list, m) <= Time(list, i)
        BY <1>0, <3>6, <4>1
      <4> QED
        BY <1>0, <4>1, <4>2
    <3>7. m - 1 \in Positions /\ w.at <= m - 1 /\ m - 1 < m /\ m - 1 \in -1 .. Recs - 1
      BY <1>0, <3>1, <3>4
    <3>8. Time(list, m - 1) = f
      <4>1. f <= Time(list, m - 1) /\ Time(list, m - 1) <= f
        BY <1>0, <3>1, <3>5, <3>7
      <4> QED
        BY <1>0, <3>7, <4>1
    <3>9. LastUpto(f, m - 1)
      <4>1. \A i \in Positions : Time(list, i) <= f <=> i <= m - 1
        BY <1>0, <3>1, <3>4, <3>5, <3>6
      <4> QED
        BY <3>7, <4>1 DEF LastUpto
    <3>10. SearchLast(f) = [at |-> m - 1, mode |-> "ok"] /\ Search(f) = w.at
      BY <2>3, <2>6
    <3> QED
      BY <3>1, <3>7, <3>8, <3>9, <3>10
  <2> QED
    BY <2>4, <2>5, <2>6
<1> QED
  BY <1>1, <1>2

\* these positions as the greatest and the least of a set
LEMMA LastUptoMax ==
    ASSUME Placed, NEW f \in Nat, NEW n, LastUpto(f, n)
    PROVE  n = Max({i \in Positions : Time(list, i) <= f} \cup {-1})
<1> DEFINE S == {i \in Positions : Time(list, i) <= f} \cup {-1}
<1>1. n \in -1 .. Recs - 1 /\ Recs \in Nat /\ Positions = 0 .. Recs - 1
      /\ \A i \in Positions : Time(list, i) <= f <=> i <= n
  BY DEF LastUpto, Placed
<1>2. n \in S
  <2>1. n = -1 \/ (n \in Positions /\ n <= n)
    BY <1>1
  <2> QED
    BY <1>1, <2>1
<1>3. S \subseteq Int
  BY <1>1
<1>4. \A y \in S : y <= n
  BY <1>1
<1> HIDE DEF S
<1>5. Max(S) = n
  BY <1>2, <1>3, <1>4, MaxIs
<1> QED
  BY <1>5 DEF S

LEMMA FirstFromMin ==
    ASSUME Placed, NEW f \in Nat, NEW n, FirstFrom(f, n)
    PROVE  LET from == {i \in Positions : Time(list, i) >= f}
           IN  n = IF from = {} THEN -1 ELSE Min(from)
<1> DEFINE S == {i \in Positions : Time(list, i) >= f}
<1>0. Recs \in Nat /\ Positions = 0 .. Recs - 1 /\ \A i \in Positions : Time(list, i) \in Nat
  BY DEF Placed
<1>1. CASE n = -1 /\ \A i \in Positions : Time(list, i) < f
  <2>1. S = {}
    BY <1>0, <1>1
  <2> QED
    BY <1>1, <2>1
<1>2. CASE n \in Positions /\ \A i \in Positions : Time(list, i) >= f <=> i >= n
  <2>1. n \in S
    BY <1>0, <1>2
  <2>2. S \subseteq Int /\ \A y \in S : n <= y
    BY <1>0, <1>2
  <2>3. S # {}
    BY <2>1
  <2> HIDE DEF S
  <2>4. Min(S) = n
    BY <2>1, <2>2, MinIs
  <2> QED
    BY <2>3, <2>4 DEF S
<1> QED
  BY <1>1, <1>2 DEF FirstFrom

LEMMA SearchesAreExact ==
    ASSUME CollectTypeOK, StepFits PROVE SearchesExact
<1> SUFFICES ASSUME HasIndex, Ascending(list), NEW f \in Finders
             PROVE  LET upto == {i \in Positions : Time(list, i) <= f}
                        from == {i \in Positions : Time(list, i) >= f}
                        at == upto \cap from
                    IN  /\ IF at = {} THEN Search(f) = -1 ELSE Search(f) \in at
                        /\ SearchLeft(f).at = Max(upto \cup {-1})
                        /\ SearchRight(f).at = IF from = {} THEN -1 ELSE Min(from)
                        /\ at # {} => SearchLast(f) = [at |-> Max(at), mode |-> "ok"]
  BY DEF SearchesExact
<1> DEFINE upto == {i \in Positions : Time(list, i) <= f}
           from == {i \in Positions : Time(list, i) >= f}
           at == upto \cap from
<1>0. f \in Nat /\ Placed /\ TimesAscend
  BY CollectAssumption, IsPlaced, AscendingTimes
<1>t. Recs \in Nat /\ Positions = 0 .. Recs - 1 /\ \A k \in Positions : Time(list, k) \in Nat
  BY <1>0 DEF Placed
<1>a. at = {i \in Positions : Time(list, i) = f}
  BY <1>0, <1>t
<1>s. /\ \/ Search(f) \in Positions /\ Time(list, Search(f)) = f
         \/ Search(f) = -1 /\ \A i \in Positions : Time(list, i) # f
      /\ (\E i \in Positions : Time(list, i) = f) =>
            /\ SearchLast(f) = [at |-> SearchLast(f).at, mode |-> "ok"]
            /\ SearchLast(f).at \in Positions /\ Time(list, SearchLast(f).at) = f
            /\ LastUpto(f, SearchLast(f).at)
  BY <1>0, SearchIs
<1>1. IF at = {} THEN Search(f) = -1 ELSE Search(f) \in at
  <2> HIDE DEF at
  <2> QED
    BY <1>a, <1>s
<1>2. SearchLeft(f).at = Max(upto \cup {-1})
  <2>1. LastUpto(f, SearchLeft(f).at)
    BY <1>0, SearchLeftIs
  <2> QED
    BY <1>0, <2>1, LastUptoMax
<1>3. SearchRight(f).at = IF from = {} THEN -1 ELSE Min(from)
  <2>1. FirstFrom(f, SearchRight(f).at)
    BY <1>0, SearchRightIs
  <2> QED
    BY <1>0, <2>1, FirstFromMin
<1>4. ASSUME at # {} PROVE SearchLast(f) = [at |-> Max(at), mode |-> "ok"]
  <2> DEFINE z == SearchLast(f).at
  <2>1. \E i \in Positions : Time(list, i) = f
    BY <1>4, <1>a
  <2>2. /\ SearchLast(f) = [at |-> z, mode |-> "ok"]
        /\ z \in Positions /\ Time(list, z) = f /\ LastUpto(f, z)
    BY <1>s, <2>1
  <2> HIDE DEF z
  <2>3. z \in at /\ at \subseteq Int
    BY <1>t, <1>a, <2>2
  <2>4. \A y \in at : y <= z
    BY <2>2 DEF LastUpto
  <2> HIDE DEF at
  <2>5. Max(at) = z
    BY <2>3, <2>4, MaxIs
  <2> QED
    BY <2>2, <2>5
<1> QED
  BY <1>1, <1>2, <1>3, <1>4
-----------------------------------------------------------------------------
(* Ranges.                                                                 *)

Inside(r) == r.from \in Nat /\ r.count \in Nat /\ r.from + r.count <= Recs
InRange(r, i) == i >= r.from /\ i < r.from + r.count

LEMMA NothingInside == ASSUME Recs \in Nat PROVE Inside(Nothing) /\ \A i \in Int : ~InRange(Nothing, i)
  BY DEF Inside, Nothing, InRange

LEMMA ClampedIs ==
    ASSUME Recs \in Nat, NEW a \in Int
    PROVE  FromEnd(a) \in Int /\ Clamped(a) \in Nat /\ (a >= 0 => FromEnd(a) = a /\ Clamped(a) = a)
<1>1. FromEnd(a) \in Int /\ (a >= 0 => FromEnd(a) = a)
  BY DEF FromEnd
<1>2. Clamped(a) = IF 0 > FromEnd(a) THEN 0 ELSE FromEnd(a)
  BY <1>1, MaxTwo DEF Clamped
<1> QED
  BY <1>1, <1>2

LEMMA RangeIs ==
    ASSUME Recs \in Nat, NEW a \in Int, NEW b \in Int
    PROVE  /\ Inside(TransOfRange(a, b))
           /\ a >= 0 /\ b >= 0 => \A i \in 0 .. Recs - 1 : InRange(TransOfRange(a, b), i) <=> a <= i /\ i <= b
<1> DEFINE x == Clamped(a)  y == FromEnd(b)  m == Min({y, Recs - 1})  r == TransOfRange(a, b)
<1>1. x \in Nat /\ y \in Int /\ (a >= 0 => x = a) /\ (b >= 0 => y = b)
  BY ClampedIs
<1>2. r = IF x > y \/ x >= Recs THEN Nothing ELSE [from |-> x, count |-> m - x + 1]
  BY DEF TransOfRange
<1>3. m = IF y < Recs - 1 THEN y ELSE Recs - 1
  <2> HIDE DEF y
  <2> QED
    BY <1>1, MinTwo
<1> HIDE DEF x, y, m, r
<1>4. CASE x > y \/ x >= Recs
  <2>1. r = Nothing
    BY <1>2, <1>4
  <2>2. a >= 0 /\ b >= 0 => \A i \in 0 .. Recs - 1 : ~(a <= i /\ i <= b)
    BY <1>1, <1>4
  <2> QED
    BY <2>1, <2>2, NothingInside DEF r
<1>5. CASE ~(x > y \/ x >= Recs)
  <2>1. r.from = x /\ r.count = m - x + 1
    BY <1>2, <1>5
  <2>2. Inside(r)
    BY <1>1, <1>3, <1>5, <2>1 DEF Inside
  <2>3. a >= 0 /\ b >= 0 => \A i \in 0 .. Recs - 1 : InRange(r, i) <=> a <= i /\ i <= b
    BY <1>1, <1>3, <1>5, <2>1 DEF InRange
  <2> QED
    BY <2>2, <2>3 DEF r
<1> QED
  BY <1>4, <1>5

LEMMA CountIs ==
    ASSUME Recs \in Nat, NEW a \in Int, NEW n \in Int
    PROVE  /\ Inside(TransOfCount(a, n))
           /\ a >= 0 /\ n > 0 =>
                \A i \in 0 .. Recs - 1 : InRange(TransOfCount(a, n), i) <=> a <= i /\ i < a + n
           /\ a >= 0 /\ a < Recs /\ n < 0 =>
                \A i \in 0 .. Recs - 1 : InRange(TransOfCount(a, n), i) <=> i <= a /\ i > a + n
<1> DEFINE x == Clamped(a)  back == Min({-n, x + 1})  m == Min({n, Recs - x})  r == TransOfCount(a, n)
<1>1. x \in Nat /\ (a >= 0 => x = a)
  BY ClampedIs
<1>2. r = IF n = 0 \/ x >= Recs THEN Nothing
          ELSE IF n < 0 THEN [from |-> x - (back - 1), count |-> back] ELSE [from |-> x, count |-> m]
  BY DEF TransOfCount
<1>3. /\ back = IF -n < x + 1 THEN -n ELSE x + 1
      /\ m = IF n < Recs - x THEN n ELSE Recs - x
  <2> HIDE DEF x
  <2> QED
    BY <1>1, MinTwo
<1> HIDE DEF x, back, m, r
<1>4. CASE n = 0 \/ x >= Recs
  <2>1. r = Nothing
    BY <1>2, <1>4
  <2>2. /\ a >= 0 /\ n > 0 => \A i \in 0 .. Recs - 1 : ~(a <= i /\ i < a + n)
        /\ ~(a >= 0 /\ a < Recs /\ n < 0)
    BY <1>1, <1>4
  <2> QED
    BY <2>1, <2>2, NothingInside DEF r
<1>5. CASE ~(n = 0 \/ x >= Recs) /\ n < 0
  <2>1. r.from = x - (back - 1) /\ r.count = back
    BY <1>2, <1>5
  <2>2. Inside(r)
    BY <1>1, <1>3, <1>5, <2>1 DEF Inside
  <2>3. a >= 0 => \A i \in 0 .. Recs - 1 : InRange(r, i) <=> i <= a /\ i > a + n
    BY <1>1, <1>3, <1>5, <2>1 DEF InRange
  <2> QED
    BY <1>5, <2>2, <2>3 DEF r
<1>6. CASE ~(n = 0 \/ x >= Recs) /\ ~(n < 0)
  <2>1. r.from = x /\ r.count = m
    BY <1>2, <1>6
  <2>2. Inside(r)
    BY <1>1, <1>3, <1>6, <2>1 DEF Inside
  <2>3. a >= 0 => \A i \in 0 .. Recs - 1 : InRange(r, i) <=> a <= i /\ i < a + n
    BY <1>1, <1>3, <1>6, <2>1 DEF InRange
  <2> QED
    BY <1>6, <2>2, <2>3 DEF r
<1> QED
  BY <1>4, <1>5, <1>6

\* whatever the order of the records, a search gives a position
LEMMA SearchesTyped ==
    ASSUME CollectTypeOK, StepFits, NEW f \in Nat
    PROVE  Search(f) \in Int /\ SearchLeft(f).at \in Int /\ SearchRight(f).at \in Int
<1> DEFINE w == Walk(f)
<1>0. Recs \in Nat /\ Positions = 0 .. Recs - 1 /\ Placed
  BY IsPlaced DEF Placed
<1>1. CASE StepGoto(f) < 0
  BY <1>1 DEF Search, SearchLeft, SearchRight, None
<1>2. CASE ~(StepGoto(f) < 0)
  <2>1. StepGoto(f) \in Positions
    BY <1>0, <1>2, GotoPlace
  <2>2. w.at \in Int
    BY <1>0, <2>1, WalkEnds
  <2>3. Hit(f, w) => w.at \in Positions
    BY DEF Hit, Off
  <2>4. Search(f) = IF Hit(f, w) THEN w.at ELSE -1
    BY <1>2 DEF Search
  <2>5. SearchLeft(f) =
            CASE Hit(f, w)   -> [at |-> RunEnd(f, w.at), mode |-> "ok"]
               [] ~Hit(f, w) /\ w.dir = 1 -> [at |-> w.at - 1, mode |-> "left"]
               [] ~Hit(f, w) /\ w.dir # 1 /\ ~Off(w) -> [at |-> w.at, mode |-> "left"]
               [] ~Hit(f, w) /\ w.dir # 1 /\ Off(w) -> None
    BY <1>2 DEF SearchLeft
  <2>6. SearchRight(f) =
            CASE Hit(f, w)   -> [at |-> RunStart(f, w.at), mode |-> "ok"]
               [] ~Hit(f, w) /\ w.dir # 1 -> [at |-> w.at + 1, mode |-> "right"]
               [] ~Hit(f, w) /\ w.dir = 1 /\ ~Off(w) -> [at |-> w.at, mode |-> "right"]
               [] ~Hit(f, w) /\ w.dir = 1 /\ Off(w) -> None
    BY <1>2 DEF SearchRight
  <2> HIDE DEF w
  <2>7. Hit(f, w) => RunEnd(f, w.at) \in Int /\ RunStart(f, w.at) \in Int
    BY <1>0, <2>3, RunEndPlace, RunStartPlace
  <2>8. SearchLeft(f).at \in Int
    BY <2>2, <2>5, <2>7 DEF None
  <2>9. SearchRight(f).at \in Int
    BY <2>2, <2>6, <2>7 DEF None
  <2> QED
    BY <2>2, <2>4, <2>8, <2>9
<1> QED
  BY <1>1, <1>2

LEMMA RangesInside ==
    ASSUME CollectTypeOK, StepFits, NEW f \in Nat, NEW g \in Nat, NEW n \in Int, NEW k \in Int
    PROVE  /\ Inside(TimeRange(f, g, n)) /\ Inside(DelCount(f, n))
           /\ Inside(MinCount(f, n, k)) /\ Inside(MaxCount(f, n, k))
<1>0. Recs \in Nat
  BY IsPlaced DEF Placed
<1>1. /\ Search(f) \in Int /\ SearchLeft(f).at \in Int /\ SearchRight(f).at \in Int
      /\ SearchLeft(g).at \in Int
  BY SearchesTyped
<1>2. \A x \in Int : Max({0, x}) \in Int
  BY MaxTwo
<1>3. Inside(TimeRange(f, g, n))
  <2>1. Inside(TransOfRange(Max({0, SearchRight(f).at + n}), SearchLeft(g).at))
    BY <1>0, <1>1, <1>2, RangeIs
  <2> QED
    BY <1>0, <2>1, NothingInside DEF TimeRange
<1>4. Inside(DelCount(f, n))
  BY <1>0, <1>1, CountIs, NothingInside DEF DelCount
<1>5. Inside(MinCount(f, n, k))
  <2>1. \A m \in Int : Inside(TransOfCount(Max({0, SearchRight(f).at + k}), m))
    BY <1>0, <1>1, <1>2, CountIs
  <2>2. Inside(TransOfCount(Max({0, SearchRight(f).at + k}), IF k < 0 THEN n - k ELSE n))
    BY <2>1
  <2> QED
    BY <1>0, <2>2, NothingInside DEF MinCount
<1>6. Inside(MaxCount(f, n, k))
  <2> DEFINE less == SearchLeft(f).mode # "ok" /\ k < 0
             off == IF less THEN k + 1 ELSE k
             m == IF less THEN n + 1 ELSE n
             x == Max({0, SearchLeft(f).at + off})
             y == IF off < 0 THEN m - off ELSE m
  <2>1. x \in Int /\ y \in Int
    BY <1>1, <1>2
  <2>2. MaxCount(f, n, k) = IF SearchLeft(f).at < 0 THEN Nothing ELSE TransOfCount(x, y)
    BY DEF MaxCount
  <2> HIDE DEF x, y
  <2> QED
    BY <1>0, <2>1, <2>2, CountIs, NothingInside
<1> QED
  BY <1>3, <1>4, <1>5, <1>6
\* with the records in order: the records of a time span, the first two from a time, the last two
LEMMA SpanIs ==
    ASSUME CollectTypeOK, StepFits, HasIndex, TimesAscend, NEW f \in Nat, NEW g \in Nat,
           NEW i \in Positions
    PROVE  InRange(TimeRange(f, g, 0), i) <=> Time(list, i) <= g /\ Time(list, i) >= f
<1> DEFINE a == SearchRight(f)  b == SearchLeft(g)
<1>0. Recs \in Nat /\ Positions = 0 .. Recs - 1 /\ Placed /\ Time(list, i) \in Nat
  BY IsPlaced DEF Placed
<1>1. LastUpto(g, b.at) /\ (b.mode = "none" <=> b.at = -1)
  BY SearchLeftIs
<1>2. FirstFrom(f, a.at) /\ (a.mode = "none" <=> a.at = -1)
  BY SearchRightIs
<1>3. TimeRange(f, g, 0) = IF a.mode = "none" \/ b.mode = "none" THEN Nothing
                           ELSE TransOfRange(Max({0, a.at + 0}), b.at)
  BY DEF TimeRange
<1> HIDE DEF a, b
<1>4. b.at \in -1 .. Recs - 1 /\ (Time(list, i) <= g <=> i <= b.at)
  BY <1>1 DEF LastUpto
<1>5. CASE a.mode = "none" \/ b.mode = "none"
  <2>1. ~(Time(list, i) <= g /\ Time(list, i) >= f)
    <3>1. CASE b.mode = "none"
      BY <1>0, <1>1, <1>4, <3>1
    <3>2. CASE a.mode = "none"
      <4>1. a.at = -1 /\ -1 \notin Positions
        BY <1>0, <1>2, <3>2
      <4>2. Time(list, i) < f
        BY <1>2, <4>1 DEF FirstFrom
      <4> QED
        BY <1>0, <4>2
    <3> QED
      BY <1>5, <3>1, <3>2
  <2>2. ~InRange(Nothing, i) /\ TimeRange(f, g, 0) = Nothing
    BY <1>0, <1>3, <1>5, NothingInside
  <2> QED
    BY <2>1, <2>2
<1>6. CASE ~(a.mode = "none" \/ b.mode = "none")
  <2>1. a.at \in Positions /\ (Time(list, i) >= f <=> i >= a.at)
    BY <1>2, <1>6 DEF FirstFrom
  <2>2. b.at \in 0 .. Recs - 1
    BY <1>0, <1>1, <1>4, <1>6
  <2>3. Max({0, a.at + 0}) = a.at
    BY <1>0, <2>1, MaxTwo
  <2>4. TimeRange(f, g, 0) = TransOfRange(a.at, b.at)
    BY <1>3, <1>6, <2>3
  <2>5. InRange(TransOfRange(a.at, b.at), i) <=> a.at <= i /\ i <= b.at
    <3>1. a.at \in Int /\ b.at \in Int /\ a.at >= 0 /\ b.at >= 0 /\ i \in 0 .. Recs - 1
      BY <1>0, <2>1, <2>2
    <3> QED
      BY <1>0, <3>1, RangeIs
  <2> QED
    BY <1>0, <1>4, <2>1, <2>2, <2>4, <2>5
<1> QED
  BY <1>5, <1>6

LEMMA FirstTwoAre ==
    ASSUME CollectTypeOK, StepFits, HasIndex, TimesAscend, NEW f \in Nat, NEW i \in Positions
    PROVE  LET from == {j \in Positions : Time(list, j) >= f}
           IN  InRange(MinCount(f, 2, 0), i) <=> i \in from /\ i < Min(from) + 2
<1> DEFINE a == SearchRight(f)  from == {j \in Positions : Time(list, j) >= f}
<1>0. Recs \in Nat /\ Positions = 0 .. Recs - 1 /\ Placed /\ Time(list, i) \in Nat
  BY IsPlaced DEF Placed
<1>1. FirstFrom(f, a.at)
  BY SearchRightIs
<1>2. a.at = IF from = {} THEN -1 ELSE Min(from)
  BY <1>0, <1>1, FirstFromMin
<1>3. MinCount(f, 2, 0) = IF a.at < 0 THEN Nothing ELSE TransOfCount(Max({0, a.at + 0}), 2)
  BY DEF MinCount
<1>4. i \in from <=> Time(list, i) >= f
  OBVIOUS
<1> HIDE DEF a, from
<1>5. CASE a.at = -1
  <2>1. -1 \notin Positions
    BY <1>0
  <2>2. Time(list, i) < f
    BY <1>1, <1>5, <2>1 DEF FirstFrom
  <2>3. i \notin from
    BY <1>0, <1>4, <2>2
  <2>4. ~InRange(Nothing, i) /\ MinCount(f, 2, 0) = Nothing
    BY <1>0, <1>3, <1>5, NothingInside
  <2> QED
    BY <2>3, <2>4 DEF from
<1>6. CASE a.at # -1
  <2>1. a.at \in Positions /\ (Time(list, i) >= f <=> i >= a.at)
    BY <1>1, <1>6 DEF FirstFrom
  <2>2. a.at = Min(from)
    BY <1>2, <1>6
  <2>3. Max({0, a.at + 0}) = a.at /\ a.at \in Int /\ a.at >= 0
    BY <1>0, <2>1, MaxTwo
  <2>4. MinCount(f, 2, 0) = TransOfCount(a.at, 2)
    BY <1>3, <2>3
  <2>5. InRange(TransOfCount(a.at, 2), i) <=> a.at <= i /\ i < a.at + 2
    BY <1>0, <2>3, CountIs
  <2>6. InRange(MinCount(f, 2, 0), i) <=> i \in from /\ i < Min(from) + 2
    BY <1>0, <1>4, <2>1, <2>2, <2>3, <2>4, <2>5
  <2> QED
    BY <2>6 DEF from
<1> QED
  BY <1>5, <1>6

LEMMA LastTwoAre ==
    ASSUME CollectTypeOK, StepFits, HasIndex, TimesAscend, NEW g \in Nat, NEW i \in Positions
    PROVE  LET upto == {j \in Positions : Time(list, j) <= g}
           IN  InRange(MaxCount(g, -2, 0), i) <=> i \in upto /\ i > Max(upto) - 2
<1> DEFINE b == SearchLeft(g)  upto == {j \in Positions : Time(list, j) <= g}
<1>0. Recs \in Nat /\ Positions = 0 .. Recs - 1 /\ Placed /\ Time(list, i) \in Nat
  BY IsPlaced DEF Placed
<1>1. LastUpto(g, b.at)
  BY SearchLeftIs
<1>2. b.at \in -1 .. Recs - 1 /\ \A j \in Positions : Time(list, j) <= g <=> j <= b.at
  BY <1>1 DEF LastUpto
<1>3. MaxCount(g, -2, 0) = IF b.at < 0 THEN Nothing ELSE TransOfCount(Max({0, b.at + 0}), -2)
  BY DEF MaxCount
<1>4. i \in upto <=> Time(list, i) <= g
  OBVIOUS
<1>5. ASSUME b.at >= 0 PROVE Max(upto) = b.at
  <2>1. b.at \in Positions
    BY <1>0, <1>2, <1>5
  <2>2. b.at \in upto /\ upto \subseteq Int /\ \A j \in upto : j <= b.at
    BY <1>0, <1>2, <2>1
  <2> HIDE DEF upto, b
  <2> QED
    BY <2>2, MaxIs
<1> HIDE DEF b, upto
<1>6. CASE b.at < 0
  <2>1. i \notin upto
    BY <1>0, <1>2, <1>4, <1>6
  <2>2. ~InRange(Nothing, i) /\ MaxCount(g, -2, 0) = Nothing
    BY <1>0, <1>3, <1>6, NothingInside
  <2> QED
    BY <2>1, <2>2 DEF upto
<1>7. CASE b.at >= 0
  <2>1. Max({0, b.at + 0}) = b.at /\ b.at \in Int /\ b.at < Recs
    BY <1>0, <1>2, <1>7, MaxTwo
  <2>2. MaxCount(g, -2, 0) = TransOfCount(b.at, -2)
    BY <1>2, <1>3, <1>7, <2>1
  <2>3. InRange(TransOfCount(b.at, -2), i) <=> i <= b.at /\ i > b.at + (-2)
    <3>1. -2 \in Int /\ -2 < 0
      OBVIOUS
    <3> QED
      BY <1>0, <1>7, <2>1, <3>1, CountIs
  <2>4. InRange(MaxCount(g, -2, 0), i) <=> i \in upto /\ i > Max(upto) - 2
    BY <1>0, <1>2, <1>4, <1>5, <1>7, <2>1, <2>2, <2>3
  <2> QED
    BY <2>4 DEF upto
<1> QED
  BY <1>2, <1>6, <1>7

LEMMA GetsAreExact ==
    ASSUME CollectTypeOK, StepFits PROVE GetExact
<1> DEFINE inside(r) == r.count = 0 \/ (r.from >= 0 /\ r.from + r.count <= Recs)
           covers(r, set) == {i \in Positions : i >= r.from /\ i < r.from + r.count} = set
<1>0. Recs \in Nat /\ Finders \subseteq Nat /\ Signed \subseteq Int
  BY IsPlaced, CollectAssumption DEF Placed
<1>i. ASSUME NEW r, Inside(r) PROVE inside(r)
  BY <1>i DEF Inside
<1>c. ASSUME NEW r, NEW S, S \subseteq Positions, \A i \in Positions : InRange(r, i) <=> i \in S
      PROVE  covers(r, S)
  BY <1>c DEF InRange
<1>1. ASSUME NEW a \in Signed, NEW b \in Signed
      PROVE  inside(TransOfRange(a, b)) /\ inside(TransOfCount(a, b))
  <2>1. Inside(TransOfRange(a, b)) /\ Inside(TransOfCount(a, b))
    BY <1>0, RangeIs, CountIs
  <2> QED
    BY <2>1, <1>i
<1>2. ASSUME NEW f \in Finders, NEW g \in Finders, NEW n \in Signed, NEW k \in Signed
      PROVE  /\ inside(TimeRange(f, g, n)) /\ inside(DelCount(f, n))
             /\ inside(MinCount(f, n, k)) /\ inside(MaxCount(f, n, k))
  <2>1. /\ Inside(TimeRange(f, g, n)) /\ Inside(DelCount(f, n))
        /\ Inside(MinCount(f, n, k)) /\ Inside(MaxCount(f, n, k))
    BY <1>0, RangesInside
  <2> QED
    BY <2>1, <1>i
<1>3. ASSUME HasIndex, Ascending(list), NEW f \in Finders, NEW g \in Finders
      PROVE  LET upto == {i \in Positions : Time(list, i) <= g}
                 from == {i \in Positions : Time(list, i) >= f}
             IN  /\ covers(TimeRange(f, g, 0), upto \cap from)
                 /\ covers(MinCount(f, 2, 0), {i \in from : i < Min(from) + 2})
                 /\ covers(MaxCount(g, -2, 0), {i \in upto : i > Max(upto) - 2})
  <2> DEFINE upto == {i \in Positions : Time(list, i) <= g}
             from == {i \in Positions : Time(list, i) >= f}
  <2>0. TimesAscend /\ f \in Nat /\ g \in Nat
    BY <1>0, <1>3, AscendingTimes
  <2>1. \A i \in Positions : InRange(TimeRange(f, g, 0), i) <=> i \in upto \cap from
    BY <1>3, <2>0, SpanIs
  <2>2. \A i \in Positions : InRange(MinCount(f, 2, 0), i) <=> i \in {j \in from : j < Min(from) + 2}
    BY <1>3, <2>0, FirstTwoAre
  <2>3. \A i \in Positions : InRange(MaxCount(g, -2, 0), i) <=> i \in {j \in upto : j > Max(upto) - 2}
    BY <1>3, <2>0, LastTwoAre
  <2>4. upto \subseteq Positions /\ from \subseteq Positions
    OBVIOUS
  <2> HIDE DEF upto, from
  <2> HIDE DEF covers
  <2>5. covers(TimeRange(f, g, 0), upto \cap from)
    BY <1>c, <2>1, <2>4
  <2>6. covers(MinCount(f, 2, 0), {j \in from : j < Min(from) + 2})
    BY <1>c, <2>2, <2>4
  <2>7. covers(MaxCount(g, -2, 0), {j \in upto : j > Max(upto) - 2})
    BY <1>c, <2>3, <2>4
  <2> QED
    BY <2>5, <2>6, <2>7 DEF upto, from
<1> HIDE DEF inside, covers
<1>4. /\ \A a, b \in Signed : inside(TransOfRange(a, b)) /\ inside(TransOfCount(a, b))
      /\ \A f \in Finders, n \in Signed :
            /\ \A g \in Finders : inside(TimeRange(f, g, n))
            /\ inside(DelCount(f, n))
            /\ \A k \in Signed : inside(MinCount(f, n, k)) /\ inside(MaxCount(f, n, k))
  BY <1>1, <1>2
<1> QED
  BY <1>3, <1>4 DEF GetExact, inside, covers
-----------------------------------------------------------------------------
(* What a write, a load and a deletion do to the order of the records.     *)

Good(l) == (HasIndex => Ascending(l)) /\ (HasSolely => Unique(l))

\* two records that may stand in one list
Apart(q, r) == q.s # r.s \/ (HasIndex /\ q.t # r.t)

LEMMA SeqFacts ==
    ASSUME NEW l \in Seq(Rows)
    PROVE  /\ Len(l) \in Nat /\ DOMAIN l = 1 .. Len(l) /\ l \in [1 .. Len(l) -> Rows]
           /\ \A i \in 1 .. Len(l) : l[i] \in Rows /\ l[i].t \in Nat
  BY RecordTyped, LenProperties

LEMMA LastIs ==
    ASSUME NEW l \in Seq(Rows), l # <<>>
    PROVE  Last(l) = l[Len(l)] /\ Len(l) \in 1 .. Len(l) /\ Len(l) >= 1 /\ Head(l) = l[1]
  BY EmptySeq, SeqFacts DEF Last

LEMMA AppendIs ==
    ASSUME NEW l \in Seq(Rows), NEW r \in Rows
    PROVE  /\ Append(l, r) \in Seq(Rows) /\ Append(l, r) # <<>>
           /\ Len(Append(l, r)) = Len(l) + 1
           /\ \A i \in 1 .. Len(l) : Append(l, r)[i] = l[i]
           /\ Append(l, r)[Len(l) + 1] = r
           /\ Last(Append(l, r)) = r
<1>1. /\ Append(l, r) \in Seq(Rows) /\ Append(l, r) # <<>>
      /\ Len(Append(l, r)) = Len(l) + 1
      /\ \A i \in 1 .. Len(l) : Append(l, r)[i] = l[i]
      /\ Append(l, r)[Len(l) + 1] = r
  BY AppendProperties
<1> QED
  BY <1>1 DEF Last

LEMMA AppendAscends ==
    ASSUME NEW l \in Seq(Rows), NEW r \in Rows, Ascending(l), l = <<>> \/ Last(l).t <= r.t
    PROVE  Ascending(Append(l, r))
<1> DEFINE m == Append(l, r)
<1>1. /\ Len(m) = Len(l) + 1 /\ \A i \in 1 .. Len(l) : m[i] = l[i]
      /\ m[Len(l) + 1] = r
  BY AppendIs
<1>2. Len(l) \in Nat
  BY SeqFacts
<1> HIDE DEF m
<1>3. ASSUME NEW i \in 1 .. Len(m) - 1 PROVE m[i].t <= m[i + 1].t
  <2>1. CASE i = Len(l)
    <3>1. l # <<>> /\ l[Len(l)] = Last(l)
      BY <1>1, <1>2, <2>1, LastIs, EmptySeq
    <3>2. m[i] = l[Len(l)] /\ m[i + 1] = r
      BY <1>1, <1>2, <2>1
    <3> QED
      BY <3>1, <3>2
  <2>2. CASE i # Len(l)
    <3>1. i \in 1 .. Len(l) - 1 /\ i \in 1 .. Len(l) /\ i + 1 \in 1 .. Len(l)
      BY <1>1, <1>2, <2>2
    <3>2. l[i].t <= l[i + 1].t
      BY <3>1 DEF Ascending
    <3> QED
      BY <1>1, <3>1, <3>2
  <2> QED
    BY <2>1, <2>2
<1>4. Ascending(m)
  BY <1>3 DEF Ascending
<1> QED
  BY <1>4 DEF m

LEMMA AppendUnique ==
    ASSUME NEW l \in Seq(Rows), NEW r \in Rows, Unique(l), \A i \in 1 .. Len(l) : Apart(l[i], r)
    PROVE  Unique(Append(l, r))
<1> DEFINE m == Append(l, r)
<1>1. /\ Len(m) = Len(l) + 1 /\ \A i \in 1 .. Len(l) : m[i] = l[i]
      /\ m[Len(l) + 1] = r /\ m \in Seq(Rows)
  BY AppendIs
<1>2. Len(l) \in Nat /\ DOMAIN l = 1 .. Len(l) /\ DOMAIN m = 1 .. Len(m)
  BY <1>1, SeqFacts
<1> HIDE DEF m
<1>3. ASSUME NEW i \in DOMAIN m, NEW j \in DOMAIN m, i # j
      PROVE m[i].s # m[j].s \/ (HasIndex /\ m[i].t # m[j].t)
  <2>1. CASE i = Len(l) + 1
    <3>1. j \in 1 .. Len(l) /\ m[i] = r /\ m[j] = l[j]
      BY <1>1, <1>2, <1>3, <2>1
    <3> QED
      BY <3>1 DEF Apart
  <2>2. CASE j = Len(l) + 1
    <3>1. i \in 1 .. Len(l) /\ m[j] = r /\ m[i] = l[i]
      BY <1>1, <1>2, <1>3, <2>2
    <3> QED
      BY <3>1 DEF Apart
  <2>3. CASE i # Len(l) + 1 /\ j # Len(l) + 1
    <3>1. i \in DOMAIN l /\ j \in DOMAIN l /\ m[i] = l[i] /\ m[j] = l[j]
      BY <1>1, <1>2, <2>3
    <3> QED
      BY <1>3, <3>1 DEF Unique
  <2> QED
    BY <2>1, <2>2, <2>3
<1>4. Unique(m)
  BY <1>3 DEF Unique
<1> QED
  BY <1>4 DEF m

LEMMA ReplaceIs ==
    ASSUME NEW l \in Seq(Rows), NEW r \in Rows, NEW k \in 1 .. Len(l), l # <<>>,
           HasIndex => l[k].t = r.t, HasSolely => l[k].s = r.s, Good(l)
    PROVE  /\ [l EXCEPT ![k] = r] \in Seq(Rows) /\ [l EXCEPT ![k] = r] # <<>>
           /\ Good([l EXCEPT ![k] = r])
           /\ HasIndex => Last([l EXCEPT ![k] = r]).t = Last(l).t
<1> DEFINE m == [l EXCEPT ![k] = r]
<1>1. Len(l) \in Nat /\ DOMAIN l = 1 .. Len(l) /\ l \in [1 .. Len(l) -> Rows]
  BY SeqFacts
<1>2. m \in [1 .. Len(l) -> Rows]
  BY <1>1
<1>3. m \in Seq(Rows)
  BY <1>1, <1>2, FunctionIsSeq
<1>4. Len(m) = Len(l) /\ DOMAIN m = DOMAIN l
  BY <1>1, <1>2, <1>3, SeqFacts
<1>5. /\ \A i \in 1 .. Len(l) : HasIndex => m[i].t = l[i].t
      /\ \A i \in 1 .. Len(l) : HasSolely => m[i].s = l[i].s
  BY <1>1
<1>6. m # <<>>
  BY <1>1, <1>4, EmptySeq, LastIs
<1> HIDE DEF m
<1>7. HasIndex => Last(m).t = Last(l).t
  BY <1>3, <1>4, <1>5, <1>6, LastIs
<1>8. HasIndex => Ascending(m)
  <2> SUFFICES ASSUME HasIndex, NEW i \in 1 .. Len(l) - 1 PROVE m[i].t <= m[i + 1].t
    BY <1>4 DEF Ascending
  <2>1. i \in 1 .. Len(l) /\ i + 1 \in 1 .. Len(l)
    BY <1>1
  <2>2. l[i].t <= l[i + 1].t
    BY DEF Good, Ascending
  <2> QED
    BY <1>5, <2>1, <2>2
<1>9. HasSolely => Unique(m)
  <2> SUFFICES ASSUME HasSolely, NEW i \in DOMAIN l, NEW j \in DOMAIN l, i # j
               PROVE  m[i].s # m[j].s \/ (HasIndex /\ m[i].t # m[j].t)
    BY <1>4 DEF Unique
  <2>1. l[i].s # l[j].s \/ (HasIndex /\ l[i].t # l[j].t)
    BY DEF Good, Unique
  <2> QED
    BY <1>1, <1>5, <2>1
<1> QED
  BY <1>3, <1>6, <1>7, <1>8, <1>9 DEF m, Good
LEMMA InsertIs ==
    ASSUME NEW l \in Seq(Rows), NEW r \in Rows, NEW i \in 0 .. Len(l)
    PROVE  /\ InsertAt(l, i + 1, r) \in Seq(Rows) /\ Len(InsertAt(l, i + 1, r)) = Len(l) + 1
           /\ \A k \in 1 .. Len(l) + 1 :
                InsertAt(l, i + 1, r)[k] = IF k <= i THEN l[k] ELSE IF k = i + 1 THEN r ELSE l[k - 1]
<1> DEFINE a == SubSeq(l, 1, i)  b == SubSeq(l, i + 1, Len(l))  c == a \o << r >>
<1>0. Len(l) \in Nat /\ i \in Int /\ i + 1 \in Int /\ \A k \in 1 .. Len(l) : l[k] \in Rows
  BY SeqFacts
<1>1. a \in Seq(Rows) /\ Len(a) = i /\ \A k \in 1 .. i : a[k] = l[k]
  <2>1. /\ a \in Seq(Rows)
        /\ Len(a) = IF 1 <= i THEN i - 1 + 1 ELSE 0
        /\ \A k \in 1 .. i - 1 + 1 : a[k] = l[1 + k - 1]
    BY <1>0, SubSeqProperties
  <2> HIDE DEF a
  <2> QED
    BY <1>0, <2>1
<1>2. /\ b \in Seq(Rows) /\ Len(b) = Len(l) - i
      /\ \A k \in 1 .. Len(l) - i : b[k] = l[i + k]
  <2>1. /\ b \in Seq(Rows)
        /\ Len(b) = IF i + 1 <= Len(l) THEN Len(l) - (i + 1) + 1 ELSE 0
        /\ \A k \in 1 .. Len(l) - (i + 1) + 1 : b[k] = l[i + 1 + k - 1]
    BY <1>0, SubSeqProperties
  <2> HIDE DEF b
  <2> QED
    BY <1>0, <2>1
<1>3. << r >> \in Seq(Rows) /\ Len(<< r >>) = 1 /\ << r >>[1] = r
  OBVIOUS
<1> HIDE DEF a, b
<1>4. /\ c \in Seq(Rows) /\ Len(c) = i + 1
      /\ \A k \in 1 .. i + 1 : c[k] = IF k <= i THEN l[k] ELSE r
  <2>1. /\ c \in Seq(Rows) /\ Len(c) = Len(a) + Len(<< r >>)
        /\ \A k \in 1 .. Len(a) + Len(<< r >>) : c[k] = IF k <= Len(a) THEN a[k] ELSE << r >>[k - Len(a)]
    BY <1>1, <1>3, ConcatProperties
  <2> HIDE DEF c
  <2>2. \A k \in 1 .. i + 1 : c[k] = IF k <= i THEN l[k] ELSE r
    <3> TAKE k \in 1 .. i + 1
    <3>1. CASE k <= i
      BY <1>0, <1>1, <1>3, <2>1, <3>1
    <3>2. CASE k = i + 1
      <4>1. k - Len(a) = 1 /\ ~(k <= Len(a)) /\ k \in 1 .. Len(a) + Len(<< r >>)
        BY <1>0, <1>1, <1>3, <3>2
      <4> QED
        BY <1>1, <1>3, <2>1, <4>1
    <3> QED
      BY <1>0, <3>1, <3>2
  <2> QED
    BY <1>0, <1>1, <1>3, <2>1, <2>2
<1> HIDE DEF c
<1>5. /\ c \o b \in Seq(Rows) /\ Len(c \o b) = Len(c) + Len(b)
      /\ \A k \in 1 .. Len(c) + Len(b) : (c \o b)[k] = IF k <= Len(c) THEN c[k] ELSE b[k - Len(c)]
  BY <1>2, <1>4, ConcatProperties
<1>6. InsertAt(l, i + 1, r) = c \o b
  <2>1. (i + 1) - 1 = i
    BY <1>0
  <2> QED
    BY <2>1 DEF InsertAt, a, b, c
<1>7. Len(c) + Len(b) = Len(l) + 1
  BY <1>0, <1>2, <1>4
<1>8. ASSUME NEW k \in 1 .. Len(l) + 1
      PROVE  (c \o b)[k] = IF k <= i THEN l[k] ELSE IF k = i + 1 THEN r ELSE l[k - 1]
  <2>1. (c \o b)[k] = IF k <= Len(c) THEN c[k] ELSE b[k - Len(c)]
    BY <1>5, <1>7
  <2>2. CASE k <= i + 1
    BY <1>0, <1>4, <2>1, <2>2
  <2>3. CASE k > i + 1
    <3>1. k - Len(c) \in 1 .. Len(l) - i /\ i + (k - Len(c)) = k - 1 /\ ~(k <= Len(c))
      BY <1>0, <1>4, <2>3
    <3>2. b[k - Len(c)] = l[k - 1]
      BY <1>2, <3>1
    <3> QED
      BY <1>0, <2>1, <2>3, <3>1, <3>2
  <2>4. k <= i + 1 \/ k > i + 1
    BY <1>0
  <2> QED
    BY <2>2, <2>3, <2>4, Zenon
<1> QED
  BY <1>5, <1>6, <1>7, <1>8

LEMMA InsertedTyped ==
    ASSUME NEW l \in Seq(Rows), NEW r \in Rows, NEW i \in Nat
    PROVE  Inserted(l, i, r) \in Seq(Rows) /\ Inserted(l, i, r) # <<>>
<1>0. Len(l) \in Nat
  BY SeqFacts
<1>1. CASE i > Len(l) - 1
  BY <1>1, AppendIs DEF Inserted, Pushed
<1>2. CASE ~(i > Len(l) - 1)
  <2>1. i \in 0 .. Len(l)
    BY <1>0, <1>2
  <2>2. InsertAt(l, i + 1, r) \in Seq(Rows) /\ Len(InsertAt(l, i + 1, r)) = Len(l) + 1
    BY <2>1, InsertIs
  <2>3. InsertAt(l, i + 1, r) # <<>>
    BY <1>0, <2>2, EmptySeq
  <2> QED
    BY <1>2, <2>2, <2>3 DEF Inserted
<1> QED
  BY <1>1, <1>2

\* a record inserted after the last one that is not later
LEMMA InsertedAscends ==
    ASSUME NEW l \in Seq(Rows), NEW r \in Rows, NEW i \in Nat, Ascending(l),
           \A k \in 1 .. Len(l) : IF k <= i THEN l[k].t <= r.t ELSE r.t <= l[k].t
    PROVE  Ascending(Inserted(l, i, r))
<1>0. Len(l) \in Nat
  BY SeqFacts
<1>1. CASE i > Len(l) - 1
  <2>1. l = <<>> \/ Last(l).t <= r.t
    <3> SUFFICES ASSUME l # <<>> PROVE Last(l).t <= r.t
      OBVIOUS
    <3>1. Last(l) = l[Len(l)] /\ Len(l) \in 1 .. Len(l)
      BY LastIs
    <3> QED
      BY <1>0, <1>1, <3>1
  <2> QED
    BY <1>1, <2>1, AppendAscends DEF Inserted, Pushed
<1>2. CASE ~(i > Len(l) - 1)
  <2> DEFINE m == InsertAt(l, i + 1, r)
  <2>1. i \in 0 .. Len(l)
    BY <1>0, <1>2
  <2>2. /\ m \in Seq(Rows) /\ Len(m) = Len(l) + 1
        /\ \A k \in 1 .. Len(l) + 1 : m[k] = IF k <= i THEN l[k] ELSE IF k = i + 1 THEN r ELSE l[k - 1]
    BY <2>1, InsertIs
  <2> HIDE DEF m
  <2>3. ASSUME NEW k \in 1 .. Len(m) - 1 PROVE m[k].t <= m[k + 1].t
    <3>0. k \in 1 .. Len(l) /\ k \in 1 .. Len(l) + 1 /\ k + 1 \in 1 .. Len(l) + 1
      BY <1>0, <2>2, <2>3
    <3>1. CASE k < i
      <4>1. m[k] = l[k] /\ m[k + 1] = l[k + 1] /\ k \in 1 .. Len(l) - 1
        BY <1>0, <1>2, <2>2, <3>0, <3>1
      <4> QED
        BY <4>1 DEF Ascending
    <3>2. CASE k = i
      <4>1. m[k] = l[k] /\ m[k + 1] = r /\ k <= i
        BY <1>0, <2>2, <3>0, <3>2
      <4> QED
        BY <3>0, <4>1
    <3>3. CASE k = i + 1
      <4>1. m[k] = r /\ m[k + 1] = l[k] /\ ~(k <= i)
        <5>1. ~(k + 1 <= i) /\ k + 1 # i + 1 /\ ~(k <= i) /\ (k + 1) - 1 = k
          BY <3>0, <3>3
        <5> QED
          BY <2>2, <3>0, <3>3, <5>1
      <4> QED
        BY <3>0, <4>1
    <3>4. CASE k > i + 1
      <4>1. m[k] = l[k - 1] /\ m[k + 1] = l[k] /\ k - 1 \in 1 .. Len(l) - 1 /\ (k - 1) + 1 = k
        <5>1. ~(k + 1 <= i) /\ k + 1 # i + 1 /\ ~(k <= i) /\ k # i + 1 /\ (k + 1) - 1 = k
          BY <3>0, <3>4
        <5>2. k - 1 \in 1 .. Len(l) - 1 /\ (k - 1) + 1 = k
          BY <1>0, <3>0, <3>4
        <5> QED
          BY <2>2, <3>0, <5>1, <5>2
      <4>2. l[k - 1].t <= l[(k - 1) + 1].t
        BY <4>1 DEF Ascending
      <4> QED
        BY <4>1, <4>2
    <3> QED
      BY <3>0, <3>1, <3>2, <3>3, <3>4
  <2>4. Ascending(m)
    BY <2>3 DEF Ascending
  <2> QED
    BY <1>2, <2>4 DEF Inserted, m
<1> QED
  BY <1>1, <1>2

LEMMA RemovedIs ==
    ASSUME NEW l \in Seq(Rows), NEW a \in Nat, NEW n \in Nat, a + n <= Len(l),
           NEW r, r.from = a, r.count = n
    PROVE  /\ Removed(l, r) \in Seq(Rows) /\ Len(Removed(l, r)) = Len(l) - n
           /\ \A k \in 1 .. Len(l) - n : Removed(l, r)[k] = IF k <= a THEN l[k] ELSE l[k + n]
<1> DEFINE c == SubSeq(l, 1, a)  b == SubSeq(l, a + n + 1, Len(l))
<1>0. Len(l) \in Nat /\ \A k \in 1 .. Len(l) : l[k] \in Rows
  BY SeqFacts
<1>1. c \in Seq(Rows) /\ Len(c) = a /\ \A k \in 1 .. a : c[k] = l[k]
  <2>1. /\ c \in Seq(Rows)
        /\ Len(c) = IF 1 <= a THEN a - 1 + 1 ELSE 0
        /\ \A k \in 1 .. a - 1 + 1 : c[k] = l[1 + k - 1]
    BY <1>0, SubSeqProperties
  <2> HIDE DEF c
  <2> QED
    BY <1>0, <2>1
<1>2. /\ b \in Seq(Rows) /\ Len(b) = Len(l) - n - a
      /\ \A k \in 1 .. Len(l) - n - a : b[k] = l[a + n + k]
  <2>1. /\ b \in Seq(Rows)
        /\ Len(b) = IF a + n + 1 <= Len(l) THEN Len(l) - (a + n + 1) + 1 ELSE 0
        /\ \A k \in 1 .. Len(l) - (a + n + 1) + 1 : b[k] = l[a + n + 1 + k - 1]
    BY <1>0, SubSeqProperties
  <2> HIDE DEF b
  <2> QED
    BY <1>0, <2>1
<1> HIDE DEF b, c
<1>5. /\ c \o b \in Seq(Rows) /\ Len(c \o b) = Len(c) + Len(b)
      /\ \A k \in 1 .. Len(c) + Len(b) : (c \o b)[k] = IF k <= Len(c) THEN c[k] ELSE b[k - Len(c)]
  BY <1>1, <1>2, ConcatProperties
<1>6. Removed(l, r) = c \o b
  BY DEF Removed, b, c
<1>7. Len(c) + Len(b) = Len(l) - n
  BY <1>0, <1>1, <1>2
<1>8. ASSUME NEW k \in 1 .. Len(l) - n PROVE (c \o b)[k] = IF k <= a THEN l[k] ELSE l[k + n]
  <2>1. (c \o b)[k] = IF k <= a THEN c[k] ELSE b[k - a]
    BY <1>1, <1>5, <1>7
  <2>2. CASE k <= a
    BY <1>1, <2>1, <2>2
  <2>3. CASE k > a
    <3>1. k - a \in 1 .. Len(l) - n - a /\ a + n + (k - a) = k + n /\ ~(k <= a)
      BY <1>0, <2>3
    <3>2. b[k - a] = l[k + n]
      BY <1>2, <3>1
    <3> QED
      BY <2>1, <3>1, <3>2
  <2>4. k <= a \/ k > a
    OBVIOUS
  <2> QED
    BY <2>2, <2>3, <2>4, Zenon
<1>9. \A k \in 1 .. Len(l) - n : (c \o b)[k] = IF k <= a THEN l[k] ELSE l[k + n]
  BY <1>8, Zenon
<1>10. c \o b \in Seq(Rows) /\ Len(c \o b) = Len(l) - n
  BY <1>5, <1>7, Zenon
<1> DEFINE d == c \o b
<1>11. /\ d \in Seq(Rows) /\ Len(d) = Len(l) - n /\ Removed(l, r) = d
       /\ \A k \in 1 .. Len(l) - n : d[k] = IF k <= a THEN l[k] ELSE l[k + n]
  BY <1>6, <1>9, <1>10, Zenon
<1> HIDE DEF d
<1> QED
  BY <1>11

LEMMA RemovedGood ==
    ASSUME NEW l \in Seq(Rows), NEW a \in Nat, NEW n \in Nat, a + n <= Len(l),
           NEW r, r.from = a, r.count = n, Good(l)
    PROVE  Good(Removed(l, r))
<1> DEFINE m == Removed(l, r)  place(k) == IF k <= a THEN k ELSE k + n
<1>0. Len(l) \in Nat /\ l \in Seq([t : Nat, s : Rests]) /\ DOMAIN l = 1 .. Len(l)
  BY SeqFacts, RecordTyped
<1>1. /\ m \in Seq(Rows) /\ Len(m) = Len(l) - n
      /\ \A k \in 1 .. Len(l) - n : m[k] = IF k <= a THEN l[k] ELSE l[k + n]
  BY RemovedIs
<1>2. DOMAIN m = 1 .. Len(l) - n
  BY <1>1, SeqFacts
<1>3. \A k \in 1 .. Len(l) - n : m[k] = l[place(k)] /\ place(k) \in 1 .. Len(l)
  BY <1>0, <1>1
<1>4. \A j, k \in 1 .. Len(l) - n : (j < k => place(j) <= place(k)) /\ (j # k => place(j) # place(k))
  BY <1>0
<1> HIDE DEF m, place
<1>5. HasIndex => Ascending(m)
  <2> SUFFICES ASSUME HasIndex, NEW k \in 1 .. Len(m) - 1 PROVE m[k].t <= m[k + 1].t
    BY DEF Ascending
  <2>1. k \in 1 .. Len(l) - n /\ k + 1 \in 1 .. Len(l) - n /\ k < k + 1
    BY <1>0, <1>1
  <2>2. place(k) \in 1 .. Len(l) /\ place(k + 1) \in 1 .. Len(l) /\ place(k) <= place(k + 1)
    BY <1>3, <1>4, <2>1
  <2>3. l[place(k)].t <= l[place(k + 1)].t
    BY <1>0, <2>2, InOrderThroughout DEF Good
  <2> QED
    BY <1>3, <2>1, <2>3
<1>6. HasSolely => Unique(m)
  <2> SUFFICES ASSUME HasSolely, NEW i \in DOMAIN m, NEW j \in DOMAIN m, i # j
               PROVE  m[i].s # m[j].s \/ (HasIndex /\ m[i].t # m[j].t)
    BY DEF Unique
  <2>1. place(i) \in DOMAIN l /\ place(j) \in DOMAIN l /\ place(i) # place(j)
    BY <1>0, <1>2, <1>3, <1>4
  <2>2. l[place(i)].s # l[place(j)].s \/ (HasIndex /\ l[place(i)].t # l[place(j)].t)
    BY <2>1 DEF Good, Unique
  <2> QED
    BY <1>2, <1>3, <2>2
<1> QED
  BY <1>5, <1>6 DEF Good, m
-----------------------------------------------------------------------------
(* One record of a write.                                                  *)

LEMMA FromLastIs ==
    ASSUME NEW l \in Seq(Rows), NEW f \in Nat
    PROVE  /\ SearchFromLast(l, f).at \in Nat
           /\ SearchFromLast(l, f).mode = "ok" =>
                SearchFromLast(l, f).at \in 0 .. Len(l) - 1 /\ Time(l, SearchFromLast(l, f).at) = f
           /\ SearchFromLast(l, f).mode # "ok" /\ Ascending(l) =>
                \A k \in 1 .. Len(l) :
                    IF k <= SearchFromLast(l, f).at THEN l[k].t <= f ELSE f <= l[k].t
<1> DEFINE le == {i \in 0 .. Len(l) - 1 : Time(l, i) <= f}  s == SearchFromLast(l, f)  i == Max(le)
<1>0. /\ Len(l) \in Nat /\ l \in Seq([t : Nat, s : Rests])
      /\ \A k \in 1 .. Len(l) : l[k].t \in Nat /\ k - 1 \in 0 .. Len(l) - 1 /\ Time(l, k - 1) = l[k].t
  <2>1. /\ Len(l) \in Nat /\ l \in Seq([t : Nat, s : Rests])
        /\ \A k \in 1 .. Len(l) : l[k].t \in Nat
    BY SeqFacts, RecordTyped
  <2>2. ASSUME NEW k \in 1 .. Len(l) PROVE k - 1 \in 0 .. Len(l) - 1 /\ (k - 1) + 1 = k
    BY <2>1
  <2> QED
    BY <2>1, <2>2 DEF Time
<1>1. s = IF le = {} THEN [at |-> 0, mode |-> "none"]
          ELSE IF Time(l, i) = f THEN [at |-> i, mode |-> "ok"] ELSE [at |-> i + 1, mode |-> "right"]
  BY DEF SearchFromLast
<1>2. CASE le = {}
  <2>1. s = [at |-> 0, mode |-> "none"]
    BY <1>1, <1>2
  <2>2. ASSUME NEW k \in 1 .. Len(l) PROVE ~(k <= 0) /\ f <= l[k].t
    <3>1. ~(Time(l, k - 1) <= f)
      BY <1>0, <1>2
    <3> QED
      BY <1>0, <3>1
  <2> HIDE DEF s
  <2>3. s.at = 0 /\ s.mode # "ok"
    BY <2>1
  <2> QED
    BY <2>2, <2>3 DEF s
<1>3. CASE le # {}
  <2>1. i \in le /\ \A y \in le : y <= i
    <3>1. le \subseteq Int /\ Len(l) \in Int /\ \A y \in le : y <= Len(l)
      BY <1>0
    <3> HIDE DEF le
    <3> QED
      BY <1>3, <3>1, MaxOf
  <2>2. ASSUME NEW k \in 0 .. Len(l) - 1, k > i PROVE ~(Time(l, k) <= f)
    <3> SUFFICES ASSUME Time(l, k) <= f PROVE FALSE
      OBVIOUS
    <3> HIDE DEF i
    <3>1. k \in le /\ i \in Int
      BY <1>0, <2>1
    <3> QED
      BY <1>0, <2>1, <2>2, <3>1
  <2>3. i \in 0 .. Len(l) - 1 /\ Time(l, i) <= f
    BY <2>1
  <2> HIDE DEF i, le, s
  <2>4. CASE Time(l, i) = f
    <3>1. s.at = i /\ s.mode = "ok"
      BY <1>1, <1>3, <2>4
    <3> QED
      BY <1>0, <2>3, <2>4, <3>1 DEF s
  <2>5. CASE Time(l, i) # f
    <3>1. s.at = i + 1 /\ s.mode # "ok"
      BY <1>1, <1>3, <2>5
    <3>2. ASSUME Ascending(l), NEW k \in 1 .. Len(l)
          PROVE  IF k <= i + 1 THEN l[k].t <= f ELSE f <= l[k].t
      <4>1. CASE k <= i + 1
        <5>1. i + 1 \in 1 .. Len(l)
          BY <1>0, <2>3
        <5>2. l[k].t <= l[i + 1].t
          BY <1>0, <3>2, <4>1, <5>1, InOrderThroughout
        <5>3. l[i + 1].t = Time(l, i)
          BY DEF Time
        <5>4. l[k].t \in Nat /\ l[i + 1].t \in Nat
          BY <1>0, <5>1
        <5>5. \A a, b, c \in Nat : a <= b /\ b <= c => a <= c
          OBVIOUS
        <5>6. l[k].t <= f
          BY <2>3, <5>2, <5>3, <5>4, <5>5, Zenon
        <5> QED
          BY <4>1, <5>6
      <4>2. CASE ~(k <= i + 1)
        <5>1. k - 1 \in 0 .. Len(l) - 1 /\ k - 1 > i
          BY <1>0, <2>3, <4>2
        <5>2. ~(Time(l, k - 1) <= f)
          BY <2>2, <5>1
        <5>3. f <= l[k].t
          BY <1>0, <5>2
        <5> QED
          BY <4>2, <5>3
      <4> QED
        BY <4>1, <4>2
    <3>3. i + 1 \in Nat
      BY <1>0, <2>3
    <3> QED
      BY <3>1, <3>2, <3>3 DEF s
  <2> QED
    BY <2>4, <2>5
<1> QED
  BY <1>2, <1>3

\* where the walk back stops, and what it does there
Earlier(l, m, i) == m > 0 /\ Time(l, i) < m
Same(l, r, i) == ~HasSolely \/ l[i + 1].s = r.s

LEMMA SolelyIs ==
    ASSUME NEW l \in Seq(Rows), NEW r \in Rows, NEW index \in Int, NEW m \in Nat, l # <<>>,
           index = -1 \/ index \in 0 .. Len(l) - 1
    PROVE  LET start == IF index >= 0 THEN index ELSE Len(l) - 1
               u == UpdateSolely(l, r, index, m)
           IN  /\ start \in 0 .. Len(l) - 1
               /\ \/ /\ \A k \in 0 .. start : ~Earlier(l, m, k) /\ ~Same(l, r, k)
                     /\ u = Append(l, r)
                  \/ \E i \in 0 .. start :
                        /\ \A k \in 0 .. start : k > i => ~Earlier(l, m, k) /\ ~Same(l, r, k)
                        /\ \/ ~Earlier(l, m, i) /\ Same(l, r, i) /\ u = [l EXCEPT ![i + 1] = r]
                           \/ Earlier(l, m, i) /\ index = -1 /\ u = Append(l, r)
                           \/ Earlier(l, m, i) /\ index # -1 /\ u = Inserted(l, index + 1, r)
<1> DEFINE start == IF index >= 0 THEN index ELSE Len(l) - 1
           u == UpdateSolely(l, r, index, m)
           stops == {i \in 0 .. start : Earlier(l, m, i) \/ Same(l, r, i)}
<1>0. Len(l) \in Nat /\ Len(l) >= 1
  BY SeqFacts, LastIs
<1>1. start \in 0 .. Len(l) - 1
  BY <1>0
<1>2. u = IF stops = {} THEN Append(l, r)
          ELSE IF ~Earlier(l, m, Max(stops)) THEN [l EXCEPT ![Max(stops) + 1] = r]
               ELSE IF index = -1 THEN Append(l, r) ELSE Inserted(l, index + 1, r)
  BY DEF UpdateSolely, Earlier, Same, Pushed
<1>3. CASE stops = {}
  <2>1. \A k \in 0 .. start : ~Earlier(l, m, k) /\ ~Same(l, r, k)
    BY <1>3
  <2>2. u = Append(l, r)
    BY <1>2, <1>3
  <2> QED
    BY <1>1, <2>1, <2>2
<1>4. CASE stops # {}
  <2> DEFINE i == Max(stops)
  <2>1. i \in stops /\ \A y \in stops : y <= i
    <3>1. stops \subseteq Int /\ start \in Int /\ \A y \in stops : y <= start
      BY <1>1
    <3> HIDE DEF stops, start
    <3> QED
      BY <1>4, <3>1, MaxOf
  <2>2. i \in 0 .. start /\ (Earlier(l, m, i) \/ Same(l, r, i))
    BY <2>1
  <2>3. u = IF ~Earlier(l, m, i) THEN [l EXCEPT ![i + 1] = r]
            ELSE IF index = -1 THEN Append(l, r) ELSE Inserted(l, index + 1, r)
    BY <1>2, <1>4
  <2>4. ASSUME NEW k \in 0 .. start, k > i PROVE ~Earlier(l, m, k) /\ ~Same(l, r, k)
    <3> SUFFICES ASSUME Earlier(l, m, k) \/ Same(l, r, k) PROVE FALSE
      OBVIOUS
    <3>1. k \in stops
      BY Zenon
    <3> HIDE DEF i, stops
    <3>2. k <= i
      BY <2>1, <3>1
    <3> QED
      BY <1>1, <2>2, <2>4, <3>2
  <2> HIDE DEF i, u, start
  <2>5. \/ ~Earlier(l, m, i) /\ Same(l, r, i) /\ u = [l EXCEPT ![i + 1] = r]
        \/ Earlier(l, m, i) /\ index = -1 /\ u = Append(l, r)
        \/ Earlier(l, m, i) /\ index # -1 /\ u = Inserted(l, index + 1, r)
    BY <2>2, <2>3, Zenon
  <2>6. \E x \in 0 .. start :
           /\ \A k \in 0 .. start : k > x => ~Earlier(l, m, k) /\ ~Same(l, r, k)
           /\ \/ ~Earlier(l, m, x) /\ Same(l, r, x) /\ u = [l EXCEPT ![x + 1] = r]
              \/ Earlier(l, m, x) /\ index = -1 /\ u = Append(l, r)
              \/ Earlier(l, m, x) /\ index # -1 /\ u = Inserted(l, index + 1, r)
    BY <2>2, <2>4, <2>5, Zenon
  <2> QED
    BY <1>1, <2>6 DEF u, start
<1> QED
  BY <1>3, <1>4
LEMMA BackFromEnd ==
    ASSUME NEW l \in Seq(Rows), NEW r \in Rows, NEW m \in Nat, l # <<>>
    PROVE  LET last == Len(l) - 1
               u == UpdateSolely(l, r, -1, m)
           IN  \/ /\ \A k \in 0 .. last : ~Earlier(l, m, k) /\ ~Same(l, r, k)
                  /\ u = Append(l, r)
               \/ \E i \in 0 .. last :
                     /\ \A k \in 0 .. last : k > i => ~Earlier(l, m, k) /\ ~Same(l, r, k)
                     /\ \/ ~Earlier(l, m, i) /\ Same(l, r, i) /\ u = [l EXCEPT ![i + 1] = r]
                        \/ Earlier(l, m, i) /\ u = Append(l, r)
<1> DEFINE start == IF -1 >= 0 THEN -1 ELSE Len(l) - 1
           last == Len(l) - 1
           u == UpdateSolely(l, r, -1, m)
<1>1. start = last
  OBVIOUS
<1>2. \/ /\ \A k \in 0 .. start : ~Earlier(l, m, k) /\ ~Same(l, r, k)
         /\ u = Append(l, r)
      \/ \E i \in 0 .. start :
            /\ \A k \in 0 .. start : k > i => ~Earlier(l, m, k) /\ ~Same(l, r, k)
            /\ \/ ~Earlier(l, m, i) /\ Same(l, r, i) /\ u = [l EXCEPT ![i + 1] = r]
               \/ Earlier(l, m, i) /\ -1 = -1 /\ u = Append(l, r)
               \/ Earlier(l, m, i) /\ -1 # -1 /\ u = Inserted(l, -1 + 1, r)
  <2>1. -1 \in Int
    OBVIOUS
  <2> QED
    BY <2>1, SolelyIs
<1> HIDE DEF start, last, u
<1>3. -1 = -1
  OBVIOUS
<1>4. \/ /\ \A k \in 0 .. last : ~Earlier(l, m, k) /\ ~Same(l, r, k)
         /\ u = Append(l, r)
      \/ \E i \in 0 .. last :
            /\ \A k \in 0 .. last : k > i => ~Earlier(l, m, k) /\ ~Same(l, r, k)
            /\ \/ ~Earlier(l, m, i) /\ Same(l, r, i) /\ u = [l EXCEPT ![i + 1] = r]
               \/ Earlier(l, m, i) /\ u = Append(l, r)
  BY <1>1, <1>2, <1>3, Zenon
<1> QED
  BY <1>4 DEF last, u

LEMMA ReplaceTyped ==
    ASSUME NEW l \in Seq(Rows), NEW r \in Rows, NEW k \in 1 .. Len(l), l # <<>>
    PROVE  [l EXCEPT ![k] = r] \in Seq(Rows) /\ [l EXCEPT ![k] = r] # <<>>
<1> DEFINE m == [l EXCEPT ![k] = r]
<1>1. Len(l) \in Nat /\ DOMAIN l = 1 .. Len(l) /\ l \in [1 .. Len(l) -> Rows]
  BY SeqFacts
<1>2. m \in [1 .. Len(l) -> Rows]
  BY <1>1
<1>3. m \in Seq(Rows)
  BY <1>1, <1>2, FunctionIsSeq
<1>4. DOMAIN m = DOMAIN l
  BY <1>1, <1>2
<1>5. m # <<>>
  BY <1>1, <1>3, <1>4, EmptySeq, LastIs
<1> QED
  BY <1>3, <1>5

LEMMA SolelyTyped ==
    ASSUME NEW l \in Seq(Rows), NEW r \in Rows, NEW index \in Int, NEW m \in Nat, l # <<>>,
           index = -1 \/ index \in 0 .. Len(l) - 1
    PROVE  UpdateSolely(l, r, index, m) \in Seq(Rows) /\ UpdateSolely(l, r, index, m) # <<>>
<1> DEFINE start == IF index >= 0 THEN index ELSE Len(l) - 1
           u == UpdateSolely(l, r, index, m)
<1>0. Len(l) \in Nat
  BY SeqFacts
<1>1. /\ start \in 0 .. Len(l) - 1
      /\ \/ u = Append(l, r)
         \/ \E i \in 0 .. start :
               \/ u = [l EXCEPT ![i + 1] = r]
               \/ index # -1 /\ u = Inserted(l, index + 1, r)
  BY SolelyIs
<1> HIDE DEF u, start
<1>2. CASE u = Append(l, r)
  BY <1>2, AppendIs DEF u
<1>3. ASSUME NEW i \in 0 .. start, u = [l EXCEPT ![i + 1] = r]
      PROVE  u \in Seq(Rows) /\ u # <<>>
  <2>1. i + 1 \in 1 .. Len(l)
    BY <1>0, <1>1
  <2> QED
    BY <1>3, <2>1, ReplaceTyped
<1>4. CASE index # -1 /\ u = Inserted(l, index + 1, r)
  <2>1. index + 1 \in Nat
    BY <1>4
  <2> QED
    BY <1>4, <2>1, InsertedTyped DEF u
<1> QED
  BY <1>1, <1>2, <1>3, <1>4 DEF u

LEMMA UpdateOneTyped ==
    ASSUME NEW l \in Seq(Rows), NEW r \in Rows, l # <<>>
    PROVE  UpdateOne(l, r) \in Seq(Rows) /\ UpdateOne(l, r) # <<>>
<1>0. r.t \in Nat /\ Len(l) \in Nat
  BY RowTyped, SeqFacts
<1>1. UpdateSolely(l, r, -1, r.t) \in Seq(Rows) /\ UpdateSolely(l, r, -1, r.t) # <<>>
  BY <1>0, SolelyTyped
<1>2. UpdateSolely(l, r, -1, 0) \in Seq(Rows) /\ UpdateSolely(l, r, -1, 0) # <<>>
  BY SolelyTyped
<1>3. Append(l, r) \in Seq(Rows) /\ Append(l, r) # <<>>
  BY AppendIs
<1> DEFINE found == SearchFromLast(l, r.t)
<1>4. found.at \in Nat /\ (found.mode = "ok" => found.at \in 0 .. Len(l) - 1)
  BY <1>0, FromLastIs
<1>5. Inserted(l, found.at, r) \in Seq(Rows) /\ Inserted(l, found.at, r) # <<>>
  BY <1>4, InsertedTyped
<1>6. found.mode = "ok" =>
        UpdateSolely(l, r, found.at, r.t) \in Seq(Rows) /\ UpdateSolely(l, r, found.at, r.t) # <<>>
  BY <1>0, <1>4, SolelyTyped
<1>7. \/ UpdateOne(l, r) = UpdateSolely(l, r, -1, r.t)
      \/ UpdateOne(l, r) = UpdateSolely(l, r, -1, 0)
      \/ UpdateOne(l, r) = Append(l, r)
      \/ UpdateOne(l, r) = Inserted(l, found.at, r)
      \/ found.mode = "ok" /\ UpdateOne(l, r) = UpdateSolely(l, r, found.at, r.t)
  BY DEF UpdateOne, UpdateMindex, UpdateNoMindex, Pushed
<1> HIDE DEF found
<1> QED
  BY <1>1, <1>2, <1>3, <1>5, <1>6, <1>7

LEMMA NotAfterLast ==
    ASSUME NEW l \in Seq(Rows), l # <<>>, Ascending(l), NEW k \in 1 .. Len(l)
    PROVE  l[k].t <= Last(l).t
<1>1. Last(l) = l[Len(l)] /\ Len(l) \in 1 .. Len(l) /\ l \in Seq([t : Nat, s : Rests]) /\ Len(l) \in Nat
  BY LastIs, RecordTyped
<1>2. k <= Len(l)
  BY <1>1
<1> QED
  BY <1>1, <1>2, InOrderThroughout

(* One update of a list whose keys are in order, by the key of its table.  *)
LEMMA UpdateByTime ==
    ASSUME NEW l \in Seq(Rows), NEW r \in Rows, l # <<>>, Good(l), HasIndex, ~HasSolely
    PROVE  Good(UpdateOne(l, r))
<1> DEFINE found == SearchFromLast(l, r.t)  u == UpdateOne(l, r)
<1>0. r.t \in Nat /\ Len(l) \in Nat /\ Ascending(l) /\ Last(l).t \in Nat
  BY RowTyped, SeqFacts, LastIs DEF Good
<1>1. u = IF r.t > Last(l).t \/ r.t = Last(l).t THEN Append(l, r)
          ELSE IF found.mode = "ok" THEN UpdateSolely(l, r, found.at, r.t)
          ELSE Inserted(l, found.at, r)
  BY DEF UpdateOne, UpdateMindex, Pushed
<1>2. /\ found.at \in Nat
      /\ found.mode = "ok" => found.at \in 0 .. Len(l) - 1 /\ Time(l, found.at) = r.t
      /\ found.mode # "ok" => \A k \in 1 .. Len(l) : IF k <= found.at THEN l[k].t <= r.t ELSE r.t <= l[k].t
  BY <1>0, FromLastIs
<1> HIDE DEF found, u
<1>3. CASE r.t > Last(l).t \/ r.t = Last(l).t
  <2>1. u = Append(l, r) /\ Last(l).t <= r.t
    BY <1>0, <1>1, <1>3
  <2>2. Ascending(u)
    BY <1>0, <2>1, AppendAscends
  <2> QED
    BY <2>2 DEF Good, u
<1>4. CASE ~(r.t > Last(l).t \/ r.t = Last(l).t) /\ found.mode = "ok"
  <2> DEFINE a == found.at
  <2>1. u = UpdateSolely(l, r, a, r.t)
    BY <1>1, <1>4
  <2>2. a \in Int /\ a \in 0 .. Len(l) - 1 /\ Time(l, a) = r.t
    BY <1>0, <1>2, <1>4
  <2> HIDE DEF a
  <2>3. ~Earlier(l, r.t, a) /\ \A k : Same(l, r, k)
    BY <1>0, <2>2 DEF Earlier, Same
  <2>4. PICK i \in 0 .. a : /\ \A k \in 0 .. a : k > i => ~Earlier(l, r.t, k) /\ ~Same(l, r, k)
                            /\ \/ ~Earlier(l, r.t, i) /\ Same(l, r, i) /\ u = [l EXCEPT ![i + 1] = r]
                               \/ Earlier(l, r.t, i)
    <3>1. (IF a >= 0 THEN a ELSE Len(l) - 1) = a
      BY <2>2
    <3>2. /\ LET start == IF a >= 0 THEN a ELSE Len(l) - 1
             IN  \/ \A k \in 0 .. start : ~Earlier(l, r.t, k) /\ ~Same(l, r, k)
                 \/ \E x \in 0 .. start :
                        /\ \A k \in 0 .. start : k > x => ~Earlier(l, r.t, k) /\ ~Same(l, r, k)
                        /\ \/ ~Earlier(l, r.t, x) /\ Same(l, r, x) /\ u = [l EXCEPT ![x + 1] = r]
                           \/ Earlier(l, r.t, x)
      <4>1. a = -1 \/ a \in 0 .. Len(l) - 1
        BY <2>2
      <4> HIDE DEF a
      <4>2. LET start == IF a >= 0 THEN a ELSE Len(l) - 1
                v == UpdateSolely(l, r, a, r.t)
            IN  /\ start \in 0 .. Len(l) - 1
                /\ \/ /\ \A k \in 0 .. start : ~Earlier(l, r.t, k) /\ ~Same(l, r, k)
                      /\ v = Append(l, r)
                   \/ \E x \in 0 .. start :
                        /\ \A k \in 0 .. start : k > x => ~Earlier(l, r.t, k) /\ ~Same(l, r, k)
                        /\ \/ ~Earlier(l, r.t, x) /\ Same(l, r, x) /\ v = [l EXCEPT ![x + 1] = r]
                           \/ Earlier(l, r.t, x) /\ a = -1 /\ v = Append(l, r)
                           \/ Earlier(l, r.t, x) /\ a # -1 /\ v = Inserted(l, a + 1, r)
        BY <1>0, <2>2, <4>1, SolelyIs
      <4> QED
        BY <2>1, <4>2, Zenon
    <3>3. a \in 0 .. a
      BY <2>2
    <3> QED
      BY <2>2, <2>3, <3>1, <3>2, <3>3
  <2>5. i = a
    <3> SUFFICES ASSUME i # a PROVE FALSE
      OBVIOUS
    <3>1. a \in 0 .. a /\ a > i
      BY <2>2
    <3> QED
      BY <2>3, <2>4, <3>1
  <2>6. u = [l EXCEPT ![a + 1] = r] /\ l[a + 1].t = r.t /\ a + 1 \in 1 .. Len(l)
    BY <1>0, <2>2, <2>3, <2>4, <2>5 DEF Time
  <2>7. Good(u)
    BY <2>6, ReplaceIs
  <2> QED
    BY <2>7 DEF u
<1>5. CASE ~(r.t > Last(l).t \/ r.t = Last(l).t) /\ found.mode # "ok"
  <2>1. u = Inserted(l, found.at, r)
    BY <1>1, <1>5
  <2>2. Ascending(u)
    BY <1>0, <1>2, <1>5, <2>1, InsertedAscends
  <2> QED
    BY <2>2 DEF Good, u
<1> QED
  BY <1>3, <1>4, <1>5
LEMMA UpdateByRest ==
    ASSUME NEW l \in Seq(Rows), NEW r \in Rows, l # <<>>, Good(l), ~HasIndex, HasSolely
    PROVE  Good(UpdateOne(l, r))
<1> DEFINE u == UpdateOne(l, r)  last == Len(l) - 1
<1>0. Len(l) \in Nat /\ Unique(l)
  BY SeqFacts DEF Good
<1>1. u = UpdateSolely(l, r, -1, 0)
  BY DEF UpdateOne, UpdateNoMindex
<1>2. \A k : ~Earlier(l, 0, k)
  BY DEF Earlier
<1>3. \/ /\ \A k \in 0 .. last : ~Same(l, r, k)
         /\ u = Append(l, r)
      \/ \E i \in 0 .. last : Same(l, r, i) /\ u = [l EXCEPT ![i + 1] = r]
  <2>1. \/ /\ \A k \in 0 .. last : ~Earlier(l, 0, k) /\ ~Same(l, r, k)
           /\ u = Append(l, r)
        \/ \E i \in 0 .. last :
              \/ ~Earlier(l, 0, i) /\ Same(l, r, i) /\ u = [l EXCEPT ![i + 1] = r]
              \/ Earlier(l, 0, i)
    BY <1>1, SolelyIs
  <2> HIDE DEF u, last
  <2> QED
    BY <1>2, <2>1, Zenon
<1> HIDE DEF u
<1>4. CASE (\A k \in 0 .. last : ~Same(l, r, k)) /\ u = Append(l, r)
  <2>1. ASSUME NEW k \in 1 .. Len(l) PROVE Apart(l[k], r)
    <3>1. k - 1 \in 0 .. last /\ (k - 1) + 1 = k
      BY <1>0
    <3>2. ~Same(l, r, k - 1)
      BY <1>4, <3>1
    <3> QED
      BY <3>1, <3>2 DEF Same, Apart
  <2>2. Unique(u)
    BY <1>0, <1>4, <2>1, AppendUnique
  <2> QED
    BY <2>2 DEF Good, u
<1>5. ASSUME NEW i \in 0 .. last, Same(l, r, i), u = [l EXCEPT ![i + 1] = r]
      PROVE  Good(u)
  <2>1. i + 1 \in 1 .. Len(l) /\ l[i + 1].s = r.s
    BY <1>0, <1>5 DEF Same
  <2> QED
    BY <1>5, <2>1, ReplaceIs
<1> QED
  BY <1>3, <1>4, <1>5 DEF u

LEMMA UpdateByBoth ==
    ASSUME NEW l \in Seq(Rows), NEW r \in Rows, l # <<>>, Good(l), HasIndex, HasSolely,
           Last(l).t <= r.t
    PROVE  Good(UpdateOne(l, r)) /\ Last(UpdateOne(l, r)).t = r.t
<1> DEFINE u == UpdateOne(l, r)  last == Len(l) - 1
<1>0. /\ Len(l) \in Nat /\ Unique(l) /\ Ascending(l) /\ r.t \in Nat /\ Last(l).t \in Nat
      /\ \A k \in 1 .. Len(l) : l[k].t \in Nat /\ l[k].t <= Last(l).t
  BY SeqFacts, RowTyped, LastIs, NotAfterLast DEF Good
<1>a. ASSUME u = Append(l, r), \A k \in 1 .. Len(l) : Apart(l[k], r)
      PROVE  Good(u) /\ Last(u).t = r.t
  <2>1. Unique(Append(l, r)) /\ Ascending(Append(l, r))
    BY <1>0, <1>a, AppendUnique, AppendAscends
  <2>2. Last(Append(l, r)) = r
    BY AppendIs
  <2> HIDE DEF u
  <2> QED
    BY <1>a, <2>1, <2>2 DEF Good
<1>1. CASE r.t > Last(l).t
  <2>1. u = Append(l, r)
    BY <1>1 DEF UpdateOne, UpdateMindex, Pushed
  <2>2. ASSUME NEW k \in 1 .. Len(l) PROVE Apart(l[k], r)
    <3>1. l[k].t # r.t
      BY <1>0, <1>1
    <3> QED
      BY <3>1 DEF Apart
  <2> QED
    BY <1>a, <2>1, <2>2
<1>2. CASE r.t = Last(l).t
  <2>1. u = UpdateSolely(l, r, -1, r.t)
    BY <1>0, <1>2 DEF UpdateOne, UpdateMindex
  <2>2. \/ /\ \A k \in 0 .. last : ~Earlier(l, r.t, k) /\ ~Same(l, r, k)
           /\ u = Append(l, r)
        \/ \E i \in 0 .. last :
              /\ \A k \in 0 .. last : k > i => ~Earlier(l, r.t, k) /\ ~Same(l, r, k)
              /\ \/ ~Earlier(l, r.t, i) /\ Same(l, r, i) /\ u = [l EXCEPT ![i + 1] = r]
                 \/ Earlier(l, r.t, i) /\ u = Append(l, r)
    <3>1. LET v == UpdateSolely(l, r, -1, r.t)
          IN  \/ /\ \A k \in 0 .. last : ~Earlier(l, r.t, k) /\ ~Same(l, r, k)
                 /\ v = Append(l, r)
              \/ \E i \in 0 .. last :
                    /\ \A k \in 0 .. last : k > i => ~Earlier(l, r.t, k) /\ ~Same(l, r, k)
                    /\ \/ ~Earlier(l, r.t, i) /\ Same(l, r, i) /\ v = [l EXCEPT ![i + 1] = r]
                       \/ Earlier(l, r.t, i) /\ v = Append(l, r)
      BY <1>0, BackFromEnd
    <3> HIDE DEF u, last
    <3> QED
      BY <2>1, <3>1, Zenon
  <2> HIDE DEF u
  <2>s. ASSUME NEW k \in 1 .. Len(l), ~Same(l, r, k - 1) PROVE Apart(l[k], r)
    <3>1. (k - 1) + 1 = k
      BY <1>0
    <3> QED
      BY <2>s, <3>1 DEF Same, Apart
  <2>3. CASE (\A k \in 0 .. last : ~Same(l, r, k)) /\ u = Append(l, r)
    <3>1. ASSUME NEW k \in 1 .. Len(l) PROVE Apart(l[k], r)
      <4>1. k - 1 \in 0 .. last
        BY <1>0
      <4> QED
        BY <2>3, <2>s, <4>1
    <3> QED
      BY <1>a, <2>3, <3>1 DEF u
  <2>4. ASSUME NEW i \in 0 .. last, ~Earlier(l, r.t, i), Same(l, r, i), u = [l EXCEPT ![i + 1] = r]
        PROVE  Good(u) /\ Last(u).t = r.t
    <3>1. i + 1 \in 1 .. Len(l) /\ l[i + 1].s = r.s
      BY <1>0, <2>4 DEF Same
    <3>2. l[i + 1].t \in Nat /\ l[i + 1].t <= Last(l).t /\ ~(r.t > 0 /\ l[i + 1].t < r.t)
      BY <1>0, <2>4, <3>1 DEF Earlier, Time
    <3>3. l[i + 1].t = r.t
      BY <1>0, <1>2, <3>2
    <3> QED
      BY <1>2, <2>4, <3>1, <3>3, ReplaceIs
  <2>5. ASSUME NEW i \in 0 .. last, Earlier(l, r.t, i), u = Append(l, r),
               \A k \in 0 .. last : k > i => ~Same(l, r, k)
        PROVE  Good(u) /\ Last(u).t = r.t
    <3>1. ASSUME NEW k \in 1 .. Len(l) PROVE Apart(l[k], r)
      <4>0. k - 1 \in 0 .. last /\ i + 1 \in 1 .. Len(l)
        BY <1>0
      <4>1. CASE k - 1 > i
        BY <2>5, <2>s, <4>0, <4>1
      <4>2. CASE ~(k - 1 > i)
        <5>1. k <= i + 1
          BY <4>0, <4>2
        <5>2. l \in Seq([t : Nat, s : Rests])
          BY RecordTyped
        <5>3. l[k].t <= l[i + 1].t
          BY <1>0, <4>0, <5>1, <5>2, InOrderThroughout
        <5>4. l[i + 1].t < r.t
          BY <2>5 DEF Earlier, Time
        <5>5. l[k].t # r.t
          BY <1>0, <4>0, <5>3, <5>4
        <5> QED
          BY <5>5 DEF Apart
      <4> QED
        BY <4>1, <4>2
    <3> QED
      BY <1>a, <2>5, <3>1 DEF u
  <2>6. ASSUME (\A k \in 0 .. last : ~Same(l, r, k)) /\ u = Append(l, r)
        PROVE  Good(u) /\ Last(u).t = r.t
    BY <2>3, <2>6 DEF u
  <2> HIDE DEF last
  <2>7. Good(u) /\ Last(u).t = r.t
    BY <2>2, <2>4, <2>5, <2>6, Zenon
  <2> QED
    BY <2>7 DEF u
<1>3. r.t > Last(l).t \/ r.t = Last(l).t
  BY <1>0
<1> HIDE DEF u
<1>4. Good(u) /\ Last(u).t = r.t
  BY <1>1, <1>2, <1>3, Zenon DEF u
<1> QED
  BY <1>4 DEF u

LEMMA UpdateOneGood ==
    ASSUME NEW l \in Seq(Rows), NEW r \in Rows, l # <<>>, Good(l),
           HasIndex /\ HasSolely => Last(l).t <= r.t
    PROVE  /\ Good(UpdateOne(l, r))
           /\ HasIndex /\ HasSolely => Last(UpdateOne(l, r)).t = r.t
<1>1. CASE ~HasIndex /\ ~HasSolely
  BY <1>1 DEF Good
<1> QED
  BY <1>1, UpdateByTime, UpdateByRest, UpdateByBoth
-----------------------------------------------------------------------------
(* A whole write: record after record.                                     *)

IsSteps(l, b, n, g) ==
    g = [k \in 0 .. n |-> IF k = 0 THEN l ELSE UpdateOne(g[k - 1], b[k])]

LEMMA StepsExist ==
    ASSUME NEW l, NEW b, NEW n \in Nat PROVE \E g : IsSteps(l, b, n, g)
<1> DEFINE T == {m \in Nat : ~(\E g : IsSteps(l, b, m, g))}
<1>1. ASSUME T # {} PROVE FALSE
  <2>1. PICK m \in T : \A k \in T : m <= k
    <3>1. T \subseteq Nat
      OBVIOUS
    <3> HIDE DEF T
    <3> QED
      BY <1>1, <3>1, LeastNat
  <2>2. CASE m = 0
    <3> DEFINE g == [k \in 0 .. 0 |-> l]
    <3>1. g = [k \in 0 .. 0 |-> IF k = 0 THEN l ELSE UpdateOne(g[k - 1], b[k])]
      OBVIOUS
    <3> HIDE DEF g
    <3>2. IsSteps(l, b, 0, g)
      BY <3>1 DEF IsSteps
    <3> QED
      BY <2>1, <2>2, <3>2
  <2>3. CASE m # 0
    <3>1. m \in Nat /\ m - 1 \in Nat /\ ~(m <= m - 1)
      BY <2>1, <2>3
    <3>2. m - 1 \notin T
      BY <2>1, <3>1
    <3>3. PICK h : IsSteps(l, b, m - 1, h)
      BY <3>1, <3>2
    <3>4. h = [k \in 0 .. m - 1 |-> IF k = 0 THEN l ELSE UpdateOne(h[k - 1], b[k])]
      BY <3>3 DEF IsSteps
    <3> DEFINE g == [k \in 0 .. m |-> IF k = m THEN UpdateOne(h[m - 1], b[m]) ELSE h[k]]
    <3>5. ASSUME NEW k \in 0 .. m PROVE g[k] = IF k = 0 THEN l ELSE UpdateOne(g[k - 1], b[k])
      <4>1. CASE k = m
        <5>1. g[k] = UpdateOne(h[m - 1], b[m]) /\ k # 0
          BY <2>3, <4>1
        <5>2. k - 1 \in 0 .. m /\ k - 1 # m /\ k - 1 = m - 1
          BY <3>1, <4>1
        <5>3. g[k - 1] = h[m - 1]
          BY <5>2
        <5> HIDE DEF g
        <5> QED
          BY <4>1, <5>1, <5>3
      <4>2. CASE k # m
        <5>1. k \in 0 .. m - 1 /\ (k # 0 => k - 1 \in 0 .. m - 1 /\ k - 1 \in 0 .. m /\ k - 1 # m)
          BY <3>1, <4>2
        <5>2. g[k] = h[k] /\ (k # 0 => g[k - 1] = h[k - 1])
          BY <4>2, <5>1
        <5>3. h[k] = IF k = 0 THEN l ELSE UpdateOne(h[k - 1], b[k])
          BY <3>4, <5>1
        <5> HIDE DEF g
        <5> QED
          BY <5>2, <5>3
      <4> QED
        BY <4>1, <4>2
    <3>6. g = [k \in 0 .. m |-> g[k]]
      OBVIOUS
    <3> HIDE DEF g
    <3>7. g = [k \in 0 .. m |-> IF k = 0 THEN l ELSE UpdateOne(g[k - 1], b[k])]
      BY <3>5, <3>6
    <3>8. IsSteps(l, b, m, g)
      BY <3>7 DEF IsSteps
    <3> QED
      BY <2>1, <3>8
  <2> QED
    BY <2>2, <2>3
<1> QED
  BY <1>1

LEMMA UpdatedIs ==
    ASSUME NEW l \in Seq(Rows), NEW b \in Seq(Rows)
    PROVE  \E g : /\ \A n \in 0 .. Len(b) : g[n] = IF n = 0 THEN l ELSE UpdateOne(g[n - 1], b[n])
                  /\ Updated(l, b) = IF l = <<>> \/ (~HasSolely /\ ~HasIndex) THEN l \o b ELSE g[Len(b)]
<1> DEFINE g == CHOOSE f : f = [n \in 0 .. Len(b) |-> IF n = 0 THEN l ELSE UpdateOne(f[n - 1], b[n])]
<1>1. \E f : f = [n \in 0 .. Len(b) |-> IF n = 0 THEN l ELSE UpdateOne(f[n - 1], b[n])]
  <2>1. Len(b) \in Nat
    BY SeqFacts
  <2>2. PICK h : IsSteps(l, b, Len(b), h)
    BY <2>1, StepsExist
  <2>3. h = [n \in 0 .. Len(b) |-> IF n = 0 THEN l ELSE UpdateOne(h[n - 1], b[n])]
    BY <2>2, Zenon DEF IsSteps
  <2> QED
    BY <2>3, Zenon
<1>2. g = [n \in 0 .. Len(b) |-> IF n = 0 THEN l ELSE UpdateOne(g[n - 1], b[n])]
  BY <1>1
<1>3. Updated(l, b) = IF l = <<>> \/ (~HasSolely /\ ~HasIndex) THEN l \o b ELSE g[Len(b)]
  BY DEF Updated
<1> HIDE DEF g
<1>4. \A n \in 0 .. Len(b) : g[n] = IF n = 0 THEN l ELSE UpdateOne(g[n - 1], b[n])
  BY <1>2
<1> QED
  BY <1>3, <1>4

LEMMA UpdatedKeeps ==
    ASSUME NEW l \in Seq(Rows), NEW b \in Seq(Rows), b # <<>>
    PROVE  /\ Updated(l, b) \in Seq(Rows)
           /\ /\ Good(l) /\ Ascending(b) /\ (HasSolely => Unique(b))
              /\ HasIndex /\ HasSolely /\ l # <<>> => Last(l).t <= b[1].t
              => Good(Updated(l, b))
<1>0. Len(b) \in Nat /\ Len(b) >= 1 /\ \A n \in 1 .. Len(b) : b[n] \in Rows
  BY SeqFacts, LastIs
<1>1. PICK g : /\ \A n \in 0 .. Len(b) : g[n] = IF n = 0 THEN l ELSE UpdateOne(g[n - 1], b[n])
               /\ Updated(l, b) = IF l = <<>> \/ (~HasSolely /\ ~HasIndex) THEN l \o b ELSE g[Len(b)]
  BY UpdatedIs
<1>2. CASE l = <<>>
  <2>1. Updated(l, b) = b
    BY <1>1, <1>2, ConcatEmptySeq
  <2> QED
    BY <2>1 DEF Good
<1>3. CASE l # <<>> /\ ~HasSolely /\ ~HasIndex
  <2>1. Updated(l, b) = l \o b
    BY <1>1, <1>3
  <2>2. l \o b \in Seq(Rows)
    BY ConcatProperties
  <2> QED
    BY <1>3, <2>1, <2>2 DEF Good
<1>4. CASE l # <<>> /\ ~(~HasSolely /\ ~HasIndex)
  <2>1. Updated(l, b) = g[Len(b)]
    BY <1>1, <1>4
  <2> DEFINE Fine == /\ Good(l) /\ Ascending(b)
                     /\ HasIndex /\ HasSolely => Last(l).t <= b[1].t
             Kept(n) == /\ g[n] \in Seq(Rows) /\ g[n] # <<>>
                        /\ Fine => /\ Good(g[n])
                                   /\ HasIndex /\ HasSolely /\ n > 0 => Last(g[n]).t = b[n].t
             T == {n \in 0 .. Len(b) : ~Kept(n)}
  <2>2. Kept(0)
    <3>1. g[0] = l
      BY <1>0, <1>1
    <3> QED
      BY <1>4, <3>1
  <2>3. ASSUME NEW n \in 1 .. Len(b), Kept(n - 1) PROVE Kept(n)
    <3>1. n \in 0 .. Len(b) /\ n # 0 /\ n > 0 /\ n - 1 \in Nat /\ b[n] \in Rows
      BY <1>0
    <3>2. g[n] = UpdateOne(g[n - 1], b[n])
      BY <1>1, <3>1
    <3>3. g[n - 1] \in Seq(Rows) /\ g[n - 1] # <<>>
      BY <2>3
    <3>4. g[n] \in Seq(Rows) /\ g[n] # <<>>
      BY <3>1, <3>2, <3>3, UpdateOneTyped
    <3>5. ASSUME Fine, HasIndex, HasSolely PROVE Last(g[n - 1]).t <= b[n].t
      <4>1. CASE n = 1
        <5>1. g[n - 1] = l
          BY <1>0, <1>1, <4>1
        <5> QED
          BY <3>5, <4>1, <5>1
      <4>2. CASE n # 1
        <5>1. n - 1 > 0 /\ n - 1 \in 1 .. Len(b) - 1 /\ (n - 1) + 1 = n
          BY <1>0, <4>2
        <5>2. Last(g[n - 1]).t = b[n - 1].t
          BY <2>3, <3>5, <5>1
        <5>3. b[n - 1].t <= b[(n - 1) + 1].t
          BY <3>5, <5>1 DEF Ascending
        <5> QED
          BY <5>1, <5>2, <5>3
      <4> QED
        BY <4>1, <4>2
    <3>6. ASSUME Fine
          PROVE  Good(g[n]) /\ (HasIndex /\ HasSolely => Last(g[n]).t = b[n].t)
      <4>1. Good(g[n - 1])
        BY <2>3, <3>6
      <4>2. HasIndex /\ HasSolely => Last(g[n - 1]).t <= b[n].t
        BY <3>5, <3>6
      <4> QED
        BY <3>1, <3>2, <3>3, <4>1, <4>2, UpdateOneGood
    <3> HIDE DEF Fine
    <3> QED
      BY <3>4, <3>6
  <2> HIDE DEF Fine, Kept
  <2>4. ASSUME T # {} PROVE FALSE
    <3>1. T \subseteq Nat
      BY <1>0
    <3>2. PICK n \in T : \A k \in T : n <= k
      <4> HIDE DEF T
      <4> QED
        BY <2>4, <3>1, LeastNat
    <3>3. n \in 0 .. Len(b) /\ ~Kept(n)
      BY <3>2
    <3>4. n # 0
      BY <2>2, <3>3
    <3>5. n \in 1 .. Len(b) /\ n - 1 \in 0 .. Len(b) /\ ~(n <= n - 1)
      BY <1>0, <3>3, <3>4
    <3>6. n - 1 \notin T
      BY <3>2, <3>5
    <3>7. Kept(n - 1)
      BY <3>5, <3>6
    <3> QED
      BY <2>3, <3>3, <3>5, <3>7
  <2>5. Kept(Len(b))
    BY <1>0, <2>4
  <2> QED
    BY <1>0, <1>4, <2>1, <2>5 DEF Fine, Kept
<1> QED
  BY <1>2, <1>3, <1>4
-----------------------------------------------------------------------------
(* The invariant.                                                          *)

CollectInv == CollectTypeOK /\ StepFits /\ KeysOrdered

LEMMA KeysOrderedIs == KeysOrdered <=> ((HasIndex /\ HasSolely => InOrder) => Good(list))
  BY DEF KeysOrdered, Good

LEMMA BatchIs ==
    ASSUME NEW b \in Batches
    PROVE  b \in Seq(Rows) /\ b # <<>> /\ Ascending(b) /\ (HasSolely => Unique(b)) /\ Head(b) = b[1]
<1>1. b \in BoundedSeq(Rows, BatchLen) /\ b # <<>> /\ Ascending(b) /\ (HasSolely => Unique(b))
  BY DEF Batches
<1>2. PICK m \in 0 .. BatchLen : b \in [1 .. m -> Rows]
  BY <1>1 DEF BoundedSeq, SeqOf
<1>3. m \in Nat
  BY CollectAssumption
<1>4. b \in Seq(Rows)
  BY <1>2, <1>3, FunctionIsSeq
<1> QED
  BY <1>1, <1>4, LastIs

\* the step index after a write counts the records that are there
LEMMA Rebuilt ==
    ASSUME CollectTypeOK, StepFits, NEW l \in Seq(Rows)
    PROVE  /\ StepRebuild(l) \in [count : Nat, left : Nat, right : Nat, step : Int]
           /\ StepRebuild(l).count = IF HasIndex THEN Len(l) ELSE 0
<1>0. Len(l) \in Nat /\ step \in [count : Nat, left : Nat, right : Nat, step : Int]
  BY SeqFacts DEF CollectTypeOK
<1>1. CASE ~HasIndex
  BY <1>0, <1>1 DEF StepRebuild, StepFits
<1>2. CASE HasIndex /\ l = <<>>
  <2>1. StepRebuild(l) = [count |-> 0, left |-> 0, right |-> 0, step |-> 0]
    BY <1>2 DEF StepRebuild
  <2>2. Len(l) = 0
    BY <1>2, EmptySeq
  <2> QED
    BY <1>2, <2>1, <2>2
<1>3. CASE HasIndex /\ l # <<>>
  <2> DEFINE q == (Last(l).t - Head(l).t) \div Len(l)
  <2>1. Last(l).t \in Nat /\ Head(l).t \in Nat /\ Len(l) > 0
    <3>1. Last(l) = l[Len(l)] /\ Head(l) = l[1] /\ Len(l) \in 1 .. Len(l) /\ Len(l) >= 1
      BY <1>3, LastIs
    <3> QED
      BY <1>0, <3>1, SeqFacts
  <2>2. q \in Int
    <3>1. Last(l).t - Head(l).t \in Int
      BY <2>1
    <3> QED
      BY <1>0, <2>1, <3>1, QuotientInt
  <2>3. StepRebuild(l) = [count |-> Len(l), left |-> Head(l).t, right |-> Last(l).t, step |-> q]
    BY <1>3 DEF StepRebuild
  <2> HIDE DEF q
  <2> QED
    BY <1>0, <1>3, <2>1, <2>2, <2>3
<1> QED
  BY <1>1, <1>2, <1>3

LEMMA Settled ==
    ASSUME CollectTypeOK, StepFits, NEW l \in Seq(Rows), Settle(l), loading' \in BOOLEAN,
           (HasIndex /\ HasSolely => InOrder) => Good(l)
    PROVE  CollectInv'
<1>1. list' = l /\ tb' = tb /\ step' = StepRebuild(l)
  BY DEF Settle
<1>2. HasIndex' = HasIndex /\ HasSolely' = HasSolely /\ InOrder' = InOrder
  BY <1>1 DEF HasIndex, HasSolely, InOrder
<1>3. Rows' = Rows
  BY <1>2 DEF Rows
<1>4. CollectTypeOK'
  <2>1. step' \in [count : Nat, left : Nat, right : Nat, step : Int]
    BY <1>1, Rebuilt
  <2>2. tb' \in Tables /\ list' \in Seq(Rows)'
    BY <1>1, <1>3 DEF CollectTypeOK
  <2> QED
    BY <2>1, <2>2 DEF CollectTypeOK
<1>5. StepFits'
  <2>1. step'.count = IF HasIndex THEN Len(l) ELSE 0
    BY <1>1, Rebuilt
  <2> QED
    BY <1>1, <1>2, <2>1 DEF StepFits, Recs
<1>6. KeysOrdered'
  <2>1. Good(l) => (HasIndex => Ascending(list)') /\ (HasSolely => Unique(list)')
    BY <1>1, <1>2 DEF Good, Ascending, Unique
  <2> QED
    BY <1>2, <2>1 DEF KeysOrdered
<1> QED
  BY <1>4, <1>5, <1>6 DEF CollectInv

LEMMA UpdateKeeps ==
    ASSUME CollectInv, NEW b \in Batches, CollectUpdate(b) PROVE CollectInv'
<1>1. CollectTypeOK /\ StepFits /\ list \in Seq(Rows)
  BY DEF CollectInv, CollectTypeOK
<1>2. b \in Seq(Rows) /\ b # <<>> /\ Ascending(b) /\ (HasSolely => Unique(b)) /\ Head(b) = b[1]
  BY BatchIs
<1>3. /\ Updated(list, b) \in Seq(Rows)
      /\ /\ Good(list) /\ Ascending(b) /\ (HasSolely => Unique(b))
         /\ HasIndex /\ HasSolely /\ list # <<>> => Last(list).t <= b[1].t
         => Good(Updated(list, b))
  BY <1>1, <1>2, UpdatedKeeps
<1>4. (HasIndex /\ HasSolely => InOrder) => Good(Updated(list, b))
  <2> SUFFICES ASSUME HasIndex /\ HasSolely => InOrder PROVE Good(Updated(list, b))
    OBVIOUS
  <2>1. Good(list)
    BY KeysOrderedIs DEF CollectInv
  <2>2. HasIndex /\ HasSolely /\ list # <<>> => Last(list).t <= b[1].t
    <3> SUFFICES ASSUME InOrder, list # <<>> PROVE Last(list).t <= b[1].t
      OBVIOUS
    <3>1. Head(b).t >= Last(list).t
      BY DEF CollectUpdate
    <3>2. Last(list).t \in Nat /\ b[1].t \in Nat
      BY <1>1, <1>2, LastIs, SeqFacts
    <3> QED
      BY <1>2, <3>1, <3>2
  <2> QED
    BY <1>2, <1>3, <2>1, <2>2
<1>5. Settle(Updated(list, b)) /\ loading' \in BOOLEAN
  BY DEF CollectUpdate
<1> QED
  BY <1>1, <1>3, <1>4, <1>5, Settled

LEMMA WpushKeeps ==
    ASSUME CollectInv, NEW b \in Batches, Wpush(b) PROVE CollectInv'
<1>1. CollectTypeOK /\ StepFits /\ list \in Seq(Rows) /\ loading \in BOOLEAN
  BY DEF CollectInv, CollectTypeOK
<1>2. list \o b \in Seq(Rows)
  BY <1>1, BatchIs, ConcatProperties
<1>3. Good(list \o b) /\ Settle(list \o b) /\ loading' \in BOOLEAN
  BY <1>1 DEF Wpush, Good
<1> QED
  BY <1>1, <1>2, <1>3, Settled

LEMMA DeleteKeeps ==
    ASSUME CollectInv, NEW r, Inside(r), DeleteRange(r) PROVE CollectInv'
<1>1. CollectTypeOK /\ StepFits /\ list \in Seq(Rows)
  BY DEF CollectInv, CollectTypeOK
<1>2. (HasIndex /\ HasSolely => InOrder) => Good(list)
  BY KeysOrderedIs DEF CollectInv
<1>3. r.from \in Nat /\ r.count \in Nat /\ r.from + r.count <= Len(list)
  BY DEF Inside, Recs
<1>4. Settle(Removed(list, r)) /\ loading' \in BOOLEAN
  <2>1. ~(r.from + r.count > Recs)
    BY <1>1, <1>3, SeqFacts DEF Recs
  <2> QED
    BY <2>1 DEF DeleteRange
<1>5. Removed(list, r) \in Seq(Rows)
  BY <1>1, <1>3, RemovedIs
<1>6. Good(list) => Good(Removed(list, r))
  BY <1>1, <1>3, RemovedGood
<1> QED
  BY <1>1, <1>2, <1>4, <1>5, <1>6, Settled

LEMMA CollectNextKeeps ==
    ASSUME CollectInv, [CollectNext]_collectvars PROVE CollectInv'
<1>0. CollectTypeOK /\ StepFits /\ Finders \subseteq Nat /\ Signed \subseteq Int /\ Recs \in Nat
  BY CollectAssumption, IsPlaced DEF CollectInv, Placed
<1>1. ASSUME NEW b \in Batches, CollectUpdate(b) PROVE CollectInv'
  BY <1>1, UpdateKeeps
<1>2. ASSUME NEW b \in Batches, Wpush(b) PROVE CollectInv'
  BY <1>2, WpushKeeps
<1>3. ASSUME NEW lo \in Finders, NEW hi \in Finders, DeleteTimes(lo, hi) PROVE CollectInv'
  <2>1. Inside(TimeRange(lo, hi, 0))
    BY <1>0, RangesInside
  <2> QED
    BY <1>3, <2>1, DeleteKeeps DEF DeleteTimes
<1>4. ASSUME NEW lo \in Finders, NEW n \in Signed, DeleteCount(lo, n) PROVE CollectInv'
  <2>1. Inside(DelCount(lo, n))
    BY <1>0, RangesInside
  <2> QED
    BY <1>4, <2>1, DeleteKeeps DEF DeleteCount
<1>5. ASSUME NEW a \in Signed, NEW b \in Signed, DeleteStop(a, b) PROVE CollectInv'
  <2>1. Inside(TransOfRange(a, b))
    BY <1>0, RangeIs
  <2> QED
    BY <1>5, <2>1, DeleteKeeps DEF DeleteStop
<1>6. ASSUME NEW a \in Signed, NEW b \in Signed, DeleteStart(a, b) PROVE CollectInv'
  <2>1. Inside(TransOfCount(a, b))
    BY <1>0, CountIs
  <2> QED
    BY <1>6, <2>1, DeleteKeeps DEF DeleteStart
<1>7. CASE UNCHANGED collectvars
  BY <1>7 DEF collectvars, CollectInv, CollectTypeOK, StepFits, KeysOrdered, Ascending, Unique,
              HasIndex, HasSolely, InOrder, Rows, Recs
<1> QED
  BY <1>1, <1>2, <1>3, <1>4, <1>5, <1>6, <1>7 DEF CollectNext

LEMMA CollectInitInv == CollectInit => CollectInv
<1> SUFFICES ASSUME CollectInit PROVE CollectInv
  OBVIOUS
<1>1. list = <<>> /\ list \in Seq(Rows) /\ Len(list) = 0 /\ DOMAIN list = {}
  BY EmptySeq DEF CollectInit
<1>2. CollectTypeOK
  BY <1>1 DEF CollectInit, CollectTypeOK
<1>3. StepFits
  BY <1>1 DEF CollectInit, StepFits, Recs
<1>4. KeysOrdered
  BY <1>1 DEF KeysOrdered, Ascending, Unique
<1> QED
  BY <1>2, <1>3, <1>4 DEF CollectInv

LEMMA CollectInvariant == CollectSpec => []CollectInv
<1>1. CollectInv /\ [CollectNext]_collectvars => CollectInv'
  BY CollectNextKeeps
<1> QED
  BY <1>1, CollectInitInv, PTL DEF CollectSpec

(* The records of a collect keep their types, whatever is written, loaded  *)
(* and deleted, and its step index holds numbers: every way through the    *)
(* updates of sisdb_collect_set.c and the deletions of                     *)
(* sisdb_collect_del.c ends in a list of whole records.                    *)
THEOREM CollectTypeCorrect == CollectSpec => []CollectTypeOK
<1>1. CollectInv => CollectTypeOK
  BY DEF CollectInv
<1> QED
  BY <1>1, CollectInvariant, PTL

(* Every search, get and deletion looks at the records that a scan of the  *)
(* whole list would choose and at nothing outside it, in every state that  *)
(* writes, loads and deletions reach.  The reason is that the step index   *)
(* is made anew after each of them and counts the records that are there:  *)
(* the walk of a search then begins inside the list, wherever the division *)
(* of the times has put it.                                                *)
THEOREM SearchesAndGets == CollectSpec => []LookupsExact
<1>1. CollectInv => LookupsExact
  BY SearchesAreExact, GetsAreExact DEF CollectInv, LookupsExact
<1> QED
  BY <1>1, CollectInvariant, PTL

(* The records stay in the order of their time and unique in their key,    *)
(* for batches and lists of any length and any times: an update puts each  *)
(* record after the last one that is not later, or on the one it replaces, *)
(* and a deletion leaves a subsequence (sisdb_collect_update, sis_struct_  *)
(* list_delete).  With both keys this needs writers that send records in   *)
(* the order of their time.                                                *)
THEOREM OrderKept == CollectSpec => []KeysOrdered
<1>1. CollectInv => KeysOrdered
  BY DEF CollectInv
<1> QED
  BY <1>1, CollectInvariant, PTL
=============================================================================
