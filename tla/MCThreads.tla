----------------------------- MODULE MCThreads -----------------------------
(***************************************************************************)
(* The thread primitives, one per behaviour: "part" is chosen at the start *)
(* and the other parts keep their initial states.  Nothing that the        *)
(* fairness of WorkThread and RwMutex asks for is enabled in them when     *)
(* they are left alone.                                                    *)
(***************************************************************************)
EXTENDS WorkThread, RwMutex

VARIABLES part,
    rhead, rtail, dangling, cursize, off, watch, wpc, todo, users, rowner, rstatus,
    rpc, cursor, nxt, isrealtime, seen, base, ppc, cpc

L == INSTANCE LockList WITH
        Readers <- {"r1"}, Producers <- {"p1"}, HeadReaders <- {"r1"}, Echo <- {},
        SaveMode <- "NONE", MaxSize <- 0, Sizes <- {1}, Wrap <- 64, MaxPush <- 2,
        MayClear <- FALSE, owner <- rowner, status <- rstatus
lockvars    == <<rhead, rtail, dangling, cursize, off, watch, wpc, todo, users, rowner, rstatus,
                 rpc, cursor, nxt, isrealtime, seen, base, ppc, cpc>>

\* bound: the workers of one behaviour have the same mode
MCInit ==
    /\ part \in {"work", "rw", "free"}
    /\ Init /\ RwInit /\ L!Init
    /\ (\A v, w \in Workers : mode[v] = mode[w]) /\ (part # "work" => mode["a"] = "once")

\* The fairness of WorkThread, RwMutex and LockList.  In a behaviour only one
\* of two actions of different parts is ever enabled, so fairness for their
\* disjunction is fairness for each.
all == <<part, vars, rwvars, lockvars>>
InWork(A) == part = "work" /\ A /\ UNCHANGED <<part, rwvars, lockvars>>
InRw(A)   == part = "rw"   /\ A /\ UNCHANGED <<part, vars, lockvars>>
InFree(A) == part = "free" /\ A /\ UNCHANGED <<part, vars, rwvars>>
Blocked(w) == LockStart(w) \/ WakeByNotice(w) \/ WakeByTime(w)
Tries(t)   == UnlockR(t) \/ UnlockW(t) \/ TryLockR(t) \/ TryLockW(t)
MCFairness ==
    /\ SF_all(InWork(OwnerStep("a")) \/ InFree(L!PushNotice("p1")))
    /\ SF_all(InWork(OwnerStep("b")) \/ InFree(L!Register("r1")))
    /\ SF_all(InWork(Blocked("a")) \/ InFree(L!NotifyUser("r1")))
    /\ SF_all(InWork(Blocked("b")))
    /\ WF_all(InWork(CreatorStep("a")) \/ InRw(Tries("x")) \/ InFree(L!CloseNotice("r1")))
    /\ WF_all(InWork(CreatorStep("b")) \/ InRw(Tries("y")) \/ InFree(L!CloseEnd("r1")))
    /\ WF_all(InWork(ThreadStep("a")) \/ InRw(Tries("z")) \/ InFree(L!ReaderStep("r1")))
    /\ WF_all(InWork(ThreadStep("b")) \/ InRw(LockW("x")) \/ InFree(L!WatcherStep))
    /\ \A t \in {"x", "y", "z"} : WF_all(InRw(LockR(t)))

MCNext == InWork(Next) \/ InRw(RwNext) \/ InFree(L!Next)

MCSpec == MCInit /\ [][MCNext]_all /\ MCFairness

\* see LockList: where nothing is kept, everything but the last object goes
AllReclaimed == part = "free" => L!Reclaimed
=============================================================================
