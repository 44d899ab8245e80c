----------------------------- MODULE MCDataset -----------------------------
(***************************************************************************)
(* A dataset, one part per behaviour.  "log" is its durability: SisdbWal   *)
(* as it is configured, with crashes while it is served.  In "saves" the   *)
(* clients set, save and pack it as well; in "days" they set and delete on *)
(* a build with recursive locks, where W saves once a day and a crash      *)
(* strikes anywhere and tears records; these two share their state, as     *)
(* only one of them moves.  "collect" is one of its collects.  The parts   *)
(* that are not chosen keep their initial states.                          *)
(***************************************************************************)
EXTENDS SisdbWal, SisdbCollect

\* collects: with an index, with unique fields, with both
MCTables == {[index |-> TRUE,  solely |-> FALSE, inOrder |-> FALSE],
             [index |-> FALSE, solely |-> TRUE,  inOrder |-> FALSE],
             [index |-> TRUE,  solely |-> TRUE,  inOrder |-> TRUE],
             [index |-> TRUE,  solely |-> TRUE,  inOrder |-> FALSE]}
\* all times and those around them; positions from both ends
MCFinders == 0 .. Max(Times) + 1
MCSigned  == -2 .. 2

VARIABLES part, dlogv, dlogAdmin, dtorn, dsdb, dsdbFile, dsafe, dmem, dwlogOpen, dwlogFile, dlock,
          dridx, dpc, dreq, dphase, dacked, dflight, dnops, dncrash, dnewday

S == INSTANCE SisdbWal WITH
        Ops <- {"set", "save", "pack"}, MaxOps <- 6,
        logv <- dlogv, logAdmin <- dlogAdmin, torn <- dtorn, sdb <- dsdb, sdbFile <- dsdbFile,
        safe <- dsafe, mem <- dmem, wlogOpen <- dwlogOpen, wlogFile <- dwlogFile, lock <- dlock,
        ridx <- dridx, pc <- dpc, req <- dreq, phase <- dphase, acked <- dacked,
        flight <- dflight, nops <- dnops, ncrash <- dncrash, newday <- dnewday
D == INSTANCE SisdbWal WITH
        Daily <- TRUE, Recursive <- TRUE, CrashIn <- {"serve", "save", "pack"},
        TornWrites <- TRUE, MaxOps <- 2,
        logv <- dlogv, logAdmin <- dlogAdmin, torn <- dtorn, sdb <- dsdb, sdbFile <- dsdbFile,
        safe <- dsafe, mem <- dmem, wlogOpen <- dwlogOpen, wlogFile <- dwlogFile, lock <- dlock,
        ridx <- dridx, pc <- dpc, req <- dreq, phase <- dphase, acked <- dacked,
        flight <- dflight, nops <- dnops, ncrash <- dncrash, newday <- dnewday

savevars == <<dlogv, dlogAdmin, dtorn, dsdb, dsdbFile, dsafe, dmem, dwlogOpen, dwlogFile, dlock,
              dridx, dpc, dreq, dphase, dacked, dflight, dnops, dncrash, dnewday>>
all == <<part, vars, savevars, collectvars>>

MCInit ==
    /\ part \in {"log", "saves", "days", "collect"} /\ Init /\ CollectInit
    /\ IF part = "days" THEN D!Init ELSE S!Init
    /\ part # "collect" => tb.index /\ ~tb.solely

Log(A)     == part = "log" /\ A /\ UNCHANGED <<part, savevars, collectvars>>
Saves(A)   == part = "saves" /\ A /\ UNCHANGED <<part, vars, collectvars>>
Days(A)    == part = "days" /\ A /\ UNCHANGED <<part, vars, collectvars>>
Collect(A) == part = "collect" /\ A /\ UNCHANGED <<part, vars, savevars>>

MCNext == Log(Next) \/ Saves(S!Next) \/ Days(D!Next) \/ Collect(CollectNext)

\* the fairness of SisdbWal, for the days
MCSpec ==
    /\ MCInit /\ [][MCNext]_all
    /\ WF_all(Days(D!LoadDisk)) /\ WF_all(Days(D!ReplayLog)) /\ WF_all(Days(D!Serve))
    /\ WF_all(Days(D!Execute)) /\ WF_all(Days(D!Work))

\* the log is deleted only when the sdb file holds all it says: see SisdbWal
SavesReplaceLog == [][part = "saves" => S!KeepsWhatItDeletes]_all

\* a command that R has taken ends, while W saves once a day: see SisdbWal
CommandsReturn == part = "days" => D!CommandReturns

\* the daily save ends, unless the server crashes: see SisdbWal
DaysComplete == part = "days" => D!WorkCompletes
=============================================================================
