------------------------------- MODULE MCData -------------------------------
(***************************************************************************)
(* The data structures and files under the database and the streaming      *)
(* dataset, one per behaviour: "part" is chosen at the start and the other *)
(* parts keep their initial states.                                        *)
(***************************************************************************)
EXTENDS StructList, SisDict, FullText, Sdcdb

CONSTANT Parts     \* bound: the parts a run chooses from

\* keys of the dictionary: two pairs that meet in tables of 2, one in tables of 4
MCHash == [k \in {"a", "b", "c", "d"} |->
            CASE k = "a" -> 0 [] k = "b" -> 2 [] k = "c" -> 7 [] k = "d" -> 4]

\* words at both ends of the levels of the number formats
Words == {{}, 0 .. 63} \cup
         {{i} : i \in {0, 3, 4, 7, 8, 12, 16, 20, 24, 27, 28, 31, 32, 36, 40, 47, 48, 55, 56, 62}}

\* files of one unit, and of two
MCCuts == {<<1>>, <<2>>, <<3>>, <<1, 2>>, <<1, 3>>}

VARIABLES part,
    fstyle, packs, files, idxfile, status, cls, wrote, sessions, whole,
    bits, bags, flag, ago, known, sentout, decoded, spoiled, sent

F == INSTANCE DiskFile WITH
        Keys <- {"abc", "def"}, Spans <- {<<0, 0>>, <<1, 2>>, <<2, 3>>}, PageMax <- 1,
        UnitMax <- 2, IndexMax <- 2, MaxWrites <- 4, MaxSessions <- 3,
        style <- fstyle, units <- files
B == INSTANCE BitStream WITH
        Kids <- {3, 300}, MaxKeynum <- 400, Ints <- Words, Chars <- {0, 65, 97, 98},
        BatchLens <- {1, 2, 3}, Counts <- {1, 2, 256, 257, 65536}, MaxBatches <- 2,
        init <- flag, mem <- known, given <- sentout, got <- decoded

filevars    == <<fstyle, packs, files, idxfile, status, cls, wrote, sessions, whole>>
bitvars     == <<bits, bags, flag, ago, known, sentout, decoded, spoiled, sent>>
memory      == <<listvars, dictvars>>
disk        == <<textvars, filevars>>
stream      == <<bitvars, streamvars>>

\* bounds: what a part that is left alone chooses at the start is fixed, as is packs
\* where it makes no difference, and of the dates, which are only compared with each other, the first is 1
MCInit ==
    /\ part \in Parts
    /\ ListInit /\ DictInit /\ TextInit /\ F!Init /\ B!Init /\ StreamInit
    /\ part # "text" => style = "index" /\ units = <<<<[hid |-> "index", body |-> 1, zip |-> TRUE]>>>>
    /\ part # "file" => fstyle = "SDB"
    /\ fstyle = "SDB" => packs

MCNext ==
    \/ part = "list"    /\ ListNext /\ UNCHANGED <<part, dictvars, disk, stream>>
    \/ part = "dict"    /\ DictNext /\ UNCHANGED <<part, listvars, disk, stream>>
    \/ part = "text"    /\ TextNext /\ UNCHANGED <<part, memory, filevars, stream>>
    \/ part = "file"    /\ F!Next /\ UNCHANGED <<part, memory, textvars, stream>>
    \/ part = "bits"    /\ B!Next /\ UNCHANGED <<part, memory, disk, streamvars>>
    \/ part = "stream"  /\ StreamNext /\ UNCHANGED <<part, memory, disk, bitvars>>
                        /\ (date = 0 => date' # 2)

MCSpec == MCInit /\ [][MCNext]_<<part, memory, disk, stream>>

\* a file is played in the order of the day, and a get finds what later writes have
\* left: see DiskFile
FileFaithful == part = "file" => F!PlayedAsWritten /\ F!GetsSurvivors
\* a file is played whether or not its blocks are compressed: see DiskFile
FileInAnyForm == part = "file" => F!PlayedInAnyForm
\* a receiver reads the batches that were written: see BitStream
BatchesDecode == part = "bits" => B!BatchesDecode
=============================================================================
