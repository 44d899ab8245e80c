------------------------------ MODULE DiskFile ------------------------------
(***************************************************************************)
(* Files of records with an index (core/disk, styles SNO and SDB): written *)
(* in sessions that create the file or append to it, over units that are   *)
(* limited in size, and played or read by way of the index.  A key's place *)
(* in the dictionary stands for it in the blocks.  There is one sdb.       *)
(***************************************************************************)
EXTENDS Integers, Sequences, FiniteSetsExt, SequencesExt, TLC

CONSTANTS Keys,
          Spans,         \* first and last time of what is written at once (SDB)
          PageMax,       \* max_page_size, in records of a page
          UnitMax,       \* max_file_size, in blocks of a unit
          IndexMax,      \* SIS_DISK_MAXLEN_MINPAGE of the index, in index units
          MaxWrites,     \* bound: writes in a behaviour
          MaxSessions    \* bound: sessions of the writer

VARIABLES
    style,      \* "SNO" or "SDB"
    packs,      \* blocks of records get shorter by snappy, so they are stored compressed
    units,      \* the work files: their blocks, and the count in their tail
    idxfile,    \* the index file: where dictionary blocks are, blocks of index nodes
    status,     \* "closed" or "open", or "fault" after a use of a unit that is not in lists
    cls,        \* the writer's s_sis_disk_class
    wrote,      \* history: the writes, in order
    sessions,   \* history: sessions of the writer so far
    whole       \* history: every session knew all keys, pages and units of the file

vars == <<style, packs, units, idxfile, status, cls, wrote, sessions, whole>>

NewUnit == [blocks |-> <<>>, count |-> 0]
NoIndex == [dicts |-> <<>>, blocks |-> <<>>]
EmptyClass == [lists |-> 1, open |-> {}, keys |-> <<>>, dicts |-> <<>>, index |-> <<>>,
               wcatch |-> <<>>, series |-> 0, pages |-> 0]

Init ==
    /\ style \in {"SNO", "SDB"} /\ packs \in BOOLEAN /\ units = <<>> /\ idxfile = NoIndex
    /\ status = "closed" /\ cls = EmptyClass
    /\ wrote = <<>> /\ sessions = 0 /\ whole = TRUE

-----------------------------------------------------------------------------
(* Lists of nodes with a key: index_infos and sno_wcatch.                  *)

Place(list, k) == CHOOSE i \in DOMAIN list : list[i].key = k
Made(list, k) == IF \E i \in DOMAIN list : list[i].key = k THEN list
                 ELSE Append(list, [key |-> k, at |-> <<>>])
AddTo(list, k, x) == LET made == Made(list, k) IN [made EXCEPT ![Place(made, k)].at = Append(@, x)]
Emptied(list) == [i \in DOMAIN list |-> [list[i] EXCEPT !.at = <<>>]]

KeyIn(keys, k) == \E i \in DOMAIN keys : keys[i] = k
KeyIndex(keys, k) == CHOOSE i \in DOMAIN keys : keys[i] = k

-----------------------------------------------------------------------------
(* Writing.  A step works on the files and the class together: f.us, f.c.  *)

Full(unit) == Len(SelectSeq(unit.blocks, LAMBDA b : b.hid # "end")) >= UnitMax

\* sis_files_write: a full unit is left for a new one; an end of page is never too much
WriteBlock(f, b) ==
    LET n  == IF b.hid # "end" /\ Full(f.us[f.c.lists]) THEN f.c.lists + 1 ELSE f.c.lists
        us == [i \in 1 .. n \cup DOMAIN f.us |-> IF n > f.c.lists /\ i = n THEN NewUnit ELSE f.us[i]]
    IN [us |-> [us EXCEPT ![n].blocks = Append(@, b)],
        c  |-> [f.c EXCEPT !.lists = n, !.open = @ \cup {n}]]
Written(f) == [fidx |-> f.c.lists, off |-> Len(f.us[f.c.lists].blocks)]

\* a new key goes to the dictionary and at once to the file
AddKey(f, k) ==
    IF KeyIn(f.c.keys, k) THEN f
    ELSE LET g == WriteBlock(f, [hid |-> "dict", keyi |-> 0, recs |-> <<k>>])
         IN [g EXCEPT !.c.keys = Append(@, k), !.c.dicts = Append(@, Written(g))]

\* sis_disk_write_work: a block of the key's records and its index unit
WriteData(f, k, hid, recs, span) ==
    LET g == WriteBlock(f, [hid |-> hid, keyi |-> KeyIndex(f.c.keys, k), recs |-> recs])
    IN [g EXCEPT !.c.index = AddTo(@, k, [fidx |-> Written(g).fidx, off |-> Written(g).off,
                                          page |-> f.c.pages, span |-> span])]

\* sis_disk_file_write_sno: the page's blocks, the end of the page
Flush(f) ==
    LET data == SelectSeq(f.c.wcatch, LAMBDA w : w.at # <<>>)
        g == FoldLeft(LAMBDA h, w : WriteData(h, w.key, "sno", w.at, <<0, 0>>), f, data)
        e == WriteBlock(g, [hid |-> "end", keyi |-> 0, recs |-> <<>>])
    IN [e EXCEPT !.c.pages = @ + 1, !.c.series = 0, !.c.wcatch = Emptied(@)]

\* sis_disk_file_write_sdb_sno: the record waits, numbered, for its page to be full
AddRecord(f, k) ==
    LET g == [f EXCEPT !.c.wcatch = AddTo(@, k, [sno |-> f.c.series, n |-> Len(wrote) + 1]),
                       !.c.series = @ + 1]
    IN IF g.c.series > PageMax THEN Flush(g) ELSE g

Mixed(a, b) == a[1] = b[2] \/ b[1] = a[2] \/ ~(a[1] > b[2] \/ b[1] > a[2])
MergeSame(at, span) == SelectSeq(at, LAMBDA e : e.span # span)
\* sis_write_sdb_merge: what is no series replaces all, else what it overlaps
Merge(at, span) ==
    IF span = <<0, 0>> \/ span[1] > span[2] THEN <<>>
    ELSE SelectSeq(at, LAMBDA e : ~Mixed(span, e.span))
\* sis_disk_file_write_sdb_one
WriteOne(f, k, span) ==
    LET made == Made(f.c.index, k)
        g == [f EXCEPT !.c.index = [made EXCEPT ![Place(made, k)].at = Merge(@, span)]]
    IN WriteData(g, k, "sdb", <<[sno |-> 0, n |-> Len(wrote) + 1]>>, span)

-----------------------------------------------------------------------------
(* The index file, written as a whole and loaded as a whole.               *)

Weight(nodes) == FoldLeft(LAMBDA sum, node : sum + Len(node.at), 0, nodes)
IndexBlocks(index) ==
    LET Add(acc, node) ==
            LET cur == Append(acc.cur, node)
            IN IF Weight(cur) > IndexMax THEN [done |-> Append(acc.done, cur), cur |-> <<>>]
               ELSE [acc EXCEPT !.cur = cur]
        all == FoldLeft(Add, [done |-> <<>>, cur |-> <<>>], index)
    IN IF all.cur = <<>> THEN all.done ELSE Append(all.done, all.cur)

Index == FlattenSeq(idxfile.blocks)
PagesIn(nodes) == UNION {{nodes[i].at[j].page : j \in DOMAIN nodes[i].at} : i \in DOMAIN nodes}
\* cb_sis_disk_file_read_index: sno_pages is set by each block, to the last page in it
Pages == IF idxfile = NoIndex THEN 0
         ELSE IF idxfile.blocks = <<>> THEN 1
         ELSE 1 + Max({0} \cup PagesIn(idxfile.blocks[Len(idxfile.blocks)]))
PagesKnown == \A p \in PagesIn(Index) : p < Pages

\* sis_disk_file_read_dict: of the dictionary blocks, those in units that are open
LoadKeys(open) ==
    FoldLeft(LAMBDA keys, d : LET k == units[d.fidx].blocks[d.off].recs[1]
                              IN IF d.fidx \in open /\ ~KeyIn(keys, k) THEN Append(keys, k) ELSE keys,
             <<>>, idxfile.dicts)

-----------------------------------------------------------------------------
(* The writer's calls.                                                     *)

WriteStart ==
    /\ status = "closed" /\ sessions < MaxSessions
    /\ sessions' = sessions + 1
    /\ IF units = <<>>
       THEN /\ units' = <<NewUnit>> /\ status' = "open"
            /\ cls' = [EmptyClass EXCEPT !.open = {1}]
            /\ UNCHANGED whole
       ELSE LET n == units[1].count IN
            /\ cls' = [EmptyClass EXCEPT !.lists = n, !.open = {n}, !.keys = LoadKeys({n}),
                           !.dicts = idxfile.dicts, !.index = Index, !.pages = Pages]
            /\ status' = IF \E d \in ToSet(idxfile.dicts) : d.fidx > n THEN "fault" ELSE "open"
            /\ whole' = (whole /\ LoadKeys({n}) = LoadKeys(1 .. n) /\ PagesKnown)
            /\ UNCHANGED units
    /\ UNCHANGED <<style, packs, idxfile, wrote>>

Write(k, span) ==
    LET f == AddKey([us |-> units, c |-> cls], k)
        g == IF style = "SNO" THEN AddRecord(f, k) ELSE WriteOne(f, k, span) IN
    /\ status = "open" /\ Len(wrote) < MaxWrites
    /\ style = "SNO" => span = <<0, 0>>
    /\ units' = g.us /\ cls' = g.c
    /\ wrote' = Append(wrote, [key |-> k, span |-> span])
    /\ UNCHANGED <<style, packs, idxfile, status, sessions, whole>>

WriteStop ==
    LET s == [us |-> units, c |-> cls]
        f == IF style = "SNO" THEN Flush(s) ELSE s IN
    /\ status = "open"
    /\ idxfile' = [dicts |-> f.c.dicts, blocks |-> IndexBlocks(f.c.index)]
    /\ units' = [i \in DOMAIN f.us |->
                    IF i \in f.c.open THEN [f.us[i] EXCEPT !.count = f.c.lists] ELSE f.us[i]]
    /\ status' = "closed" /\ cls' = EmptyClass
    /\ whole' = (whole /\ units'[1].count = f.c.lists)
    /\ UNCHANGED <<style, packs, wrote, sessions>>

Next == WriteStart \/ WriteStop \/ \E k \in Keys, span \in Spans : Write(k, span)

Spec == Init /\ [][Next]_vars

-----------------------------------------------------------------------------
(* Reading: a class of its own opens all units and loads the index.        *)

Lists == units[1].count
ReadKeys == LoadKeys(1 .. Lists)
\* the records of a block as they are handed out, none if the key is not known
Handed(b) == IF b.keyi \notin DOMAIN ReadKeys THEN <<>>
             ELSE [i \in DOMAIN b.recs |-> [key |-> ReadKeys[b.keyi], n |-> b.recs[i].n,
                                            sno |-> b.recs[i].sno]]
\* _sis_disk_read_hid_sno_end: the comparator says 1 or 0 and never -1, with which the
\* merge sort of glibc's qsort still gives the ascending order
InOrder(catch) == SortSeq(catch, LAMBDA x, y : x.sno < y.sno)

\* What comes of a block that stands in omem behind what others have left there: the left
\* bytes are taken for its key, sdb and records.  Chance decides what they are.
Noise == <<[key |-> "noise", n |-> 0, sno |-> 0]>>
\* sis_disk_file_read_sub of all keys: page by page from start to end.  A compressed block
\* takes the place of what is in omem, another one goes behind it; names of keys and the
\* records, which are copied out, stay.
FullPlay ==
    LET blocks == FlattenSeq([i \in 1 .. Lists |-> units[i].blocks])
        Records(acc, b) == IF packs \/ ~acc.left THEN Handed(b) ELSE Noise
        Take(acc, b) ==
            CASE b.hid = "dict" -> [acc EXCEPT !.left = TRUE]
              [] b.hid = "sno"  -> [acc EXCEPT !.catch = @ \o Records(acc, b), !.left = TRUE]
              [] b.hid = "end"  -> [acc EXCEPT !.catch = <<>>, !.out = @ \o InOrder(acc.catch)]
              [] OTHER -> acc
    IN FoldLeft(Take, [left |-> FALSE, catch |-> <<>>, out |-> <<>>], blocks).out

\* sis_disk_read_sub_sno: for each page the blocks the index has of the selected keys
PlayOf(ks) ==
    LET nodes == SelectSeq(Index, LAMBDA node : node.key \in ks)
        Here(cursor, p) == {i \in DOMAIN nodes : /\ cursor[i] \in DOMAIN nodes[i].at
                                                 /\ nodes[i].at[cursor[i]].page = p}
        Page(acc, p) ==
            LET here == Here(acc.cursor, p)
                Catch(i) == IF i \notin here THEN <<>>
                            ELSE LET e == nodes[i].at[acc.cursor[i]]
                                 IN Handed(units[e.fidx].blocks[e.off])
            IN [cursor |-> [i \in DOMAIN nodes |-> acc.cursor[i] + IF i \in here THEN 1 ELSE 0],
                out |-> acc.out \o InOrder(FlattenSeq([i \in DOMAIN nodes |-> Catch(i)]))]
    IN FoldLeft(Page, [cursor |-> [i \in DOMAIN nodes |-> 1], out |-> <<>>],
                [p \in 1 .. Pages |-> p - 1]).out

\* sis_disk_read_get_obj without limits of time
GetObj(k) ==
    LET at == FlattenSeq([i \in DOMAIN Index |-> IF Index[i].key = k THEN Index[i].at ELSE <<>>])
    IN FlattenSeq([j \in DOMAIN at |-> Handed(units[at[j].fidx].blocks[at[j].off])])

-----------------------------------------------------------------------------
Readable == status = "closed" /\ units # <<>> /\ whole
\* what was read, as numbers of writes with the keys they came out under
Numbers(out) == [i \in DOMAIN out |-> <<out[i].n, out[i].key>>]
Writes(Keep(_)) == LET all == [i \in DOMAIN wrote |-> <<i, wrote[i].key>>]
                   IN SelectSeq(all, LAMBDA x : Keep(x[1]))

\* A day's records are played in the order they were written in, each under its key: all
\* of them, over pages, units and sessions, where their blocks are compressed, and those of
\* any keys by way of the index, provided its last block has the last page.
PlayedAsWritten ==
    Readable /\ style = "SNO" =>
        /\ packs => Numbers(FullPlay) = Writes(LAMBDA i : TRUE)
        /\ PagesKnown => \A ks \in SUBSET Keys :
               Numbers(PlayOf(ks)) = Writes(LAMBDA i : wrote[i].key \in ks)

\* What sis_disk_files.c:497 relies on, that decompressing clears the buffer of the blocks
\* before: a day is played as it was written whether or not its blocks are compressed.
PlayedInAnyForm ==
    Readable /\ style = "SNO" => Numbers(FullPlay) = Writes(LAMBDA i : TRUE)

\* What replaces an older write of its key: a later one at an overlapping time, or one that
\* has no times.
Replaced(i) == \E j \in i + 1 .. Len(wrote) :
                  /\ wrote[j].key = wrote[i].key
                  /\ wrote[j].span = <<0, 0>> \/ Mixed(wrote[j].span, wrote[i].span)
\* A get by the index finds a key's records that have not been replaced, in the order of
\* the writes, wherever their blocks are and whatever else the file still has.
GetsSurvivors ==
    Readable => \A k \in Keys :
        Numbers(GetObj(k)) = Writes(LAMBDA i : wrote[i].key = k /\ (style = "SDB" => ~Replaced(i)))
=============================================================================
