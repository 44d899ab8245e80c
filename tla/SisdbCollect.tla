---------------------------- MODULE SisdbCollect ----------------------------
(***************************************************************************)
(* One collect of a table (src/src/workers/sisdb/sisdb_collect*.c): an     *)
(* array of records of one length, kept in the order of its time field,    *)
(* and the step index from which every search starts its walk.             *)
(*                                                                         *)
(* A record is its time t (field_mindex) and the rest s, which stands for  *)
(* the fields that must be unique when the table has such fields           *)
(* (field_solely).  Positions are those of C, from 0.                      *)
(***************************************************************************)
EXTENDS Integers, Sequences, SequencesExt, FiniteSetsExt

CONSTANTS
    Tables,     \* records [index, solely, inOrder], see tb
    Times,      \* the times of records: natural numbers
    Rests,      \* the rests of records
    BatchLen,   \* bound: records in one write
    MaxRecs,    \* bound: records in the collect
    Finders,    \* times that are searched for
    Signed      \* positions, counts and offsets in commands, negative ones too

ASSUME CollectAssumption ==
    /\ Tables \subseteq [index : BOOLEAN, solely : BOOLEAN, inOrder : BOOLEAN]
    /\ Times \subseteq Nat /\ Rests # {} /\ BatchLen \in Nat
    /\ Finders \subseteq Nat /\ Signed \subseteq Int

VARIABLES
    tb,         \* the collect's table, fixed from the start
    list,       \* collect->obj, a s_sis_struct_list
    step,       \* collect->stepinfo
    loading     \* TRUE until the first client's command: rsdb may still load
collectvars == <<tb, list, step, loading>>

HasIndex == tb.index        \* it has an index field (tb->db->field_mindex)
HasSolely == tb.solely      \* it has unique fields (field_solely->count > 0)
InOrder == tb.inOrder       \* its writers send records in the order of their time

\* what is not unique is only copied: one value will do
Rows == [t : Times, s : IF HasSolely THEN Rests ELSE {CHOOSE r \in Rests : TRUE}]
Recs == Len(list)
Positions == 0 .. Recs - 1
Time(l, i) == l[i + 1].t

None == [at |-> -1, mode |-> "none"]

-----------------------------------------------------------------------------
(* The step index. *)

(* A count that is one too small: the last record is out of a walk's reach. *)
StepRebuildShort(l) ==
    IF l = <<>> THEN [count |-> 0, left |-> 0, right |-> 0, step |-> 0]
    ELSE [count |-> Len(l) - 1, left |-> Head(l).t, right |-> Last(l).t,
          step |-> 0]

(* The step is the quotient of the unsigned division. *)
StepRebuild(l) ==
    IF ~HasIndex THEN step
    ELSE IF l = <<>> THEN [count |-> 0, left |-> 0, right |-> 0, step |-> 0]
    ELSE [count |-> Len(l), left |-> Head(l).t, right |-> Last(l).t,
          step |-> (Last(l).t - Head(l).t) \div Len(l)]

StepGoto(f) ==
    IF step.count < 1 THEN -1
    ELSE IF f <= step.left THEN 0
    ELSE IF f >= step.right THEN step.count - 1
    ELSE IF step.step > 1
         THEN Min({(f - step.left) \div step.step, step.count - 1})
         ELSE 0

(* Where the walk for time f ends and in which direction it went: it turns  *)
(* nowhere, so it ends at the first record that is not on its way, or off   *)
(* the list.                                                                *)
Walk(f) ==
    LET g == StepGoto(f)
        up == {i \in g + 1 .. Recs - 1 : Time(list, i) >= f}
        down == {i \in 0 .. g - 1 : Time(list, i) <= f}
    IN  CASE g >= Recs           -> [at |-> -1, dir |-> 0]
          [] Time(list, g) = f -> [at |-> g, dir |-> 0]
          [] Time(list, g) < f -> [at |-> Min(up \cup {Recs}), dir |-> 1]
          [] Time(list, g) > f -> [at |-> Max(down \cup {-1}), dir |-> -1]

(* The ends of the run of records with time f that contains position i. *)
RunEnd(f, i) == Min({k \in i .. Recs - 1 :
                        k = Recs - 1 \/ Time(list, k + 1) # f})
RunStart(f, i) == Max({k \in 0 .. i : k = 0 \/ Time(list, k - 1) # f})

Off(w) == w.at \notin Positions
Hit(f, w) == ~Off(w) /\ Time(list, w.at) = f

Search(f) ==
    IF StepGoto(f) < 0 THEN -1
    ELSE LET w == Walk(f) IN IF Hit(f, w) THEN w.at ELSE -1

SearchLeft(f) ==
    IF StepGoto(f) < 0 THEN None
    ELSE LET w == Walk(f)
         IN  CASE Hit(f, w)   -> [at |-> RunEnd(f, w.at), mode |-> "ok"]
               [] ~Hit(f, w) /\ w.dir = 1 -> [at |-> w.at - 1, mode |-> "left"]
               [] ~Hit(f, w) /\ w.dir # 1 /\ ~Off(w) -> [at |-> w.at, mode |-> "left"]
               [] ~Hit(f, w) /\ w.dir # 1 /\ Off(w) -> None

(* The equal record where the walk to the right began, not the run's first. *)
SearchRightAtHit(f) ==
    IF StepGoto(f) < 0 THEN None
    ELSE LET w == Walk(f)
         IN  IF Hit(f, w) THEN [at |-> w.at, mode |-> "ok"]
             ELSE IF w.dir # 1 THEN [at |-> w.at + 1, mode |-> "right"]
             ELSE IF Off(w) THEN None ELSE [at |-> w.at, mode |-> "right"]

SearchRight(f) ==
    IF StepGoto(f) < 0 THEN None
    ELSE LET w == Walk(f)
         IN  CASE Hit(f, w)   -> [at |-> RunStart(f, w.at), mode |-> "ok"]
               [] ~Hit(f, w) /\ w.dir # 1 -> [at |-> w.at + 1, mode |-> "right"]
               [] ~Hit(f, w) /\ w.dir = 1 /\ ~Off(w) -> [at |-> w.at, mode |-> "right"]
               [] ~Hit(f, w) /\ w.dir = 1 /\ Off(w) -> None

(* A walk that has met f goes on to the right until a greater time. *)
SearchLast(f) ==
    IF StepGoto(f) < 0 THEN None
    ELSE LET w == Walk(f)
             over == {k \in w.at + 1 .. Recs - 1 : Time(list, k) > f}
         IN  IF Hit(f, w)
             THEN [at |-> IF w.dir = -1 THEN w.at ELSE Min(over \cup {Recs}) - 1,
                   mode |-> "ok"]
             ELSE IF w.dir = 1 /\ Off(w) THEN None
             ELSE [at |-> IF w.dir = 1 THEN w.at ELSE w.at + 1, mode |-> "right"]

-----------------------------------------------------------------------------
(* Ranges of positions: [from, count], with count 0 for "nothing". *)

Nothing == [from |-> 0, count |-> 0]
FromEnd(i) == IF i < 0 THEN Recs + i ELSE i
Clamped(i) == Max({0, FromEnd(i)})

TransOfRange(start, stop) ==
    LET a == Clamped(start)
        b == Min({FromEnd(stop), Recs - 1})
    IN  IF a > FromEnd(stop) \/ a >= Recs THEN Nothing
        ELSE [from |-> a, count |-> b - a + 1]

TransOfCount(start, count) ==
    LET a == Clamped(start)
        back == Min({-count, a + 1})
    IN  IF count = 0 \/ a >= Recs THEN Nothing
        ELSE IF count < 0 THEN [from |-> a - (back - 1), count |-> back]
        ELSE [from |-> a, count |-> Min({count, Recs - a})]

(* The search of a get or del command: by time with a count or a second     *)
(* time, by the last time with a count, by position with a count or a       *)
(* second position.  A missing max means max = min, a missing stop or count *)
(* of a position one record.                                                *)
TimeRange(lo, hi, offset) ==
    LET a == SearchRight(lo)
        b == SearchLeft(hi)
    IN  IF a.mode = "none" \/ b.mode = "none" THEN Nothing
        ELSE TransOfRange(Max({0, a.at + offset}), b.at)

MinCount(lo, count, offset) ==
    LET a == SearchRight(lo)
        n == IF offset < 0 THEN count - offset ELSE count
    IN  IF a.at < 0 THEN Nothing
        ELSE TransOfCount(Max({0, a.at + offset}), n)

MaxCount(hi, count, offset) ==
    LET b == SearchLeft(hi)
        less == b.mode # "ok" /\ offset < 0
        off == IF less THEN offset + 1 ELSE offset
        n == IF less THEN count + 1 ELSE count
    IN  IF b.at < 0 THEN Nothing
        ELSE TransOfCount(Max({0, b.at + off}),
                          IF off < 0 THEN n - off ELSE n)

(* What del takes away for min and count: it needs the exact time. *)
DelCount(lo, count) ==
    LET a == Search(lo)
    IN  IF a < 0 THEN Nothing ELSE TransOfCount(a, count)

-----------------------------------------------------------------------------
(* Writes. *)

(* Position of the last record with time f, or after the last earlier one. *)
SearchFromLast(l, f) ==
    LET le == {i \in 0 .. Len(l) - 1 : Time(l, i) <= f}
    IN  IF le = {} THEN [at |-> 0, mode |-> "none"]
        ELSE LET i == Max(le)
             IN  IF Time(l, i) = f THEN [at |-> i, mode |-> "ok"]
                 ELSE [at |-> i + 1, mode |-> "right"]

Pushed(l, r) == Append(l, r)
Inserted(l, i, r) == IF i > Len(l) - 1 THEN Pushed(l, r)
                     ELSE InsertAt(l, i + 1, r)

(* From position index (from the end when -1) back to an equal record, or   *)
(* to an earlier one when there is an index: no equal record means a push   *)
(* or an insertion after index.  A walk that meets neither pushes.          *)
UpdateSolely(l, r, index, mindex) ==
    LET start == IF index >= 0 THEN index ELSE Len(l) - 1
        earlier(i) == mindex > 0 /\ Time(l, i) < mindex
        same(i) == ~HasSolely \/ l[i + 1].s = r.s
        stops == {i \in 0 .. start : earlier(i) \/ same(i)}
    IN  IF stops = {} THEN Pushed(l, r)
        ELSE LET i == Max(stops)
             IN  IF ~earlier(i) THEN [l EXCEPT ![i + 1] = r]
                 ELSE IF index = -1 THEN Pushed(l, r)
                 ELSE Inserted(l, index + 1, r)

(* An old record goes to the end. *)
UpdateMindexPush(l, r) ==
    IF l # <<>> /\ r.t = Last(l).t /\ HasSolely
    THEN UpdateSolely(l, r, -1, r.t) ELSE Pushed(l, r)

UpdateMindex(l, r) ==
    LET found == SearchFromLast(l, r.t)
    IN  IF l = <<>> \/ r.t > Last(l).t THEN Pushed(l, r)
        ELSE IF r.t = Last(l).t
        THEN IF HasSolely THEN UpdateSolely(l, r, -1, r.t) ELSE Pushed(l, r)
        ELSE IF found.mode = "ok" THEN UpdateSolely(l, r, found.at, r.t)
        ELSE Inserted(l, found.at, r)

UpdateNoMindex(l, r) == UpdateSolely(l, r, -1, 0)

UpdateOne(l, r) ==
    IF HasIndex THEN UpdateMindex(l, r) ELSE UpdateNoMindex(l, r)

(* The first write of a collect is taken as it is. *)
Updated(l, batch) ==
    LET done[n \in 0 .. Len(batch)] ==
            IF n = 0 THEN l ELSE UpdateOne(done[n - 1], batch[n])
    IN  IF l = <<>> \/ (~HasSolely /\ ~HasIndex) THEN l \o batch ELSE done[Len(batch)]

Ascending(l) == \A i \in 1 .. Len(l) - 1 : l[i].t <= l[i + 1].t
Unique(l) == \A i, j \in DOMAIN l :
                i # j => l[i].s # l[j].s \/ (HasIndex /\ l[i].t # l[j].t)

(* A write holds its records in the order of their time and none twice; the *)
(* code checks neither.                                                     *)
Batches == {b \in BoundedSeq(Rows, BatchLen) :
                /\ b # <<>>
                /\ Ascending(b)
                /\ HasSolely => Unique(b)}

CollectInit ==
    /\ tb \in Tables
    /\ list = <<>>
    /\ step = [count |-> 0, left |-> 0, right |-> 0, step |-> 0]
    /\ loading = TRUE

Settle(l) ==
    /\ list' = l
    /\ UNCHANGED tb
    /\ step' = StepRebuild(l)

(* A client's set. *)
CollectUpdate(b) ==
    /\ InOrder /\ list # <<>> => Head(b).t >= Last(list).t
    /\ Len(list) + Len(b) <= MaxRecs
    /\ Settle(Updated(list, b))
    /\ loading' = FALSE

(* A block of the sdb file, as an earlier save has written it. *)
Wpush(b) ==
    /\ loading
    /\ Len(list) + Len(b) <= MaxRecs
    /\ HasIndex => Ascending(list \o b)
    /\ HasSolely => Unique(list \o b)
    /\ Settle(list \o b)
    /\ UNCHANGED loading

Removed(l, r) == SubSeq(l, 1, r.from) \o SubSeq(l, r.from + r.count + 1, Len(l))

(* sis_struct_list_delete ignores a range that is not inside the list. *)
DeleteRange(r) ==
    /\ r.count > 0
    /\ Settle(IF r.from + r.count > Recs THEN list ELSE Removed(list, r))
    /\ loading' = FALSE

DeleteTimes(lo, hi) == DeleteRange(TimeRange(lo, hi, 0))
DeleteCount(lo, count) == DeleteRange(DelCount(lo, count))
DeleteStop(start, stop) == DeleteRange(TransOfRange(start, stop))
DeleteStart(start, count) == DeleteRange(TransOfCount(start, count))

CollectNext ==
    \/ \E b \in Batches : CollectUpdate(b) \/ Wpush(b)
    \/ \E lo, hi \in Finders : DeleteTimes(lo, hi)
    \/ \E lo \in Finders, n \in Signed : DeleteCount(lo, n)
    \/ \E a, b \in Signed : DeleteStop(a, b) \/ DeleteStart(a, b)

CollectSpec == CollectInit /\ [][CollectNext]_collectvars

-----------------------------------------------------------------------------
CollectTypeOK ==
    /\ tb \in Tables /\ list \in Seq(Rows) /\ loading \in BOOLEAN
    /\ step \in [count : Nat, left : Nat, right : Nat, step : Int]

(* The walk of a search begins wherever the step index points and turns     *)
(* nowhere; with the records in order it must still find the exact record,  *)
(* the last one not after f, the first one not before f and the last one    *)
(* with time f, whatever the gaps and repetitions of the times are          *)
(* (sisdb_collect_search, _left, _right and _last).                         *)
SearchesExact ==
    HasIndex /\ Ascending(list) =>
        \A f \in Finders :
            LET upto == {i \in Positions : Time(list, i) <= f}
                from == {i \in Positions : Time(list, i) >= f}
                at == upto \cap from
            IN  /\ IF at = {} THEN Search(f) = -1 ELSE Search(f) \in at
                /\ SearchLeft(f).at = Max(upto \cup {-1})
                /\ SearchRight(f).at = IF from = {} THEN -1 ELSE Min(from)
                /\ at # {} => SearchLast(f) = [at |-> Max(at), mode |-> "ok"]

(* What get and del hand to memcpy and memmove lies inside the list,        *)
(* whatever the client asks; min and max give the records of that time      *)
(* span and no other, min with a count the first ones from there, max with  *)
(* a negative count the last ones up to there                               *)
(* (sisdb_collect_get_original_sds, sisdb_collect_delete).                  *)
GetExact ==
    LET inside(r) == r.count = 0 \/ (r.from >= 0 /\ r.from + r.count <= Recs)
        covers(r, set) == {i \in Positions : i >= r.from /\ i < r.from + r.count} = set
    IN  /\ \A a, b \in Signed : /\ inside(TransOfRange(a, b))
                                /\ inside(TransOfCount(a, b))
        /\ \A f \in Finders, n \in Signed :
              /\ \A g \in Finders : inside(TimeRange(f, g, n))
              /\ inside(DelCount(f, n))
              /\ \A k \in Signed : /\ inside(MinCount(f, n, k))
                                   /\ inside(MaxCount(f, n, k))
        /\ HasIndex /\ Ascending(list) =>
             \A f, g \in Finders :
                LET upto == {i \in Positions : Time(list, i) <= g}
                    from == {i \in Positions : Time(list, i) >= f}
                IN  /\ covers(TimeRange(f, g, 0), upto \cap from)
                    /\ covers(MinCount(f, 2, 0),
                              {i \in from : i < Min(from) + 2})
                    /\ covers(MaxCount(g, -2, 0),
                              {i \in upto : i > Max(upto) - 2})

(* A search ends where a look at every record would, and gets and deletions *)
(* take what was asked for.                                                 *)
LookupsExact == SearchesExact /\ GetExact

(* The searches, the step index and the saves rely on the order of the      *)
(* records and on at most one record for the unique fields (and time):      *)
(* writes, loads and deletions keep both.  A table with an index and        *)
(* unique fields keeps them only as long as its writers send their records  *)
(* in order: an old time with new unique fields that meets no earlier       *)
(* record is pushed at the end (sisdb_collect_set.c:113).                   *)
KeysOrdered ==
    (HasIndex /\ HasSolely => InOrder) =>
        /\ HasIndex => Ascending(list)
        /\ HasSolely => Unique(list)
=============================================================================
