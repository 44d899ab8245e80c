------------------------------- MODULE SisDict -------------------------------
(***************************************************************************)
(* The hash table below every map (src/src/core/sis_dict.c): chains in two *)
(* tables while it is rehashed step by step, and the safe iterator with    *)
(* which the maps of keys, subscriptions and questions are walked while    *)
(* entries come and go.                                                    *)
(***************************************************************************)
EXTENDS Integers, Sequences, SequencesExt, FiniteSetsExt

CONSTANTS
    Keys, Hash,     \* the keys and their hashes
    InitialSize,    \* DICT_HT_INITIAL_SIZE, a power of two
    EmptyVisits     \* empty buckets a step of the rehash may pass (10 in the code)

Null == "null"

ASSUME DictAssumption ==
    /\ Hash \in [Keys -> Nat] /\ Null \notin Keys
    /\ InitialSize \in Nat \ {0} /\ EmptyVisits \in Nat \ {0}

VARIABLES
    ht,             \* <<ht[0], ht[1]>>: a table is a sequence of chains of keys
    rehashidx, iterators,
    iter,           \* the iterator: [on, table, index, entry, nextEntry]
    held,           \* the keys the dictionary stands for
    stay, seen      \* of a walk: the keys there since it began, and its answers;
                    \* after it, stay keeps what it has missed
dictvars == <<ht, rehashidx, iterators, iter, held, stay, seen>>

NoIter == [on |-> FALSE, table |-> 1, index |-> 0, entry |-> Null, nextEntry |-> Null]

Size(t) == Len(t)
Used(t) == LET sum[n \in 0 .. Size(t)] == IF n = 0 THEN 0 ELSE sum[n - 1] + Len(t[n])
           IN  sum[Size(t)]
Empty(n) == [i \in 1 .. n |-> <<>>]
Bucket(t, k) == (Hash[k] % Size(t)) + 1
Has(t, k) == t # <<>> /\ Contains(t[Bucket(t, k)], k)
IsRehashing(d) == d.idx # -1
NextPower(n) ==
    LET power[e \in 0 .. n] == IF e = 0 THEN InitialSize ELSE 2 * power[e - 1]
    IN  power[Min({e \in 0 .. n : power[e] >= n})]

\* a key at the head of its chain, and a key taken out of its chain
Place(chain, k) == CHOOSE j \in 1 .. Len(chain) : chain[j] = k
Linked(t, k) == [t EXCEPT ![Bucket(t, k)] = <<k>> \o @]
Unlinked(t, k) == [t EXCEPT ![Bucket(t, k)] = RemoveAt(@, Place(@, k))]

Now == [ht |-> ht, idx |-> rehashidx]
Set(d) == ht' = d.ht /\ rehashidx' = d.idx

DictInit ==
    /\ ht = <<<<>>, <<>>>> /\ rehashidx = -1 /\ iterators = 0
    /\ iter = NoIter /\ held = {} /\ stay = {} /\ seen = <<>>

-----------------------------------------------------------------------------
(* Only the first key of the chain is moved. *)
MoveBucketHead(d, b) ==
    [ht |-> <<[d.ht[1] EXCEPT ![b] = <<>>], Linked(d.ht[2], d.ht[1][b][1])>>, idx |-> b]

(* All keys of a chain go to the heads of their new chains, one by one. *)
MoveBucket(d, b) ==
    LET chain == d.ht[1][b]
        moved[i \in 0 .. Len(chain)] ==
            IF i = 0 THEN d.ht[2] ELSE Linked(moved[i - 1], chain[i])
    IN  [ht |-> <<[d.ht[1] EXCEPT ![b] = <<>>], moved[Len(chain)]>>, idx |-> b]

Finished(d) ==
    IF Used(d.ht[1]) = 0 THEN [ht |-> <<d.ht[2], <<>>>>, idx |-> -1] ELSE d

(* One step: the next chain that is not empty, unless too many are. *)
Rehash(d) ==
    IF ~IsRehashing(d) THEN d
    ELSE IF Used(d.ht[1]) = 0 THEN Finished(d)
    ELSE LET full == Min({b \in d.idx + 1 .. Size(d.ht[1]) : d.ht[1][b] # <<>>})
         IN  IF full - (d.idx + 1) >= EmptyVisits
             THEN [d EXCEPT !.idx = d.idx + EmptyVisits]
             ELSE Finished(MoveBucket(d, full))

RehashStep(d) == IF iterators = 0 THEN Rehash(d) ELSE d

Expand(d, n) ==
    LET real == NextPower(n)
    IN  IF real = Size(d.ht[1]) THEN d
        ELSE IF d.ht[1] = <<>> THEN [d EXCEPT !.ht = <<Empty(real), <<>>>>]
        ELSE [ht |-> <<d.ht[1], Empty(real)>>, idx |-> 0]

ExpandIfNeeded(d) ==
    IF IsRehashing(d) THEN d
    ELSE IF Size(d.ht[1]) = 0 THEN Expand(d, InitialSize)
    ELSE IF Used(d.ht[1]) >= Size(d.ht[1]) THEN Expand(d, Used(d.ht[1]) * 2)
    ELSE d

Lookup(d, k) == Has(d.ht[1], k) \/ (IsRehashing(d) /\ Has(d.ht[2], k))

PutIn(d, n, k) == [d EXCEPT !.ht[n] = Linked(@, k)]

(* New keys go to the new table while the old one is emptied. *)
With(d, k) ==
    IF Lookup(d, k) THEN d ELSE PutIn(d, IF IsRehashing(d) THEN 2 ELSE 1, k)

DictAdd(k) ==
    /\ Set(With(ExpandIfNeeded(RehashStep(Now)), k))
    /\ held' = held \cup {k}
    /\ UNCHANGED <<iterators, iter, stay, seen>>

TakenFrom(d, n, k) == [d EXCEPT !.ht[n] = Unlinked(@, k)]

(* The dictionary is emptied of k, in the old table if it is there. *)
Without(d, k) ==
    IF Has(d.ht[1], k) THEN TakenFrom(d, 1, k)
    ELSE IF IsRehashing(d) /\ Has(d.ht[2], k) THEN TakenFrom(d, 2, k)
    ELSE d

(* During a walk only the entry the walk has just returned is deleted       *)
(* (sisdb_io.c:85 and 547); an entry saved as the next one would dangle.    *)
DictDelete(k) ==
    /\ iter.on => k = iter.entry
    /\ Set(Without(IF Used(ht[1]) = 0 /\ Used(ht[2]) = 0 THEN Now ELSE RehashStep(Now), k))
    /\ held' = held \ {k}
    /\ stay' = stay \ {k}
    /\ UNCHANGED <<iterators, iter, seen>>

DictFind ==
    /\ held # {}
    /\ Set(RehashStep(Now))
    /\ UNCHANGED <<iterators, iter, held, stay, seen>>

DictEmpty ==
    /\ ~iter.on
    /\ ht' = <<<<>>, <<>>>> /\ rehashidx' = -1 /\ iterators' = 0 /\ held' = {}
    /\ UNCHANGED <<iter, stay, seen>>

-----------------------------------------------------------------------------
(* sis_dict_get_iter is the safe iterator: its first answer stops the       *)
(* rehash, its release lets it go on.                                       *)
IterBegin ==
    /\ ~iter.on
    /\ iter' = [NoIter EXCEPT !.on = TRUE]
    /\ iterators' = iterators + 1
    /\ stay' = held /\ seen' = <<>>
    /\ UNCHANGED <<ht, rehashidx, held>>

After(chain, k) ==
    IF Place(chain, k) < Len(chain) THEN chain[Place(chain, k) + 1] ELSE Null

(* The first chain that is not empty in buckets from b of table n. *)
From(n, b) == {i \in b .. Size(ht[n]) : ht[n][i] # <<>>}

IterSaved ==
    LET chain == ht[iter.table][iter.index]
        k == iter.nextEntry
    IN  /\ iter.on /\ k # Null
        /\ iter' = [iter EXCEPT !.entry = k, !.nextEntry = After(chain, k)]
        /\ seen' = Append(seen, k)
        /\ UNCHANGED <<ht, rehashidx, iterators, held, stay>>

(* The next chain: the second table is walked only if the first one is      *)
(* being emptied when its end is reached.                                   *)
Rest == LET here == From(iter.table, iter.index + 1)
            there == IF iter.table = 1 /\ rehashidx # -1 THEN From(2, 1) ELSE {}
        IN  IF here # {} THEN <<iter.table, Min(here)>>
            ELSE IF there # {} THEN <<2, Min(there)>> ELSE <<0, 0>>

IterChain ==
    LET n == Rest[1]
        chain == ht[n][Rest[2]]
    IN  /\ iter.on /\ iter.nextEntry = Null /\ n # 0
        /\ iter' = [iter EXCEPT !.table = n, !.index = Rest[2], !.entry = chain[1],
                                !.nextEntry = After(chain, chain[1])]
        /\ seen' = Append(seen, chain[1])
        /\ UNCHANGED <<ht, rehashidx, iterators, held, stay>>

(* The end of the tables: the walk stops and its iterator is released. *)
IterEnd ==
    /\ iter.on /\ iter.nextEntry = Null /\ Rest[1] = 0
    /\ iter' = NoIter
    /\ iterators' = iterators - 1
    /\ stay' = stay \ Range(seen) /\ seen' = <<>>
    /\ UNCHANGED <<ht, rehashidx, held>>

DictNext ==
    \/ \E k \in Keys : DictAdd(k) \/ DictDelete(k)
    \/ DictFind \/ DictEmpty \/ IterBegin \/ IterSaved \/ IterChain \/ IterEnd

DictSpec == DictInit /\ [][DictNext]_dictvars

-----------------------------------------------------------------------------
(* In the middle of a rehash too a key is found exactly when it was set and *)
(* not deleted since, and in one place only (dictFind, dictAddRaw).         *)
FoundIfThere ==
    /\ \A k \in Keys : Lookup(Now, k) <=> k \in held
    /\ Used(ht[1]) + Used(ht[2]) = Cardinality(held)
    /\ rehashidx = -1 => ht[2] = <<>>

(* A walk returns no entry twice and none that has been freed, and when it  *)
(* ends it has returned every key that was there all the time, although     *)
(* keys were added, a new table was opened and the returned entries were    *)
(* deleted in between (dictNext).                                           *)
WalkComplete ==
    /\ \A i, j \in DOMAIN seen : i < j => seen[i] # seen[j] \/ seen[i] \notin stay
    /\ iter.nextEntry # Null => Lookup(Now, iter.nextEntry)
    /\ iter.on => iterators = 1
    /\ ~iter.on => stay = {}

(* What the maps of keys, subscriptions and questions rest on: a key is     *)
(* found exactly while it is there, also in the middle of a rehash, and a   *)
(* walk meets every key that stays.                                         *)
DictFaithful == FoundIfThere /\ WalkComplete
=============================================================================
