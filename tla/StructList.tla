----------------------------- MODULE StructList -----------------------------
(***************************************************************************)
(* s_sis_struct_list (src/src/core/sis_list.c): an array in a buffer that  *)
(* grows, whose first records may have been given up by moving "start"     *)
(* instead of the records.  Positions are those of C, from 0.  ideal is    *)
(* the sequence the list stands for, kept next to it.                      *)
(***************************************************************************)
EXTENDS Integers, Sequences, SequencesExt, FiniteSetsExt

CONSTANTS
    Values,     \* records; none of them is Junk, the uninitialised memory
    Small,      \* the first capacity of a buffer (16 in the code)
    Row,        \* what a larger buffer has in reserve (STRUCT_LIST_STEP_ROW)
    MaxLen      \* bound: records in the list

Junk == "junk"
Records == Values \cup {Junk}

ASSUME ListAssumption == Small \in Nat /\ Row \in Nat /\ MaxLen \in Nat

VARIABLES
    mem,        \* the buffer: a function on 0 .. maxcount - 1
    start, count,
    ideal
listvars == <<mem, start, count, ideal>>

maxcount(m) == Cardinality(DOMAIN m)
Buffer(n) == [i \in 0 .. n - 1 |-> Junk]

\* memmove inside one buffer or into another
Moved(from, a, to, b, n) ==
    [i \in DOMAIN to |-> IF i \in b .. b + n - 1 THEN from[a + (i - b)] ELSE to[i]]
Stored(m, at, s) ==
    [i \in DOMAIN m |-> IF i \in at .. at + Len(s) - 1 THEN s[i - at + 1] ELSE m[i]]

ListInit == mem = Buffer(0) /\ start = 0 /\ count = 0 /\ ideal = <<>>

Capacity(n) == IF n < Small THEN Small ELSE n + Row

(* The records stay where they are although start goes back to 0. *)
GrownInPlace(n) ==
    LET shift == start + count + n > maxcount(mem) /\ start > 0
        need == IF shift THEN count + n ELSE start + count + n
    IN  [start |-> IF shift THEN 0 ELSE start,
         mem |-> IF need <= maxcount(mem) THEN mem
                 ELSE Moved(mem, 0, Buffer(Capacity(need)), 0, maxcount(mem))]

(* Room for n more records: first what start has given up is taken back,    *)
(* then a new buffer gets all of the old one.                               *)
Grown(n) ==
    LET shift == start + count + n > maxcount(mem) /\ start > 0
        m == IF shift THEN Moved(mem, start, mem, 0, count) ELSE mem
        need == IF shift THEN count + n ELSE start + count + n
    IN  [start |-> IF shift THEN 0 ELSE start,
         mem |-> IF need <= maxcount(m) THEN m
                 ELSE Moved(m, 0, Buffer(Capacity(need)), 0, maxcount(m))]

Pushs(s) ==
    LET g == Grown(Len(s))
    IN  /\ count + Len(s) <= MaxLen
        /\ mem' = Stored(g.mem, g.start + count, s)
        /\ start' = g.start
        /\ count' = count + Len(s)
        /\ ideal' = ideal \o s

Insert(index, v) ==
    LET i == Max({index, 0})
        g == Grown(1)
        at == i + g.start
    IN  /\ count > 0 /\ index <= count - 1 /\ count < MaxLen
        /\ mem' = Stored(Moved(g.mem, at, g.mem, at + 1, count - i), at, <<v>>)
        /\ start' = g.start
        /\ count' = count + 1
        /\ ideal' = InsertAt(ideal, i + 1, v)

Update(index, v) ==
    /\ index \in 0 .. count - 1
    /\ mem' = Stored(mem, index + start, <<v>>)
    /\ ideal' = [ideal EXCEPT ![index + 1] = v]
    /\ UNCHANGED <<start, count>>

(* A position past the end leaves a gap of what the buffer holds there. *)
SetOne(index, v) ==
    LET g == Grown(index - count + 1)
    IN  /\ index >= count /\ index < MaxLen
        /\ mem' = Stored(g.mem, index + g.start, <<v>>)
        /\ start' = g.start
        /\ count' = index + 1
        /\ ideal' = [i \in 1 .. index + 1 |->
                        IF i <= count THEN ideal[i]
                        ELSE IF i = index + 1 THEN v ELSE g.mem[g.start + i - 1]]

SetAll(s) ==
    /\ mem' = Stored(IF Len(s) > maxcount(mem)
                     THEN Moved(mem, 0, Buffer(Len(s)), 0, maxcount(mem)) ELSE mem, 0, s)
    /\ start' = 0
    /\ count' = Len(s)
    /\ ideal' = s

Limit(n) ==
    /\ n \in 1 .. count
    /\ start' = start + count - n
    /\ count' = n
    /\ ideal' = SubSeq(ideal, count - n + 1, count)
    /\ UNCHANGED mem

Pop ==
    /\ count > 0
    /\ start' = start + 1
    /\ count' = count - 1
    /\ ideal' = Tail(ideal)
    /\ UNCHANGED mem

(* The records behind the deleted ones are moved, start is not considered. *)
DeleteUnshifted(from, n) ==
    /\ from >= 0 /\ n >= 1 /\ from + n <= count
    /\ mem' = Moved(mem, from + n, mem, from, count - n - from)
    /\ count' = count - n
    /\ ideal' = SubSeq(ideal, 1, from) \o SubSeq(ideal, from + n + 1, count)
    /\ UNCHANGED start

Delete(from, n) ==
    LET m == IF start > 0 THEN Moved(mem, start, mem, 0, count) ELSE mem
    IN  /\ from >= 0 /\ n >= 1 /\ from + n <= count
        /\ mem' = Moved(m, from + n, m, from, count - n - from)
        /\ start' = 0
        /\ count' = count - n
        /\ ideal' = SubSeq(ideal, 1, from) \o SubSeq(ideal, from + n + 1, count)

Pack ==
    /\ mem' = Moved(mem, start, Buffer(count), 0, count)
    /\ start' = 0
    /\ UNCHANGED <<count, ideal>>

Clear ==
    /\ start' = 0 /\ count' = 0 /\ ideal' = <<>>
    /\ UNCHANGED mem

Some == BoundedSeq(Values, 2) \ {<<>>}

ListNext ==
    \/ \E s \in Some : Pushs(s) \/ SetAll(s)
    \/ \E i \in -1 .. MaxLen, v \in Values : Insert(i, v) \/ Update(i, v) \/ SetOne(i, v)
    \/ \E i, n \in 0 .. MaxLen : Delete(i, n)
    \/ \E n \in 1 .. MaxLen : Limit(n)
    \/ Pop \/ Pack \/ Clear

ListSpec == ListInit /\ [][ListNext]_listvars

-----------------------------------------------------------------------------
ListTypeOK ==
    /\ maxcount(mem) \in Nat /\ mem \in [0 .. maxcount(mem) - 1 -> Records]
    /\ start \in Nat /\ count \in Nat /\ ideal \in Seq(Records)

(* Whatever was given up at the front, moved or copied, the records that    *)
(* sis_struct_list_get returns are the ones of the sequence the list stands *)
(* for, and all of them lie inside the buffer.                              *)
KeepsSequence ==
    /\ start + count <= maxcount(mem)
    /\ ideal = [i \in 1 .. count |-> mem[start + i - 1]]
=============================================================================
