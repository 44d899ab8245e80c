--------------------------- MODULE Containers_proofs ---------------------------
(***************************************************************************)
(* Theorems about StructList, for every set of records, every capacity     *)
(* and every length, and about SisDict, for every set of keys, their       *)
(* hashes, the first size of a table and the steps of its rehash.          *)
(***************************************************************************)
EXTENDS StructList, SisDict, FiniteSetTheorems, SequenceTheorems, WellFoundedInduction, TLAPS

ListInv == ListTypeOK /\ KeepsSequence

\* m is a buffer for q records
IsBuffer(m, q) == q \in Nat /\ m \in [0 .. q - 1 -> Records]

-----------------------------------------------------------------------------
(* Buffers and what is moved in them.                                      *)

LEMMA BufferSize ==
    ASSUME NEW m, NEW q, IsBuffer(m, q) PROVE maxcount(m) = q
<1>1. DOMAIN m = 0 .. q - 1 /\ 0 \in Int /\ q - 1 \in Int
  BY DEF IsBuffer
<1>2. Cardinality(0 .. q - 1) = IF 0 > q - 1 THEN 0 ELSE (q - 1) - 0 + 1
  BY <1>1, FS_Interval
<1> QED
  BY <1>1, <1>2 DEF maxcount, IsBuffer

LEMMA NewBuffer ==
    ASSUME NEW n \in Nat PROVE IsBuffer(Buffer(n), n)
  BY DEF Buffer, IsBuffer, Records

\* what a memmove of n records must give, and a write of the records s
IsMoved(r, from, a, to, b, n, q) ==
    /\ IsBuffer(r, q)
    /\ \A i \in 0 .. q - 1 : r[i] = IF b <= i /\ i < b + n THEN from[a + (i - b)] ELSE to[i]
IsStored(r, m, at, s, q) ==
    /\ IsBuffer(r, q)
    /\ \A i \in 0 .. q - 1 : r[i] = IF at <= i /\ i < at + Len(s) THEN s[i - at + 1] ELSE m[i]

\* memmove where there are so many records
LEMMA MoveBuffer ==
    ASSUME NEW from, NEW p, IsBuffer(from, p), NEW to, NEW q, IsBuffer(to, q),
           NEW a \in Nat, NEW b \in Nat, NEW n \in Nat, a + n <= p
    PROVE  IsMoved(Moved(from, a, to, b, n), from, a, to, b, n, q)
<1>1. DOMAIN to = 0 .. q - 1
  BY DEF IsBuffer
<1>2. ASSUME NEW i \in 0 .. q - 1, i \in b .. b + n - 1 PROVE from[a + (i - b)] \in Records
  <2>1. a + (i - b) \in 0 .. p - 1
    BY <1>2 DEF IsBuffer
  <2> QED
    BY <2>1 DEF IsBuffer
<1>3. ASSUME NEW i \in 0 .. q - 1 PROVE to[i] \in Records
  BY <1>3 DEF IsBuffer
<1> QED
  BY <1>1, <1>2, <1>3 DEF Moved, IsMoved, IsBuffer

\* a write of the records s
LEMMA StoreBuffer ==
    ASSUME NEW m, NEW q, IsBuffer(m, q), NEW at \in Nat, NEW s \in Seq(Records)
    PROVE  IsStored(Stored(m, at, s), m, at, s, q)
<1>1. DOMAIN m = 0 .. q - 1
  BY DEF IsBuffer
<1>2. ASSUME NEW i \in 0 .. q - 1, i \in at .. at + Len(s) - 1 PROVE s[i - at + 1] \in Records
  <2>1. i - at + 1 \in 1 .. Len(s)
    BY <1>2, LenProperties
  <2> QED
    BY <2>1, ElementOfSeq
<1>3. ASSUME NEW i \in 0 .. q - 1 PROVE m[i] \in Records
  BY <1>3 DEF IsBuffer
<1> QED
  BY <1>1, <1>2, <1>3 DEF Stored, IsStored, IsBuffer

-----------------------------------------------------------------------------
(* The c records from st on in the buffer m are those of the sequence id.  *)
Shows(m, st, c, id) ==
    /\ id \in Seq(Records) /\ Len(id) = c
    /\ \A i \in 1 .. c : id[i] = m[st + i - 1]

\* room for n more records behind the ones there are
Room(m, q, st, n) ==
    /\ IsBuffer(m, q) /\ st \in Nat /\ st + count + n <= q
    /\ Shows(m, st, count, ideal)

LEMMA Holds ==
    ASSUME ListInv PROVE count \in Nat /\ Room(mem, maxcount(mem), start, 0)
<1>1. /\ IsBuffer(mem, maxcount(mem)) /\ start \in Nat /\ count \in Nat
      /\ start + count <= maxcount(mem) /\ ideal \in Seq(Records)
      /\ ideal = [i \in 1 .. count |-> mem[start + i - 1]]
  BY DEF ListInv, ListTypeOK, KeepsSequence, IsBuffer
<1>2. DOMAIN ideal = 1 .. count
  BY <1>1
<1>3. Len(ideal) = count
  BY <1>1, <1>2, LenProperties
<1> QED
  BY <1>1, <1>3 DEF Room, Shows

LEMMA Kept ==
    ASSUME NEW q, IsBuffer(mem', q), start' \in Nat, count' \in Nat, start' + count' <= q,
           Shows(mem', start', count', ideal')
    PROVE  ListInv'
<1>1. maxcount(mem)' = q
  BY BufferSize DEF maxcount
<1>2. ideal' = [i \in 1 .. count' |-> ideal'[i]]
  BY LenProperties DEF Shows
<1>3. ideal' = [i \in 1 .. count' |-> mem'[start' + i - 1]]
  BY <1>2 DEF Shows
<1> QED
  BY <1>1, <1>3 DEF ListInv, ListTypeOK, KeepsSequence, IsBuffer, Shows

LEMMA ShowsMoved ==
    ASSUME NEW m, NEW st \in Nat, NEW r, NEW at \in Nat, NEW c \in Nat, NEW id,
           Shows(m, st, c, id), \A i \in 0 .. c - 1 : r[at + i] = m[st + i]
    PROVE  Shows(r, at, c, id)
<1> SUFFICES ASSUME NEW i \in 1 .. c PROVE id[i] = r[at + i - 1]
  BY DEF Shows
<1>1. i - 1 \in 0 .. c - 1 /\ at + i - 1 = at + (i - 1) /\ st + i - 1 = st + (i - 1)
  OBVIOUS
<1> QED
  BY <1>1 DEF Shows

(* Making room: the records are there as before, in a buffer that may be    *)
(* another one and at another place.                                       *)
LEMMA GrownFits ==
    ASSUME ListInv, NEW n \in Nat
    PROVE  \E q \in Nat : Room(Grown(n).mem, q, Grown(n).start, n)
<1> DEFINE old   == maxcount(mem)
           shift == start + count + n > old /\ start > 0
           m     == IF shift THEN Moved(mem, start, mem, 0, count) ELSE mem
           st    == IF shift THEN 0 ELSE start
           need  == st + count + n
           wider == Moved(m, 0, Buffer(Capacity(need)), 0, old)
<1>0. Shows(mem, start, count, ideal)
  BY Holds DEF Room
<1>1. /\ IsBuffer(mem, old) /\ start \in Nat /\ count \in Nat /\ start + count <= old
      /\ st \in Nat /\ need \in Nat /\ old \in Nat
  BY Holds DEF Room, IsBuffer
<1>2. /\ IsBuffer(m, old)
      /\ \A i \in 0 .. count - 1 : m[st + i] = mem[start + i]
  <2>1. CASE shift
    <3>1. IsMoved(Moved(mem, start, mem, 0, count), mem, start, mem, 0, count, old)
      BY <1>1, MoveBuffer
    <3> QED
      BY <1>1, <2>1, <3>1 DEF IsMoved
  <2>2. CASE ~shift
    BY <1>1, <2>2
  <2> QED
    BY <2>1, <2>2
<1>3. maxcount(m) = old
  BY <1>2, BufferSize
<1>4. Grown(n) = [start |-> st, mem |-> IF need <= old THEN m ELSE wider]
  BY <1>1, <1>3 DEF Grown
<1>5. CASE need <= old
  <2>1. Room(m, old, st, n)
    <3> HIDE DEF m, st, need, old
    <3>1. Shows(m, st, count, ideal)
      BY <1>0, <1>1, <1>2, ShowsMoved
    <3> QED
      BY <1>1, <1>2, <1>5, <3>1 DEF Room, need
  <2>2. Grown(n).mem = m /\ Grown(n).start = st
    BY <1>4, <1>5
  <2> QED
    BY <1>1, <2>1, <2>2
<1>6. CASE ~(need <= old)
  <2>1. Capacity(need) \in Nat /\ Capacity(need) >= need
    BY <1>1, ListAssumption DEF Capacity
  <2>2. IsMoved(wider, m, 0, Buffer(Capacity(need)), 0, old, Capacity(need))
    <3>1. IsBuffer(Buffer(Capacity(need)), Capacity(need)) /\ 0 + old <= old
      BY <1>1, <2>1, NewBuffer
    <3> HIDE DEF m, old, need
    <3> QED
      BY <1>1, <1>2, <2>1, <3>1, MoveBuffer
  <2>3. ASSUME NEW i \in 0 .. count - 1 PROVE wider[st + i] = mem[start + i]
    <3>1. st + i \in 0 .. old - 1 /\ st + i \in 0 .. Capacity(need) - 1
      BY <1>1, <1>6, <2>1
    <3> HIDE DEF wider, m
    <3>2. wider[st + i] = m[st + i]
      BY <1>1, <2>2, <3>1 DEF IsMoved
    <3> QED
      BY <1>2, <3>2
  <2>4. Room(wider, Capacity(need), st, n)
    <3> HIDE DEF wider, m, st, need, old
    <3>1. Shows(wider, st, count, ideal)
      BY <1>0, <1>1, <2>3, ShowsMoved
    <3> QED
      BY <1>1, <2>1, <2>2, <3>1 DEF Room, IsMoved, need
  <2>5. Grown(n).mem = wider /\ Grown(n).start = st
    BY <1>4, <1>6
  <2> QED
    BY <2>1, <2>4, <2>5
<1> QED
  BY <1>5, <1>6
-----------------------------------------------------------------------------
(* What is stored behind the records or in their place, and what is left   *)
(* of them.                                                                *)

LEMMA ShowsAppended ==
    ASSUME NEW m, NEW q, NEW st \in Nat, NEW c \in Nat, NEW id, Shows(m, st, c, id),
           NEW s \in Seq(Records), NEW r, IsStored(r, m, st + c, s, q), st + c + Len(s) <= q, q \in Nat
    PROVE  Shows(r, st, c + Len(s), id \o s)
<1>1. Len(s) \in Nat /\ id \in Seq(Records) /\ Len(id) = c
  BY LenProperties DEF Shows
<1>2. /\ id \o s \in Seq(Records) /\ Len(id \o s) = c + Len(s)
      /\ \A i \in 1 .. c + Len(s) : (id \o s)[i] = IF i <= c THEN id[i] ELSE s[i - c]
  BY <1>1, ConcatProperties
<1>3. ASSUME NEW i \in 1 .. c + Len(s) PROVE (id \o s)[i] = r[st + i - 1]
  <2>1. st + i - 1 \in 0 .. q - 1
    BY <1>1
  <2>2. r[st + i - 1] = IF st + c <= st + i - 1 /\ st + i - 1 < st + c + Len(s)
                        THEN s[st + i - 1 - (st + c) + 1] ELSE m[st + i - 1]
    BY <2>1 DEF IsStored
  <2>3. CASE i <= c
    BY <1>1, <1>2, <2>2, <2>3 DEF Shows
  <2>4. CASE ~(i <= c)
    <3>1. st + i - 1 - (st + c) + 1 = i - c
      BY <1>1
    <3> QED
      BY <1>1, <1>2, <2>2, <2>4, <3>1
  <2> QED
    BY <2>3, <2>4
<1> QED
  BY <1>2, <1>3 DEF Shows

LEMMA ShowsPart ==
    ASSUME NEW m, NEW st \in Nat, NEW c \in Nat, NEW id, Shows(m, st, c, id),
           NEW a \in Nat, NEW n \in Nat, a + n <= c
    PROVE  Shows(m, st + a, n, SubSeq(id, a + 1, a + n))
<1>1. \A i \in a + 1 .. a + n : id[i] \in Records
  <2> SUFFICES ASSUME NEW i \in a + 1 .. a + n PROVE id[i] \in Records
    OBVIOUS
  <2>1. id \in Seq(Records) /\ i \in 1 .. Len(id)
    BY DEF Shows
  <2> QED
    BY <2>1, ElementOfSeq
<1>2. /\ SubSeq(id, a + 1, a + n) \in Seq(Records)
      /\ Len(SubSeq(id, a + 1, a + n)) = IF a + 1 <= a + n THEN (a + n) - (a + 1) + 1 ELSE 0
      /\ \A i \in 1 .. (a + n) - (a + 1) + 1 : SubSeq(id, a + 1, a + n)[i] = id[(a + 1) + i - 1]
  <2>1. a + 1 \in Int /\ a + n \in Int
    OBVIOUS
  <2> QED
    BY <1>1, <2>1, SubSeqProperties
<1>3. ASSUME NEW i \in 1 .. n PROVE SubSeq(id, a + 1, a + n)[i] = m[(st + a) + i - 1]
  <2>1. i \in 1 .. (a + n) - (a + 1) + 1 /\ (a + 1) + i - 1 = a + i /\ a + i \in 1 .. c
    OBVIOUS
  <2>2. SubSeq(id, a + 1, a + n)[i] = id[a + i]
    BY <1>2, <2>1
  <2>3. id[a + i] = m[st + (a + i) - 1] /\ st + (a + i) - 1 = (st + a) + i - 1
    BY <2>1 DEF Shows
  <2> QED
    BY <2>2, <2>3
<1> QED
  BY <1>2, <1>3 DEF Shows

LEMMA ShowsReplaced ==
    ASSUME NEW m, NEW q \in Nat, NEW st \in Nat, NEW c \in Nat, NEW id, Shows(m, st, c, id), st + c <= q,
           NEW i \in 1 .. c, NEW v \in Records, NEW r, IsStored(r, m, st + i - 1, <<v>>, q)
    PROVE  Shows(r, st, c, [id EXCEPT ![i] = v])
<1>1. /\ [id EXCEPT ![i] = v] \in Seq(Records) /\ Len([id EXCEPT ![i] = v]) = c
      /\ \A j \in 1 .. c : [id EXCEPT ![i] = v][j] = IF j = i THEN v ELSE id[j]
  BY ExceptSeq DEF Shows
<1>2. ASSUME NEW j \in 1 .. c PROVE [id EXCEPT ![i] = v][j] = r[st + j - 1]
  <2>1. st + j - 1 \in 0 .. q - 1 /\ Len(<<v>>) = 1 /\ <<v>>[1] = v
    OBVIOUS
  <2>2. r[st + j - 1] = IF j = i THEN v ELSE m[st + j - 1]
    BY <2>1 DEF IsStored
  <2> QED
    BY <1>1, <2>2 DEF Shows
<1> QED
  BY <1>1, <1>2 DEF Shows
-----------------------------------------------------------------------------
(* The operations.                                                         *)

LEMMA PushsStep ==
    ASSUME ListInv, NEW s \in Seq(Records), Pushs(s) PROVE ListInv'
<1>1. Len(s) \in Nat
  BY LenProperties
<1>2. PICK q \in Nat : Room(Grown(Len(s)).mem, q, Grown(Len(s)).start, Len(s))
  BY <1>1, GrownFits
<1> DEFINE m == Grown(Len(s)).mem  st == Grown(Len(s)).start
<1>3. mem' = Stored(m, st + count, s) /\ start' = st /\ count' = count + Len(s) /\ ideal' = ideal \o s
  BY DEF Pushs
<1>4. /\ IsBuffer(m, q) /\ st \in Nat /\ st + count + Len(s) <= q /\ Shows(m, st, count, ideal)
      /\ count \in Nat
  BY <1>2, Holds DEF Room
<1> HIDE DEF m, st
<1>5. IsStored(mem', m, st + count, s, q)
  BY <1>3, <1>4, StoreBuffer
<1>6. Shows(mem', st, count + Len(s), ideal \o s)
  BY <1>4, <1>5, ShowsAppended
<1> QED
  BY <1>1, <1>3, <1>4, <1>5, <1>6, Kept DEF IsStored

LEMMA LimitStep ==
    ASSUME ListInv, NEW n \in Nat, Limit(n) PROVE ListInv'
<1>1. /\ IsBuffer(mem, maxcount(mem)) /\ start \in Nat /\ start + count <= maxcount(mem)
      /\ Shows(mem, start, count, ideal) /\ count \in Nat /\ maxcount(mem) \in Nat
  BY Holds DEF Room, IsBuffer
<1>2. /\ n <= count /\ start' = start + count - n /\ count' = n /\ mem' = mem
      /\ ideal' = SubSeq(ideal, count - n + 1, count)
  BY <1>1 DEF Limit
<1>3. PICK a \in Nat : a = count - n /\ a + n = count /\ a + n <= count /\ start + count - n = start + a
  BY <1>1, <1>2
<1>4. Shows(mem, start + a, n, SubSeq(ideal, a + 1, a + n))
  BY <1>1, <1>3, ShowsPart
<1>5. Shows(mem', start', count', ideal')
  BY <1>2, <1>3, <1>4
<1> QED
  BY <1>1, <1>2, <1>3, <1>5, Kept

LEMMA PopStep ==
    ASSUME ListInv, Pop PROVE ListInv'
<1>1. count > 0 /\ start' = start + 1 /\ count' = count - 1 /\ ideal' = Tail(ideal) /\ mem' = mem
  BY DEF Pop
<1>2. /\ IsBuffer(mem, maxcount(mem)) /\ start \in Nat /\ start + count <= maxcount(mem)
      /\ Shows(mem, start, count, ideal) /\ count \in Nat /\ maxcount(mem) \in Nat
  BY Holds DEF Room, IsBuffer
<1>3. ideal \in Seq(Records) /\ ideal # <<>> /\ Len(ideal) = count
  BY <1>1, <1>2 DEF Shows
<1>4. PICK n \in Nat : n = count - 1 /\ 1 + n = count
  BY <1>1, <1>2
<1>5. Shows(mem, start + 1, n, SubSeq(ideal, 1 + 1, 1 + n))
  <2>1. 1 \in Nat /\ 1 + n <= count
    BY <1>2, <1>4
  <2> QED
    BY <1>2, <2>1, ShowsPart
<1>6. ideal' = SubSeq(ideal, 1 + 1, 1 + n)
  BY <1>1, <1>3, <1>4, TailIsSubSeq
<1>7. Shows(mem', start', count', ideal')
  <2>1. count' = n
    BY <1>1, <1>4
  <2> QED
    BY <1>1, <1>5, <1>6, <2>1, Zenon
<1>8. count' \in Nat /\ start' + count' = start + count
  BY <1>1, <1>2, <1>4
<1> QED
  BY <1>1, <1>2, <1>7, <1>8, Kept

LEMMA PackStep ==
    ASSUME ListInv, Pack PROVE ListInv'
<1>1. mem' = Moved(mem, start, Buffer(count), 0, count) /\ start' = 0 /\ count' = count /\ ideal' = ideal
  BY DEF Pack
<1>2. /\ IsBuffer(mem, maxcount(mem)) /\ start \in Nat /\ start + count <= maxcount(mem)
      /\ Shows(mem, start, count, ideal) /\ count \in Nat
  BY Holds DEF Room
<1>3. IsMoved(mem', mem, start, Buffer(count), 0, count, count)
  BY <1>1, <1>2, NewBuffer, MoveBuffer
<1>4. \A i \in 0 .. count - 1 : mem'[0 + i] = mem[start + i]
  BY <1>2, <1>3 DEF IsMoved
<1>5. Shows(mem', 0, count, ideal)
  BY <1>2, <1>4, ShowsMoved
<1> QED
  BY <1>1, <1>2, <1>3, <1>5, Kept DEF IsMoved

LEMMA ClearStep ==
    ASSUME ListInv, Clear PROVE ListInv'
<1>1. start' = 0 /\ count' = 0 /\ ideal' = <<>> /\ mem' = mem
  BY DEF Clear
<1>2. ideal' \in Seq(Records) /\ Len(ideal') = 0
  BY <1>1
<1>3. IsBuffer(mem, maxcount(mem)) /\ maxcount(mem) \in Nat
  BY Holds DEF Room, IsBuffer
<1>4. Shows(mem', 0, 0, ideal')
  BY <1>2 DEF Shows
<1> QED
  BY <1>1, <1>3, <1>4, Kept

LEMMA UpdateStep ==
    ASSUME ListInv, NEW index \in Int, NEW v \in Values, Update(index, v) PROVE ListInv'
<1>1. /\ index \in 0 .. count - 1 /\ mem' = Stored(mem, index + start, <<v>>)
      /\ ideal' = [ideal EXCEPT ![index + 1] = v] /\ start' = start /\ count' = count
  BY DEF Update
<1>2. /\ IsBuffer(mem, maxcount(mem)) /\ start \in Nat /\ start + count <= maxcount(mem)
      /\ Shows(mem, start, count, ideal) /\ count \in Nat /\ maxcount(mem) \in Nat
  BY Holds DEF Room, IsBuffer
<1>3. /\ v \in Records /\ <<v>> \in Seq(Records) /\ index + 1 \in 1 .. count
      /\ index + start \in Nat /\ index + start = start + (index + 1) - 1
  BY <1>1, <1>2 DEF Records
<1>4. IsStored(mem', mem, start + (index + 1) - 1, <<v>>, maxcount(mem))
  BY <1>1, <1>2, <1>3, StoreBuffer
<1>5. Shows(mem', start, count, [ideal EXCEPT ![index + 1] = v])
  BY <1>2, <1>3, <1>4, ShowsReplaced
<1> QED
  BY <1>1, <1>2, <1>4, <1>5, Kept DEF IsStored

LEMMA SetAllStep ==
    ASSUME ListInv, NEW s \in Seq(Records), SetAll(s) PROVE ListInv'
<1> DEFINE old == maxcount(mem)
           m == IF Len(s) > old THEN Moved(mem, 0, Buffer(Len(s)), 0, old) ELSE mem
<1>1. mem' = Stored(m, 0, s) /\ start' = 0 /\ count' = Len(s) /\ ideal' = s
  BY DEF SetAll
<1>2. Len(s) \in Nat /\ old \in Nat /\ IsBuffer(mem, old)
  BY Holds, LenProperties DEF Room, IsBuffer
<1>3. PICK q \in Nat : IsBuffer(m, q) /\ Len(s) <= q
  <2>1. CASE Len(s) > old
    <3>1. IsBuffer(Buffer(Len(s)), Len(s)) /\ 0 \in Nat /\ 0 + old <= old
      BY <1>2, NewBuffer
    <3> HIDE DEF old
    <3>2. IsMoved(Moved(mem, 0, Buffer(Len(s)), 0, old), mem, 0, Buffer(Len(s)), 0, old, Len(s))
      BY <1>2, <3>1, MoveBuffer
    <3>3. IsBuffer(m, Len(s))
      BY <2>1, <3>2 DEF IsMoved
    <3> QED
      BY <1>2, <3>3
  <2>2. CASE ~(Len(s) > old)
    <3>1. m = mem /\ Len(s) <= old
      BY <1>2, <2>2
    <3> QED
      BY <1>2, <3>1
  <2> QED
    BY <2>1, <2>2
<1> HIDE DEF m
<1>4. IsStored(mem', m, 0, s, q)
  BY <1>1, <1>3, StoreBuffer
<1>5. ASSUME NEW i \in 1 .. Len(s) PROVE s[i] = mem'[0 + i - 1]
  <2>1. i - 1 \in 0 .. q - 1 /\ 0 + i - 1 = i - 1 /\ i - 1 - 0 + 1 = i /\ 0 <= i - 1 /\ i - 1 < 0 + Len(s)
    BY <1>2, <1>3
  <2> QED
    BY <1>4, <2>1 DEF IsStored
<1>6. Shows(mem', 0, Len(s), s)
  BY <1>5 DEF Shows
<1> QED
  BY <1>1, <1>2, <1>3, <1>4, <1>6, Kept DEF IsStored

\* the first a elements of a sequence and those behind the first b
Joined(t, id, a, b) ==
    /\ t \in Seq(Records) /\ Len(t) = a + (Len(id) - b)
    /\ \A j \in 1 .. a + (Len(id) - b) : t[j] = IF j <= a THEN id[j] ELSE id[j - a + b]

LEMMA JoinParts ==
    ASSUME NEW id \in Seq(Records), NEW a \in Nat, a <= Len(id), NEW b \in Nat, b <= Len(id),
           NEW t, t = SubSeq(id, 1, a) \o SubSeq(id, b + 1, Len(id))
    PROVE  Joined(t, id, a, b)
<1> DEFINE s == SubSeq(id, 1, a)  r == SubSeq(id, b + 1, Len(id))
<1>1. Len(id) \in Nat /\ \A j \in 1 .. Len(id) : id[j] \in Records
  BY LenProperties, ElementOfSeq
<1>2. /\ s \in Seq(Records) /\ Len(s) = a
      /\ \A j \in 1 .. a : s[j] = id[j]
  <2>1. 1 \in Int /\ a \in Int /\ \A j \in 1 .. a : id[j] \in Records
    BY <1>1
  <2>2. /\ SubSeq(id, 1, a) \in Seq(Records) /\ Len(SubSeq(id, 1, a)) = IF 1 <= a THEN a - 1 + 1 ELSE 0
        /\ \A j \in 1 .. a - 1 + 1 : SubSeq(id, 1, a)[j] = id[1 + j - 1]
    BY <2>1, SubSeqProperties
  <2> QED
    BY <2>2
<1>3. /\ r \in Seq(Records) /\ Len(r) = Len(id) - b
      /\ \A j \in 1 .. Len(id) - b : r[j] = id[b + j]
  <2>1. b + 1 \in Int /\ Len(id) \in Int /\ \A j \in b + 1 .. Len(id) : id[j] \in Records
    BY <1>1
  <2>2. /\ SubSeq(id, b + 1, Len(id)) \in Seq(Records)
        /\ Len(SubSeq(id, b + 1, Len(id))) = IF b + 1 <= Len(id) THEN Len(id) - (b + 1) + 1 ELSE 0
        /\ \A j \in 1 .. Len(id) - (b + 1) + 1 : SubSeq(id, b + 1, Len(id))[j] = id[(b + 1) + j - 1]
    BY <2>1, SubSeqProperties
  <2>3. \A j \in Nat : (b + 1) + j - 1 = b + j
    OBVIOUS
  <2> QED
    BY <1>1, <2>2, <2>3
<1> HIDE DEF s, r
<1>4. /\ s \o r \in Seq(Records) /\ Len(s \o r) = Len(s) + Len(r)
      /\ \A j \in 1 .. Len(s) + Len(r) : (s \o r)[j] = IF j <= Len(s) THEN s[j] ELSE r[j - Len(s)]
  BY <1>2, <1>3, ConcatProperties
<1>5. ASSUME NEW j \in 1 .. a + (Len(id) - b) PROVE (s \o r)[j] = IF j <= a THEN id[j] ELSE id[j - a + b]
  <2>1. CASE j <= a
    BY <1>1, <1>2, <1>3, <1>4, <2>1
  <2>2. CASE ~(j <= a)
    <3>1. j - a \in 1 .. Len(id) - b /\ b + (j - a) = j - a + b
      BY <1>1, <2>2
    <3> QED
      BY <1>1, <1>2, <1>3, <1>4, <2>2, <3>1
  <2> QED
    BY <2>1, <2>2
<1>6. t = s \o r
  BY DEF s, r
<1> QED
  BY <1>2, <1>3, <1>4, <1>5, <1>6 DEF Joined

LEMMA DeleteStep ==
    ASSUME ListInv, NEW from \in Nat, NEW n \in Nat, Delete(from, n) PROVE ListInv'
<1> DEFINE q == maxcount(mem)
           m == IF start > 0 THEN Moved(mem, start, mem, 0, count) ELSE mem
           k == count - n - from
<1>1. /\ from + n <= count /\ mem' = Moved(m, from + n, m, from, k) /\ start' = 0 /\ count' = count - n
      /\ ideal' = SubSeq(ideal, 1, from) \o SubSeq(ideal, from + n + 1, count)
  BY DEF Delete
<1>2. /\ IsBuffer(mem, q) /\ start \in Nat /\ start + count <= q /\ Shows(mem, start, count, ideal)
      /\ count \in Nat /\ q \in Nat /\ ideal \in Seq(Records) /\ Len(ideal) = count
  BY Holds DEF Room, IsBuffer, Shows
<1>3. k \in Nat /\ from + n + k = count /\ from + k = count - n /\ (from + n) + k <= q
  BY <1>1, <1>2
<1>4. IsBuffer(m, q) /\ \A i \in 0 .. count - 1 : m[i] = mem[start + i]
  <2>1. CASE start > 0
    <3>1. IsMoved(Moved(mem, start, mem, 0, count), mem, start, mem, 0, count, q)
      BY <1>2, MoveBuffer
    <3> QED
      BY <1>2, <2>1, <3>1 DEF IsMoved
  <2>2. CASE ~(start > 0)
    <3>1. start = 0
      BY <1>2, <2>2
    <3> QED
      BY <1>2, <3>1
  <2> QED
    BY <2>1, <2>2
<1> HIDE DEF q, m, k
<1>5. IsMoved(mem', m, from + n, m, from, k, q)
  BY <1>1, <1>3, <1>4, MoveBuffer
<1>6. /\ ideal' \in Seq(Records) /\ Len(ideal') = from + (count - (from + n))
      /\ \A j \in 1 .. from + (count - (from + n)) :
            ideal'[j] = IF j <= from THEN ideal[j] ELSE ideal[j - from + (from + n)]
  <2>1. PICK b \in Nat : b = from + n /\ from <= Len(ideal) /\ b <= Len(ideal)
    BY <1>1, <1>2
  <2>2. ideal' = SubSeq(ideal, 1, from) \o SubSeq(ideal, b + 1, Len(ideal))
    BY <1>1, <1>2, <2>1
  <2>3. Joined(ideal', ideal, from, b)
    BY <1>2, <2>1, <2>2, JoinParts
  <2> QED
    BY <1>2, <2>1, <2>3 DEF Joined
<1>7. ASSUME NEW j \in 1 .. from + k PROVE ideal'[j] = mem'[0 + j - 1]
  <2>1. /\ 0 + j - 1 \in 0 .. q - 1 /\ j \in 1 .. from + (count - (from + n))
        /\ j - from + (from + n) = j + n
    BY <1>1, <1>2, <1>3
  <2>2. CASE j <= from
    <3>1. mem'[0 + j - 1] = m[j - 1] /\ j - 1 \in 0 .. count - 1 /\ start + (j - 1) = start + j - 1
      BY <1>1, <1>2, <1>5, <2>1, <2>2 DEF IsMoved
    <3>2. j \in 1 .. count
      BY <1>1, <1>2, <2>2
    <3>3. ideal'[j] = ideal[j]
      BY <1>6, <2>1, <2>2
    <3> QED
      BY <1>2, <1>4, <3>1, <3>2, <3>3 DEF Shows
  <2>3. CASE ~(j <= from)
    <3>1. /\ from <= 0 + j - 1 /\ 0 + j - 1 < from + k /\ from + n + (0 + j - 1 - from) = j + n - 1
          /\ j + n - 1 \in 0 .. count - 1 /\ start + (j + n - 1) = start + (j + n) - 1 /\ j + n \in 1 .. count
      BY <1>2, <1>3, <2>3
    <3>2. mem'[0 + j - 1] = m[j + n - 1]
      BY <1>5, <2>1, <3>1 DEF IsMoved
    <3>3. ideal'[j] = ideal[j + n]
      BY <1>6, <2>1, <2>3
    <3> QED
      BY <1>2, <1>4, <3>1, <3>2, <3>3 DEF Shows
  <2> QED
    BY <2>2, <2>3
<1>8. Shows(mem', 0, from + k, ideal')
  BY <1>2, <1>3, <1>6, <1>7 DEF Shows
<1>9. count' = from + k /\ from + k \in Nat /\ 0 + (from + k) <= q
  BY <1>1, <1>2, <1>3
<1> QED
  BY <1>1, <1>2, <1>5, <1>8, <1>9, Kept DEF IsMoved

LEMMA ListInit0 == ListInit => ListInv
<1> SUFFICES ASSUME ListInit PROVE ListInv
  OBVIOUS
<1>1. IsBuffer(mem, 0) /\ maxcount(mem) = 0
  BY NewBuffer, BufferSize DEF ListInit
<1>2. start = 0 /\ count = 0 /\ ideal = <<>>
  BY DEF ListInit
<1>3. ideal \in Seq(Records) /\ ideal = [i \in 1 .. count |-> mem[start + i - 1]]
  BY <1>2
<1> QED
  BY <1>1, <1>2, <1>3 DEF ListInv, ListTypeOK, KeepsSequence, IsBuffer

LEMMA MaxWithZero ==
    ASSUME NEW x \in Int PROVE Max({x, 0}) = IF x > 0 THEN x ELSE 0
<1> DEFINE big == IF x > 0 THEN x ELSE 0
<1>1. /\ big \in {x, 0} /\ \A y \in {x, 0} : big >= y
      /\ \A z \in {x, 0} : (\A y \in {x, 0} : z >= y) => z = big
  OBVIOUS
<1> HIDE DEF big
<1>2. (CHOOSE z \in {x, 0} : \A y \in {x, 0} : z >= y) = big
  BY <1>1
<1> QED
  BY <1>2 DEF Max, big

\* a sequence with one more element behind the first i
Inserted(t, id, i, v) ==
    /\ t \in Seq(Records) /\ Len(t) = Len(id) + 1
    /\ \A j \in 1 .. Len(id) + 1 : t[j] = IF j <= i THEN id[j] ELSE IF j = i + 1 THEN v ELSE id[j - 1]

LEMMA InsertParts ==
    ASSUME NEW id \in Seq(Records), NEW i \in Nat, i < Len(id), NEW v \in Records
    PROVE  Inserted(InsertAt(id, i + 1, v), id, i, v)
<1> DEFINE h == SubSeq(id, 1, i)  r == SubSeq(id, i + 1, Len(id))  w == <<v>>
<1>1. Len(id) \in Nat /\ \A j \in 1 .. Len(id) : id[j] \in Records
  BY LenProperties, ElementOfSeq
<1>2. /\ h \in Seq(Records) /\ Len(h) = i
      /\ \A j \in 1 .. i : h[j] = id[j]
  <2>1. 1 \in Int /\ i \in Int /\ \A j \in 1 .. i : id[j] \in Records
    BY <1>1
  <2>2. /\ SubSeq(id, 1, i) \in Seq(Records) /\ Len(SubSeq(id, 1, i)) = IF 1 <= i THEN i - 1 + 1 ELSE 0
        /\ \A j \in 1 .. i - 1 + 1 : SubSeq(id, 1, i)[j] = id[1 + j - 1]
    BY <2>1, SubSeqProperties
  <2> QED
    BY <2>2
<1>3. /\ r \in Seq(Records) /\ Len(r) = Len(id) - i
      /\ \A j \in 1 .. Len(id) - i : r[j] = id[i + j]
  <2>1. i + 1 \in Int /\ Len(id) \in Int /\ \A j \in i + 1 .. Len(id) : id[j] \in Records
    BY <1>1
  <2>2. /\ SubSeq(id, i + 1, Len(id)) \in Seq(Records)
        /\ Len(SubSeq(id, i + 1, Len(id))) = IF i + 1 <= Len(id) THEN Len(id) - (i + 1) + 1 ELSE 0
        /\ \A j \in 1 .. Len(id) - (i + 1) + 1 : SubSeq(id, i + 1, Len(id))[j] = id[(i + 1) + j - 1]
    BY <2>1, SubSeqProperties
  <2>3. i \in Nat /\ Len(id) \in Nat /\ i <= Len(id)
    BY <1>1
  <2>4. Len(id) - (i + 1) + 1 = Len(id) - i /\ (~(i + 1 <= Len(id)) => Len(id) - i = 0)
    BY <2>3
  <2>5. \A j \in 1 .. Len(id) - i : (i + 1) + j - 1 = i + j
    BY <2>3
  <2>6. Len(SubSeq(id, i + 1, Len(id))) = Len(id) - i
    BY <2>2, <2>4
  <2>7. \A j \in 1 .. Len(id) - i : SubSeq(id, i + 1, Len(id))[j] = id[i + j]
    BY <2>2, <2>4, <2>5
  <2> QED
    BY <2>2, <2>6, <2>7
<1>4. w \in Seq(Records) /\ Len(w) = 1 /\ w[1] = v
  OBVIOUS
<1>5. InsertAt(id, i + 1, v) = h \o w \o r
  <2>1. (i + 1) - 1 = i
    OBVIOUS
  <2> QED
    BY <2>1 DEF InsertAt
<1> HIDE DEF h, r, w
<1>6. /\ h \o w \in Seq(Records) /\ Len(h \o w) = i + 1
      /\ \A j \in 1 .. i + 1 : (h \o w)[j] = IF j <= i THEN h[j] ELSE w[j - i]
  <2>1. /\ h \o w \in Seq(Records) /\ Len(h \o w) = Len(h) + Len(w)
        /\ \A j \in 1 .. Len(h) + Len(w) : (h \o w)[j] = IF j <= Len(h) THEN h[j] ELSE w[j - Len(h)]
    BY <1>2, <1>4, ConcatProperties
  <2> QED
    BY <1>2, <1>4, <2>1
<1> DEFINE g == h \o w
<1> HIDE DEF g
<1>7. g \in Seq(Records) /\ Len(g) = i + 1 /\ \A j \in 1 .. i + 1 : g[j] = IF j <= i THEN id[j] ELSE v
  <2> SUFFICES ASSUME NEW j \in 1 .. i + 1 PROVE g[j] = IF j <= i THEN id[j] ELSE v
    BY <1>6 DEF g
  <2>1. j <= i \/ j - i = 1
    OBVIOUS
  <2> QED
    BY <1>2, <1>4, <1>6, <2>1 DEF g
<1>8. /\ g \o r \in Seq(Records) /\ Len(g \o r) = Len(id) + 1
      /\ \A j \in 1 .. Len(id) + 1 : (g \o r)[j] = IF j <= i + 1 THEN g[j] ELSE r[j - (i + 1)]
  <2>1. /\ g \o r \in Seq(Records) /\ Len(g \o r) = Len(g) + Len(r)
        /\ \A j \in 1 .. Len(g) + Len(r) : (g \o r)[j] = IF j <= Len(g) THEN g[j] ELSE r[j - Len(g)]
    BY <1>3, <1>7, ConcatProperties
  <2>2. Len(g) + Len(r) = Len(id) + 1
    BY <1>1, <1>3, <1>7
  <2> QED
    BY <1>7, <2>1, <2>2
<1>9. ASSUME NEW j \in 1 .. Len(id) + 1
      PROVE  (g \o r)[j] = IF j <= i THEN id[j] ELSE IF j = i + 1 THEN v ELSE id[j - 1]
  <2>1. CASE j <= i + 1
    BY <1>1, <1>7, <1>8, <2>1
  <2>2. CASE ~(j <= i + 1)
    <3>1. j - (i + 1) \in 1 .. Len(id) - i /\ i + (j - (i + 1)) = j - 1 /\ ~(j <= i) /\ j # i + 1
      BY <1>1, <2>2
    <3> QED
      BY <1>3, <1>8, <2>2, <3>1
  <2> QED
    BY <2>1, <2>2
<1>10. InsertAt(id, i + 1, v) = g \o r
  BY <1>5 DEF g
<1>11. Inserted(g \o r, id, i, v)
  BY <1>8, <1>9 DEF Inserted
<1> QED
  BY <1>10, <1>11

LEMMA InsertStep ==
    ASSUME ListInv, NEW index \in Int, NEW v \in Values, Insert(index, v) PROVE ListInv'
<1>1. PICK i \in Nat : i = Max({index, 0}) /\ i < count
  <2>1. Max({index, 0}) \in Nat /\ Max({index, 0}) < count
    BY Holds, MaxWithZero DEF Insert
  <2> QED
    BY <2>1
<1>2. PICK q \in Nat : Room(Grown(1).mem, q, Grown(1).start, 1)
  BY GrownFits
<1> DEFINE m == Grown(1).mem  st == Grown(1).start
           r == Moved(m, i + st, m, i + st + 1, count - i)
<1>3. /\ mem' = Stored(r, i + st, <<v>>) /\ start' = st /\ count' = count + 1
      /\ ideal' = InsertAt(ideal, i + 1, v)
  BY <1>1 DEF Insert
<1>4. /\ IsBuffer(m, q) /\ st \in Nat /\ st + count + 1 <= q /\ Shows(m, st, count, ideal)
      /\ count \in Nat /\ ideal \in Seq(Records) /\ Len(ideal) = count
  BY <1>2, Holds DEF Room, Shows
<1> HIDE DEF m, st
<1>5. /\ i + st \in Nat /\ i + st + 1 \in Nat /\ count - i \in Nat /\ i + st + (count - i) <= q
      /\ v \in Records /\ <<v>> \in Seq(Records) /\ Len(<<v>>) = 1 /\ <<v>>[1] = v
  BY <1>1, <1>4 DEF Records
<1>6. IsMoved(r, m, i + st, m, i + st + 1, count - i, q)
  BY <1>4, <1>5, MoveBuffer
<1> HIDE DEF r
<1>7. IsStored(mem', r, i + st, <<v>>, q)
  BY <1>3, <1>5, <1>6, StoreBuffer DEF IsMoved
<1>8. Inserted(ideal', ideal, i, v)
  BY <1>1, <1>3, <1>4, <1>5, InsertParts
<1>9. ASSUME NEW j \in 1 .. count + 1 PROVE ideal'[j] = mem'[st + j - 1]
  <2>0. st \in Nat /\ i \in Nat /\ j \in Nat /\ count \in Nat /\ 1 <= j
    BY <1>1, <1>4
  <2>1. st + j - 1 \in 0 .. q - 1 /\ (st + j - 1) - (i + st) + 1 = j - i
    BY <1>1, <1>4
  <2>2. mem'[st + j - 1] = IF j = i + 1 THEN v ELSE r[st + j - 1]
    <3>1. mem'[st + j - 1] = IF i + st <= st + j - 1 /\ st + j - 1 < i + st + Len(<<v>>)
                             THEN <<v>>[(st + j - 1) - (i + st) + 1] ELSE r[st + j - 1]
      BY <1>7, <2>1 DEF IsStored
    <3>2. (i + st <= st + j - 1 /\ st + j - 1 < i + st + 1) <=> j = i + 1
      BY <2>0
    <3>3. j = i + 1 => (st + j - 1) - (i + st) + 1 = 1
      BY <2>0
    <3> QED
      BY <1>5, <3>1, <3>2, <3>3
  <2>3. ideal'[j] = IF j <= i THEN ideal[j] ELSE IF j = i + 1 THEN v ELSE ideal[j - 1]
    BY <1>4, <1>8 DEF Inserted
  <2>4. CASE j <= i
    <3>1. r[st + j - 1] = m[st + j - 1]
      <4>1. ~(i + st + 1 <= st + j - 1)
        BY <2>0, <2>4
      <4> QED
        BY <1>6, <2>1, <4>1 DEF IsMoved
    <3>2. j \in 1 .. count
      BY <1>1, <2>0, <2>4
    <3>3. ideal[j] = m[st + j - 1]
      BY <1>4, <3>2 DEF Shows
    <3> QED
      BY <2>0, <2>2, <2>3, <2>4, <3>1, <3>3
  <2>5. CASE j = i + 1
    BY <2>2, <2>3, <2>5
  <2>6. CASE j > i + 1
    <3>1. /\ i + st + 1 <= st + j - 1 /\ st + j - 1 < i + st + 1 + (count - i)
          /\ i + st + ((st + j - 1) - (i + st + 1)) = st + (j - 1) - 1 /\ j - 1 \in 1 .. count
      BY <1>1, <2>0, <2>6
    <3>2. r[st + j - 1] = m[st + (j - 1) - 1]
      BY <1>6, <2>1, <3>1 DEF IsMoved
    <3>3. ideal[j - 1] = m[st + (j - 1) - 1]
      BY <1>4, <3>1 DEF Shows
    <3> QED
      BY <2>2, <2>3, <2>6, <3>2, <3>3
  <2> QED
    BY <1>1, <2>4, <2>5, <2>6
<1>10. Shows(mem', st, count + 1, ideal')
  BY <1>4, <1>8, <1>9 DEF Shows, Inserted
<1> QED
  BY <1>3, <1>4, <1>7, <1>10, Kept DEF IsStored

LEMMA SetOneStep ==
    ASSUME ListInv, NEW index \in Int, NEW v \in Values, SetOne(index, v) PROVE ListInv'
<1>0. count \in Nat /\ index >= count
  BY Holds DEF SetOne
<1>1. PICK n \in Nat : n = index - count + 1 /\ index + 1 = count + n /\ index \in Nat /\ n >= 1
  BY <1>0
<1>2. PICK q \in Nat : Room(Grown(n).mem, q, Grown(n).start, n)
  BY GrownFits
<1> DEFINE m == Grown(n).mem  st == Grown(n).start
<1>3. /\ mem' = Stored(m, index + st, <<v>>) /\ start' = st /\ count' = index + 1
      /\ ideal' = [j \in 1 .. index + 1 |-> IF j <= count THEN ideal[j]
                                            ELSE IF j = index + 1 THEN v ELSE m[st + j - 1]]
  BY <1>1 DEF SetOne
<1>4. /\ IsBuffer(m, q) /\ st \in Nat /\ st + count + n <= q /\ Shows(m, st, count, ideal)
      /\ count \in Nat /\ ideal \in Seq(Records) /\ Len(ideal) = count
  BY <1>2, Holds DEF Room, Shows
<1> HIDE DEF m, st
<1>5. /\ index + st \in Nat /\ v \in Records /\ <<v>> \in Seq(Records) /\ Len(<<v>>) = 1 /\ <<v>>[1] = v
  BY <1>1, <1>4 DEF Records
<1>6. IsStored(mem', m, index + st, <<v>>, q)
  BY <1>3, <1>4, <1>5, StoreBuffer
<1>7. ASSUME NEW j \in 1 .. index + 1
      PROVE  ideal'[j] \in Records /\ ideal'[j] = mem'[st + j - 1]
  <2>1. st + j - 1 \in 0 .. q - 1 /\ (st + j - 1) - (index + st) + 1 = j - index
    BY <1>1, <1>4
  <2>2. mem'[st + j - 1] = IF j = index + 1 THEN v ELSE m[st + j - 1]
    BY <1>1, <1>4, <1>5, <1>6, <2>1 DEF IsStored
  <2>3. m[st + j - 1] \in Records /\ (j <= count => ideal[j] = m[st + j - 1])
    BY <1>1, <1>4, <2>1 DEF IsBuffer, Shows
  <2>4. j <= count => j # index + 1
    BY <1>1, <1>4
  <2> QED
    BY <1>3, <1>5, <2>2, <2>3, <2>4
<1>8. ideal' \in Seq(Records) /\ Len(ideal') = index + 1
  <2>1. index + 1 \in Nat /\ DOMAIN ideal' = 1 .. index + 1 /\ ideal' \in [1 .. index + 1 -> Records]
    BY <1>1, <1>3, <1>7
  <2> QED
    BY <2>1
<1>9. Shows(mem', st, index + 1, ideal')
  BY <1>7, <1>8 DEF Shows
<1>10. start' \in Nat /\ count' \in Nat /\ start' + count' <= q
  BY <1>1, <1>3, <1>4
<1>11. IsBuffer(mem', q) /\ Shows(mem', start', count', ideal')
  BY <1>3, <1>6, <1>9 DEF IsStored
<1> QED
  BY <1>10, <1>11, Kept

-----------------------------------------------------------------------------
(* Every step, and what holds of every list.                               *)

LEMMA ListStep ==
    ASSUME ListInv, [ListNext]_listvars PROVE ListInv'
<1>0. MaxLen \in Nat
  BY ListAssumption
<1>1. ASSUME NEW s \in Some, Pushs(s) \/ SetAll(s) PROVE ListInv'
  <2>1. PICK n \in 0 .. 2 : s \in [1 .. n -> Values]
    BY DEF Some, BoundedSeq, SeqOf
  <2>2. s \in [1 .. n -> Records] /\ n \in Nat
    BY <2>1 DEF Records
  <2>3. s \in Seq(Records)
    BY <2>2
  <2> QED
    BY <1>1, <2>3, PushsStep, SetAllStep
<1>2. ASSUME NEW i \in -1 .. MaxLen, NEW v \in Values, Insert(i, v) \/ Update(i, v) \/ SetOne(i, v)
      PROVE  ListInv'
  <2>1. i \in Int
    OBVIOUS
  <2> QED
    BY <1>2, <2>1, InsertStep, UpdateStep, SetOneStep
<1>3. ASSUME NEW i \in 0 .. MaxLen, NEW n \in 0 .. MaxLen, Delete(i, n) PROVE ListInv'
  <2>1. i \in Nat /\ n \in Nat
    BY <1>0
  <2> QED
    BY <1>3, <2>1, DeleteStep
<1>4. ASSUME NEW n \in 1 .. MaxLen, Limit(n) PROVE ListInv'
  <2>1. n \in Nat
    BY <1>0
  <2> QED
    BY <1>4, <2>1, LimitStep
<1>5. CASE UNCHANGED listvars
  BY <1>5 DEF listvars, ListInv, ListTypeOK, KeepsSequence, maxcount
<1> QED
  BY <1>1, <1>2, <1>3, <1>4, <1>5, PopStep, PackStep, ClearStep DEF ListNext

LEMMA ListKept == ListSpec => []ListInv
  BY ListInit0, ListStep, PTL DEF ListSpec

(* Whatever is moved, stored or left as a gap, the buffer is an array of    *)
(* maxcount records (memory never written among them), the positions are    *)
(* never negative and the list stands for a sequence of such records.       *)
THEOREM ListTypeCorrect == ListSpec => []ListTypeOK
<1>1. ListInv => ListTypeOK
  BY DEF ListInv
<1> QED
  BY <1>1, ListKept, PTL

(* Any sequence of pushes, inserts, overwrites, deletions, limits and packs *)
(* leaves in the buffer, from start on, exactly the sequence the list       *)
(* stands for, however large the buffer is when it first grows.             *)
THEOREM SequenceKept == ListSpec => []KeepsSequence
<1>1. ListInv => KeepsSequence
  BY DEF ListInv
<1> QED
  BY <1>1, ListKept, PTL

-----------------------------------------------------------------------------
(* SisDict: the least number, and steps from one number to the next.       *)

LEMMA LeastNumber ==
    ASSUME NEW T, T \subseteq Nat, T # {}
    PROVE  \E x \in T : \A y \in T : x <= y
<1>1. PICK x \in T : \A y \in T : ~ (<<y, x>> \in OpToRel(<, Nat))
  BY WFMin, NatLessThanWellFounded
<1>2. ASSUME NEW y \in T PROVE x <= y
  <2>1. y < x => <<y, x>> \in OpToRel(<, Nat)
    BY DEF OpToRel
  <2>2. x \in Nat /\ y \in Nat /\ ~(y < x)
    BY <1>1, <2>1
  <2> QED
    BY <2>2
<1> QED
  BY <1>2

\* what holds of the first number of a range and passes from one to the next holds of all
LEMMA AllSteps ==
    ASSUME NEW a \in Nat, NEW b \in Nat, NEW S, a \in S,
           \A k \in a .. b : k # b /\ k \in S => k + 1 \in S
    PROVE  \A k \in a .. b : k \in S
<1> DEFINE T == {k \in a .. b : k \notin S}
<1>1. ASSUME T # {} PROVE FALSE
  <2>1. PICK n \in T : \A k \in T : n <= k
    <3>1. T \subseteq Nat
      OBVIOUS
    <3> HIDE DEF T
    <3> QED
      BY <1>1, <3>1, LeastNumber
  <2>2. n \in a .. b /\ n # a /\ n \notin S
    BY <2>1
  <2>3. n - 1 \in a .. b /\ n - 1 # b /\ ~(n <= n - 1) /\ (n - 1) + 1 = n
    BY <2>2
  <2>4. n - 1 \in S
    BY <2>1, <2>3
  <2> QED
    BY <2>2, <2>3, <2>4
<1> QED
  BY <1>1

-----------------------------------------------------------------------------
(* Chains.                                                                 *)

Chain(c) ==
    /\ c \in Seq(Keys)
    /\ \A i, j \in 1 .. Len(c) : c[i] = c[j] => i = j

LEMMA PlaceIs ==
    ASSUME NEW c, Chain(c)
    PROVE  /\ \A i \in 1 .. Len(c) : Place(c, c[i]) = i
           /\ \A k : Contains(c, k) =>
                 k \in Keys /\ Place(c, k) \in 1 .. Len(c) /\ c[Place(c, k)] = k
<1>1. ASSUME NEW i \in 1 .. Len(c) PROVE Place(c, c[i]) = i
  BY DEF Place, Chain
<1>2. ASSUME NEW k, Contains(c, k)
      PROVE  k \in Keys /\ Place(c, k) \in 1 .. Len(c) /\ c[Place(c, k)] = k
  <2>1. PICK i \in 1 .. Len(c) : c[i] = k
    BY <1>2 DEF Contains
  <2>2. c[i] \in Keys
    BY ElementOfSeq DEF Chain
  <2> QED
    BY <1>1, <2>1, <2>2
<1> QED
  BY <1>1, <1>2

\* a key at the head puts the others one place behind
LEMMA PushedChain ==
    ASSUME NEW c, Chain(c), NEW k \in Keys, ~Contains(c, k)
    PROVE  LET d == <<k>> \o c IN
           /\ Chain(d)
           /\ \A x : Contains(d, x) <=> x = k \/ Contains(c, x)
           /\ \A x : Contains(c, x) => Place(d, x) = Place(c, x) + 1
<1> DEFINE d == <<k>> \o c
<1>1. c \in Seq(Keys) /\ Len(c) \in Nat /\ \A i \in 1 .. Len(c) : c[i] # k
  BY LenProperties DEF Chain, Contains
<1>2. /\ d \in Seq(Keys) /\ Len(d) = Len(c) + 1
      /\ \A i \in 1 .. Len(d) : d[i] = IF i = 1 THEN k ELSE c[i - 1]
  BY <1>1
<1> HIDE DEF d
<1>3. \A i \in 1 .. Len(d) : i # 1 => i - 1 \in 1 .. Len(c) /\ d[i] = c[i - 1] /\ d[i] # k
  BY <1>1, <1>2
<1>4. 1 \in 1 .. Len(d) /\ d[1] = k
  BY <1>1, <1>2
<1>5. \A i \in 1 .. Len(c) : i + 1 \in 1 .. Len(d) /\ d[i + 1] = c[i]
  <2> TAKE i \in 1 .. Len(c)
  <2>1. i + 1 \in 1 .. Len(d) /\ i + 1 # 1 /\ (i + 1) - 1 = i
    BY <1>1, <1>2
  <2> QED
    BY <1>3, <2>1
<1>6. Chain(d)
  <2>1. ASSUME NEW i \in 1 .. Len(d), NEW j \in 1 .. Len(d), d[i] = d[j] PROVE i = j
    <3>1. CASE i = 1 \/ j = 1
      BY <1>3, <1>4, <2>1, <3>1
    <3>2. CASE i # 1 /\ j # 1
      <4>1. i - 1 \in 1 .. Len(c) /\ j - 1 \in 1 .. Len(c) /\ c[i - 1] = c[j - 1]
        BY <1>3, <2>1, <3>2
      <4>2. i - 1 = j - 1
        BY <4>1 DEF Chain
      <4> QED
        BY <4>2
    <3> QED
      BY <3>1, <3>2
  <2> QED
    BY <1>2, <2>1 DEF Chain
<1>7. ASSUME NEW x PROVE Contains(d, x) <=> x = k \/ Contains(c, x)
  <2>1. Contains(d, x) => x = k \/ Contains(c, x)
    BY <1>3, <1>4 DEF Contains
  <2>2. x = k => Contains(d, x)
    BY <1>4 DEF Contains
  <2>3. Contains(c, x) => Contains(d, x)
    BY <1>5 DEF Contains
  <2> QED
    BY <2>1, <2>2, <2>3
<1>8. ASSUME NEW x, Contains(c, x) PROVE Place(d, x) = Place(c, x) + 1
  <2>1. Place(c, x) \in 1 .. Len(c) /\ c[Place(c, x)] = x
    BY <1>8, PlaceIs
  <2>2. Place(c, x) + 1 \in 1 .. Len(d) /\ d[Place(c, x) + 1] = x
    BY <1>5, <2>1
  <2> QED
    BY <1>6, <2>2, PlaceIs
<1> QED
  BY <1>6, <1>7, <1>8 DEF d

\* a key taken out leaves the others in their order
LEMMA CutChain ==
    ASSUME NEW c, Chain(c), NEW k, Contains(c, k)
    PROVE  LET d == RemoveAt(c, Place(c, k)) IN
           /\ Chain(d)
           /\ \A x : Contains(d, x) <=> x # k /\ Contains(c, x)
           /\ \A x, y : Contains(d, x) /\ Contains(d, y) =>
                 (Place(d, x) <= Place(d, y) <=> Place(c, x) <= Place(c, y))
<1> DEFINE p == Place(c, k)
           d == RemoveAt(c, p)
           at(i) == IF i < p THEN i ELSE i + 1
<1>1. c \in Seq(Keys) /\ Len(c) \in Nat /\ p \in 1 .. Len(c) /\ c[p] = k
  BY PlaceIs, LenProperties DEF Chain
<1> HIDE DEF p
<1>2. d \in Seq(Keys) /\ Len(d) = Len(c) - 1 /\ \A i \in 1 .. Len(d) : d[i] = c[at(i)]
  <2> DEFINE e == SubSeq(c, 1, p - 1)
             f == SubSeq(c, p + 1, Len(c))
  <2>1. \A i \in 1 .. Len(c) : c[i] \in Keys
    BY <1>1, ElementOfSeq
  <2>2. e \in Seq(Keys) /\ Len(e) = p - 1 /\ \A i \in 1 .. p - 1 : e[i] = c[i]
    <3>1. (\A i \in 1 .. p - 1 : c[i] \in Keys) /\ 1 \in Int /\ p - 1 \in Int
      BY <1>1, <2>1
    <3>2. /\ SubSeq(c, 1, p - 1) \in Seq(Keys)
          /\ Len(SubSeq(c, 1, p - 1)) = IF 1 <= p - 1 THEN (p - 1) - 1 + 1 ELSE 0
          /\ \A i \in 1 .. (p - 1) - 1 + 1 : SubSeq(c, 1, p - 1)[i] = c[1 + i - 1]
      BY <3>1, SubSeqProperties
    <3> QED
      BY <1>1, <3>2
  <2>3. /\ f \in Seq(Keys) /\ Len(f) = Len(c) - p
        /\ \A i \in 1 .. Len(c) - p : f[i] = c[p + i]
    <3>1. (\A i \in p + 1 .. Len(c) : c[i] \in Keys) /\ p + 1 \in Int /\ Len(c) \in Int
      BY <1>1, <2>1
    <3>2. /\ SubSeq(c, p + 1, Len(c)) \in Seq(Keys)
          /\ Len(SubSeq(c, p + 1, Len(c))) = IF p + 1 <= Len(c) THEN Len(c) - (p + 1) + 1 ELSE 0
          /\ \A i \in 1 .. Len(c) - (p + 1) + 1 :
                SubSeq(c, p + 1, Len(c))[i] = c[(p + 1) + i - 1]
      BY <3>1, SubSeqProperties
    <3> QED
      BY <1>1, <3>2
  <2>4. d = e \o f
    BY DEF RemoveAt
  <2> HIDE DEF d, e, f
  <2>5. /\ d \in Seq(Keys) /\ Len(d) = Len(e) + Len(f)
        /\ \A i \in 1 .. Len(e) + Len(f) : d[i] = IF i <= Len(e) THEN e[i] ELSE f[i - Len(e)]
    BY <2>2, <2>3, <2>4, ConcatProperties
  <2>6. Len(d) = Len(c) - 1
    BY <1>1, <2>2, <2>3, <2>5
  <2>7. ASSUME NEW i \in 1 .. Len(d) PROVE d[i] = c[at(i)]
    <3>1. CASE i < p
      BY <1>1, <2>2, <2>3, <2>5, <2>6, <3>1
    <3>2. CASE ~(i < p)
      <4>1. i - (p - 1) \in 1 .. Len(c) - p /\ p + (i - (p - 1)) = i + 1
        BY <1>1, <2>6, <3>2
      <4>2. d[i] = f[i - (p - 1)]
        BY <1>1, <2>2, <2>3, <2>5, <2>6, <3>2
      <4> QED
        BY <2>3, <3>2, <4>1, <4>2
    <3> QED
      BY <3>1, <3>2
  <2> QED
    BY <2>5, <2>6, <2>7
<1> HIDE DEF d
<1>3. \A i \in 1 .. Len(d) : at(i) \in 1 .. Len(c) /\ at(i) # p
  BY <1>1, <1>2
<1>4. \A i, j \in 1 .. Len(d) : (at(i) = at(j) => i = j) /\ (i <= j <=> at(i) <= at(j))
  BY <1>1, <1>2
<1>5. \A j \in 1 .. Len(c) : j # p => \E i \in 1 .. Len(d) : at(i) = j
  <2> TAKE j \in 1 .. Len(c)
  <2>1. CASE j < p
    <3>1. j \in 1 .. Len(d) /\ at(j) = j
      BY <1>1, <1>2, <2>1
    <3> QED
      BY <3>1
  <2>2. CASE j > p
    <3>1. j - 1 \in 1 .. Len(d) /\ at(j - 1) = j
      BY <1>1, <1>2, <2>2
    <3> QED
      BY <3>1
  <2> QED
    BY <1>1, <2>1, <2>2
<1> HIDE DEF at
<1>6. Chain(d)
  BY <1>2, <1>3, <1>4 DEF Chain
<1>7. ASSUME NEW x PROVE Contains(d, x) <=> x # k /\ Contains(c, x)
  <2>1. ASSUME Contains(d, x) PROVE x # k /\ Contains(c, x)
    BY <1>1, <1>2, <1>3, <2>1 DEF Contains, Chain
  <2>2. ASSUME x # k, Contains(c, x) PROVE Contains(d, x)
    <3>1. PICK j \in 1 .. Len(c) : c[j] = x
      BY <2>2 DEF Contains
    <3>2. j # p
      BY <1>1, <2>2, <3>1
    <3> QED
      BY <1>2, <1>5, <3>1, <3>2 DEF Contains
  <2> QED
    BY <2>1, <2>2
<1>8. ASSUME NEW x, Contains(d, x) PROVE Place(d, x) \in 1 .. Len(d) /\ Place(c, x) = at(Place(d, x))
  <2>1. Place(d, x) \in 1 .. Len(d) /\ d[Place(d, x)] = x
    BY <1>6, <1>8, PlaceIs
  <2>2. at(Place(d, x)) \in 1 .. Len(c) /\ c[at(Place(d, x))] = x
    BY <1>2, <1>3, <2>1
  <2> QED
    BY <2>1, <2>2, PlaceIs
<1>9. ASSUME NEW x, NEW y, Contains(d, x), Contains(d, y)
      PROVE  Place(d, x) <= Place(d, y) <=> Place(c, x) <= Place(c, y)
  BY <1>4, <1>8, <1>9
<1> QED
  BY <1>6, <1>7, <1>9 DEF d, p

\* the entry behind k
LEMMA AfterIs ==
    ASSUME NEW c, Chain(c), NEW k, Contains(c, k)
    PROVE  /\ After(c, k) = Null => Place(c, k) = Len(c)
           /\ After(c, k) # Null =>
                 /\ After(c, k) \in Keys /\ Contains(c, After(c, k)) /\ After(c, k) # k
                 /\ Place(c, After(c, k)) = Place(c, k) + 1
<1> DEFINE p == Place(c, k)
<1>1. c \in Seq(Keys) /\ Len(c) \in Nat /\ p \in 1 .. Len(c) /\ c[p] = k
  BY PlaceIs, LenProperties DEF Chain
<1>2. CASE p < Len(c)
  <2>1. p + 1 \in 1 .. Len(c) /\ p + 1 # p
    BY <1>1, <1>2
  <2>2. After(c, k) = c[p + 1]
    BY <1>2 DEF After
  <2> HIDE DEF p
  <2>3. c[p + 1] \in Keys /\ c[p + 1] # c[p] /\ Contains(c, c[p + 1]) /\ Place(c, c[p + 1]) = p + 1
    BY <1>1, <2>1, PlaceIs, ElementOfSeq DEF Chain, Contains
  <2> QED
    BY <1>1, <2>2, <2>3, DictAssumption DEF p
<1>3. CASE ~(p < Len(c))
  <2>1. After(c, k) = Null /\ p = Len(c)
    BY <1>1, <1>3 DEF After
  <2> QED
    BY <2>1
<1> QED
  BY <1>2, <1>3

-----------------------------------------------------------------------------
(* Tables.                                                                 *)

\* every key is in the chain of its hash, once
Placed(t) ==
    /\ t \in Seq(Seq(Keys))
    /\ \A b \in 1 .. Len(t) :
          Chain(t[b]) /\ \A k : Contains(t[b], k) => Bucket(t, k) = b

LEMMA BucketIn ==
    ASSUME NEW t \in Seq(Seq(Keys)), t # << >>, NEW k \in Keys
    PROVE  Bucket(t, k) \in 1 .. Len(t)
<1>1. Len(t) \in Nat \ {0} /\ Hash[k] \in Nat
  BY EmptySeq, DictAssumption
<1>2. \A h \in Nat, n \in Nat \ {0} : (h % n) + 1 \in 1 .. n
  OBVIOUS
<1> QED
  BY <1>1, <1>2 DEF Bucket, Size

\* to be in a chain is to be in the table
LEMMA HasIff ==
    ASSUME NEW t, Placed(t), NEW k \in Keys
    PROVE  /\ \A b \in 1 .. Len(t) : Contains(t[b], k) => Has(t, k) /\ Bucket(t, k) = b
           /\ Has(t, k) => Bucket(t, k) \in 1 .. Len(t) /\ Contains(t[Bucket(t, k)], k)
<1>1. t \in Seq(Seq(Keys)) /\ Len(t) \in Nat
  BY LenProperties DEF Placed
<1>2. ASSUME NEW b \in 1 .. Len(t), Contains(t[b], k) PROVE Has(t, k) /\ Bucket(t, k) = b
  <2>1. Bucket(t, k) = b
    BY <1>2 DEF Placed
  <2>2. t # << >>
    BY <1>1, EmptySeq
  <2> QED
    BY <1>2, <2>1, <2>2 DEF Has
<1>3. ASSUME Has(t, k)
      PROVE  Bucket(t, k) \in 1 .. Len(t) /\ Contains(t[Bucket(t, k)], k)
  BY <1>1, <1>3, BucketIn DEF Has
<1> QED
  BY <1>2, <1>3

\* a table with another chain in bucket b
LEMMA Rechained ==
    ASSUME NEW t, Placed(t), NEW b \in 1 .. Len(t), NEW c, Chain(c),
           \A k : Contains(c, k) => Bucket(t, k) = b
    PROVE  LET s == [t EXCEPT ![b] = c] IN
           /\ Placed(s) /\ Len(s) = Len(t) /\ s[b] = c
           /\ \A x \in 1 .. Len(t) : x # b => s[x] = t[x]
           /\ \A k : Bucket(s, k) = Bucket(t, k)
           /\ \A k \in Keys : Has(s, k) <=> IF Bucket(t, k) = b THEN Contains(c, k) ELSE Has(t, k)
<1> DEFINE s == [t EXCEPT ![b] = c]
<1>1. t \in Seq(Seq(Keys)) /\ c \in Seq(Keys) /\ t # << >>
  BY EmptySeq DEF Placed, Chain
<1>2. /\ s \in Seq(Seq(Keys)) /\ Len(s) = Len(t) /\ s[b] = c
      /\ \A x \in 1 .. Len(t) : x # b => s[x] = t[x]
  <2>1. /\ s \in Seq(Seq(Keys)) /\ Len(s) = Len(t)
        /\ \A x \in 1 .. Len(t) : s[x] = IF x = b THEN c ELSE t[x]
    BY <1>1, ExceptSeq
  <2> QED
    BY <2>1
<1> HIDE DEF s
<1>3. \A k : Bucket(s, k) = Bucket(t, k)
  BY <1>2 DEF Bucket, Size
<1>4. Placed(s)
  <2>1. ASSUME NEW x \in 1 .. Len(s)
        PROVE  Chain(s[x]) /\ \A k : Contains(s[x], k) => Bucket(s, k) = x
    BY <1>2, <1>3 DEF Placed
  <2> QED
    BY <1>2, <2>1 DEF Placed
<1>5. s # << >>
  BY <1>2, EmptySeq
<1>6. ASSUME NEW k \in Keys
      PROVE  Has(s, k) <=> IF Bucket(t, k) = b THEN Contains(c, k) ELSE Has(t, k)
  <2>1. Bucket(t, k) \in 1 .. Len(t)
    BY <1>1, BucketIn
  <2>2. Has(s, k) <=> Contains(s[Bucket(t, k)], k)
    BY <1>3, <1>5 DEF Has
  <2>3. Has(t, k) <=> Contains(t[Bucket(t, k)], k)
    BY <1>1 DEF Has
  <2> QED
    BY <1>2, <2>1, <2>2, <2>3
<1> QED
  BY <1>2, <1>3, <1>4, <1>6, Zenon DEF s

\* the table t has become s by putting k at the head of its chain
LEMMA LinkedIs ==
    ASSUME NEW t, Placed(t), t # << >>, NEW k \in Keys, ~Has(t, k)
    PROVE  LET s == Linked(t, k)
               b == Bucket(t, k) IN
           /\ Placed(s) /\ Len(s) = Len(t) /\ b \in 1 .. Len(t)
           /\ \A x \in 1 .. Len(t) : s[x] = IF x = b THEN <<k>> \o t[b] ELSE t[x]
           /\ \A x : Bucket(s, x) = Bucket(t, x)
           /\ \A x \in Keys : Has(s, x) <=> x = k \/ Has(t, x)
           /\ Chain(t[b]) /\ ~Contains(t[b], k)
<1> DEFINE b == Bucket(t, k)
           c == <<k>> \o t[b]
           s == [t EXCEPT ![b] = c]
<1>1. Linked(t, k) = s
  BY DEF Linked
<1>2. b \in 1 .. Len(t)
  BY BucketIn DEF Placed
<1>3. Chain(t[b]) /\ ~Contains(t[b], k) /\ \A x : Contains(t[b], x) => Bucket(t, x) = b
  BY <1>2 DEF Placed, Has
<1> HIDE DEF b
<1>4. Chain(c) /\ \A x : Contains(c, x) <=> x = k \/ Contains(t[b], x)
  BY <1>3, PushedChain
<1> HIDE DEF c
<1>5. \A x : Contains(c, x) => Bucket(t, x) = b
  BY <1>3, <1>4 DEF b
<1>6. /\ Placed(s) /\ Len(s) = Len(t) /\ s[b] = c
      /\ \A x \in 1 .. Len(t) : x # b => s[x] = t[x]
      /\ \A x : Bucket(s, x) = Bucket(t, x)
      /\ \A x \in Keys : Has(s, x) <=> IF Bucket(t, x) = b THEN Contains(c, x) ELSE Has(t, x)
  BY <1>2, <1>4, <1>5, Rechained
<1> HIDE DEF s
<1>7. ASSUME NEW x \in Keys PROVE Has(s, x) <=> x = k \/ Has(t, x)
  <2>1. CASE Bucket(t, x) = b
    <3>1. Has(t, x) <=> Contains(t[b], x)
      BY <2>1 DEF Has
    <3> QED
      BY <1>4, <1>6, <2>1, <3>1
  <2>2. CASE Bucket(t, x) # b
    BY <1>6, <2>2 DEF b
  <2> QED
    BY <2>1, <2>2
<1>8. \A x \in 1 .. Len(t) : s[x] = IF x = b THEN <<k>> \o t[b] ELSE t[x]
  BY <1>6 DEF c
<1> QED
  BY <1>1, <1>2, <1>3, <1>6, <1>7, <1>8, Zenon DEF b

LEMMA UnlinkedIs ==
    ASSUME NEW t, Placed(t), NEW k \in Keys, Has(t, k)
    PROVE  LET s == Unlinked(t, k)
               b == Bucket(t, k) IN
           /\ Placed(s) /\ Len(s) = Len(t) /\ b \in 1 .. Len(t)
           /\ \A x \in 1 .. Len(t) :
                 s[x] = IF x = b THEN RemoveAt(t[b], Place(t[b], k)) ELSE t[x]
           /\ \A x : Bucket(s, x) = Bucket(t, x)
           /\ \A x \in Keys : Has(s, x) <=> x # k /\ Has(t, x)
           /\ Chain(t[b]) /\ Contains(t[b], k)
<1> DEFINE b == Bucket(t, k)
           c == RemoveAt(t[b], Place(t[b], k))
           s == [t EXCEPT ![b] = c]
<1>1. Unlinked(t, k) = s
  BY DEF Unlinked
<1>2. b \in 1 .. Len(t) /\ Contains(t[b], k)
  BY HasIff
<1>3. Chain(t[b]) /\ \A x : Contains(t[b], x) => Bucket(t, x) = b
  BY <1>2 DEF Placed
<1> HIDE DEF b
<1>4. Chain(c) /\ \A x : Contains(c, x) <=> x # k /\ Contains(t[b], x)
  BY <1>2, <1>3, CutChain
<1> HIDE DEF c
<1>5. \A x : Contains(c, x) => Bucket(t, x) = b
  BY <1>3, <1>4
<1>6. /\ Placed(s) /\ Len(s) = Len(t) /\ s[b] = c
      /\ \A x \in 1 .. Len(t) : x # b => s[x] = t[x]
      /\ \A x : Bucket(s, x) = Bucket(t, x)
      /\ \A x \in Keys : Has(s, x) <=> IF Bucket(t, x) = b THEN Contains(c, x) ELSE Has(t, x)
  BY <1>2, <1>4, <1>5, Rechained
<1> HIDE DEF s
<1>7. ASSUME NEW x \in Keys PROVE Has(s, x) <=> x # k /\ Has(t, x)
  <2>1. CASE Bucket(t, x) = b
    <3>1. Has(t, x) <=> Contains(t[b], x)
      BY <1>2, <2>1, EmptySeq DEF Has, Placed
    <3> QED
      BY <1>4, <1>6, <2>1, <3>1
  <2>2. CASE Bucket(t, x) # b
    BY <1>6, <2>2 DEF b
  <2> QED
    BY <2>1, <2>2
<1>8. \A x \in 1 .. Len(t) : s[x] = IF x = b THEN RemoveAt(t[b], Place(t[b], k)) ELSE t[x]
  BY <1>6 DEF c
<1> QED
  BY <1>1, <1>2, <1>3, <1>6, <1>7, <1>8, Zenon DEF b

\* a bucket without its keys
LEMMA ClearedIs ==
    ASSUME NEW t, Placed(t), NEW b \in 1 .. Len(t)
    PROVE  LET s == [t EXCEPT ![b] = << >>] IN
           /\ Placed(s) /\ Len(s) = Len(t) /\ s[b] = << >>
           /\ \A x \in 1 .. Len(t) : x # b => s[x] = t[x]
           /\ \A k \in Keys : Has(s, k) <=> Has(t, k) /\ Bucket(t, k) # b
<1>1. PICK c : c = << >>
  OBVIOUS
<1>2. Chain(c) /\ \A k : ~Contains(c, k)
  BY <1>1 DEF Chain, Contains
<1> DEFINE s == [t EXCEPT ![b] = c]
<1>3. /\ Placed(s) /\ Len(s) = Len(t) /\ s[b] = c
      /\ \A x \in 1 .. Len(t) : x # b => s[x] = t[x]
      /\ \A k \in Keys : Has(s, k) <=> IF Bucket(t, k) = b THEN Contains(c, k) ELSE Has(t, k)
  <2>1. Chain(c) /\ \A k : Contains(c, k) => Bucket(t, k) = b
    BY <1>2
  <2>2. /\ Placed(s) /\ Len(s) = Len(t) /\ s[b] = c
        /\ \A x \in 1 .. Len(t) : x # b => s[x] = t[x]
    BY <2>1, Rechained
  <2>3. \A k \in Keys : Has(s, k) <=> IF Bucket(t, k) = b THEN Contains(c, k) ELSE Has(t, k)
    BY <2>1, Rechained
  <2> QED
    BY <2>2, <2>3
<1>4. s = [t EXCEPT ![b] = << >>]
  BY <1>1
<1> HIDE DEF s
<1>5. \A k \in Keys : Has(s, k) <=> Has(t, k) /\ Bucket(t, k) # b
  BY <1>2, <1>3
<1> QED
  BY <1>1, <1>3, <1>4, <1>5, Zenon

LEMMA EmptyIs ==
    ASSUME NEW n \in Nat \ {0}
    PROVE  Placed(Empty(n)) /\ Len(Empty(n)) = n /\ Empty(n) # << >> /\ \A k \in Keys : ~Has(Empty(n), k)
<1> DEFINE t == Empty(n)
<1>1. t = [i \in 1 .. n |-> << >>]
  BY DEF Empty
<1>2. << >> \in Seq(Keys)
  OBVIOUS
<1> HIDE DEF t
<1>3. t \in Seq(Seq(Keys)) /\ Len(t) = n /\ \A b \in 1 .. Len(t) : t[b] = << >>
  <2> DEFINE S == Seq(Keys)
  <2>1. t \in [1 .. n -> S]
    BY <1>1, <1>2
  <2> HIDE DEF S
  <2>2. t \in Seq(S) /\ Len(t) = n
    BY <2>1
  <2> QED
    BY <1>1, <2>2 DEF S
<1>4. Chain(<< >>) /\ \A k : ~Contains(<< >>, k)
  BY DEF Chain, Contains
<1>5. Placed(t)
  BY <1>3, <1>4 DEF Placed
<1>6. t # << >>
  BY <1>3, EmptySeq
<1>7. \A k \in Keys : ~Has(t, k)
  BY <1>3, <1>4, <1>5, HasIff
<1> QED
  BY <1>3, <1>5, <1>6, <1>7 DEF t

LEMMA NoTable == Placed(<< >>) /\ \A k : ~Has(<< >>, k)
  BY DEF Placed, Has

\* f[n] keeps to S in each step n of a loop over 1 .. m; g is what the loop makes of x
StepsIn(S, m, f) == \A n \in 1 .. m : \A y \in S : f[n][y] \in S
LoopFrom(g, m, x, f) == g[0] = x /\ \A n \in 1 .. m : g[n] = f[n][g[n - 1]]

LEMMA LoopExists ==
    ASSUME NEW S, NEW m \in Nat, NEW x \in S, NEW f, StepsIn(S, m, f)
    PROVE  \E g : g \in [0 .. m -> S] /\ LoopFrom(g, m, x, f)
<1> DEFINE T == {k \in 0 .. m : \E g : g \in [0 .. k -> S] /\ LoopFrom(g, k, x, f)}
<1>1. 0 \in T
  <2> DEFINE g == [k \in 0 .. 0 |-> x]
  <2>1. 0 .. 0 = {0} /\ 1 .. 0 = {} /\ 0 \in 0 .. m
    OBVIOUS
  <2>2. g \in [0 .. 0 -> S] /\ g[0] = x
    BY <2>1
  <2> HIDE DEF g
  <2>3. LoopFrom(g, 0, x, f)
    BY <2>1, <2>2 DEF LoopFrom
  <2> QED
    BY <2>1, <2>2, <2>3
<1>2. ASSUME NEW k \in 0 .. m, k # m, k \in T PROVE k + 1 \in T
  <2>1. PICK h : h \in [0 .. k -> S] /\ LoopFrom(h, k, x, f)
    BY <1>2
  <2> DEFINE g == [n \in 0 .. k + 1 |-> IF n = k + 1 THEN f[k + 1][h[k]] ELSE h[n]]
  <2>2. k + 1 \in 1 .. m /\ k \in 0 .. k /\ k + 1 \in 0 .. m
    BY <1>2
  <2>3. f[k + 1][h[k]] \in S
    <3>1. h[k] \in S
      BY <2>1, <2>2
    <3> QED
      BY <2>2, <3>1 DEF StepsIn
  <2>4. \A n \in 0 .. k + 1 : n # k + 1 => n \in 0 .. k
    BY <1>2
  <2>5. g \in [0 .. k + 1 -> S]
    BY <2>1, <2>3, <2>4
  <2>6. g[k + 1] = f[k + 1][h[k]] /\ \A n \in 0 .. k : g[n] = h[n]
    BY <1>2
  <2> HIDE DEF g
  <2>7. ASSUME NEW n \in 1 .. k + 1 PROVE g[n] = f[n][g[n - 1]]
    <3>1. CASE n = k + 1
      <4>1. n - 1 = k /\ g[k] = h[k]
        BY <2>2, <2>6, <3>1
      <4> QED
        BY <2>6, <3>1, <4>1
    <3>2. CASE n # k + 1
      <4>1. n \in 1 .. k /\ n \in 0 .. k /\ n - 1 \in 0 .. k
        BY <1>2, <3>2
      <4>2. h[n] = f[n][h[n - 1]]
        BY <2>1, <4>1 DEF LoopFrom
      <4> QED
        BY <2>6, <4>1, <4>2
    <3> QED
      BY <3>1, <3>2
  <2>8. g[0] = x
    <3>1. 0 \in 0 .. k
      BY <1>2
    <3>2. h[0] = x
      BY <2>1 DEF LoopFrom
    <3> QED
      BY <2>6, <3>1, <3>2
  <2>9. LoopFrom(g, k + 1, x, f)
    BY <2>7, <2>8 DEF LoopFrom
  <2> QED
    BY <2>2, <2>5, <2>9
<1> HIDE DEF T
<1>3. \A k \in 0 .. m : k \in T
  BY <1>1, <1>2, AllSteps
<1>4. m \in T
  BY <1>3
<1> QED
  BY <1>4 DEF T

\* Used adds the lengths of the chains up
LEMMA UsedSum ==
    ASSUME NEW t \in Seq(Seq(Keys))
    PROVE  \E g : /\ Used(t) = g[Len(t)] /\ g[0] = 0
                  /\ \A n \in 1 .. Len(t) : g[n] = g[n - 1] + Len(t[n])
<1> DEFINE L == Len(t)
           f == [n \in 1 .. L |-> [x \in Nat |-> x + Len(t[n])]]
           h == CHOOSE s : s = [n \in 0 .. L |-> IF n = 0 THEN 0 ELSE s[n - 1] + Len(t[n])]
<1>1. L \in Nat /\ \A n \in 1 .. L : Len(t[n]) \in Nat
  <2>1. \A n \in 1 .. L : t[n] \in Seq(Keys)
    BY ElementOfSeq
  <2> QED
    BY <2>1, LenProperties
<1>2. StepsIn(Nat, L, f)
  BY <1>1 DEF StepsIn
<1> HIDE DEF L
<1>3. PICK g : g \in [0 .. L -> Nat] /\ g[0] = 0 /\ \A n \in 1 .. L : g[n] = f[n][g[n - 1]]
  <2> HIDE DEF f
  <2>1. L \in Nat /\ 0 \in Nat
    BY <1>1
  <2>2. \E g : g \in [0 .. L -> Nat] /\ LoopFrom(g, L, 0, f)
    BY <1>2, <2>1, LoopExists
  <2> QED
    BY <2>2 DEF LoopFrom
<1>4. \A n \in 0 .. L : g[n] = IF n = 0 THEN 0 ELSE g[n - 1] + Len(t[n])
  <2> TAKE n \in 0 .. L
  <2>1. CASE n # 0
    <3>1. n \in 1 .. L /\ n - 1 \in 0 .. L
      BY <1>1, <2>1
    <3>2. g[n - 1] \in Nat
      BY <1>3, <3>1
    <3> QED
      BY <1>3, <2>1, <3>1, <3>2
  <2> QED
    BY <1>3, <2>1
<1>5. g = [n \in 0 .. L |-> IF n = 0 THEN 0 ELSE g[n - 1] + Len(t[n])]
  BY <1>3, <1>4
<1>6. h = [n \in 0 .. L |-> IF n = 0 THEN 0 ELSE h[n - 1] + Len(t[n])]
  BY <1>5
<1>7. Used(t) = h[L]
  BY DEF Used, Size, L
<1> HIDE DEF h
<1>8. h[0] = 0 /\ \A n \in 1 .. L : h[n] = h[n - 1] + Len(t[n])
  <2>1. 0 \in 0 .. L /\ \A n \in 1 .. L : n \in 0 .. L /\ n # 0
    BY <1>1
  <2> QED
    BY <1>6, <2>1
<1> QED
  BY <1>7, <1>8 DEF L

KeysOf(t) == {k \in Keys : Has(t, k)}

\* Used is the number of keys in a table
LEMMA UsedIs ==
    ASSUME NEW t, Placed(t)
    PROVE  IsFiniteSet(KeysOf(t)) /\ Used(t) = Cardinality(KeysOf(t))
<1> DEFINE L == Len(t)
           upto(n) == {k \in Keys : Has(t, k) /\ Bucket(t, k) <= n}
           in(c) == {k \in Keys : Contains(c, k)}
<1>1. t \in Seq(Seq(Keys)) /\ L \in Nat
  BY LenProperties DEF Placed
<1>2. PICK g : /\ Used(t) = g[L] /\ g[0] = 0
               /\ \A n \in 1 .. L : g[n] = g[n - 1] + Len(t[n])
  BY <1>1, UsedSum
<1> HIDE DEF L
<1>3. ASSUME NEW c, Chain(c) PROVE IsFiniteSet(in(c)) /\ Cardinality(in(c)) = Len(c)
  <2>1. c \in Seq(Keys) /\ Len(c) \in Nat /\ c \in [1 .. Len(c) -> Keys]
    BY <1>3, LenProperties DEF Chain
  <2>2. c \in Surjection(1 .. Len(c), in(c)) /\ c \in Injection(1 .. Len(c), in(c))
    <3>1. \A i \in 1 .. Len(c) : c[i] \in in(c)
      BY <2>1 DEF Contains
    <3>2. \A k \in in(c) : \E i \in 1 .. Len(c) : c[i] = k
      BY DEF Contains
    <3>3. \A i, j \in 1 .. Len(c) : c[i] = c[j] => i = j
      BY <1>3 DEF Chain
    <3> HIDE DEF in
    <3>4. c \in [1 .. Len(c) -> in(c)]
      BY <2>1, <3>1
    <3> QED
      BY <3>2, <3>3, <3>4 DEF Surjection, Injection, IsInjective
  <2>3. IsFiniteSet(1 .. Len(c)) /\ Cardinality(1 .. Len(c)) = Len(c)
    <3>1. 1 \in Int /\ Len(c) \in Int /\ (IF 1 > Len(c) THEN 0 ELSE Len(c) - 1 + 1) = Len(c)
      BY <2>1
    <3> QED
      BY <3>1, FS_Interval
  <2> HIDE DEF in
  <2> QED
    BY <2>2, <2>3, FS_Surjection
<1>4. \A k \in Keys : Has(t, k) => Bucket(t, k) \in 1 .. L
  BY HasIff DEF L
<1>5. \A n \in 1 .. L : Chain(t[n]) /\ in(t[n]) = {k \in Keys : Has(t, k) /\ Bucket(t, k) = n}
  <2> TAKE n \in 1 .. L
  <2>1. Chain(t[n])
    BY DEF Placed, L
  <2>2. \A k \in Keys : Contains(t[n], k) <=> Has(t, k) /\ Bucket(t, k) = n
    BY HasIff DEF L
  <2> QED
    BY <2>1, <2>2
<1> DEFINE S == {n \in 0 .. L : IsFiniteSet(upto(n)) /\ g[n] = Cardinality(upto(n))}
<1>6. 0 \in S
  <2>1. upto(0) = {}
    BY <1>1, <1>4
  <2>2. 0 \in 0 .. L
    BY <1>1
  <2> QED
    BY <1>2, <2>1, <2>2, FS_EmptySet
<1>7. ASSUME NEW n \in 0 .. L, n # L, n \in S PROVE n + 1 \in S
  <2>1. n + 1 \in 1 .. L /\ n + 1 \in 0 .. L /\ (n + 1) - 1 = n
    BY <1>1, <1>7
  <2> DEFINE A == upto(n)
             B == in(t[n + 1])
  <2>2. IsFiniteSet(A) /\ g[n] = Cardinality(A)
    BY <1>7
  <2>3. IsFiniteSet(B) /\ Cardinality(B) = Len(t[n + 1])
    <3>1. Chain(t[n + 1])
      BY <1>5, <2>1
    <3> HIDE DEF in
    <3> QED
      BY <1>3, <3>1
  <2>4. B = {k \in Keys : Has(t, k) /\ Bucket(t, k) = n + 1}
    BY <1>5, <2>1
  <2>5. \A k \in Keys : Has(t, k) => Bucket(t, k) \in Nat
    BY <1>1, <1>4
  <2>6. n \in Nat
    BY <1>1
  <2> HIDE DEF B
  <2>7. upto(n + 1) = A \cup B /\ A \cap B = {}
    BY <2>4, <2>5, <2>6
  <2> HIDE DEF A, upto
  <2>8. /\ IsFiniteSet(A \cup B)
        /\ Cardinality(A \cup B) = Cardinality(A) + Cardinality(B) - Cardinality(A \cap B)
    BY <2>2, <2>3, FS_Union
  <2>9. Cardinality(A \cap B) = 0 /\ Cardinality(A) \in Nat /\ Cardinality(B) \in Nat
    BY <2>2, <2>3, <2>7, FS_EmptySet, FS_CardinalityType
  <2>10. g[n + 1] = g[n] + Len(t[n + 1])
    BY <1>2, <2>1
  <2>11. g[n + 1] = Cardinality(A \cup B)
    BY <2>2, <2>3, <2>8, <2>9, <2>10
  <2>12. g[n + 1] = Cardinality(upto(n + 1)) /\ IsFiniteSet(upto(n + 1))
    BY <2>7, <2>8, <2>11
  <2> QED
    BY <2>1, <2>12
<1> HIDE DEF S
<1>8. \A n \in 0 .. L : n \in S
  BY <1>1, <1>6, <1>7, AllSteps
<1>9. L \in S
  BY <1>1, <1>8
<1>10. upto(L) = KeysOf(t)
  BY <1>1, <1>4 DEF KeysOf
<1> HIDE DEF upto
<1> QED
  BY <1>2, <1>9, <1>10 DEF S

-----------------------------------------------------------------------------
(* The steps of the table.                                                 *)

\* the keys of a chain that a table has not come to it one by one
LEMMA AllLinked ==
    ASSUME NEW t, Placed(t), t # << >>, NEW c, Chain(c), \A k : Contains(c, k) => ~Has(t, k)
    PROVE  LET moved[i \in 0 .. Len(c)] == IF i = 0 THEN t ELSE Linked(moved[i - 1], c[i])
               s == moved[Len(c)]
           IN  /\ Placed(s) /\ s # << >>
               /\ \A k \in Keys : Has(s, k) <=> Has(t, k) \/ Contains(c, k)
<1> DEFINE m == Len(c)
           S == {s \in Seq(Seq(Keys)) : s # << >>}
           f == [n \in 1 .. m |-> [s \in S |-> Linked(s, c[n])]]
           h == CHOOSE g : g = [i \in 0 .. m |-> IF i = 0 THEN t ELSE Linked(g[i - 1], c[i])]
<1>1. m \in Nat /\ \A n \in 1 .. m : c[n] \in Keys
  BY LenProperties, ElementOfSeq DEF Chain
<1>2. ASSUME NEW n \in 1 .. m, NEW s \in S PROVE Linked(s, c[n]) \in S
  <2> DEFINE b == Bucket(s, c[n])
  <2>1. s \in Seq(Seq(Keys)) /\ s # << >> /\ c[n] \in Keys
    BY <1>1
  <2>2. b \in 1 .. Len(s)
    BY <2>1, BucketIn
  <2>3. s[b] \in Seq(Keys)
    BY <2>1, <2>2, ElementOfSeq
  <2> HIDE DEF b
  <2>4. PICK e : e = <<c[n]>> \o s[b]
    OBVIOUS
  <2>5. e \in Seq(Keys)
    BY <2>1, <2>3, <2>4
  <2>6. [s EXCEPT ![b] = e] \in Seq(Seq(Keys)) /\ Len([s EXCEPT ![b] = e]) = Len(s)
    BY <2>1, <2>2, <2>5, ExceptSeq
  <2>7. [s EXCEPT ![b] = e] # << >>
    BY <2>1, <2>6, EmptySeq
  <2>8. Linked(s, c[n]) = [s EXCEPT ![b] = e]
    BY <2>4 DEF Linked, b
  <2> QED
    BY <2>6, <2>7, <2>8
<1>3. t \in S
  BY DEF Placed
<1> HIDE DEF m, S
<1>4. StepsIn(S, m, f)
  BY <1>2 DEF StepsIn
<1>5. PICK g : g \in [0 .. m -> S] /\ g[0] = t /\ \A n \in 1 .. m : g[n] = f[n][g[n - 1]]
  <2> HIDE DEF f
  <2>1. \E g : g \in [0 .. m -> S] /\ LoopFrom(g, m, t, f)
    BY <1>1, <1>3, <1>4, LoopExists
  <2> QED
    BY <2>1 DEF LoopFrom
<1>6. \A n \in 0 .. m : g[n] = IF n = 0 THEN t ELSE Linked(g[n - 1], c[n])
  <2> TAKE n \in 0 .. m
  <2>1. CASE n # 0
    <3>1. n \in 1 .. m /\ n - 1 \in 0 .. m
      BY <1>1, <2>1
    <3>2. g[n - 1] \in S
      BY <1>5, <3>1
    <3> QED
      BY <1>5, <2>1, <3>1, <3>2
  <2> QED
    BY <1>5, <2>1
<1>7. g = [n \in 0 .. m |-> IF n = 0 THEN t ELSE Linked(g[n - 1], c[n])]
  BY <1>5, <1>6
<1>8. h = [n \in 0 .. m |-> IF n = 0 THEN t ELSE Linked(h[n - 1], c[n])]
  BY <1>7
<1> HIDE DEF h, f
<1>9. h[0] = t /\ \A n \in 1 .. m : h[n] = Linked(h[n - 1], c[n])
  <2>1. 0 \in 0 .. m /\ \A n \in 1 .. m : n \in 0 .. m /\ n # 0
    BY <1>1
  <2> QED
    BY <1>8, <2>1
<1> DEFINE Good(n) == /\ Placed(h[n]) /\ h[n] # << >>
                      /\ \A k \in Keys : Has(h[n], k) <=> Has(t, k) \/ \E i \in 1 .. n : c[i] = k
           D == {n \in 0 .. m : Good(n)}
<1>10. 0 \in D
  BY <1>1, <1>9
<1>11. ASSUME NEW n \in 0 .. m, n # m, n \in D PROVE n + 1 \in D
  <2>1. n + 1 \in 1 .. m /\ n + 1 \in 0 .. m /\ (n + 1) - 1 = n
    BY <1>1, <1>11
  <2>2. PICK k : k = c[n + 1]
    OBVIOUS
  <2>3. k \in Keys /\ ~Has(h[n], k)
    <3>1. k \in Keys /\ ~Has(t, k)
      BY <1>1, <2>1, <2>2 DEF Contains, m
    <3>2. \A i \in 1 .. n : c[i] # k
      <4>1. \A i \in 1 .. n : i \in 1 .. m /\ i # n + 1
        BY <1>1, <2>1
      <4> QED
        BY <2>1, <2>2, <4>1 DEF Chain, m
    <3> QED
      BY <1>11, <3>1, <3>2
  <2>4. h[n + 1] = Linked(h[n], k)
    BY <1>9, <2>1, <2>2
  <2>5. Good(n)
    BY <1>11
  <2>6. /\ Placed(h[n + 1]) /\ Len(h[n + 1]) = Len(h[n])
        /\ \A x \in Keys : Has(h[n + 1], x) <=> x = k \/ Has(h[n], x)
    <3>1. PICK s, u : s = h[n] /\ u = Linked(s, k)
      OBVIOUS
    <3>2. Placed(s) /\ s # << >> /\ k \in Keys /\ ~Has(s, k)
      BY <2>3, <2>5, <3>1
    <3>3. Placed(u) /\ Len(u) = Len(s)
      BY <3>1, <3>2, LinkedIs
    <3>4. \A x \in Keys : Has(u, x) <=> x = k \/ Has(s, x)
      BY <3>1, <3>2, LinkedIs
    <3>5. h[n + 1] = u
      BY <2>4, <3>1
    <3> QED
      BY <3>1, <3>3, <3>4, <3>5
  <2>7. h[n + 1] # << >>
    BY <2>5, <2>6, EmptySeq DEF Placed
  <2>8. \A i : i \in 1 .. n + 1 <=> i \in 1 .. n \/ i = n + 1
    BY <1>1, <2>1
  <2>9. \A x : (\E i \in 1 .. n + 1 : c[i] = x) <=> x = k \/ \E i \in 1 .. n : c[i] = x
    BY <2>2, <2>8
  <2>10. Good(n + 1)
    BY <2>5, <2>6, <2>7, <2>9
  <2> QED
    BY <2>1, <2>10
<1> HIDE DEF D
<1>12. \A n \in 0 .. m : n \in D
  BY <1>1, <1>10, <1>11, AllSteps
<1>13. Good(m)
  <2>1. m \in D
    BY <1>1, <1>12
  <2> QED
    BY <2>1 DEF D
<1>14. \A k : Contains(c, k) <=> \E i \in 1 .. m : c[i] = k
  BY DEF Contains, m
<1>15. Placed(h[m]) /\ h[m] # << >> /\ \A k \in Keys : Has(h[m], k) <=> Has(t, k) \/ Contains(c, k)
  BY <1>13, <1>14
<1> QED
  BY <1>15, Zenon DEF h, m

LEMMA NextPowerIs ==
    ASSUME NEW n \in Nat
    PROVE  NextPower(n) \in Nat \ {0}
<1> DEFINE f == [i \in 1 .. n |-> [x \in Nat |-> 2 * x]]
           h == CHOOSE g : g = [e \in 0 .. n |-> IF e = 0 THEN InitialSize ELSE 2 * g[e - 1]]
<1>1. StepsIn(Nat, n, f)
  BY DEF StepsIn
<1>2. PICK g : /\ g \in [0 .. n -> Nat] /\ g[0] = InitialSize
               /\ \A i \in 1 .. n : g[i] = f[i][g[i - 1]]
  <2> HIDE DEF f
  <2>1. InitialSize \in Nat
    BY DictAssumption
  <2>2. \E g : g \in [0 .. n -> Nat] /\ LoopFrom(g, n, InitialSize, f)
    BY <1>1, <2>1, LoopExists
  <2> QED
    BY <2>2 DEF LoopFrom
<1>3. \A e \in 0 .. n : g[e] = IF e = 0 THEN InitialSize ELSE 2 * g[e - 1]
  <2> TAKE e \in 0 .. n
  <2>1. CASE e # 0
    <3>1. e \in 1 .. n /\ e - 1 \in 0 .. n
      BY <2>1
    <3>2. g[e - 1] \in Nat
      BY <1>2, <3>1
    <3> QED
      BY <1>2, <2>1, <3>1, <3>2
  <2> QED
    BY <1>2, <2>1
<1>4. g = [e \in 0 .. n |-> IF e = 0 THEN InitialSize ELSE 2 * g[e - 1]]
  BY <1>2, <1>3
<1>5. h = [e \in 0 .. n |-> IF e = 0 THEN InitialSize ELSE 2 * h[e - 1]]
  BY <1>4
<1>6. NextPower(n) = h[Min({e \in 0 .. n : h[e] >= n})]
  BY DEF NextPower
<1> HIDE DEF h, f
<1>7. h[0] = InitialSize /\ \A e \in 1 .. n : h[e] = 2 * h[e - 1]
  <2>1. 0 \in 0 .. n /\ \A e \in 1 .. n : e \in 0 .. n /\ e # 0
    OBVIOUS
  <2> QED
    BY <1>5, <2>1
<1> DEFINE D == {e \in 0 .. n : h[e] \in Nat /\ h[e] > e}
<1>8. 0 \in D
  BY <1>7, DictAssumption
<1>9. ASSUME NEW e \in 0 .. n, e # n, e \in D PROVE e + 1 \in D
  <2>1. e + 1 \in 1 .. n /\ e + 1 \in 0 .. n /\ (e + 1) - 1 = e
    BY <1>9
  <2>2. h[e + 1] = 2 * h[e]
    BY <1>7, <2>1
  <2>3. 2 * h[e] \in Nat /\ 2 * h[e] > e + 1
    BY <1>9
  <2> QED
    BY <2>1, <2>2, <2>3
<1> HIDE DEF D
<1>10. \A e \in 0 .. n : e \in D
  BY <1>8, <1>9, AllSteps
<1> DEFINE E == {e \in 0 .. n : h[e] >= n}
<1>11. Min(E) \in E
  <2>1. E \subseteq Nat
    OBVIOUS
  <2>2. n \in E
    BY <1>10 DEF D
  <2> HIDE DEF E
  <2>3. \E x \in E : \A y \in E : x <= y
    BY <2>1, <2>2, LeastNumber
  <2> QED
    BY <2>3 DEF Min
<1>12. Min(E) \in D
  BY <1>10, <1>11
<1> QED
  BY <1>6, <1>12 DEF D

\* a table and the one its keys go to hold the keys K, each in one of them,
\* and what the rehash has passed is empty
Tables(a, b, i, K) ==
    /\ Placed(a) /\ Placed(b)
    /\ K \subseteq Keys
    /\ \A k \in Keys : k \in K <=> Has(a, k) \/ Has(b, k)
    /\ \A k \in Keys : ~(Has(a, k) /\ Has(b, k))
    /\ i = -1 => b = << >>
    /\ i # -1 => i \in 0 .. Len(a) /\ b # << >> /\ \A x \in 1 .. i : a[x] = << >>

IsDict(d, a, b, i) == d = [ht |-> <<a, b>>, idx |-> i]
DictOK(d, K) == IsDict(d, d.ht[1], d.ht[2], d.idx) /\ Tables(d.ht[1], d.ht[2], d.idx, K)

LEMMA DictOf ==
    ASSUME NEW d, NEW a, NEW b, NEW i, IsDict(d, a, b, i)
    PROVE  /\ d.ht[1] = a /\ d.ht[2] = b /\ d.idx = i
           /\ \A K : Tables(a, b, i, K) => DictOK(d, K)
<1>1. d.ht[1] = a /\ d.ht[2] = b /\ d.idx = i
  BY DEF IsDict
<1> QED
  BY <1>1 DEF DictOK

\* an empty table has no key, and any other has a chain that is not empty
LEMMA UsedNone ==
    ASSUME NEW t, Placed(t)
    PROVE  /\ Used(t) \in Nat
           /\ Used(t) = 0 => \A k \in Keys : ~Has(t, k)
           /\ Used(t) # 0 => \E b \in 1 .. Len(t) : t[b] # << >>
<1>1. IsFiniteSet(KeysOf(t)) /\ Used(t) = Cardinality(KeysOf(t))
  BY UsedIs
<1>2. Used(t) \in Nat
  BY <1>1, FS_CardinalityType
<1>3. ASSUME Used(t) = 0, NEW k \in Keys PROVE ~Has(t, k)
  <2>1. KeysOf(t) = {}
    BY <1>1, <1>3, FS_EmptySet
  <2> QED
    BY <2>1 DEF KeysOf
<1>4. ASSUME Used(t) # 0 PROVE \E b \in 1 .. Len(t) : t[b] # << >>
  <2>1. KeysOf(t) # {}
    BY <1>1, <1>4, FS_EmptySet
  <2>2. PICK k \in Keys : Has(t, k)
    BY <2>1 DEF KeysOf
  <2>3. Bucket(t, k) \in 1 .. Len(t) /\ Contains(t[Bucket(t, k)], k)
    BY <2>2, HasIff
  <2>4. ~Contains(<< >>, k)
    BY DEF Contains
  <2> QED
    BY <2>3, <2>4
<1> QED
  BY <1>2, <1>3, <1>4

LEMMA FirstOf ==
    ASSUME NEW T, T \subseteq Nat, T # {}
    PROVE  Min(T) \in T /\ \A x \in T : Min(T) <= x
<1>1. \E x \in T : \A y \in T : x <= y
  BY LeastNumber
<1> QED
  BY <1>1 DEF Min

LEMMA MoveBucketOK ==
    ASSUME NEW d, NEW K, DictOK(d, K), d.idx # -1, NEW b \in 1 .. Len(d.ht[1]),
           \A x \in 1 .. Len(d.ht[1]) : x < b => d.ht[1][x] = << >>
    PROVE  DictOK(MoveBucket(d, b), K) /\ MoveBucket(d, b).idx # -1
<1>1. PICK t, u, c : t = d.ht[1] /\ u = d.ht[2] /\ c = t[b]
  OBVIOUS
<1>2. Tables(t, u, d.idx, K)
  BY <1>1 DEF DictOK
<1>3. Placed(t) /\ Placed(u) /\ u # << >> /\ Chain(c) /\ b \in 1 .. Len(t) /\ Len(t) \in Nat
  <2>1. Placed(t) /\ Placed(u) /\ u # << >>
    BY <1>1, <1>2 DEF Tables
  <2> QED
    BY <1>1, <2>1, LenProperties DEF Placed
<1>4. \A k \in Keys : Contains(c, k) <=> Has(t, k) /\ Bucket(t, k) = b
  BY <1>1, <1>3, HasIff
<1>5. \A k : Contains(c, k) => ~Has(u, k)
  <2> SUFFICES ASSUME NEW k, Contains(c, k) PROVE ~Has(u, k)
    OBVIOUS
  <2>1. k \in Keys
    BY <1>3, PlaceIs
  <2>2. Has(t, k)
    BY <1>4, <2>1
  <2> QED
    BY <1>2, <2>1, <2>2 DEF Tables
<1> DEFINE moved[i \in 0 .. Len(c)] == IF i = 0 THEN u ELSE Linked(moved[i - 1], c[i])
           w == moved[Len(c)]
           s == [t EXCEPT ![b] = << >>]
<1>6. IsDict(MoveBucket(d, b), s, w, b)
  BY <1>1 DEF MoveBucket, IsDict
<1>7. Placed(w) /\ w # << >> /\ \A k \in Keys : Has(w, k) <=> Has(u, k) \/ Contains(c, k)
  BY <1>3, <1>5, AllLinked
<1>8. /\ Placed(s) /\ Len(s) = Len(t) /\ s[b] = << >>
      /\ \A x \in 1 .. Len(t) : x # b => s[x] = t[x]
      /\ \A k \in Keys : Has(s, k) <=> Has(t, k) /\ Bucket(t, k) # b
  BY <1>3, ClearedIs
<1> HIDE DEF w, s
<1>9. \A x \in 1 .. b : s[x] = << >>
  <2> TAKE x \in 1 .. b
  <2>1. x \in 1 .. Len(t) /\ (x # b => x < b)
    BY <1>3
  <2> QED
    BY <1>1, <1>8, <2>1
<1>10. b \in 0 .. Len(s) /\ b # -1
  BY <1>3, <1>8
<1>11. K \subseteq Keys /\ \A k \in Keys :
          (k \in K <=> Has(s, k) \/ Has(w, k)) /\ ~(Has(s, k) /\ Has(w, k))
  <2>1. /\ K \subseteq Keys
        /\ \A k \in Keys : (k \in K <=> Has(t, k) \/ Has(u, k)) /\ ~(Has(t, k) /\ Has(u, k))
    BY <1>2 DEF Tables
  <2> QED
    BY <1>4, <1>7, <1>8, <2>1
<1>12. Tables(s, w, b, K)
  BY <1>7, <1>8, <1>9, <1>10, <1>11 DEF Tables
<1> QED
  BY <1>6, <1>10, <1>12, DictOf

LEMMA FinishedOK ==
    ASSUME NEW d, NEW K, DictOK(d, K)
    PROVE  DictOK(Finished(d), K)
<1>1. CASE Used(d.ht[1]) # 0
  BY <1>1 DEF Finished
<1>2. CASE Used(d.ht[1]) = 0
  <2>1. PICK t, u : t = d.ht[1] /\ u = d.ht[2]
    OBVIOUS
  <2>2. Tables(t, u, d.idx, K)
    BY <2>1 DEF DictOK
  <2>3. Placed(t) /\ Placed(u) /\ K \subseteq Keys /\ \A k \in Keys : k \in K <=> Has(t, k) \/ Has(u, k)
    BY <2>2 DEF Tables
  <2>4. \A k \in Keys : ~Has(t, k)
    BY <1>2, <2>1, <2>3, UsedNone
  <2>5. Tables(u, << >>, -1, K)
    BY <2>3, <2>4, NoTable DEF Tables
  <2>6. IsDict(Finished(d), u, << >>, -1)
    BY <1>2, <2>1 DEF Finished, IsDict
  <2> QED
    BY <2>5, <2>6, DictOf
<1> QED
  BY <1>1, <1>2

LEMMA RehashOK ==
    ASSUME NEW d, NEW K, DictOK(d, K)
    PROVE  DictOK(Rehash(d), K)
<1>1. CASE ~IsRehashing(d)
  BY <1>1 DEF Rehash
<1>2. CASE IsRehashing(d) /\ Used(d.ht[1]) = 0
  BY <1>2, FinishedOK DEF Rehash
<1>3. CASE IsRehashing(d) /\ Used(d.ht[1]) # 0
  <2> DEFINE F == {b \in d.idx + 1 .. Size(d.ht[1]) : d.ht[1][b] # << >>}
             full == Min(F)
  <2>1. PICK t, u, i : t = d.ht[1] /\ u = d.ht[2] /\ i = d.idx
    OBVIOUS
  <2>2. Tables(t, u, i, K) /\ IsDict(d, t, u, i)
    BY <2>1 DEF DictOK
  <2>3. /\ Placed(t) /\ Len(t) \in Nat /\ i # -1 /\ i \in 0 .. Len(t) /\ u # << >>
        /\ \A x \in 1 .. i : t[x] = << >>
    <3>1. i # -1 /\ Placed(t)
      BY <1>3, <2>1, <2>2 DEF IsRehashing, Tables
    <3> QED
      BY <2>2, <3>1, LenProperties DEF Tables, Placed
  <2>4. F \subseteq 1 .. Len(t) /\ \A b \in 1 .. Len(t) : b \in F <=> t[b] # << >>
    BY <2>1, <2>3 DEF Size
  <2>5. F # {}
    BY <1>3, <2>1, <2>3, <2>4, UsedNone
  <2> HIDE DEF F
  <2>6. full \in F /\ \A x \in F : full <= x
    <3>1. F \subseteq Nat
      BY <2>3, <2>4
    <3> QED
      BY <2>5, <3>1, FirstOf
  <2>7. full \in 1 .. Len(t) /\ \A x \in 1 .. Len(t) : x < full => t[x] = << >>
    <3> HIDE DEF full
    <3>1. full \in 1 .. Len(t)
      BY <2>4, <2>6
    <3>2. ASSUME NEW x \in 1 .. Len(t), x < full PROVE t[x] = << >>
      <4>1. x \in F => full <= x
        BY <2>6
      <4>2. x \notin F
        BY <2>3, <3>1, <3>2, <4>1
      <4> QED
        BY <2>4, <4>2
    <3> QED
      BY <3>1, <3>2
  <2>8. CASE full - (d.idx + 1) >= EmptyVisits
    <3>1. Rehash(d) = [d EXCEPT !.idx = d.idx + EmptyVisits]
      BY <1>3, <2>8 DEF Rehash, F
    <3>2. IsDict(Rehash(d), t, u, i + EmptyVisits)
      BY <2>1, <2>2, <3>1 DEF IsDict
    <3>3. EmptyVisits \in Nat /\ full \in Nat
      BY <2>7, DictAssumption
    <3>4. i + EmptyVisits \in 0 .. Len(t) /\ i + EmptyVisits # -1 /\ i + EmptyVisits < full
      <4> HIDE DEF full
      <4> QED
        BY <2>1, <2>3, <2>7, <2>8, <3>3
    <3>5. \A x \in 1 .. i + EmptyVisits : t[x] = << >>
      <4> TAKE x \in 1 .. i + EmptyVisits
      <4>1. x \in 1 .. Len(t) /\ x < full
        <5> HIDE DEF full
        <5> QED
          BY <2>3, <3>3, <3>4
      <4> QED
        BY <2>7, <4>1
    <3>6. Tables(t, u, i + EmptyVisits, K)
      <4>1. PICK j : j = i + EmptyVisits
        OBVIOUS
      <4>2. j \in 0 .. Len(t) /\ j # -1 /\ \A x \in 1 .. j : t[x] = << >>
        BY <3>4, <3>5, <4>1
      <4>3. Tables(t, u, j, K)
        BY <2>2, <2>3, <4>2 DEF Tables
      <4> QED
        BY <4>1, <4>3
    <3> QED
      BY <3>2, <3>6, DictOf
  <2>9. CASE ~(full - (d.idx + 1) >= EmptyVisits)
    <3>1. Rehash(d) = Finished(MoveBucket(d, full))
      BY <1>3, <2>9 DEF Rehash, F
    <3> HIDE DEF full
    <3>2. DictOK(MoveBucket(d, full), K)
      BY <2>1, <2>3, <2>7, MoveBucketOK
    <3> QED
      BY <3>1, <3>2, FinishedOK
  <2> QED
    BY <2>8, <2>9
<1> QED
  BY <1>1, <1>2, <1>3

LEMMA ExpandOK ==
    ASSUME NEW d, NEW K, DictOK(d, K), d.idx = -1, NEW n \in Nat
    PROVE  DictOK(Expand(d, n), K)
<1>1. PICK t, u, e, real : t = d.ht[1] /\ u = d.ht[2] /\ real = NextPower(n) /\ e = Empty(real)
  OBVIOUS
<1>2. Tables(t, u, -1, K) /\ IsDict(d, t, u, -1)
  BY <1>1 DEF DictOK
<1>3. u = << >> /\ Placed(t) /\ Len(t) \in Nat
  <2>1. u = << >> /\ Placed(t)
    BY <1>2 DEF Tables
  <2> QED
    BY <2>1, LenProperties DEF Placed
<1>4. Placed(e) /\ e # << >> /\ \A k \in Keys : ~Has(e, k)
  <2>1. real \in Nat \ {0}
    BY <1>1, NextPowerIs
  <2> QED
    BY <1>1, <2>1, EmptyIs
<1>5. CASE real = Size(t)
  BY <1>1, <1>5 DEF Expand
<1>6. CASE real # Size(t) /\ t = << >>
  <2>1. IsDict(Expand(d, n), e, << >>, -1)
    BY <1>1, <1>2, <1>6 DEF Expand, IsDict
  <2>2. Tables(e, << >>, -1, K)
    BY <1>2, <1>3, <1>4, <1>6, NoTable DEF Tables
  <2> QED
    BY <2>1, <2>2, DictOf
<1>7. CASE real # Size(t) /\ t # << >>
  <2>1. IsDict(Expand(d, n), t, e, 0)
    BY <1>1, <1>7 DEF Expand, IsDict
  <2>2. 0 \in 0 .. Len(t) /\ 0 # -1 /\ 1 .. 0 = {}
    BY <1>3
  <2>3. Tables(t, e, 0, K)
    BY <1>2, <1>3, <1>4, <2>2, NoTable DEF Tables
  <2> QED
    BY <2>1, <2>3, DictOf
<1> QED
  BY <1>5, <1>6, <1>7

LEMMA ExpandIfNeededOK ==
    ASSUME NEW d, NEW K, DictOK(d, K)
    PROVE  DictOK(ExpandIfNeeded(d), K)
<1>1. CASE IsRehashing(d)
  BY <1>1 DEF ExpandIfNeeded
<1>2. CASE ~IsRehashing(d)
  <2>1. d.idx = -1
    BY <1>2 DEF IsRehashing
  <2>2. PICK m : m = Used(d.ht[1]) * 2
    OBVIOUS
  <2>3. m \in Nat /\ InitialSize \in Nat
    <3>1. Used(d.ht[1]) \in Nat
      BY UsedNone DEF DictOK, Tables
    <3> QED
      BY <2>2, <3>1, DictAssumption
  <2>4. DictOK(Expand(d, InitialSize), K) /\ DictOK(Expand(d, m), K)
    BY <2>1, <2>3, ExpandOK
  <2> QED
    BY <1>2, <2>2, <2>4 DEF ExpandIfNeeded
<1> QED
  BY <1>1, <1>2

LEMMA PutIs ==
    ASSUME NEW d, NEW K, DictOK(d, K), NEW k \in Keys
    PROVE  /\ IsDict(PutIn(d, 1, k), Linked(d.ht[1], k), d.ht[2], d.idx)
           /\ IsDict(PutIn(d, 2, k), d.ht[1], Linked(d.ht[2], k), d.idx)
           /\ IsDict(TakenFrom(d, 1, k), Unlinked(d.ht[1], k), d.ht[2], d.idx)
           /\ IsDict(TakenFrom(d, 2, k), d.ht[1], Unlinked(d.ht[2], k), d.idx)
<1>1. PICK a, b, i : a = d.ht[1] /\ b = d.ht[2] /\ i = d.idx
  OBVIOUS
<1>2. d = [ht |-> <<a, b>>, idx |-> i]
  BY <1>1 DEF DictOK, IsDict
<1>3. \A t : /\ [d EXCEPT !.ht[1] = t] = [ht |-> <<t, b>>, idx |-> i]
             /\ [d EXCEPT !.ht[2] = t] = [ht |-> <<a, t>>, idx |-> i]
  BY <1>2
<1> QED
  BY <1>1, <1>3 DEF PutIn, TakenFrom, IsDict

LEMMA PutOK ==
    ASSUME NEW d, NEW K, DictOK(d, K), NEW k \in Keys, k \notin K,
           NEW n \in {1, 2}, n = 2 <=> IsRehashing(d), d.ht[n] # << >>
    PROVE  DictOK(PutIn(d, n, k), K \cup {k})
<1>1. PICK a, b, i : a = d.ht[1] /\ b = d.ht[2] /\ i = d.idx
  OBVIOUS
<1>2. Tables(a, b, i, K)
  BY <1>1 DEF DictOK
<1>3. /\ Placed(a) /\ Placed(b) /\ K \subseteq Keys
      /\ \A x \in Keys : (x \in K <=> Has(a, x) \/ Has(b, x)) /\ ~(Has(a, x) /\ Has(b, x))
      /\ (i = -1 => b = << >>) /\ ~Has(a, k) /\ ~Has(b, k)
  BY <1>2 DEF Tables
<1>4. CASE n = 1
  <2> DEFINE s == Linked(a, k)
  <2>1. i = -1 /\ a # << >>
    BY <1>1, <1>4 DEF IsRehashing
  <2>2. Placed(s) /\ \A x \in Keys : Has(s, x) <=> x = k \/ Has(a, x)
    BY <1>3, <2>1, LinkedIs
  <2>3. IsDict(PutIn(d, n, k), s, b, i)
    BY <1>1, <1>4, PutIs
  <2> HIDE DEF s
  <2>4. Tables(s, b, i, K \cup {k})
    BY <1>3, <2>1, <2>2, NoTable DEF Tables
  <2> QED
    BY <2>3, <2>4, DictOf
<1>5. CASE n = 2
  <2> DEFINE s == Linked(b, k)
  <2>1. i # -1 /\ b # << >>
    BY <1>1, <1>5 DEF IsRehashing
  <2>2. Placed(s) /\ Len(s) = Len(b) /\ \A x \in Keys : Has(s, x) <=> x = k \/ Has(b, x)
    BY <1>3, <2>1, LinkedIs
  <2>3. IsDict(PutIn(d, n, k), a, s, i)
    BY <1>1, <1>5, PutIs
  <2> HIDE DEF s
  <2>4. s # << >>
    BY <1>3, <2>1, <2>2, EmptySeq DEF Placed
  <2>5. Tables(a, s, i, K \cup {k})
    BY <1>2, <1>3, <2>1, <2>2, <2>4 DEF Tables
  <2> QED
    BY <2>3, <2>5, DictOf
<1> QED
  BY <1>4, <1>5

LEMMA WithoutOK ==
    ASSUME NEW d, NEW K, DictOK(d, K), NEW k \in Keys
    PROVE  DictOK(Without(d, k), K \ {k})
<1>1. PICK a, b, i : a = d.ht[1] /\ b = d.ht[2] /\ i = d.idx
  OBVIOUS
<1>2. Tables(a, b, i, K)
  BY <1>1 DEF DictOK
<1>3. /\ Placed(a) /\ Placed(b) /\ K \subseteq Keys
      /\ \A x \in Keys : (x \in K <=> Has(a, x) \/ Has(b, x)) /\ ~(Has(a, x) /\ Has(b, x))
      /\ (i = -1 => b = << >>)
      /\ (i # -1 => i \in 0 .. Len(a) /\ b # << >> /\ \A x \in 1 .. i : a[x] = << >>)
  BY <1>2 DEF Tables
<1>4. CASE Has(a, k)
  <2> DEFINE s == Unlinked(a, k)
             p == Bucket(a, k)
  <2>1. /\ Placed(s) /\ Len(s) = Len(a) /\ p \in 1 .. Len(a)
        /\ \A x \in Keys : Has(s, x) <=> x # k /\ Has(a, x)
        /\ Contains(a[p], k)
    BY <1>3, <1>4, UnlinkedIs
  <2>2. \A x \in 1 .. Len(a) : x # p => s[x] = a[x]
    BY <1>3, <1>4, UnlinkedIs
  <2>3. IsDict(Without(d, k), s, b, i)
    BY <1>1, <1>4, PutIs DEF Without
  <2> HIDE DEF s, p
  <2>4. ~Contains(<< >>, k)
    BY DEF Contains
  <2>5. ASSUME i # -1, NEW x \in 1 .. i PROVE s[x] = << >>
    <3>1. a[x] = << >>
      BY <1>3, <2>5
    <3>2. x # p
      BY <2>1, <2>4, <3>1
    <3>3. x \in 1 .. Len(a)
      <4>1. i \in 0 .. Len(a) /\ Len(a) \in Nat
        BY <1>3, <2>5, LenProperties DEF Placed
      <4> QED
        BY <4>1
    <3> QED
      BY <2>2, <3>1, <3>2, <3>3
  <2>6. i # -1 => i \in 0 .. Len(s) /\ b # << >> /\ \A x \in 1 .. i : s[x] = << >>
    BY <1>3, <2>1, <2>5
  <2>7. K \ {k} \subseteq Keys /\ \A x \in Keys :
          (x \in K \ {k} <=> Has(s, x) \/ Has(b, x)) /\ ~(Has(s, x) /\ Has(b, x))
    BY <1>3, <1>4, <2>1
  <2>8. Tables(s, b, i, K \ {k})
    BY <1>3, <2>1, <2>6, <2>7 DEF Tables
  <2> QED
    BY <2>3, <2>8, DictOf
<1>5. CASE ~Has(a, k) /\ i # -1 /\ Has(b, k)
  <2> DEFINE s == Unlinked(b, k)
  <2>1. /\ Placed(s) /\ Len(s) = Len(b)
        /\ \A x \in Keys : Has(s, x) <=> x # k /\ Has(b, x)
    BY <1>3, <1>5, UnlinkedIs
  <2>2. IsDict(Without(d, k), a, s, i)
    BY <1>1, <1>5, PutIs DEF Without, IsRehashing
  <2> HIDE DEF s
  <2>3. s # << >>
    BY <1>3, <1>5, <2>1, EmptySeq DEF Placed
  <2>4. K \ {k} \subseteq Keys /\ \A x \in Keys :
          (x \in K \ {k} <=> Has(a, x) \/ Has(s, x)) /\ ~(Has(a, x) /\ Has(s, x))
    BY <1>3, <1>5, <2>1
  <2>5. Tables(a, s, i, K \ {k})
    BY <1>3, <1>5, <2>1, <2>3, <2>4 DEF Tables
  <2> QED
    BY <2>2, <2>5, DictOf
<1>6. CASE ~Has(a, k) /\ ~(i # -1 /\ Has(b, k))
  <2>1. Without(d, k) = d
    BY <1>1, <1>6 DEF Without, IsRehashing
  <2>2. k \notin K
    BY <1>3, <1>6, NoTable
  <2>3. K \ {k} = K
    BY <2>2
  <2> QED
    BY <2>1, <2>3
<1> QED
  BY <1>4, <1>5, <1>6

LEMMA ExpandedTable ==
    ASSUME NEW d, NEW K, DictOK(d, K)
    PROVE  LET e == ExpandIfNeeded(d) IN
           /\ e.ht[IF IsRehashing(e) THEN 2 ELSE 1] # << >>
           /\ e.ht[1] = d.ht[1] \/ (d.ht[1] = << >> /\ d.idx = -1)
           /\ d.idx # -1 => e = d
           /\ d.idx = -1 => \A k \in Keys : ~Has(e.ht[2], k)
<1> DEFINE e == ExpandIfNeeded(d)
<1>1. PICK a, b, i : a = d.ht[1] /\ b = d.ht[2] /\ i = d.idx
  OBVIOUS
<1>2. Tables(a, b, i, K) /\ IsDict(d, a, b, i)
  BY <1>1 DEF DictOK
<1>3. Placed(a) /\ (i = -1 => b = << >>) /\ (i # -1 => b # << >>)
  BY <1>2 DEF Tables
<1>4. CASE i # -1
  <2>1. e = d
    BY <1>1, <1>4 DEF ExpandIfNeeded, IsRehashing
  <2> HIDE DEF e
  <2>2. IsRehashing(e)
    BY <1>1, <1>4, <2>1 DEF IsRehashing
  <2>3. b # << >>
    BY <1>3, <1>4
  <2> QED
    BY <1>1, <1>4, <2>1, <2>2, <2>3 DEF e
<1>5. CASE i = -1
  <2>1. b = << >> /\ \A k \in Keys : ~Has(b, k)
    BY <1>3, <1>5, NoTable
  <2>2. ASSUME NEW n \in Nat, a = << >> => n = InitialSize, e = Expand(d, n)
        PROVE  /\ e.ht[IF IsRehashing(e) THEN 2 ELSE 1] # << >>
               /\ e.ht[1] = a \/ a = << >>
               /\ \A k \in Keys : ~Has(e.ht[2], k)
    <3>1. PICK real, z : real = NextPower(n) /\ z = Empty(real)
      OBVIOUS
    <3>2. real \in Nat \ {0} /\ z # << >> /\ \A k \in Keys : ~Has(z, k)
      <4>1. real \in Nat \ {0}
        BY <3>1, NextPowerIs
      <4> QED
        BY <3>1, <4>1, EmptyIs
    <3>3. CASE real = Size(a)
      <4>1. e = d
        BY <1>1, <2>2, <3>1, <3>3 DEF Expand
      <4>2. a # << >>
        BY <3>2, <3>3 DEF Size
      <4> HIDE DEF e
      <4>3. ~IsRehashing(e)
        BY <1>1, <1>5, <4>1 DEF IsRehashing
      <4> QED
        BY <1>1, <2>1, <4>1, <4>2, <4>3
    <3>4. CASE real # Size(a) /\ a = << >>
      <4>1. IsDict(e, z, << >>, -1)
        BY <1>1, <1>2, <1>5, <2>2, <3>1, <3>4 DEF Expand, IsDict
      <4> HIDE DEF e
      <4>2. e.ht[1] = z /\ e.ht[2] = << >> /\ e.idx = -1
        BY <4>1, DictOf
      <4>3. ~IsRehashing(e)
        BY <4>2 DEF IsRehashing
      <4> QED
        BY <3>2, <3>4, <4>2, <4>3, NoTable
    <3>5. CASE real # Size(a) /\ a # << >>
      <4>1. IsDict(e, a, z, 0)
        BY <1>1, <2>2, <3>1, <3>5 DEF Expand, IsDict
      <4> HIDE DEF e
      <4>2. e.ht[1] = a /\ e.ht[2] = z /\ e.idx = 0
        BY <4>1, DictOf
      <4>3. IsRehashing(e)
        BY <4>2 DEF IsRehashing
      <4> QED
        BY <3>2, <4>2, <4>3
    <3> QED
      BY <3>3, <3>4, <3>5
  <2>3. PICK u : u = Used(a) * 2
    OBVIOUS
  <2>4. u \in Nat /\ InitialSize \in Nat
    <3>1. Used(a) \in Nat
      BY <1>3, UsedNone
    <3> QED
      BY <2>3, <3>1, DictAssumption
  <2>5. ~IsRehashing(d)
    BY <1>1, <1>5 DEF IsRehashing
  <2>6. Size(a) = 0 <=> a = << >>
    BY <1>3, EmptySeq DEF Size, Placed
  <2>7. CASE a = << >>
    <3>1. e = Expand(d, InitialSize)
      BY <1>1, <2>5, <2>6, <2>7 DEF ExpandIfNeeded
    <3> HIDE DEF e
    <3> QED
      BY <1>1, <1>5, <2>2, <2>4, <2>7, <3>1 DEF e
  <2>8. CASE a # << >> /\ Used(a) >= Size(a)
    <3>1. e = Expand(d, u)
      BY <1>1, <2>3, <2>5, <2>6, <2>8 DEF ExpandIfNeeded
    <3> HIDE DEF e
    <3> QED
      BY <1>1, <1>5, <2>2, <2>4, <2>8, <3>1 DEF e
  <2>9. CASE a # << >> /\ ~(Used(a) >= Size(a))
    <3>1. e = d
      BY <1>1, <2>5, <2>6, <2>9 DEF ExpandIfNeeded
    <3> HIDE DEF e
    <3> QED
      BY <1>1, <1>5, <2>1, <2>5, <2>9, <3>1 DEF e
  <2> QED
    BY <2>7, <2>8, <2>9
<1> QED
  BY <1>4, <1>5

LEMMA LookupIs ==
    ASSUME NEW d, NEW K, DictOK(d, K), NEW k \in Keys
    PROVE  Lookup(d, k) <=> k \in K
<1>1. Tables(d.ht[1], d.ht[2], d.idx, K)
  BY DEF DictOK
<1> QED
  BY <1>1, NoTable DEF Tables, Lookup, IsRehashing

LEMMA WithOK ==
    ASSUME NEW d, NEW K, DictOK(d, K), NEW k \in Keys,
           d.ht[IF IsRehashing(d) THEN 2 ELSE 1] # << >>
    PROVE  DictOK(With(d, k), K \cup {k})
<1>1. CASE k \in K
  <2>1. With(d, k) = d
    BY <1>1, LookupIs DEF With
  <2>2. K \cup {k} = K
    BY <1>1
  <2> QED
    BY <2>1, <2>2
<1>2. CASE k \notin K
  <2>1. PICK n : n = IF IsRehashing(d) THEN 2 ELSE 1
    OBVIOUS
  <2>2. With(d, k) = PutIn(d, n, k)
    BY <1>2, <2>1, LookupIs DEF With
  <2>3. n \in {1, 2} /\ (n = 2 <=> IsRehashing(d)) /\ d.ht[n] # << >>
    BY <2>1
  <2> QED
    BY <1>2, <2>2, <2>3, PutOK
<1> QED
  BY <1>1, <1>2

-----------------------------------------------------------------------------
(* What a step leaves of a table in the middle of a walk.                  *)

\* the keys Q are in s as they are in t, in the same chains and in the same order
KeptIn(t, s, Q) ==
    /\ Len(t) <= Len(s)
    /\ \A x \in Q : (Has(s, x) <=> Has(t, x)) /\ Bucket(s, x) = Bucket(t, x)
    /\ \A x, y \in Q : Has(t, x) /\ Has(t, y) /\ Bucket(t, x) = Bucket(t, y) =>
          LET b == Bucket(t, x) IN
          (Place(s[b], x) <= Place(s[b], y)) <=> (Place(t[b], x) <= Place(t[b], y))

LEMMA SameKept ==
    ASSUME NEW t, Placed(t), NEW Q
    PROVE  KeptIn(t, t, Q)
<1>1. Len(t) \in Nat
  BY LenProperties DEF Placed
<1> QED
  BY <1>1 DEF KeptIn

LEMMA LinkedKept ==
    ASSUME NEW t, Placed(t), t # << >>, NEW k \in Keys, ~Has(t, k),
           NEW Q, Q \subseteq Keys \ {k}
    PROVE  KeptIn(t, Linked(t, k), Q)
<1> DEFINE s == Linked(t, k)
           p == Bucket(t, k)
<1>1. /\ Len(s) = Len(t)
      /\ \A x \in Keys : Has(s, x) <=> x = k \/ Has(t, x)
      /\ Chain(t[p]) /\ ~Contains(t[p], k)
  BY LinkedIs
<1>2. \A x \in 1 .. Len(t) : s[x] = IF x = p THEN <<k>> \o t[p] ELSE t[x]
  BY LinkedIs
<1>3. \A x : Bucket(s, x) = Bucket(t, x)
  BY LinkedIs
<1> HIDE DEF s, p
<1>4. Len(t) \in Nat
  BY LenProperties DEF Placed
<1>5. ASSUME NEW x \in Q, NEW y \in Q, Has(t, x), Has(t, y), Bucket(t, x) = Bucket(t, y)
      PROVE  LET b == Bucket(t, x) IN
             (Place(s[b], x) <= Place(s[b], y)) <=> (Place(t[b], x) <= Place(t[b], y))
  <2> DEFINE b == Bucket(t, x)
  <2>1. b \in 1 .. Len(t) /\ Contains(t[b], x) /\ Contains(t[b], y)
    BY <1>5, HasIff
  <2> HIDE DEF b
  <2>2. CASE b = p
    <3>1. PICK c, e : c = t[p] /\ e = <<k>> \o c
      OBVIOUS
    <3>2. Chain(c) /\ ~Contains(c, k) /\ Contains(c, x) /\ Contains(c, y)
      BY <1>1, <2>1, <2>2, <3>1
    <3>3. Place(e, x) = Place(c, x) + 1 /\ Place(e, y) = Place(c, y) + 1
      BY <3>1, <3>2, PushedChain
    <3>4. Place(c, x) \in Int /\ Place(c, y) \in Int
      BY <3>2, PlaceIs
    <3>5. s[b] = e /\ t[b] = c
      BY <1>2, <2>1, <2>2, <3>1
    <3>6. (Place(e, x) <= Place(e, y)) <=> (Place(c, x) <= Place(c, y))
      BY <3>3, <3>4
    <3> QED
      BY <3>5, <3>6 DEF b
  <2>3. CASE b # p
    <3>1. s[b] = t[b]
      BY <1>2, <2>1, <2>3
    <3> QED
      BY <3>1 DEF b
  <2> QED
    BY <2>2, <2>3
<1>6. Len(t) <= Len(s) /\ \A x \in Q : (Has(s, x) <=> Has(t, x)) /\ Bucket(s, x) = Bucket(t, x)
  BY <1>1, <1>3, <1>4
<1> QED
  BY <1>5, <1>6 DEF KeptIn, s

LEMMA UnlinkedKept ==
    ASSUME NEW t, Placed(t), NEW k \in Keys, Has(t, k),
           NEW Q, Q \subseteq Keys \ {k}
    PROVE  KeptIn(t, Unlinked(t, k), Q)
<1> DEFINE s == Unlinked(t, k)
           p == Bucket(t, k)
<1>1. /\ Len(s) = Len(t)
      /\ \A x \in Keys : Has(s, x) <=> x # k /\ Has(t, x)
      /\ Chain(t[p]) /\ Contains(t[p], k)
  BY UnlinkedIs
<1>2. \A x \in 1 .. Len(t) : s[x] = IF x = p THEN RemoveAt(t[p], Place(t[p], k)) ELSE t[x]
  BY UnlinkedIs
<1>3. \A x : Bucket(s, x) = Bucket(t, x)
  BY UnlinkedIs
<1> HIDE DEF s, p
<1>4. Len(t) \in Nat
  BY LenProperties DEF Placed
<1>5. ASSUME NEW x \in Q, NEW y \in Q, Has(t, x), Has(t, y), Bucket(t, x) = Bucket(t, y)
      PROVE  LET b == Bucket(t, x) IN
             (Place(s[b], x) <= Place(s[b], y)) <=> (Place(t[b], x) <= Place(t[b], y))
  <2> DEFINE b == Bucket(t, x)
  <2>1. b \in 1 .. Len(t) /\ Contains(t[b], x) /\ Contains(t[b], y)
    BY <1>5, HasIff
  <2> HIDE DEF b
  <2>2. CASE b = p
    <3>1. PICK c, e : c = t[p] /\ e = RemoveAt(c, Place(c, k))
      OBVIOUS
    <3>2. Chain(c) /\ Contains(c, k) /\ Contains(c, x) /\ Contains(c, y) /\ x # k /\ y # k
      BY <1>1, <2>1, <2>2, <3>1
    <3>3. Contains(e, x) /\ Contains(e, y)
      BY <3>1, <3>2, CutChain
    <3>4. (Place(e, x) <= Place(e, y)) <=> (Place(c, x) <= Place(c, y))
      BY <3>1, <3>2, <3>3, CutChain
    <3>5. s[b] = e /\ t[b] = c
      BY <1>2, <2>1, <2>2, <3>1
    <3> QED
      BY <3>4, <3>5 DEF b
  <2>3. CASE b # p
    <3>1. s[b] = t[b]
      BY <1>2, <2>1, <2>3
    <3> QED
      BY <3>1 DEF b
  <2> QED
    BY <2>2, <2>3
<1>6. Len(t) <= Len(s) /\ \A x \in Q : (Has(s, x) <=> Has(t, x)) /\ Bucket(s, x) = Bucket(t, x)
  BY <1>1, <1>3, <1>4
<1> QED
  BY <1>5, <1>6 DEF KeptIn, s

\* the dictionary e is for the keys Q what d was
SameWalk(d, e, Q) ==
    /\ KeptIn(d.ht[1], e.ht[1], Q)
    /\ d.idx # -1 => e.idx # -1 /\ KeptIn(d.ht[2], e.ht[2], Q)
    /\ \A x \in Q : Has(e.ht[2], x) <=> Has(d.ht[2], x)

LEMMA SameDict ==
    ASSUME NEW d, NEW K, DictOK(d, K), NEW Q
    PROVE  SameWalk(d, d, Q)
  BY SameKept DEF SameWalk, DictOK, Tables

LEMMA WithKept ==
    ASSUME NEW d, NEW K, DictOK(d, K), NEW k \in Keys, NEW Q, Q \subseteq K,
           d.ht[IF IsRehashing(d) THEN 2 ELSE 1] # << >>
    PROVE  SameWalk(d, With(d, k), Q) /\ With(d, k).idx = d.idx
<1>1. PICK a, b, i : a = d.ht[1] /\ b = d.ht[2] /\ i = d.idx
  OBVIOUS
<1>2. Tables(a, b, i, K)
  BY <1>1 DEF DictOK
<1>3. Placed(a) /\ Placed(b) /\ K \subseteq Keys /\ \A x \in Keys : x \in K <=> Has(a, x) \/ Has(b, x)
  BY <1>2 DEF Tables
<1>4. CASE k \in K
  <2>1. With(d, k) = d
    BY <1>4, LookupIs DEF With
  <2> QED
    BY <2>1, SameDict
<1>5. CASE k \notin K /\ i = -1
  <2>1. ~Has(a, k) /\ Q \subseteq Keys \ {k} /\ a # << >>
    BY <1>1, <1>3, <1>5 DEF IsRehashing
  <2>2. With(d, k) = PutIn(d, 1, k)
    BY <1>1, <1>5, LookupIs DEF With, IsRehashing
  <2>3. IsDict(With(d, k), Linked(a, k), b, i)
    BY <1>1, <2>2, PutIs
  <2>4. With(d, k).ht[1] = Linked(a, k) /\ With(d, k).ht[2] = b /\ With(d, k).idx = i
    BY <2>3, DictOf
  <2>5. KeptIn(a, Linked(a, k), Q)
    BY <1>3, <2>1, LinkedKept
  <2> QED
    BY <1>1, <1>5, <2>4, <2>5 DEF SameWalk
<1>6. CASE k \notin K /\ i # -1
  <2>1. ~Has(b, k) /\ Q \subseteq Keys \ {k} /\ b # << >>
    BY <1>1, <1>3, <1>6 DEF IsRehashing
  <2>2. With(d, k) = PutIn(d, 2, k)
    BY <1>1, <1>6, LookupIs DEF With, IsRehashing
  <2>3. IsDict(With(d, k), a, Linked(b, k), i)
    BY <1>1, <2>2, PutIs
  <2>4. With(d, k).ht[1] = a /\ With(d, k).ht[2] = Linked(b, k) /\ With(d, k).idx = i
    BY <2>3, DictOf
  <2>5. KeptIn(b, Linked(b, k), Q) /\ KeptIn(a, a, Q)
    BY <1>3, <2>1, LinkedKept, SameKept
  <2>6. \A x \in Q : Has(Linked(b, k), x) <=> Has(b, x)
    BY <2>5 DEF KeptIn
  <2> QED
    BY <1>1, <1>6, <2>4, <2>5, <2>6 DEF SameWalk
<1> QED
  BY <1>4, <1>5, <1>6

LEMMA AddKept ==
    ASSUME NEW d, NEW K, DictOK(d, K), NEW k \in Keys, NEW Q, Q \subseteq K
    PROVE  SameWalk(d, With(ExpandIfNeeded(d), k), Q)
<1>1. PICK e, w : e = ExpandIfNeeded(d) /\ w = With(e, k)
  OBVIOUS
<1>2. DictOK(e, K) /\ e.ht[IF IsRehashing(e) THEN 2 ELSE 1] # << >>
  BY <1>1, ExpandIfNeededOK, ExpandedTable
<1>3. SameWalk(e, w, Q) /\ w.idx = e.idx /\ DictOK(w, K \cup {k})
  BY <1>1, <1>2, WithKept, WithOK
<1>4. Tables(d.ht[1], d.ht[2], d.idx, K)
  BY DEF DictOK
<1>5. CASE d.idx # -1
  BY <1>1, <1>3, <1>5, ExpandedTable
<1>6. CASE d.idx = -1
  <2>1. \A x \in Q : ~Has(e.ht[2], x) /\ ~Has(d.ht[2], x)
    <3>1. \A x \in Keys : ~Has(e.ht[2], x)
      BY <1>1, <1>6, ExpandedTable
    <3> QED
      BY <1>4, <1>6, <3>1, NoTable DEF Tables
  <2>2. \A x \in Q : Has(w.ht[2], x) <=> Has(d.ht[2], x)
    BY <1>3, <2>1 DEF SameWalk
  <2>3. CASE e.ht[1] = d.ht[1]
    BY <1>1, <1>3, <1>6, <2>2, <2>3 DEF SameWalk
  <2>4. CASE d.ht[1] = << >>
    <3>1. Q = {}
      BY <1>4, <1>6, <2>4, NoTable DEF Tables
    <3>2. Len(w.ht[1]) \in Nat /\ Len(<< >>) = 0
      <4>1. w.ht[1] \in Seq(Seq(Keys))
        BY <1>3 DEF DictOK, Tables, Placed
      <4> QED
        BY <4>1, LenProperties
    <3>3. KeptIn(<< >>, w.ht[1], Q)
      BY <3>1, <3>2 DEF KeptIn
    <3> QED
      BY <1>1, <1>6, <2>2, <2>4, <3>3 DEF SameWalk
  <2> QED
    BY <1>1, <1>6, <2>3, <2>4, ExpandedTable
<1> QED
  BY <1>5, <1>6

LEMMA WithoutKept ==
    ASSUME NEW d, NEW K, DictOK(d, K), NEW k \in Keys, NEW Q, Q \subseteq Keys \ {k}
    PROVE  SameWalk(d, Without(d, k), Q)
<1>1. PICK a, b, i : a = d.ht[1] /\ b = d.ht[2] /\ i = d.idx
  OBVIOUS
<1>2. Placed(a) /\ Placed(b)
  BY <1>1 DEF DictOK, Tables
<1>3. CASE Has(a, k)
  <2>1. IsDict(Without(d, k), Unlinked(a, k), b, i)
    BY <1>1, <1>3, PutIs DEF Without
  <2>2. Without(d, k).ht[1] = Unlinked(a, k) /\ Without(d, k).ht[2] = b /\ Without(d, k).idx = i
    BY <2>1, DictOf
  <2>3. KeptIn(a, Unlinked(a, k), Q) /\ KeptIn(b, b, Q)
    BY <1>2, <1>3, UnlinkedKept, SameKept
  <2> QED
    BY <1>1, <2>2, <2>3 DEF SameWalk
<1>4. CASE ~Has(a, k) /\ i # -1 /\ Has(b, k)
  <2>1. IsDict(Without(d, k), a, Unlinked(b, k), i)
    BY <1>1, <1>4, PutIs DEF Without, IsRehashing
  <2>2. Without(d, k).ht[1] = a /\ Without(d, k).ht[2] = Unlinked(b, k) /\ Without(d, k).idx = i
    BY <2>1, DictOf
  <2>3. KeptIn(a, a, Q) /\ KeptIn(b, Unlinked(b, k), Q)
    BY <1>2, <1>4, UnlinkedKept, SameKept
  <2>4. \A x \in Q : Has(Unlinked(b, k), x) <=> Has(b, x)
    BY <2>3 DEF KeptIn
  <2> QED
    BY <1>1, <2>2, <2>3, <2>4 DEF SameWalk
<1>5. CASE ~Has(a, k) /\ ~(i # -1 /\ Has(b, k))
  <2>1. Without(d, k) = d
    BY <1>1, <1>5 DEF Without, IsRehashing
  <2> QED
    BY <2>1, SameDict
<1> QED
  BY <1>3, <1>4, <1>5

-----------------------------------------------------------------------------
(* The walk: which keys are ahead of it.                                   *)

\* of a walk in bucket i of table t, the n-th, with next saved: k is still to come
Ahead(t, u, n, i, next, k) ==
    \/ n = 1 /\ Has(u, k)
    \/ Has(t, k) /\ Bucket(t, k) > i
    \/ /\ Has(t, k) /\ Bucket(t, k) = i /\ next # Null
       /\ Place(t[i], next) <= Place(t[i], k)

LEMMA AheadKept ==
    ASSUME NEW t, Placed(t), NEW s, Placed(s), NEW Q, Q \subseteq Keys, KeptIn(t, s, Q),
           NEW u, NEW w, \A x \in Q : Has(w, x) <=> Has(u, x),
           NEW n, NEW i, NEW next,
           next # Null => next \in Q /\ i \in 1 .. Len(t) /\ Contains(t[i], next)
    PROVE  /\ next # Null => Contains(s[i], next)
           /\ \A k \in Q : Ahead(s, w, n, i, next, k) <=> Ahead(t, u, n, i, next, k)
<1>1. ASSUME next # Null PROVE Has(t, next) /\ Bucket(t, next) = i
  BY <1>1, HasIff
<1>2. ASSUME next # Null PROVE Contains(s[i], next)
  <2>1. Has(s, next) /\ Bucket(s, next) = i /\ next \in Keys
    BY <1>1, <1>2 DEF KeptIn
  <2> QED
    BY <2>1, HasIff
<1>3. ASSUME NEW k \in Q PROVE Ahead(s, w, n, i, next, k) <=> Ahead(t, u, n, i, next, k)
  <2>1. (Has(s, k) <=> Has(t, k)) /\ Bucket(s, k) = Bucket(t, k) /\ (Has(w, k) <=> Has(u, k))
    BY <1>3 DEF KeptIn
  <2>2. Has(t, k) /\ Bucket(t, k) = i /\ next # Null =>
           ((Place(s[i], next) <= Place(s[i], k)) <=> (Place(t[i], next) <= Place(t[i], k)))
    BY <1>1 DEF KeptIn
  <2> QED
    BY <2>1, <2>2 DEF Ahead
<1> QED
  BY <1>2, <1>3

\* from next the walk comes to m: next is passed, and no other key
Passed(t, u, n, i, next, m) ==
    /\ m # Null => m \in Keys /\ m # next /\ Contains(t[i], m)
    /\ Ahead(t, u, n, i, next, next)
    /\ \A k \in Keys : Ahead(t, u, n, i, m, k) <=> Ahead(t, u, n, i, next, k) /\ k # next

\* the walk goes on in its chain
LEMMA AheadSaved ==
    ASSUME NEW t, Placed(t), NEW u, NEW n, NEW i \in 1 .. Len(t), NEW next \in Keys,
           Contains(t[i], next), n = 1 => ~Has(u, next), NEW m, m = After(t[i], next)
    PROVE  Passed(t, u, n, i, next, m)
<1>1. PICK c : c = t[i]
  OBVIOUS
<1>2. Chain(c) /\ Contains(c, next) /\ m = After(c, next)
  BY <1>1 DEF Placed
<1>3. /\ m = Null => Place(c, next) = Len(c)
      /\ m # Null => m \in Keys /\ Contains(c, m) /\ m # next /\ Place(c, m) = Place(c, next) + 1
  BY <1>2, AfterIs
<1>4. Place(c, next) \in 1 .. Len(c) /\ Len(c) \in Nat
  BY <1>2, PlaceIs, LenProperties DEF Chain
<1>5. Has(t, next) /\ Bucket(t, next) = i /\ next # Null /\ i \in Int
  BY HasIff, DictAssumption
<1>6. Ahead(t, u, n, i, next, next)
  BY <1>1, <1>4, <1>5 DEF Ahead
<1>7. ASSUME NEW k \in Keys
      PROVE  Ahead(t, u, n, i, m, k) <=> Ahead(t, u, n, i, next, k) /\ k # next
  <2>1. CASE k = next
    <3>1. ~(Has(t, k) /\ Bucket(t, k) > i)
      BY <1>5, <2>1
    <3>2. m # Null => ~(Place(c, m) <= Place(c, k))
      BY <1>3, <1>4, <2>1
    <3> QED
      BY <1>1, <2>1, <3>1, <3>2 DEF Ahead
  <2>2. CASE k # next /\ Has(t, k) /\ Bucket(t, k) = i
    <3>1. Contains(c, k)
      BY <1>1, <2>2, HasIff
    <3>2. Place(c, k) \in 1 .. Len(c) /\ c[Place(c, k)] = k /\ c[Place(c, next)] = next
      BY <1>2, <3>1, PlaceIs
    <3>3. Place(c, k) # Place(c, next)
      BY <2>2, <3>2
    <3>4. CASE m = Null
      <4>1. ~(Place(c, next) <= Place(c, k))
        BY <1>3, <1>4, <3>2, <3>3, <3>4
      <4> QED
        BY <1>1, <1>5, <2>2, <3>4, <4>1 DEF Ahead
    <3>5. CASE m # Null
      <4>1. (Place(c, m) <= Place(c, k)) <=> (Place(c, next) <= Place(c, k))
        BY <1>3, <1>4, <3>2, <3>3, <3>5
      <4> QED
        BY <1>1, <1>5, <2>2, <3>5, <4>1 DEF Ahead
    <3> QED
      BY <3>4, <3>5
  <2>3. CASE k # next /\ ~(Has(t, k) /\ Bucket(t, k) = i)
    BY <2>3 DEF Ahead
  <2> QED
    BY <2>1, <2>2, <2>3
<1> QED
  BY <1>1, <1>3, <1>6, <1>7 DEF Passed

\* from bucket i the walk comes to the chain of bucket j, where it passes the key e, and no other
Entered(t, u, n, i, j, e, m) ==
    /\ e \in Keys /\ j \in 1 .. Len(t)
    /\ m # Null => m \in Keys /\ m # e /\ Contains(t[j], m)
    /\ Ahead(t, u, n, i, Null, e)
    /\ \A k \in Keys : Ahead(t, u, n, j, m, k) <=> Ahead(t, u, n, i, Null, k) /\ k # e

LEMMA AheadChain ==
    ASSUME NEW t, Placed(t), NEW u, NEW n, NEW i \in 0 .. Len(t),
           NEW j \in i + 1 .. Len(t), t[j] # << >>,
           \A b \in i + 1 .. Len(t) : t[b] # << >> => j <= b,
           \A k \in Keys : n = 1 => ~(Has(t, k) /\ Has(u, k)),
           NEW e, e = t[j][1], NEW m, m = After(t[j], e)
    PROVE  Entered(t, u, n, i, j, e, m)
<1>1. Len(t) \in Nat
  BY LenProperties DEF Placed
<1>2. j \in 1 .. Len(t) /\ j > i
  BY <1>1
<1>3. PICK c : c = t[j]
  OBVIOUS
<1>4. Chain(c) /\ c # << >>
  BY <1>2, <1>3 DEF Placed
<1>5. 1 \in 1 .. Len(c) /\ c[1] = e
  <2>1. Len(c) \in Nat /\ Len(c) # 0
    BY <1>4, EmptySeq, LenProperties DEF Chain
  <2> QED
    BY <1>3, <2>1
<1>6. e \in Keys /\ Contains(c, e) /\ Place(c, e) = 1
  <2>1. Contains(c, e)
    BY <1>5 DEF Contains
  <2> QED
    BY <1>4, <1>5, <2>1, PlaceIs
<1>7. Has(t, e) /\ Bucket(t, e) = j
  BY <1>2, <1>3, <1>6, HasIff
<1>8. ~(n = 1 /\ Has(u, e))
  BY <1>6, <1>7
<1>9. /\ m # Null => m \in Keys /\ m # e /\ Contains(t[j], m)
      /\ \A k \in Keys : Ahead(t, u, n, j, m, k) <=> Ahead(t, u, n, j, e, k) /\ k # e
  <2>1. Contains(t[j], e) /\ (n = 1 => ~Has(u, e))
    BY <1>3, <1>6, <1>8
  <2>2. Passed(t, u, n, j, e, m)
    BY <1>2, <1>6, <2>1, AheadSaved
  <2> QED
    BY <2>2 DEF Passed
<1>10. ASSUME NEW k \in Keys PROVE Ahead(t, u, n, j, e, k) <=> Ahead(t, u, n, i, Null, k)
  <2>1. CASE Has(t, k)
    <3>1. Bucket(t, k) \in 1 .. Len(t) /\ Contains(t[Bucket(t, k)], k)
      BY <2>1, HasIff
    <3>2. t[Bucket(t, k)] # << >>
      BY <3>1 DEF Contains
    <3>3. Bucket(t, k) > i => j <= Bucket(t, k)
      <4>1. Bucket(t, k) > i => Bucket(t, k) \in i + 1 .. Len(t)
        BY <1>1, <3>1
      <4> QED
        BY <3>2, <4>1
    <3>4. Bucket(t, k) > i <=> Bucket(t, k) > j \/ Bucket(t, k) = j
      BY <1>1, <1>2, <3>1, <3>3
    <3>5. Bucket(t, k) = j => Place(t[j], e) <= Place(t[j], k)
      <4>1. ASSUME Bucket(t, k) = j PROVE Place(c, e) <= Place(c, k)
        <5>1. Place(c, k) \in 1 .. Len(c)
          BY <1>3, <1>4, <3>1, <4>1, PlaceIs
        <5> QED
          BY <1>6, <5>1
      <4> QED
        BY <1>3, <4>1
    <3>6. e # Null
      BY <1>6, DictAssumption
    <3> QED
      BY <2>1, <3>4, <3>5, <3>6 DEF Ahead
  <2>2. CASE ~Has(t, k)
    BY <2>2 DEF Ahead
  <2> QED
    BY <2>1, <2>2
<1>11. Ahead(t, u, n, i, Null, e)
  BY <1>2, <1>7 DEF Ahead
<1> QED
  BY <1>2, <1>6, <1>9, <1>10, <1>11 DEF Entered

\* nothing is ahead of a walk at the end of its tables
LEMMA NothingAhead ==
    ASSUME NEW t, Placed(t), NEW u, NEW n, NEW i \in 0 .. Len(t),
           \A b \in i + 1 .. Len(t) : t[b] = << >>, NEW k \in Keys
    PROVE  Ahead(t, u, n, i, Null, k) <=> n = 1 /\ Has(u, k)
<1>1. ~(Has(t, k) /\ Bucket(t, k) > i)
  <2> SUFFICES ASSUME Has(t, k), Bucket(t, k) > i PROVE FALSE
    OBVIOUS
  <2>1. Bucket(t, k) \in 1 .. Len(t) /\ Contains(t[Bucket(t, k)], k) /\ Len(t) \in Nat
    BY HasIff, LenProperties DEF Placed
  <2>2. Bucket(t, k) \in i + 1 .. Len(t)
    BY <2>1
  <2> QED
    BY <2>1, <2>2 DEF Contains
<1> QED
  BY <1>1 DEF Ahead

\* everything is ahead of a walk that begins
LEMMA AllAhead ==
    ASSUME NEW t, Placed(t), NEW u, NEW n, NEW k \in Keys
    PROVE  Ahead(t, u, n, 0, Null, k) <=> Has(t, k) \/ (n = 1 /\ Has(u, k))
<1>1. Has(t, k) => Bucket(t, k) > 0
  BY HasIff
<1> QED
  BY <1>1 DEF Ahead

-----------------------------------------------------------------------------
(* The invariant.                                                          *)

IterOK ==
    /\ iter \in [on : BOOLEAN, table : {1, 2}, index : Nat,
                 entry : Keys \cup {Null}, nextEntry : Keys \cup {Null}]
    /\ iterators = IF iter.on THEN 1 ELSE 0
    /\ ~iter.on => iter = NoIter /\ stay = {} /\ seen = << >>
    /\ stay \subseteq held /\ seen \in Seq(Keys)

\* the walk stands in its table, before the keys that are there since it began
\* and that it has not returned
WalkOK ==
    iter.on =>
        /\ iter.table = 2 => rehashidx # -1
        /\ iter.index \in 0 .. Len(ht[iter.table])
        /\ iter.nextEntry # Null =>
              /\ iter.index > 0 /\ iter.nextEntry # iter.entry
              /\ Contains(ht[iter.table][iter.index], iter.nextEntry)
        /\ \A k \in stay :
              Ahead(ht[iter.table], ht[2], iter.table, iter.index, iter.nextEntry, k)
                 <=> k \notin Range(seen)
        /\ \A i, j \in 1 .. Len(seen) : i < j => seen[i] # seen[j] \/ seen[i] \notin stay

DictInv == DictOK(Now, held) /\ IterOK /\ WalkOK

LEMMA DictIs ==
    ASSUME DictOK(Now, held)
    PROVE  /\ Placed(ht[1]) /\ Placed(ht[2]) /\ held \subseteq Keys
           /\ \A k \in Keys : k \in held <=> Has(ht[1], k) \/ Has(ht[2], k)
           /\ \A k \in Keys : ~(Has(ht[1], k) /\ Has(ht[2], k))
           /\ rehashidx = -1 => ht[2] = << >> /\ \A k \in Keys : ~Has(ht[2], k)
           /\ Now.ht = ht /\ Now.idx = rehashidx
<1>1. Now.ht = ht /\ Now.idx = rehashidx
  BY DEF Now
<1>2. Tables(ht[1], ht[2], rehashidx, held)
  BY <1>1 DEF DictOK
<1> QED
  BY <1>1, <1>2, NoTable DEF Tables

\* the variables are set to a dictionary
LEMMA SetOK ==
    ASSUME NEW d, NEW K, DictOK(d, K), Set(d), held' = K
    PROVE  DictOK(Now, held)' /\ ht' = d.ht /\ rehashidx' = d.idx
<1>1. ht' = d.ht /\ rehashidx' = d.idx
  BY DEF Set
<1>2. Now' = d
  BY <1>1 DEF Now, DictOK, IsDict
<1>3. DictOK(Now', held')
  BY <1>2
<1> QED
  BY <1>1, <1>3

\* a step during a walk that is not one of the iterator
LEMMA WalkKept ==
    ASSUME DictInv, DictOK(Now, held)', NEW Q, Q \subseteq Keys, SameWalk(Now, Now', Q),
           stay' \subseteq Q, stay' \subseteq stay, stay' \subseteq held',
           iter.on => (iter.nextEntry # Null => iter.nextEntry \in Q),
           UNCHANGED <<iterators, iter, seen>>
    PROVE  IterOK' /\ WalkOK'
<1>1. IterOK'
  <2>1. iterators' = iterators /\ iter' = iter /\ seen' = seen
    OBVIOUS
  <2>2. ~iter'.on => stay' = {}
    BY <2>1 DEF DictInv, IterOK
  <2> QED
    BY <2>1, <2>2 DEF DictInv, IterOK
<1>2. ASSUME iter.on PROVE WalkOK'
  <2> DEFINE n == iter.table
             i == iter.index
             next == iter.nextEntry
  <2>1. n \in {1, 2} /\ i \in Nat /\ next \in Keys \cup {Null}
    BY DEF DictInv, IterOK
  <2>2. /\ n = 2 => rehashidx # -1
        /\ i \in 0 .. Len(ht[n])
        /\ next # Null => i > 0 /\ next # iter.entry /\ Contains(ht[n][i], next)
        /\ \A k \in stay : Ahead(ht[n], ht[2], n, i, next, k) <=> k \notin Range(seen)
        /\ \A x, y \in 1 .. Len(seen) : x < y => seen[x] # seen[y] \/ seen[x] \notin stay
    BY <1>2 DEF DictInv, WalkOK
  <2>3. iter' = iter /\ seen' = seen
    OBVIOUS
  <2> HIDE DEF n, i, next
  <2>4. /\ Now.ht = ht /\ Now.idx = rehashidx
        /\ Now'.ht = ht' /\ Now'.idx = rehashidx'
    BY DEF Now
  <2>5. /\ KeptIn(ht[n], ht'[n], Q) /\ (n = 2 => rehashidx' # -1)
        /\ \A x \in Q : Has(ht'[2], x) <=> Has(ht[2], x)
    BY <2>1, <2>2, <2>4 DEF SameWalk
  <2>6. Placed(ht[n]) /\ Placed(ht'[n])
    <3>1. Placed(ht[1]) /\ Placed(ht[2])
      BY DictIs DEF DictInv
    <3>2. Placed(ht'[1]) /\ Placed(ht'[2])
      <4>1. DictOK(Now', held')
        OBVIOUS
      <4>2. Placed(Now'.ht[1]) /\ Placed(Now'.ht[2])
        BY <4>1 DEF DictOK, Tables
      <4> QED
        BY <2>4, <4>2
    <3> QED
      BY <2>1, <3>1, <3>2
  <2>7. Len(ht[n]) \in Nat /\ Len(ht'[n]) \in Nat /\ Len(ht[n]) <= Len(ht'[n])
    BY <2>5, <2>6, LenProperties DEF Placed, KeptIn
  <2>8. i \in 0 .. Len(ht'[n]) /\ (next # Null => i \in 1 .. Len(ht[n]))
    BY <2>1, <2>2, <2>7
  <2>9. next # Null => next \in Q
    BY <1>2 DEF next
  <2>10. PICK t, s, u, w : t = ht[n] /\ s = ht'[n] /\ u = ht[2] /\ w = ht'[2]
    OBVIOUS
  <2>11. /\ next # Null => Contains(s[i], next)
         /\ \A k \in Q : Ahead(s, w, n, i, next, k) <=> Ahead(t, u, n, i, next, k)
    <3>1. Placed(t) /\ Placed(s) /\ KeptIn(t, s, Q) /\ \A x \in Q : Has(w, x) <=> Has(u, x)
      BY <2>5, <2>6, <2>10
    <3>2. next # Null => next \in Q /\ i \in 1 .. Len(t) /\ Contains(t[i], next)
      BY <2>2, <2>8, <2>9, <2>10
    <3> QED
      BY <3>1, <3>2, AheadKept
  <2>12. \A k \in stay' : Ahead(s, w, n, i, next, k) <=> k \notin Range(seen)
    BY <2>2, <2>10, <2>11
  <2>13. \A x, y \in 1 .. Len(seen) : x < y => seen[x] # seen[y] \/ seen[x] \notin stay'
    BY <2>2
  <2> QED
    BY <2>2, <2>3, <2>5, <2>8, <2>10, <2>11, <2>12, <2>13 DEF WalkOK, n, i, next
<1>3. ASSUME ~iter.on PROVE WalkOK'
  BY <1>3 DEF WalkOK
<1> QED
  BY <1>1, <1>2, <1>3

\* from bucket j of table n the walk returns k and saves m, and only k is passed
Reaches(n, j, k, m) ==
    /\ n \in {1, 2} /\ j \in 1 .. Len(ht[n]) /\ k \in Keys
    /\ n = 2 => rehashidx # -1
    /\ m # Null => m \in Keys /\ m # k /\ Contains(ht[n][j], m)
    /\ Ahead(ht[iter.table], ht[2], iter.table, iter.index, iter.nextEntry, k)
    /\ \A x \in Keys : Ahead(ht[n], ht[2], n, j, m, x) <=>
          Ahead(ht[iter.table], ht[2], iter.table, iter.index, iter.nextEntry, x) /\ x # k

Answers(n, j, k, m) ==
    /\ iter' = [on |-> TRUE, table |-> n, index |-> j, entry |-> k, nextEntry |-> m]
    /\ seen' = Append(seen, k)
    /\ UNCHANGED <<ht, rehashidx, iterators, held, stay>>

LEMMA Answered ==
    ASSUME DictInv, iter.on, NEW n, NEW j, NEW k, NEW m, Reaches(n, j, k, m), Answers(n, j, k, m)
    PROVE  DictInv'
<1> USE DEF Reaches, Answers
<1>1. DictOK(Now, held)'
  <2>1. Now' = Now /\ held' = held
    BY DEF Now
  <2> QED
    BY <2>1 DEF DictInv
<1>2. Placed(ht[n]) /\ held \subseteq Keys
  BY DictIs DEF DictInv
<1>3. j \in Nat /\ j > 0 /\ j \in 0 .. Len(ht[n])
  <2>1. Len(ht[n]) \in Nat
    BY <1>2, LenProperties DEF Placed
  <2> QED
    BY <2>1
<1>4. /\ iter' = [on |-> TRUE, table |-> n, index |-> j, entry |-> k, nextEntry |-> m]
      /\ iterators = 1 /\ stay \subseteq held /\ seen \in Seq(Keys)
  BY DEF DictInv, IterOK
<1>5. IterOK'
  <2>1. iter' \in [on : BOOLEAN, table : {1, 2}, index : Nat,
                   entry : Keys \cup {Null}, nextEntry : Keys \cup {Null}]
    <3>1. m \in Keys \cup {Null}
      OBVIOUS
    <3> QED
      BY <1>3, <1>4, <3>1
  <2>2. iter'.on = TRUE
    BY <1>4
  <2>3. seen' \in Seq(Keys)
    BY <1>4
  <2>4. iterators' = 1 /\ stay' \subseteq held'
    BY <1>4
  <2> QED
    BY <2>1, <2>2, <2>3, <2>4 DEF IterOK
<1>6. Len(seen) \in Nat /\ Len(seen') = Len(seen) + 1
      /\ \A x \in 1 .. Len(seen) + 1 : seen'[x] = IF x <= Len(seen) THEN seen[x] ELSE k
  <2>1. Len(seen) \in Nat
    BY <1>4, LenProperties
  <2> QED
    BY <1>4, <2>1, AppendProperties
<1>7. \A x : x \in Range(seen') <=> x \in Range(seen) \/ x = k
  <2>1. DOMAIN seen = 1 .. Len(seen) /\ DOMAIN seen' = 1 .. Len(seen) + 1
    BY <1>4, <1>6, LenProperties
  <2>2. Len(seen) + 1 \in 1 .. Len(seen) + 1 /\ ~(Len(seen) + 1 <= Len(seen))
        /\ \A x : x \in 1 .. Len(seen) + 1 <=> x \in 1 .. Len(seen) \/ x = Len(seen) + 1
    BY <1>6
  <2>3. seen'[Len(seen) + 1] = k /\ \A x \in 1 .. Len(seen) : seen'[x] = seen[x]
    BY <1>6, <2>2
  <2> QED
    BY <2>1, <2>2, <2>3 DEF Range
<1>8. /\ \A x \in stay :
            Ahead(ht[iter.table], ht[2], iter.table, iter.index, iter.nextEntry, x)
               <=> x \notin Range(seen)
      /\ \A x, y \in 1 .. Len(seen) : x < y => seen[x] # seen[y] \/ seen[x] \notin stay
  BY DEF DictInv, WalkOK
<1>9. \A x \in stay : Ahead(ht[n], ht[2], n, j, m, x) <=> x \notin Range(seen')
  BY <1>2, <1>4, <1>7, <1>8
<1>10. k \in stay => k \notin Range(seen)
  BY <1>8
<1>11. ASSUME NEW x \in 1 .. Len(seen'), NEW y \in 1 .. Len(seen'), x < y
       PROVE  seen'[x] # seen'[y] \/ seen'[x] \notin stay
  <2>1. x \in 1 .. Len(seen) /\ seen'[x] = seen[x]
    BY <1>6, <1>11
  <2>2. CASE y <= Len(seen)
    BY <1>6, <1>8, <1>11, <2>1, <2>2
  <2>3. CASE ~(y <= Len(seen))
    <3>1. seen'[y] = k
      BY <1>6, <2>3
    <3>2. seen[x] \in Range(seen)
      <4>1. DOMAIN seen = 1 .. Len(seen)
        BY <1>4, LenProperties
      <4> QED
        BY <2>1, <4>1 DEF Range
    <3> QED
      BY <1>10, <2>1, <3>1, <3>2
  <2> QED
    BY <2>2, <2>3
<1>12. WalkOK'
  <2>1. /\ iter'.table = n /\ iter'.index = j /\ iter'.entry = k /\ iter'.nextEntry = m
        /\ ht' = ht /\ rehashidx' = rehashidx /\ stay' = stay
    BY <1>4
  <2> QED
    BY <1>3, <1>9, <1>11, <2>1 DEF WalkOK
<1> QED
  BY <1>1, <1>5, <1>12 DEF DictInv

LEMMA WalkOff ==
    ASSUME DictInv, ~iter.on, stay' \subseteq stay, UNCHANGED <<iterators, iter, seen>>
    PROVE  IterOK' /\ WalkOK'
<1>1. iterators' = iterators /\ iter' = iter /\ seen' = seen /\ stay' = {}
  BY DEF DictInv, IterOK
<1>2. ~iter'.on /\ {} \subseteq held'
  BY <1>1
<1> QED
  BY <1>1, <1>2 DEF DictInv, IterOK, WalkOK

\* during a walk no step of the rehash is made
LEMMA RehashStepOK ==
    ASSUME DictInv
    PROVE  DictOK(RehashStep(Now), held) /\ (iter.on => RehashStep(Now) = Now)
<1>1. DictOK(Now, held) /\ (iter.on => iterators # 0)
  BY DEF DictInv, IterOK
<1> QED
  BY <1>1, RehashOK DEF RehashStep

LEMMA NextIsKey ==
    ASSUME DictInv, iter.on, iter.nextEntry # Null
    PROVE  /\ iter.table \in {1, 2} /\ iter.index \in 1 .. Len(ht[iter.table])
           /\ iter.nextEntry \in Keys /\ iter.nextEntry # iter.entry
           /\ Contains(ht[iter.table][iter.index], iter.nextEntry)
           /\ Has(ht[iter.table], iter.nextEntry) /\ iter.nextEntry \in held
<1>1. /\ iter.table \in {1, 2} /\ iter.nextEntry \in Keys /\ iter.nextEntry # iter.entry
      /\ iter.index > 0 /\ iter.index \in 0 .. Len(ht[iter.table])
      /\ Contains(ht[iter.table][iter.index], iter.nextEntry)
  BY DEF DictInv, IterOK, WalkOK
<1>2. Placed(ht[1]) /\ Placed(ht[2]) /\ \A k \in Keys : k \in held <=> Has(ht[1], k) \/ Has(ht[2], k)
  BY DictIs DEF DictInv
<1>3. Placed(ht[iter.table])
  BY <1>1, <1>2
<1>4. iter.index \in 1 .. Len(ht[iter.table])
  <2>1. Len(ht[iter.table]) \in Nat
    BY <1>3, LenProperties DEF Placed
  <2> QED
    BY <1>1, <2>1
<1>5. Has(ht[iter.table], iter.nextEntry)
  BY <1>1, <1>3, <1>4, HasIff
<1>6. iter.nextEntry \in held
  BY <1>1, <1>2, <1>5
<1> QED
  BY <1>1, <1>4, <1>5, <1>6

LEMMA DictAddOK ==
    ASSUME DictInv, NEW k \in Keys, DictAdd(k)
    PROVE  DictInv'
<1>1. PICK d : d = With(ExpandIfNeeded(RehashStep(Now)), k)
  OBVIOUS
<1>2. Set(d) /\ held' = held \cup {k} /\ UNCHANGED <<iterators, iter, stay, seen>>
  BY <1>1 DEF DictAdd
<1>3. DictOK(d, held \cup {k})
  BY <1>1, RehashStepOK, ExpandIfNeededOK, ExpandedTable, WithOK
<1>4. DictOK(Now, held)' /\ Now' = d
  <2>1. DictOK(Now, held)' /\ ht' = d.ht /\ rehashidx' = d.idx
    BY <1>2, <1>3, SetOK
  <2>2. Now' = d
    BY <1>3, <2>1 DEF Now, DictOK, IsDict
  <2> QED
    BY <2>1, <2>2
<1>5. CASE ~iter.on
  BY <1>2, <1>4, <1>5, WalkOff DEF DictInv
<1>6. CASE iter.on
  <2>1. DictOK(Now, held) /\ held \subseteq Keys /\ stay \subseteq held
    BY DictIs DEF DictInv, IterOK
  <2>2. SameWalk(Now, Now', held)
    <3>1. d = With(ExpandIfNeeded(Now), k)
      BY <1>1, <1>6, RehashStepOK
    <3>2. SameWalk(Now, With(ExpandIfNeeded(Now), k), held)
      <4>1. held \subseteq held
        OBVIOUS
      <4> QED
        BY <2>1, <4>1, AddKept
    <3> QED
      BY <1>4, <3>1, <3>2
  <2>3. iter.nextEntry # Null => iter.nextEntry \in held
    BY <1>6, NextIsKey
  <2>4. stay' \subseteq held /\ stay' \subseteq stay /\ stay' \subseteq held'
    BY <1>2, <2>1
  <2>5. IterOK' /\ WalkOK'
    BY <1>2, <1>4, <2>1, <2>2, <2>3, <2>4, WalkKept
  <2> QED
    BY <1>4, <2>5 DEF DictInv
<1> QED
  BY <1>5, <1>6

LEMMA DictDeleteOK ==
    ASSUME DictInv, NEW k \in Keys, DictDelete(k)
    PROVE  DictInv'
<1>1. PICK e, d : /\ e = IF Used(ht[1]) = 0 /\ Used(ht[2]) = 0 THEN Now ELSE RehashStep(Now)
                  /\ d = Without(e, k)
  OBVIOUS
<1>2. /\ Set(d) /\ held' = held \ {k} /\ stay' = stay \ {k}
      /\ UNCHANGED <<iterators, iter, seen>> /\ (iter.on => k = iter.entry)
  BY <1>1 DEF DictDelete
<1>3. DictOK(e, held) /\ (iter.on => e = Now)
  BY <1>1, RehashStepOK DEF DictInv
<1>4. DictOK(d, held \ {k})
  BY <1>1, <1>3, WithoutOK
<1>5. DictOK(Now, held)' /\ Now' = d
  <2>1. DictOK(Now, held)' /\ ht' = d.ht /\ rehashidx' = d.idx
    BY <1>2, <1>4, SetOK
  <2>2. Now' = d
    BY <1>4, <2>1 DEF Now, DictOK, IsDict
  <2> QED
    BY <2>1, <2>2
<1>6. CASE ~iter.on
  BY <1>2, <1>5, <1>6, WalkOff DEF DictInv
<1>7. CASE iter.on
  <2> DEFINE Q == Keys \ {k}
  <2>1. held \subseteq Keys /\ stay \subseteq held
    BY DictIs DEF DictInv, IterOK
  <2>2. SameWalk(Now, Now', Q)
    <3>1. SameWalk(e, Without(e, k), Q)
      BY <1>3, WithoutKept
    <3> QED
      BY <1>1, <1>3, <1>5, <1>7, <3>1
  <2>3. iter.nextEntry # Null => iter.nextEntry \in Q
    BY <1>2, <1>7, NextIsKey
  <2>4. stay' \subseteq Q /\ stay' \subseteq stay /\ stay' \subseteq held' /\ Q \subseteq Keys
    BY <1>2, <2>1
  <2> HIDE DEF Q
  <2>5. IterOK' /\ WalkOK'
    BY <1>2, <1>5, <2>2, <2>3, <2>4, WalkKept
  <2> QED
    BY <1>5, <2>5 DEF DictInv
<1> QED
  BY <1>6, <1>7

LEMMA DictFindOK ==
    ASSUME DictInv, DictFind
    PROVE  DictInv'
<1>1. PICK d : d = RehashStep(Now)
  OBVIOUS
<1>2. Set(d) /\ held' = held /\ UNCHANGED <<iterators, iter, stay, seen>>
  BY <1>1 DEF DictFind
<1>3. DictOK(d, held) /\ (iter.on => d = Now)
  BY <1>1, RehashStepOK
<1>4. DictOK(Now, held)' /\ ht' = d.ht /\ rehashidx' = d.idx
  BY <1>2, <1>3, SetOK
<1>5. CASE ~iter.on
  BY <1>2, <1>4, <1>5, WalkOff DEF DictInv
<1>6. CASE iter.on
  <2>1. Now' = Now
    BY <1>3, <1>4, <1>6 DEF Now
  <2>2. DictOK(Now, held) /\ held \subseteq Keys /\ stay \subseteq held
    BY DictIs DEF DictInv, IterOK
  <2>3. SameWalk(Now, Now', held)
    BY <2>1, <2>2, SameDict
  <2>4. iter.nextEntry # Null => iter.nextEntry \in held
    BY <1>6, NextIsKey
  <2>5. stay' \subseteq held /\ stay' \subseteq stay /\ stay' \subseteq held'
    BY <1>2, <2>2
  <2>6. IterOK' /\ WalkOK'
    BY <1>2, <1>4, <2>2, <2>3, <2>4, <2>5, WalkKept
  <2> QED
    BY <1>4, <2>6 DEF DictInv
<1> QED
  BY <1>5, <1>6

LEMMA NothingHeld == DictOK([ht |-> <<<< >>, << >>>>, idx |-> -1], {})
<1>1. Tables(<< >>, << >>, -1, {})
  BY NoTable DEF Tables
<1>2. IsDict([ht |-> <<<< >>, << >>>>, idx |-> -1], << >>, << >>, -1)
  BY DEF IsDict
<1> QED
  BY <1>1, <1>2, DictOf

LEMMA DictEmptyOK ==
    ASSUME DictInv, DictEmpty
    PROVE  DictInv'
<1>1. /\ ~iter.on /\ ht' = <<<< >>, << >>>> /\ rehashidx' = -1 /\ iterators' = 0 /\ held' = {}
      /\ UNCHANGED <<iter, stay, seen>>
  BY DEF DictEmpty
<1>2. Now' = [ht |-> <<<< >>, << >>>>, idx |-> -1]
  BY <1>1 DEF Now
<1>3. DictOK(Now, held)'
  <2>1. DictOK(Now', held')
    BY <1>1, <1>2, NothingHeld
  <2> QED
    BY <2>1
<1>4. iterators' = iterators
  BY <1>1 DEF DictInv, IterOK
<1> QED
  BY <1>1, <1>3, <1>4, WalkOff DEF DictInv

LEMMA IterBeginOK ==
    ASSUME DictInv, IterBegin
    PROVE  DictInv'
<1>1. /\ ~iter.on /\ iterators' = iterators + 1 /\ stay' = held /\ seen' = << >>
      /\ iter' = [NoIter EXCEPT !.on = TRUE]
      /\ ht' = ht /\ rehashidx' = rehashidx /\ held' = held
  BY DEF IterBegin
<1>2. DictOK(Now, held)'
  <2>1. Now' = Now
    BY <1>1 DEF Now
  <2> QED
    BY <1>1, <2>1 DEF DictInv
<1>3. iter' = [on |-> TRUE, table |-> 1, index |-> 0, entry |-> Null, nextEntry |-> Null]
  BY <1>1 DEF NoIter
<1>4. iterators' = 1
  BY <1>1 DEF DictInv, IterOK
<1>5. /\ Placed(ht[1]) /\ Placed(ht[2]) /\ held \subseteq Keys
      /\ \A k \in Keys : k \in held <=> Has(ht[1], k) \/ Has(ht[2], k)
  BY DictIs DEF DictInv
<1>6. IterOK'
  <2>1. iter' \in [on : BOOLEAN, table : {1, 2}, index : Nat,
                   entry : Keys \cup {Null}, nextEntry : Keys \cup {Null}]
    BY <1>3
  <2>2. iter'.on /\ seen' \in Seq(Keys)
    BY <1>1, <1>3
  <2> QED
    BY <1>1, <1>4, <2>1, <2>2 DEF IterOK
<1>7. \A k \in held : Ahead(ht[1], ht[2], 1, 0, Null, k)
  BY <1>5, AllAhead
<1>8. Range(<< >>) = {} /\ Len(<< >>) = 0 /\ 0 \in 0 .. Len(ht[1])
  <2>1. Len(ht[1]) \in Nat
    BY <1>5, LenProperties DEF Placed
  <2> QED
    BY <2>1 DEF Range
<1>9. WalkOK'
  <2>1. /\ iter'.table = 1 /\ iter'.index = 0 /\ iter'.nextEntry = Null
        /\ 1 .. Len(seen') = {} /\ \A k : k \notin Range(seen')
    BY <1>1, <1>3, <1>8
  <2> QED
    BY <1>1, <1>7, <1>8, <2>1 DEF WalkOK
<1> QED
  BY <1>2, <1>6, <1>9 DEF DictInv

LEMMA IterSavedOK ==
    ASSUME DictInv, IterSaved
    PROVE  DictInv'
<1> DEFINE n == iter.table
           i == iter.index
           k == iter.nextEntry
           m == After(ht[n][i], k)
<1>1. /\ iter.on /\ k # Null /\ iter' = [iter EXCEPT !.entry = k, !.nextEntry = m]
      /\ seen' = Append(seen, k) /\ UNCHANGED <<ht, rehashidx, iterators, held, stay>>
  BY DEF IterSaved
<1>2. iter' = [on |-> TRUE, table |-> n, index |-> i, entry |-> k, nextEntry |-> m]
  <2>1. /\ iter \in [on : BOOLEAN, table : {1, 2}, index : Nat,
                     entry : Keys \cup {Null}, nextEntry : Keys \cup {Null}]
    BY DEF DictInv, IterOK
  <2> HIDE DEF m
  <2> QED
    BY <1>1, <2>1
<1>3. /\ n \in {1, 2} /\ i \in 1 .. Len(ht[n]) /\ k \in Keys /\ Contains(ht[n][i], k)
      /\ Has(ht[n], k)
  BY <1>1, NextIsKey
<1>4. n = 2 => rehashidx # -1
  BY <1>1 DEF DictInv, WalkOK
<1>5. /\ Placed(ht[1]) /\ Placed(ht[2])
      /\ \A x \in Keys : ~(Has(ht[1], x) /\ Has(ht[2], x))
  BY DictIs DEF DictInv
<1>6. Passed(ht[n], ht[2], n, i, k, m)
  <2> HIDE DEF n, i, k
  <2>1. PICK t, u : t = ht[n] /\ u = ht[2]
    OBVIOUS
  <2>2. Placed(t) /\ i \in 1 .. Len(t) /\ Contains(t[i], k) /\ (n = 1 => ~Has(u, k)) /\ m = After(t[i], k)
    BY <1>3, <1>5, <2>1
  <2> HIDE DEF m
  <2>3. Passed(t, u, n, i, k, m)
    BY <1>3, <2>2, AheadSaved
  <2> QED
    BY <2>1, <2>3
<1> HIDE DEF m
<1>7. /\ m # Null => m \in Keys /\ m # k /\ Contains(ht[n][i], m)
      /\ Ahead(ht[n], ht[2], n, i, k, k)
      /\ \A x \in Keys : Ahead(ht[n], ht[2], n, i, m, x) <=> Ahead(ht[n], ht[2], n, i, k, x) /\ x # k
  BY <1>6 DEF Passed
<1>8. Reaches(n, i, k, m)
  BY <1>3, <1>4, <1>7 DEF Reaches
<1>9. Answers(n, i, k, m)
  BY <1>1, <1>2 DEF Answers
<1> HIDE DEF n, i, k
<1> QED
  BY <1>1, <1>8, <1>9, Answered

\* where the walk goes on: j is the first chain of table n that is not empty
\* from bucket b on
FirstChain(n, b, j) ==
    /\ j \in b .. Len(ht[n]) /\ ht[n][j] # << >>
    /\ \A i \in b .. Len(ht[n]) : ht[n][i] # << >> => j <= i

LEMMA FromIs ==
    ASSUME NEW n, NEW b \in Nat
    PROVE  /\ From(n, b) # {} => FirstChain(n, b, Min(From(n, b)))
           /\ From(n, b) = {} => \A i \in b .. Len(ht[n]) : ht[n][i] = << >>
<1>1. From(n, b) = {i \in b .. Len(ht[n]) : ht[n][i] # << >>}
  BY DEF From, Size
<1>2. From(n, b) \subseteq Nat
  BY <1>1
<1>3. ASSUME From(n, b) # {} PROVE FirstChain(n, b, Min(From(n, b)))
  <2>1. Min(From(n, b)) \in From(n, b) /\ \A x \in From(n, b) : Min(From(n, b)) <= x
    BY <1>2, <1>3, FirstOf
  <2> QED
    BY <1>1, <2>1 DEF FirstChain
<1> QED
  BY <1>1, <1>3

LEMMA RestIs ==
    ASSUME DictInv, iter.on
    PROVE  \/ \E j : Rest = <<iter.table, j>> /\ FirstChain(iter.table, iter.index + 1, j)
           \/ \E j : /\ Rest = <<2, j>> /\ FirstChain(2, 1, j)
                     /\ iter.table = 1 /\ rehashidx # -1
                     /\ \A i \in iter.index + 1 .. Len(ht[1]) : ht[1][i] = << >>
           \/ /\ Rest = <<0, 0>>
              /\ \A i \in iter.index + 1 .. Len(ht[iter.table]) : ht[iter.table][i] = << >>
              /\ iter.table = 1 /\ rehashidx # -1 => \A i \in 1 .. Len(ht[2]) : ht[2][i] = << >>
<1>1. iter.index + 1 \in Nat /\ 1 \in Nat
  BY DEF DictInv, IterOK
<1> DEFINE here == From(iter.table, iter.index + 1)
           there == IF iter.table = 1 /\ rehashidx # -1 THEN From(2, 1) ELSE {}
<1>2. Rest = IF here # {} THEN <<iter.table, Min(here)>>
             ELSE IF there # {} THEN <<2, Min(there)>> ELSE <<0, 0>>
  BY DEF Rest
<1>3. /\ here # {} => FirstChain(iter.table, iter.index + 1, Min(here))
      /\ here = {} => \A i \in iter.index + 1 .. Len(ht[iter.table]) : ht[iter.table][i] = << >>
  BY <1>1, FromIs
<1>4. /\ there # {} => /\ iter.table = 1 /\ rehashidx # -1 /\ FirstChain(2, 1, Min(there))
      /\ there = {} /\ iter.table = 1 /\ rehashidx # -1 =>
            \A i \in 1 .. Len(ht[2]) : ht[2][i] = << >>
  BY <1>1, FromIs
<1> HIDE DEF here, there
<1>5. CASE here # {}
  BY <1>2, <1>3, <1>5
<1>6. CASE here = {} /\ there # {}
  BY <1>2, <1>3, <1>4, <1>6
<1>7. CASE here = {} /\ there = {}
  BY <1>2, <1>3, <1>4, <1>7
<1> QED
  BY <1>5, <1>6, <1>7

LEMMA IterChainOK ==
    ASSUME DictInv, IterChain
    PROVE  DictInv'
<1>1. PICK n, j, e, m : n = Rest[1] /\ j = Rest[2] /\ e = ht[n][j][1] /\ m = After(ht[n][j], e)
  OBVIOUS
<1>2. /\ iter.on /\ iter.nextEntry = Null /\ n # 0
      /\ iter' = [iter EXCEPT !.table = n, !.index = j, !.entry = e, !.nextEntry = m]
      /\ seen' = Append(seen, e) /\ UNCHANGED <<ht, rehashidx, iterators, held, stay>>
  BY <1>1 DEF IterChain
<1>3. /\ iter \in [on : BOOLEAN, table : {1, 2}, index : Nat,
                   entry : Keys \cup {Null}, nextEntry : Keys \cup {Null}]
      /\ iter.table \in {1, 2} /\ iter.index \in Nat
  BY DEF DictInv, IterOK
<1>4. Answers(n, j, e, m)
  <2>1. iter' = [on |-> TRUE, table |-> n, index |-> j, entry |-> e, nextEntry |-> m]
    BY <1>2, <1>3
  <2> QED
    BY <1>2, <2>1 DEF Answers
<1>5. /\ Placed(ht[1]) /\ Placed(ht[2])
      /\ \A x \in Keys : ~(Has(ht[1], x) /\ Has(ht[2], x))
  BY DictIs DEF DictInv
<1>6. iter.index \in 0 .. Len(ht[iter.table]) /\ (iter.table = 2 => rehashidx # -1)
  BY <1>2 DEF DictInv, WalkOK
<1>7. CASE Rest = <<iter.table, j>> /\ FirstChain(iter.table, iter.index + 1, j)
  <2>1. n = iter.table
    BY <1>1, <1>7
  <2>2. PICK t, u, i : t = ht[n] /\ u = ht[2] /\ i = iter.index
    OBVIOUS
  <2>3. /\ Placed(t) /\ i \in 0 .. Len(t) /\ e = t[j][1] /\ m = After(t[j], e)
        /\ j \in i + 1 .. Len(t) /\ t[j] # << >>
        /\ \A b \in i + 1 .. Len(t) : t[b] # << >> => j <= b
        /\ \A x \in Keys : n = 1 => ~(Has(t, x) /\ Has(u, x))
    BY <1>1, <1>3, <1>5, <1>6, <1>7, <2>1, <2>2 DEF FirstChain
  <2>4. /\ e \in Keys /\ j \in 1 .. Len(t)
        /\ m # Null => m \in Keys /\ m # e /\ Contains(t[j], m)
        /\ Ahead(t, u, n, i, Null, e)
        /\ \A x \in Keys : Ahead(t, u, n, j, m, x) <=> Ahead(t, u, n, i, Null, x) /\ x # e
    <3>1. Entered(t, u, n, i, j, e, m)
      BY <2>3, AheadChain
    <3> QED
      BY <3>1 DEF Entered
  <2>5. Reaches(n, j, e, m)
    BY <1>2, <1>3, <1>6, <2>1, <2>2, <2>4 DEF Reaches
  <2> QED
    BY <1>2, <1>4, <2>5, Answered
<1>8. CASE /\ Rest = <<2, j>> /\ FirstChain(2, 1, j) /\ iter.table = 1 /\ rehashidx # -1
           /\ \A i \in iter.index + 1 .. Len(ht[1]) : ht[1][i] = << >>
  <2>1. n = 2
    BY <1>1, <1>8
  <2>2. PICK t, u, i : t = ht[1] /\ u = ht[2] /\ i = iter.index
    OBVIOUS
  <2>3. /\ Placed(u) /\ 0 \in 0 .. Len(u) /\ e = u[j][1] /\ m = After(u[j], e)
        /\ j \in 0 + 1 .. Len(u) /\ u[j] # << >>
        /\ \A b \in 0 + 1 .. Len(u) : u[b] # << >> => j <= b
    <3>1. 0 \in 0 .. Len(u) /\ 0 + 1 = 1
      BY <1>5, <2>2, LenProperties DEF Placed
    <3> QED
      BY <1>1, <1>5, <1>8, <2>1, <2>2, <3>1 DEF FirstChain
  <2>4. /\ e \in Keys /\ j \in 1 .. Len(u)
        /\ m # Null => m \in Keys /\ m # e /\ Contains(u[j], m)
        /\ Ahead(u, u, 2, 0, Null, e)
        /\ \A x \in Keys : Ahead(u, u, 2, j, m, x) <=> Ahead(u, u, 2, 0, Null, x) /\ x # e
    <3>1. \A x \in Keys : 2 = 1 => ~(Has(u, x) /\ Has(u, x))
      OBVIOUS
    <3>2. Entered(u, u, 2, 0, j, e, m)
      BY <2>3, <3>1, AheadChain
    <3> QED
      BY <3>2 DEF Entered
  <2>5. \A x \in Keys : Ahead(u, u, 2, 0, Null, x) <=> Ahead(t, u, 1, i, Null, x)
    <3>1. \A x \in Keys : Ahead(u, u, 2, 0, Null, x) <=> Has(u, x)
      BY <1>5, <2>2, AllAhead
    <3>2. \A x \in Keys : Ahead(t, u, 1, i, Null, x) <=> Has(u, x)
      <4>1. Placed(t) /\ i \in 0 .. Len(t) /\ \A b \in i + 1 .. Len(t) : t[b] = << >>
        BY <1>5, <1>6, <1>8, <2>2
      <4> QED
        BY <4>1, NothingAhead
    <3> QED
      BY <3>1, <3>2
  <2>6. Reaches(n, j, e, m)
    BY <1>2, <1>8, <2>1, <2>2, <2>4, <2>5 DEF Reaches
  <2> QED
    BY <1>2, <1>4, <2>6, Answered
<1>9. Rest # <<0, 0>>
  BY <1>1, <1>2
<1> QED
  <2>1. \A a, b : Rest = <<a, b>> => b = j
    BY <1>1
  <2> QED
    BY <1>2, <1>7, <1>8, <1>9, <2>1, RestIs

LEMMA IterEndOK ==
    ASSUME DictInv, IterEnd
    PROVE  DictInv'
<1>1. /\ iter.on /\ iter.nextEntry = Null /\ Rest[1] = 0
      /\ iter' = NoIter /\ iterators' = iterators - 1
      /\ stay' = stay \ Range(seen) /\ seen' = << >>
      /\ ht' = ht /\ rehashidx' = rehashidx /\ held' = held
  BY DEF IterEnd
<1>2. DictOK(Now, held)'
  <2>1. Now' = Now
    BY <1>1 DEF Now
  <2> QED
    BY <1>1, <2>1 DEF DictInv
<1>3. iter.table \in {1, 2} /\ iterators = 1 /\ stay \subseteq held
  BY <1>1 DEF DictInv, IterOK
<1>4. iter.index \in 0 .. Len(ht[iter.table]) /\ (iter.table = 2 => rehashidx # -1)
  BY <1>1 DEF DictInv, WalkOK
<1>5. /\ Placed(ht[1]) /\ Placed(ht[2]) /\ held \subseteq Keys
      /\ rehashidx = -1 => \A k \in Keys : ~Has(ht[2], k)
  BY DictIs DEF DictInv
<1>6. /\ \A i \in iter.index + 1 .. Len(ht[iter.table]) : ht[iter.table][i] = << >>
      /\ iter.table = 1 /\ rehashidx # -1 => \A i \in 1 .. Len(ht[2]) : ht[2][i] = << >>
  <2>1. \A a, b : Rest = <<a, b>> => a = 0
    BY <1>1
  <2>2. 2 # 0 /\ iter.table # 0
    BY <1>3
  <2> QED
    BY <1>1, <2>1, <2>2, RestIs
<1>7. ASSUME NEW k \in stay PROVE k \in Range(seen)
  <2>1. k \in Keys
    BY <1>3, <1>5
  <2>2. iter.table = 1 => ~Has(ht[2], k)
    <3>1. CASE rehashidx = -1
      BY <1>5, <2>1, <3>1
    <3>2. CASE iter.table = 1 /\ rehashidx # -1
      <4>1. Has(ht[2], k) => Contains(<< >>, k)
        BY <1>5, <1>6, <2>1, <3>2, HasIff
      <4> QED
        BY <4>1 DEF Contains
    <3> QED
      BY <3>1, <3>2
  <2>3. ~Ahead(ht[iter.table], ht[2], iter.table, iter.index, Null, k)
    <3>1. PICK t, n, i, u : t = ht[iter.table] /\ n = iter.table /\ i = iter.index /\ u = ht[2]
      OBVIOUS
    <3>2. Placed(t) /\ i \in 0 .. Len(t) /\ \A b \in i + 1 .. Len(t) : t[b] = << >>
      BY <1>3, <1>4, <1>5, <1>6, <3>1
    <3>3. Ahead(t, u, n, i, Null, k) <=> n = 1 /\ Has(u, k)
      BY <2>1, <3>2, NothingAhead
    <3> QED
      BY <2>2, <3>1, <3>3
  <2>4. Ahead(ht[iter.table], ht[2], iter.table, iter.index, iter.nextEntry, k) <=> k \notin Range(seen)
    BY <1>1, <1>7 DEF DictInv, WalkOK
  <2> QED
    BY <1>1, <2>3, <2>4
<1>8. stay' = {}
  BY <1>1, <1>7
<1>9. IterOK'
  <2>1. NoIter \in [on : BOOLEAN, table : {1, 2}, index : Nat,
                    entry : Keys \cup {Null}, nextEntry : Keys \cup {Null}] /\ ~NoIter.on
    BY DEF NoIter
  <2>2. iterators' = 0
    BY <1>1, <1>3
  <2>3. << >> \in Seq(Keys)
    OBVIOUS
  <2> QED
    BY <1>1, <1>8, <2>1, <2>2, <2>3 DEF IterOK
<1>10. WalkOK'
  <2>1. ~iter'.on
    BY <1>1 DEF NoIter
  <2> QED
    BY <2>1 DEF WalkOK
<1> QED
  BY <1>2, <1>9, <1>10 DEF DictInv

LEMMA DictInvariant == DictSpec => []DictInv
<1>1. DictInit => DictInv
  <2> SUFFICES ASSUME DictInit PROVE DictInv
    OBVIOUS
  <2>1. DictOK(Now, held)
    <3>1. Now = [ht |-> <<<< >>, << >>>>, idx |-> -1] /\ held = {}
      BY DEF DictInit, Now
    <3> QED
      BY <3>1, NothingHeld
  <2>2. IterOK
    BY DEF DictInit, IterOK, NoIter
  <2>3. WalkOK
    BY DEF DictInit, WalkOK, NoIter
  <2> QED
    BY <2>1, <2>2, <2>3 DEF DictInv
<1>2. DictInv /\ [DictNext]_dictvars => DictInv'
  <2> SUFFICES ASSUME DictInv, [DictNext]_dictvars PROVE DictInv'
    OBVIOUS
  <2>1. CASE UNCHANGED dictvars
    <3>1. /\ ht' = ht /\ rehashidx' = rehashidx /\ iterators' = iterators /\ iter' = iter
          /\ held' = held /\ stay' = stay /\ seen' = seen
      BY <2>1 DEF dictvars
    <3>2. DictOK(Now, held)' /\ IterOK' /\ WalkOK'
      <4>1. Now' = Now
        BY <3>1 DEF Now
      <4>2. DictOK(Now, held)'
        BY <3>1, <4>1 DEF DictInv
      <4>3. IterOK'
        BY <3>1 DEF DictInv, IterOK
      <4>4. WalkOK'
        BY <3>1 DEF DictInv, WalkOK
      <4> QED
        BY <4>2, <4>3, <4>4
    <3> QED
      BY <3>2 DEF DictInv
  <2>2. ASSUME NEW k \in Keys, DictAdd(k) PROVE DictInv'
    BY <2>2, DictAddOK
  <2>3. ASSUME NEW k \in Keys, DictDelete(k) PROVE DictInv'
    BY <2>3, DictDeleteOK
  <2>4. CASE DictFind
    BY <2>4, DictFindOK
  <2>5. CASE DictEmpty
    BY <2>5, DictEmptyOK
  <2>6. CASE IterBegin
    BY <2>6, IterBeginOK
  <2>7. CASE IterSaved
    BY <2>7, IterSavedOK
  <2>8. CASE IterChain
    BY <2>8, IterChainOK
  <2>9. CASE IterEnd
    BY <2>9, IterEndOK
  <2> QED
    BY <2>1, <2>2, <2>3, <2>4, <2>5, <2>6, <2>7, <2>8, <2>9, Zenon DEF DictNext
<1> QED
  BY <1>1, <1>2, PTL DEF DictSpec

LEMMA DictInvFaithful ==
    ASSUME DictInv
    PROVE  DictFaithful
<1>1. /\ Placed(ht[1]) /\ Placed(ht[2]) /\ held \subseteq Keys
      /\ \A k \in Keys : k \in held <=> Has(ht[1], k) \/ Has(ht[2], k)
      /\ \A k \in Keys : ~(Has(ht[1], k) /\ Has(ht[2], k))
      /\ rehashidx = -1 => ht[2] = << >>
  BY DictIs DEF DictInv
<1>2. \A k \in Keys : Lookup(Now, k) <=> k \in held
  BY LookupIs DEF DictInv
<1>3. Used(ht[1]) + Used(ht[2]) = Cardinality(held)
  <2> DEFINE A == KeysOf(ht[1])
             B == KeysOf(ht[2])
  <2>1. IsFiniteSet(A) /\ Used(ht[1]) = Cardinality(A) /\ IsFiniteSet(B) /\ Used(ht[2]) = Cardinality(B)
    BY <1>1, UsedIs
  <2>2. held = A \cup B /\ A \cap B = {}
    BY <1>1 DEF KeysOf
  <2> HIDE DEF A, B
  <2>3. Cardinality(A \cup B) = Cardinality(A) + Cardinality(B) - Cardinality(A \cap B)
    BY <2>1, FS_Union
  <2>4. Cardinality(A \cap B) = 0 /\ Cardinality(A) \in Nat /\ Cardinality(B) \in Nat
    BY <2>1, <2>2, FS_EmptySet, FS_CardinalityType
  <2>5. Cardinality(held) = Cardinality(A \cup B)
    BY <2>2
  <2> QED
    BY <2>1, <2>3, <2>4, <2>5
<1>4. FoundIfThere
  BY <1>1, <1>2, <1>3 DEF FoundIfThere
<1>5. CASE iter.on
  <2>1. iterators = 1 /\ seen \in Seq(Keys)
    BY <1>5 DEF DictInv, IterOK
  <2>2. DOMAIN seen = 1 .. Len(seen)
    BY <2>1, LenProperties
  <2>3. \A i, j \in 1 .. Len(seen) : i < j => seen[i] # seen[j] \/ seen[i] \notin stay
    BY <1>5 DEF DictInv, WalkOK
  <2>4. iter.nextEntry # Null => Lookup(Now, iter.nextEntry)
    BY <1>2, <1>5, NextIsKey
  <2> QED
    BY <1>4, <1>5, <2>1, <2>2, <2>3, <2>4 DEF DictFaithful, WalkComplete
<1>6. CASE ~iter.on
  <2>1. iter = NoIter /\ stay = {} /\ seen = << >>
    BY <1>6 DEF DictInv, IterOK
  <2>2. iter.nextEntry = Null
    BY <2>1 DEF NoIter
  <2> QED
    BY <1>4, <1>6, <2>1, <2>2 DEF DictFaithful, WalkComplete
<1> QED
  BY <1>5, <1>6

(* However keys are added and deleted while a table is rehashed step by step, *)
(* each is found exactly while it is there and the sizes count them, and a    *)
(* walk meets every key that stays, none twice and none that has been freed   *)
(* (dictFind, dictAddRaw, dictGenericDelete, dictRehash, dictNext).           *)
THEOREM DictionaryFaithful == DictSpec => []DictFaithful
<1>1. DictInv => DictFaithful
  BY DictInvFaithful
<1> QED
  BY <1>1, DictInvariant, PTL
===============================================================================
