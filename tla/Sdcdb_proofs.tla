---------------------------- MODULE Sdcdb_proofs ----------------------------
(***************************************************************************)
(* Theorems about Sdcdb, for any keys, connections and dates, any sizes of *)
(* blocks and any number of publications, starts and crashes.              *)
(***************************************************************************)
EXTENDS Sdcdb, SequenceTheorems, WellFoundedInduction, TLAPS

\* the least number of a set: what induction over records and blocks rests on
LEMMA LeastNumber ==
    ASSUME NEW T, T \subseteq Nat, T # {}
    PROVE  \E x \in T : \A y \in T : x <= y
<1>1. PICK x \in T : \A y \in T : ~ (<<y, x>> \in OpToRel(<, Nat))
  BY WFMin, NatLessThanWellFounded
<1>2. ASSUME NEW y \in T PROVE x <= y
  <2>1. y < x => <<y, x>> \in OpToRel(<, Nat)
    BY DEF OpToRel
  <2>2. x \in Nat /\ y \in Nat /\ ~(y < x)
    BY <1>1, <2>1
  <2> QED
    BY <2>2
<1> QED
  BY <1>2

\* what holds of the first number of a range and passes from one to the next holds of all
LEMMA AllSteps ==
    ASSUME NEW a \in Nat, NEW b \in Nat, NEW S, a \in S,
           \A k \in a .. b : k # b /\ k \in S => k + 1 \in S
    PROVE  \A k \in a .. b : k \in S
<1> DEFINE T == {k \in a .. b : k \notin S}
<1>1. ASSUME T # {} PROVE FALSE
  <2>1. PICK n \in T : \A k \in T : n <= k
    <3>1. T \subseteq Nat
      OBVIOUS
    <3> HIDE DEF T
    <3> QED
      BY <1>1, <3>1, LeastNumber
  <2>2. n \in a .. b /\ n # a /\ n \notin S
    BY <2>1
  <2>3. n - 1 \in a .. b /\ n - 1 # b /\ ~(n <= n - 1) /\ (n - 1) + 1 = n
    BY <2>2
  <2>4. n - 1 \in S
    BY <2>1, <2>3
  <2> QED
    BY <2>2, <2>3, <2>4
<1> QED
  BY <1>1

-----------------------------------------------------------------------------
(* Sdcdb: blocks of records and memories of previous records.  P stands for *)
(* pubs, l for a list of blocks.                                            *)

Memory == [Names -> Nat]
Record == [zip : BOOLEAN, base : Nat, val : Nat]
Block  == [init : BOOLEAN, recs : Seq(Record)]

\* ms takes one who writes the values vals from m to n
Remembers(P, vals, m, ms) ==
    /\ ms \in [0 .. Len(vals) -> Memory] /\ ms[0] = m
    /\ \A i \in 1 .. Len(vals) : ms[i] = [ms[i - 1] EXCEPT ![P[vals[i]]] = vals[i]]
RecOf(P, m, v) == [zip |-> m[P[v]] # None, base |-> m[P[v]], val |-> v]
Vals(recs) == [i \in 1 .. Len(recs) |-> recs[i].val]

\* recs are what one writes whose memory is m before and n after it
Follows(P, recs, m, n) ==
    /\ recs \in Seq(Record) /\ \A i \in 1 .. Len(recs) : recs[i].val \in 1 .. Len(P)
    /\ \E ms : /\ Remembers(P, Vals(recs), m, ms) /\ ms[Len(recs)] = n
              /\ \A i \in 1 .. Len(recs) : recs[i] = RecOf(P, ms[i - 1], recs[i].val)

\* the values of a block's records
LEMMA ValsAre ==
    ASSUME NEW recs \in Seq(Record)
    PROVE  /\ Vals(recs) \in Seq(Nat) /\ Len(Vals(recs)) = Len(recs) /\ Len(recs) \in Nat
           /\ \A i \in 1 .. Len(recs) : Vals(recs)[i] = recs[i].val /\ recs[i] \in Record
<1>1. Len(recs) \in Nat /\ \A i \in 1 .. Len(recs) : recs[i] \in Record
  BY ElementOfSeq, LenProperties
<1>2. \A i \in 1 .. Len(recs) : recs[i].val \in Nat
  BY <1>1 DEF Record
<1> QED
  BY <1>1, <1>2 DEF Vals

\* the memories that one has who writes values
LEMMA MemoriesExist ==
    ASSUME NEW P \in Seq(Names), NEW vals \in Seq(Nat), NEW m \in Memory,
           \A i \in 1 .. Len(vals) : vals[i] \in 1 .. Len(P)
    PROVE  \E ms : Remembers(P, vals, m, ms)
<1> DEFINE L == Len(vals)
           Upto(k, ms) == /\ ms \in [0 .. k -> Memory] /\ ms[0] = m
                          /\ \A i \in 1 .. k : ms[i] = [ms[i - 1] EXCEPT ![P[vals[i]]] = vals[i]]
           T == {k \in 0 .. L : \E ms : Upto(k, ms)}
<1>0. L \in Nat /\ 0 \in 0 .. L
  BY LenProperties
<1>1. 0 \in T
  <2>1. Upto(0, [k \in 0 .. 0 |-> m])
    OBVIOUS
  <2> QED
    BY <1>0, <2>1
<1>2. ASSUME NEW k \in 0 .. L, k # L, k \in T PROVE k + 1 \in T
  <2>1. PICK ms : Upto(k, ms)
    BY <1>2
  <2>2. k + 1 \in 1 .. L /\ k + 1 \in 0 .. L /\ k \in 0 .. k
    BY <1>0, <1>2
  <2> DEFINE new == [ms[k] EXCEPT ![P[vals[k + 1]]] = vals[k + 1]]
             ns == [n \in 0 .. k + 1 |-> IF n = k + 1 THEN new ELSE ms[n]]
  <2>3. new \in Memory
    <3>1. vals[k + 1] \in Nat /\ ms[k] \in Memory
      BY <2>1, <2>2
    <3> QED
      BY <3>1 DEF Memory
  <2> HIDE DEF new
  <2>4. \A n \in 0 .. k + 1 : n # k + 1 => n \in 0 .. k
    BY <1>2
  <2>5. ns \in [0 .. k + 1 -> Memory]
    BY <2>1, <2>3, <2>4
  <2>6. ns[k + 1] = new /\ \A n \in 0 .. k : ns[n] = ms[n]
    BY <1>2
  <2> HIDE DEF ns
  <2>7. \A i \in 1 .. k + 1 : ns[i] = [ns[i - 1] EXCEPT ![P[vals[i]]] = vals[i]]
    <3> TAKE i \in 1 .. k + 1
    <3>1. CASE i = k + 1
      <4>1. i - 1 = k /\ ns[k] = ms[k]
        BY <2>2, <2>6, <3>1
      <4> QED
        BY <2>6, <3>1, <4>1 DEF new
    <3>2. CASE i # k + 1
      <4>1. i \in 1 .. k /\ i \in 0 .. k /\ i - 1 \in 0 .. k
        BY <1>2, <3>2
      <4> QED
        BY <2>1, <2>6, <4>1
    <3> QED
      BY <3>1, <3>2
  <2>8. ns[0] = m
    BY <2>1, <2>2, <2>6
  <2> QED
    BY <2>2, <2>5, <2>7, <2>8
<1> HIDE DEF T
<1>3. \A k \in 0 .. L : k \in T
  BY <1>0, <1>1, <1>2, AllSteps
<1>4. L \in T
  BY <1>0, <1>3
<1> QED
  BY <1>4 DEF T, Remembers

\* a sequence that is longer by one
LEMMA OneMore ==
    ASSUME NEW S, NEW r \in Seq(S), NEW x \in S
    PROVE  /\ Append(r, x) \in Seq(S) /\ Len(Append(r, x)) = Len(r) + 1 /\ Len(r) \in Nat
           /\ Append(r, x)[Len(r) + 1] = x
           /\ \A i \in 1 .. Len(r) : Append(r, x)[i] = r[i]
  BY AppendProperties, LenProperties

\* a batch is written one record after the other
LEMMA EncodeSeqIs ==
    ASSUME pubs \in Seq(Names), NEW vals \in Seq(Nat), NEW m \in Memory,
           \A i \in 1 .. Len(vals) : vals[i] \in 1 .. Len(pubs)
    PROVE  /\ EncodeSeq(vals, m).ago \in Memory
           /\ Follows(pubs, EncodeSeq(vals, m).recs, m, EncodeSeq(vals, m).ago)
           /\ Vals(EncodeSeq(vals, m).recs) = vals
<1> DEFINE L == Len(vals)
           h == CHOOSE f : f = [n \in 0 .. L |-> IF n = 0 THEN [recs |-> <<>>, ago |-> m]
                                                 ELSE EncodeRec(f[n - 1], vals[n])]
<1>1. PICK ms : Remembers(pubs, vals, m, ms)
  BY MemoriesExist
<1>2. L \in Nat /\ \A i \in 1 .. L : vals[i] \in Nat /\ vals[i] \in 1 .. Len(pubs)
  BY LenProperties, ElementOfSeq
<1> HIDE DEF L
<1>3. /\ ms \in [0 .. L -> Memory] /\ ms[0] = m
      /\ \A i \in 1 .. L : ms[i] = [ms[i - 1] EXCEPT ![pubs[vals[i]]] = vals[i]]
  BY <1>1 DEF Remembers, L
<1>4. \A i \in 1 .. L : RecOf(pubs, ms[i - 1], vals[i]) \in Record
  <2> TAKE i \in 1 .. L
  <2>1. i - 1 \in 0 .. L
    BY <1>2
  <2>2. ms[i - 1] \in Memory /\ pubs[vals[i]] \in Names
    BY <1>2, <1>3, <2>1, ElementOfSeq
  <2> QED
    BY <1>2, <2>2 DEF RecOf, Record, Memory
<1> DEFINE R(n) == [i \in 1 .. n |-> RecOf(pubs, ms[i - 1], vals[i])]
           C == [n \in 0 .. L |-> [recs |-> R(n), ago |-> ms[n]]]
<1>5. \A n \in 0 .. L : R(n) \in Seq(Record) /\ Len(R(n)) = n
  BY <1>2, <1>4
<1>6. \A n \in 0 .. L : C[n] = IF n = 0 THEN [recs |-> <<>>, ago |-> m] ELSE EncodeRec(C[n - 1], vals[n])
  <2> TAKE n \in 0 .. L
  <2>1. CASE n = 0
    <3>1. R(0) = <<>>
      BY <1>2, <1>5
    <3> QED
      BY <1>2, <1>3, <2>1, <3>1
  <2>2. CASE n # 0
    <3>1. n \in 1 .. L /\ n - 1 \in 0 .. L /\ vals[n] \in Nat
      BY <1>2, <2>2
    <3>2. KeyOf(vals[n]) = pubs[vals[n]]
      BY <3>1 DEF KeyOf, Wrong
    <3>3. C[n - 1] = [recs |-> R(n - 1), ago |-> ms[n - 1]]
      BY <3>1
    <3>4. Append(R(n - 1), RecOf(pubs, ms[n - 1], vals[n])) = R(n)
      <4> DEFINE x == RecOf(pubs, ms[n - 1], vals[n])
      <4>1. R(n - 1) \in Seq(Record) /\ Len(R(n - 1)) = n - 1 /\ x \in Record
        BY <1>4, <1>5, <3>1
      <4>2. R(n) \in Seq(Record) /\ Len(R(n)) = n /\ R(n)[n] = x
        BY <1>5, <3>1
      <4>3. \A i \in 1 .. n - 1 : R(n)[i] = R(n - 1)[i]
        BY <3>1
      <4> HIDE DEF R, x
      <4>4. /\ Append(R(n - 1), x) \in Seq(Record) /\ Len(Append(R(n - 1), x)) = n
            /\ Append(R(n - 1), x)[n] = x
            /\ \A i \in 1 .. n - 1 : Append(R(n - 1), x)[i] = R(n - 1)[i]
        BY <3>1, <4>1, OneMore
      <4>5. \A i \in 1 .. n : Append(R(n - 1), x)[i] = R(n)[i]
        BY <3>1, <4>2, <4>3, <4>4
      <4>6. Append(R(n - 1), x) = R(n)
        BY <4>2, <4>4, <4>5, SeqEqual
      <4> QED
        BY <4>6 DEF x
    <3>5. EncodeRec(C[n - 1], vals[n]) =
            [recs |-> Append(R(n - 1), RecOf(pubs, ms[n - 1], vals[n])),
             ago |-> [ms[n - 1] EXCEPT ![pubs[vals[n]]] = vals[n]]]
      <4> HIDE DEF R, C
      <4> DEFINE k == KeyOf(vals[n])
      <4>1. EncodeRec([recs |-> R(n - 1), ago |-> ms[n - 1]], vals[n]) =
              [recs |-> Append(R(n - 1), [zip |-> ms[n - 1][k] # None, base |-> ms[n - 1][k],
                                          val |-> vals[n]]),
               ago |-> [ms[n - 1] EXCEPT ![k] = vals[n]]]
        BY DEF EncodeRec
      <4> QED
        BY <3>2, <3>3, <4>1 DEF RecOf
    <3> HIDE DEF R
    <3> QED
      BY <1>3, <2>2, <3>1, <3>4, <3>5
  <2> QED
    BY <2>1, <2>2
<1>7. C = [n \in 0 .. L |-> IF n = 0 THEN [recs |-> <<>>, ago |-> m] ELSE EncodeRec(C[n - 1], vals[n])]
  BY <1>6
<1> HIDE DEF C
<1>8. h = [n \in 0 .. L |-> IF n = 0 THEN [recs |-> <<>>, ago |-> m] ELSE EncodeRec(h[n - 1], vals[n])]
  BY <1>7
<1>9. EncodeSeq(vals, m) = h[L]
  BY DEF EncodeSeq, L
<1> HIDE DEF h
<1> DEFINE S == {n \in 0 .. L : h[n] = C[n]}
<1>10. \A n \in 0 .. L : n \in S
  <2>1. 0 \in 0 .. L
    BY <1>2
  <2>2. 0 \in S
    BY <1>6, <1>8, <2>1
  <2>3. ASSUME NEW n \in 0 .. L, n # L, n \in S PROVE n + 1 \in S
    <3>1. n + 1 \in 0 .. L /\ n + 1 # 0 /\ (n + 1) - 1 = n /\ h[n] = C[n]
      BY <1>2, <2>3
    <3>2. h[n + 1] = EncodeRec(h[n], vals[n + 1])
      BY <1>8, <3>1
    <3>3. C[n + 1] = EncodeRec(C[n], vals[n + 1])
      BY <1>6, <3>1
    <3> QED
      BY <3>1, <3>2, <3>3
  <2> HIDE DEF S
  <2> QED
    BY <1>2, <2>1, <2>2, <2>3, AllSteps
<1>11. L \in 0 .. L /\ h[L] = C[L]
  BY <1>2, <1>10
<1>12. C[L] = [recs |-> R(L), ago |-> ms[L]]
  BY <1>11 DEF C
<1>13. EncodeSeq(vals, m) = [recs |-> R(L), ago |-> ms[L]]
  BY <1>9, <1>11, <1>12
<1>14. /\ R(L) \in Seq(Record) /\ Len(R(L)) = L
       /\ \A i \in 1 .. L : R(L)[i] = RecOf(pubs, ms[i - 1], vals[i])
  BY <1>5, <1>11
<1> HIDE DEF R
<1>15. Vals(R(L)) = vals
  <2>1. \A i \in 1 .. L : R(L)[i].val = vals[i]
    BY <1>14 DEF RecOf
  <2>2. Vals(R(L)) \in Seq(Nat) /\ Len(Vals(R(L))) = L /\ \A i \in 1 .. L : Vals(R(L))[i] = vals[i]
    BY <1>14, <2>1, ValsAre
  <2> QED
    BY <2>2, SeqEqual DEF L
<1>16. Follows(pubs, R(L), m, ms[L])
  <2>1. \A i \in 1 .. L : R(L)[i].val = vals[i]
    BY <1>14 DEF RecOf
  <2> QED
    BY <1>1, <1>2, <1>14, <1>15, <2>1 DEF Follows
<1>17. ms[L] \in Memory
  BY <1>3, <1>11
<1> QED
  BY <1>13, <1>15, <1>16, <1>17

\* who has the memory a block was written from reads what was written
LEMMA UnzipIs ==
    ASSUME pubs \in Seq(Names), NEW b, NEW m, NEW n, NEW ago,
           Follows(pubs, b.recs, m, n), m \in Memory,
           m = IF b.init THEN NoMemory ELSE ago
    PROVE  n \in Memory /\ Unzip(b, ago) = [vals |-> Vals(b.recs), ago |-> n]
<1> DEFINE recs == b.recs
           L == Len(recs)
           h == CHOOSE f : f = [i \in 0 .. L |-> IF i = 0 THEN [vals |-> <<>>, ago |-> m]
                                                 ELSE DecodeRec(f[i - 1], recs[i])]
<1>1. PICK ms : /\ Remembers(pubs, Vals(recs), m, ms) /\ ms[L] = n
                /\ \A i \in 1 .. L : recs[i] = RecOf(pubs, ms[i - 1], recs[i].val)
  BY DEF Follows
<1>2. /\ Vals(recs) \in Seq(Nat) /\ Len(Vals(recs)) = L /\ L \in Nat
      /\ \A i \in 1 .. L : /\ Vals(recs)[i] = recs[i].val /\ recs[i] \in Record
                           /\ recs[i].val \in 1 .. Len(pubs)
  BY ValsAre DEF Follows
<1>3. Unzip(b, ago) = h[L]
  BY DEF Unzip
<1>4. Vals(recs) = [i \in 1 .. L |-> recs[i].val]
  BY DEF Vals
<1> HIDE DEF L, recs
<1>5. /\ ms \in [0 .. L -> Memory] /\ ms[0] = m
      /\ \A i \in 1 .. L : ms[i] = [ms[i - 1] EXCEPT ![pubs[recs[i].val]] = recs[i].val]
  BY <1>1, <1>2 DEF Remembers
<1> DEFINE R(i) == [j \in 1 .. i |-> recs[j].val]
           C == [i \in 0 .. L |-> [vals |-> R(i), ago |-> ms[i]]]
<1>6. \A i \in 0 .. L : R(i) \in Seq(Nat) /\ Len(R(i)) = i
  <2> TAKE i \in 0 .. L
  <2>1. \A j \in 1 .. i : recs[j].val \in Nat
    BY <1>2
  <2> QED
    BY <1>2, <2>1
<1>7. \A i \in 0 .. L : C[i] = IF i = 0 THEN [vals |-> <<>>, ago |-> m] ELSE DecodeRec(C[i - 1], recs[i])
  <2> TAKE i \in 0 .. L
  <2>1. CASE i = 0
    <3>1. R(0) = <<>>
      BY <1>2, <1>6
    <3> QED
      BY <1>2, <1>5, <2>1, <3>1
  <2>2. CASE i # 0
    <3> DEFINE v == recs[i].val
    <3>1. i \in 1 .. L /\ i - 1 \in 0 .. L /\ v \in Nat /\ v \in 1 .. Len(pubs)
      BY <1>2, <2>2
    <3>2. KeyOf(v) = pubs[v] /\ ~Wrong(v) /\ recs[i].base = ms[i - 1][pubs[v]]
      <4>1. recs[i] = RecOf(pubs, ms[i - 1], v)
        BY <1>1, <3>1 DEF L
      <4> HIDE DEF v
      <4> QED
        BY <3>1, <4>1 DEF KeyOf, Wrong, RecOf
    <3>3. C[i - 1] = [vals |-> R(i - 1), ago |-> ms[i - 1]]
      BY <3>1
    <3>4. Append(R(i - 1), v) = R(i)
      <4>1. R(i - 1) \in Seq(Nat) /\ Len(R(i - 1)) = i - 1
        BY <1>6, <3>1
      <4>2. R(i) \in Seq(Nat) /\ Len(R(i)) = i /\ R(i)[i] = v
        BY <1>6, <3>1
      <4>3. \A j \in 1 .. i - 1 : R(i)[j] = R(i - 1)[j]
        BY <3>1
      <4> HIDE DEF R, v
      <4>4. /\ Append(R(i - 1), v) \in Seq(Nat) /\ Len(Append(R(i - 1), v)) = i
            /\ Append(R(i - 1), v)[i] = v
            /\ \A j \in 1 .. i - 1 : Append(R(i - 1), v)[j] = R(i - 1)[j]
        BY <3>1, <4>1, OneMore
      <4>5. \A j \in 1 .. i : Append(R(i - 1), v)[j] = R(i)[j]
        BY <3>1, <4>2, <4>3, <4>4
      <4> QED
        BY <4>2, <4>4, <4>5, SeqEqual
    <3>5. DecodeRec(C[i - 1], recs[i]) =
            [vals |-> Append(R(i - 1), v), ago |-> [ms[i - 1] EXCEPT ![pubs[v]] = v]]
      <4> HIDE DEF R
      <4>1. DecodeRec([vals |-> R(i - 1), ago |-> ms[i - 1]], recs[i]) =
              [vals |-> Append(R(i - 1), v), ago |-> [ms[i - 1] EXCEPT ![pubs[v]] = v]]
        BY <3>2 DEF DecodeRec
      <4> HIDE DEF C
      <4> QED
        BY <3>3, <4>1
    <3> HIDE DEF R
    <3> QED
      BY <1>5, <2>2, <3>1, <3>4, <3>5
  <2> QED
    BY <2>1, <2>2
<1>8. C = [i \in 0 .. L |-> IF i = 0 THEN [vals |-> <<>>, ago |-> m] ELSE DecodeRec(C[i - 1], recs[i])]
  BY <1>7
<1> HIDE DEF C
<1>9. h = [i \in 0 .. L |-> IF i = 0 THEN [vals |-> <<>>, ago |-> m] ELSE DecodeRec(h[i - 1], recs[i])]
  BY <1>8
<1> HIDE DEF h
<1> DEFINE S == {i \in 0 .. L : h[i] = C[i]}
<1>10. \A i \in 0 .. L : i \in S
  <2>1. 0 \in 0 .. L
    BY <1>2
  <2>2. 0 \in S
    BY <1>7, <1>9, <2>1
  <2>3. ASSUME NEW i \in 0 .. L, i # L, i \in S PROVE i + 1 \in S
    <3>1. i + 1 \in 0 .. L /\ i + 1 # 0 /\ (i + 1) - 1 = i /\ h[i] = C[i]
      BY <1>2, <2>3
    <3>2. h[i + 1] = DecodeRec(h[i], recs[i + 1])
      BY <1>9, <3>1
    <3>3. C[i + 1] = DecodeRec(C[i], recs[i + 1])
      BY <1>7, <3>1
    <3> QED
      BY <3>1, <3>2, <3>3
  <2> HIDE DEF S
  <2> QED
    BY <1>2, <2>1, <2>2, <2>3, AllSteps
<1>11. L \in 0 .. L /\ h[L] = C[L] /\ ms[L] = n
  BY <1>1, <1>2, <1>10 DEF L
<1>12. C[L] = [vals |-> R(L), ago |-> n]
  BY <1>11 DEF C
<1>13. R(L) = Vals(b.recs)
  BY <1>4 DEF recs
<1> QED
  BY <1>3, <1>5, <1>11, <1>12, <1>13

\* one more record
LEMMA FollowsMore ==
    ASSUME NEW P \in Seq(Names), NEW recs, NEW m, NEW n, Follows(P, recs, m, n),
           NEW v \in 1 .. Len(P), n \in Memory
    PROVE  /\ RecOf(P, n, v) \in Record
           /\ Follows(P, Append(recs, RecOf(P, n, v)), m, [n EXCEPT ![P[v]] = v])
           /\ [n EXCEPT ![P[v]] = v] \in Memory
<1> DEFINE L == Len(recs)
           x == RecOf(P, n, v)
           n2 == [n EXCEPT ![P[v]] = v]
           r2 == Append(recs, x)
<1>1. PICK ms : /\ Remembers(P, Vals(recs), m, ms) /\ ms[L] = n
                /\ \A i \in 1 .. L : recs[i] = RecOf(P, ms[i - 1], recs[i].val)
  BY DEF Follows
<1>2. recs \in Seq(Record) /\ L \in Nat /\ \A i \in 1 .. L : recs[i].val \in 1 .. Len(P) /\ recs[i] \in Record
  BY ValsAre DEF Follows
<1>3. v \in Nat /\ P[v] \in Names
  BY ElementOfSeq, LenProperties
<1>4. x \in Record /\ n2 \in Memory /\ x.val = v
  BY <1>3 DEF RecOf, Record, Memory
<1> HIDE DEF x, n2
<1>5. /\ r2 \in Seq(Record) /\ Len(r2) = L + 1 /\ r2[L + 1] = x
      /\ \A i \in 1 .. L : r2[i] = recs[i]
  BY <1>2, <1>4, OneMore
<1> HIDE DEF r2, L
<1>6. \A i \in 1 .. L + 1 : r2[i].val \in 1 .. Len(P)
  <2> TAKE i \in 1 .. L + 1
  <2>1. i = L + 1 \/ i \in 1 .. L
    BY <1>2
  <2> QED
    BY <1>2, <1>4, <1>5, <2>1
<1>7. /\ ms \in [0 .. L -> Memory] /\ ms[0] = m
      /\ \A i \in 1 .. L : ms[i] = [ms[i - 1] EXCEPT ![P[recs[i].val]] = recs[i].val]
  BY <1>1, <1>2, ValsAre DEF Remembers, L
<1> DEFINE ns == [i \in 0 .. L + 1 |-> IF i = L + 1 THEN n2 ELSE ms[i]]
<1>8. \A i \in 0 .. L + 1 : i # L + 1 => i \in 0 .. L
  BY <1>2
<1>9. ns \in [0 .. L + 1 -> Memory]
  BY <1>4, <1>7, <1>8
<1>10. ns[L + 1] = n2 /\ \A i \in 0 .. L : ns[i] = ms[i]
  BY <1>2
<1> HIDE DEF ns
<1>11. \A i \in 1 .. L + 1 : /\ ns[i] = [ns[i - 1] EXCEPT ![P[r2[i].val]] = r2[i].val]
                             /\ r2[i] = RecOf(P, ns[i - 1], r2[i].val)
  <2> TAKE i \in 1 .. L + 1
  <2>1. CASE i = L + 1
    <3>1. i - 1 = L /\ L \in 0 .. L /\ ms[L] = n
      BY <1>1, <1>2, <2>1 DEF L
    <3>2. ns[i - 1] = n /\ r2[i] = x /\ ns[i] = n2
      BY <1>5, <1>10, <2>1, <3>1
    <3> QED
      BY <1>4, <3>2 DEF x, n2
  <2>2. CASE i # L + 1
    <3>1. i \in 1 .. L /\ i \in 0 .. L /\ i - 1 \in 0 .. L
      BY <1>2, <2>2
    <3>2. recs[i] = RecOf(P, ms[i - 1], recs[i].val)
      BY <1>1, <3>1 DEF L
    <3>3. ns[i] = ms[i] /\ ns[i - 1] = ms[i - 1] /\ r2[i] = recs[i]
      BY <1>5, <1>10, <3>1
    <3> QED
      BY <1>7, <3>1, <3>2, <3>3
  <2> QED
    BY <2>1, <2>2
<1>12. ns[0] = m
  <2>1. 0 \in 0 .. L
    BY <1>2
  <2> QED
    BY <1>7, <1>10, <2>1
<1>13. /\ Vals(r2) \in Seq(Nat) /\ Len(Vals(r2)) = L + 1
       /\ \A i \in 1 .. L + 1 : Vals(r2)[i] = r2[i].val
  BY <1>5, ValsAre
<1>14. Remembers(P, Vals(r2), m, ns)
  BY <1>9, <1>11, <1>12, <1>13 DEF Remembers
<1>15. Follows(P, r2, m, n2)
  <2>1. ns[Len(r2)] = n2 /\ \A i \in 1 .. Len(r2) : r2[i] = RecOf(P, ns[i - 1], r2[i].val)
    BY <1>5, <1>10, <1>11
  <2>2. \A i \in 1 .. Len(r2) : r2[i].val \in 1 .. Len(P)
    BY <1>5, <1>6
  <2> QED
    BY <1>5, <1>14, <2>1, <2>2 DEF Follows
<1> QED
  BY <1>4, <1>15 DEF r2, x, n2

\* a block without records
LEMMA FollowsNone ==
    ASSUME NEW P, NEW m \in Memory
    PROVE  Follows(P, <<>>, m, m)
<1> DEFINE ms == [i \in 0 .. 0 |-> m]
<1>1. <<>> \in Seq(Record) /\ Len(<<>>) = 0 /\ Vals(<<>>) = <<>>
  BY DEF Vals
<1>2. Remembers(P, <<>>, m, ms) /\ ms[0] = m
  BY DEF Remembers
<1> QED
  BY <1>1, <1>2 DEF Follows

-----------------------------------------------------------------------------
(* Lists of blocks.                                                         *)

\* ms are the memories before the first and after each of the blocks
Linked(P, l, ms) ==
    /\ l \in Seq(Block) /\ ms \in [0 .. Len(l) -> Memory]
    /\ l # <<>> => l[1].init
    /\ \A i \in 1 .. Len(l) : Follows(P, l[i].recs, IF l[i].init THEN NoMemory ELSE ms[i - 1], ms[i])

\* the memory of one who has nothing
LEMMA NoMemoryIs == NoMemory \in Memory
  BY DEF NoMemory, Memory, None

\* who has nothing before the first of linked blocks reads what was written
LEMMA UnzippedIs ==
    ASSUME pubs \in Seq(Names), NEW l, NEW ms, Linked(pubs, l, ms)
    PROVE  /\ DOMAIN Unzipped(l) = 1 .. Len(l)
           /\ \A i \in 1 .. Len(l) : Unzipped(l)[i] = Vals(l[i].recs)
<1> DEFINE L == Len(l)
           h == CHOOSE f : f = [i \in 0 .. L |-> IF i = 0 THEN [vals |-> <<>>, ago |-> NoMemory]
                                                 ELSE Unzip(l[i], f[i - 1].ago)]
           C == [i \in 0 .. L |-> IF i = 0 THEN [vals |-> <<>>, ago |-> NoMemory]
                                  ELSE [vals |-> Vals(l[i].recs), ago |-> ms[i]]]
<1>1. L \in Nat /\ l \in Seq(Block) /\ ms \in [0 .. L -> Memory] /\ DOMAIN l = 1 .. L
  BY LenProperties DEF Linked
<1>2. Unzipped(l) = [i \in DOMAIN l |-> h[i].vals]
  BY DEF Unzipped
<1> HIDE DEF L
<1>3. \A i \in 1 .. L : Unzip(l[i], C[i - 1].ago) = [vals |-> Vals(l[i].recs), ago |-> ms[i]]
  <2> TAKE i \in 1 .. L
  <2> DEFINE m == IF l[i].init THEN NoMemory ELSE ms[i - 1]
  <2>1. i - 1 \in 0 .. L /\ i - 1 \in Int
    BY <1>1
  <2>2. Follows(pubs, l[i].recs, m, ms[i])
    BY DEF Linked, L
  <2>3. m \in Memory
    BY <1>1, <2>1, NoMemoryIs
  <2>4. m = IF l[i].init THEN NoMemory ELSE C[i - 1].ago
    <3>1. CASE i = 1
      <4>1. l # <<>>
        BY <1>1, <3>1 DEF L
      <4>2. l[1].init
        BY <4>1 DEF Linked
      <4> QED
        BY <3>1, <4>2
    <3>2. CASE i # 1
      <4>1. i - 1 # 0
        BY <3>2
      <4>2. C[i - 1].ago = ms[i - 1]
        BY <2>1, <4>1
      <4> QED
        BY <4>2
    <3> QED
      BY <3>1, <3>2
  <2> HIDE DEF m, C
  <2> QED
    BY <2>2, <2>3, <2>4, UnzipIs
<1>4. \A i \in 0 .. L : C[i] = IF i = 0 THEN [vals |-> <<>>, ago |-> NoMemory] ELSE Unzip(l[i], C[i - 1].ago)
  <2> TAKE i \in 0 .. L
  <2>1. CASE i = 0
    BY <2>1
  <2>2. CASE i # 0
    <3>1. i \in 1 .. L
      BY <1>1, <2>2
    <3>2. C[i] = [vals |-> Vals(l[i].recs), ago |-> ms[i]]
      BY <2>2
    <3> HIDE DEF C
    <3> QED
      BY <1>3, <2>2, <3>1, <3>2
  <2> QED
    BY <2>1, <2>2
<1>5. C = [i \in 0 .. L |-> IF i = 0 THEN [vals |-> <<>>, ago |-> NoMemory] ELSE Unzip(l[i], C[i - 1].ago)]
  BY <1>4
<1>6. \A i \in 1 .. L : C[i].vals = Vals(l[i].recs)
  BY <1>1
<1> HIDE DEF C
<1>7. h = [i \in 0 .. L |-> IF i = 0 THEN [vals |-> <<>>, ago |-> NoMemory] ELSE Unzip(l[i], h[i - 1].ago)]
  BY <1>5
<1> HIDE DEF h
<1> DEFINE S == {i \in 0 .. L : h[i] = C[i]}
<1>8. \A i \in 0 .. L : i \in S
  <2>1. 0 \in 0 .. L
    BY <1>1
  <2>2. 0 \in S
    BY <1>4, <1>7, <2>1
  <2>3. ASSUME NEW i \in 0 .. L, i # L, i \in S PROVE i + 1 \in S
    <3>1. i + 1 \in 0 .. L /\ i + 1 # 0 /\ (i + 1) - 1 = i /\ h[i] = C[i]
      BY <1>1, <2>3
    <3>2. h[i + 1] = Unzip(l[i + 1], h[i].ago)
      BY <1>7, <3>1
    <3>3. C[i + 1] = Unzip(l[i + 1], C[i].ago)
      BY <1>4, <3>1
    <3> QED
      BY <3>1, <3>2, <3>3
  <2> HIDE DEF S
  <2> QED
    BY <1>1, <2>1, <2>2, <2>3, AllSteps
<1>9. \A i \in 1 .. L : h[i] = C[i]
  BY <1>8
<1> QED
  BY <1>1, <1>2, <1>6, <1>9 DEF L

\* one more block
LEMMA LinkedMore ==
    ASSUME NEW P, NEW l, NEW ms, Linked(P, l, ms), NEW b \in Block, NEW n \in Memory,
           Follows(P, b.recs, IF b.init THEN NoMemory ELSE ms[Len(l)], n), l = <<>> => b.init
    PROVE  \E ns : /\ Linked(P, Append(l, b), ns) /\ ns[Len(l) + 1] = n
                   /\ \A i \in 0 .. Len(l) : ns[i] = ms[i]
<1> DEFINE L == Len(l)
           l2 == Append(l, b)
           ns == [i \in 0 .. L + 1 |-> IF i = L + 1 THEN n ELSE ms[i]]
<1>1. L \in Nat /\ l \in Seq(Block) /\ ms \in [0 .. L -> Memory]
  BY LenProperties DEF Linked
<1>2. l2 \in Seq(Block) /\ Len(l2) = L + 1 /\ l2[L + 1] = b /\ \A i \in 1 .. L : l2[i] = l[i]
  BY <1>1, OneMore
<1>3. l = <<>> <=> L = 0
  BY <1>1
<1> HIDE DEF l2, L
<1>4. \A i \in 0 .. L + 1 : i # L + 1 => i \in 0 .. L
  BY <1>1
<1>5. ns \in [0 .. L + 1 -> Memory]
  BY <1>1, <1>4
<1>6. ns[L + 1] = n /\ \A i \in 0 .. L : ns[i] = ms[i]
  BY <1>1
<1> HIDE DEF ns
<1>7. \A i \in 1 .. L + 1 : Follows(P, l2[i].recs, IF l2[i].init THEN NoMemory ELSE ns[i - 1], ns[i])
  <2> TAKE i \in 1 .. L + 1
  <2>1. CASE i = L + 1
    <3>1. i - 1 = L /\ L \in 0 .. L
      BY <1>1, <2>1
    <3>2. ns[i - 1] = ms[L] /\ ns[i] = n /\ l2[i] = b
      BY <1>2, <1>6, <2>1, <3>1
    <3> QED
      BY <3>2 DEF L
  <2>2. CASE i # L + 1
    <3>1. i \in 1 .. L /\ i \in 0 .. L /\ i - 1 \in 0 .. L
      BY <1>1, <2>2
    <3>2. ns[i] = ms[i] /\ ns[i - 1] = ms[i - 1] /\ l2[i] = l[i]
      BY <1>2, <1>6, <3>1
    <3>3. Follows(P, l[i].recs, IF l[i].init THEN NoMemory ELSE ms[i - 1], ms[i])
      BY <3>1 DEF Linked, L
    <3> QED
      BY <3>2, <3>3
  <2> QED
    BY <2>1, <2>2
<1>8. l2[1].init
  <2>1. CASE L = 0
    BY <1>2, <1>3, <2>1
  <2>2. CASE L # 0
    <3>1. l[1].init /\ 1 \in 1 .. L
      BY <1>1, <1>3, <2>2 DEF Linked
    <3> QED
      BY <1>2, <3>1
  <2> QED
    BY <2>1, <2>2
<1>9. Linked(P, l2, ns)
  BY <1>2, <1>5, <1>7, <1>8 DEF Linked
<1> QED
  BY <1>6, <1>9 DEF l2, L

\* what is written stays so when more is published
LEMMA FollowsKept ==
    ASSUME NEW P \in Seq(Names), NEW k \in Names, NEW recs, NEW m, NEW n, Follows(P, recs, m, n)
    PROVE  Follows(Append(P, k), recs, m, n)
<1> DEFINE Q == Append(P, k)
<1>1. PICK ms : /\ Remembers(P, Vals(recs), m, ms) /\ ms[Len(recs)] = n
                /\ \A i \in 1 .. Len(recs) : recs[i] = RecOf(P, ms[i - 1], recs[i].val)
  BY DEF Follows
<1>2. recs \in Seq(Record) /\ \A i \in 1 .. Len(recs) : recs[i].val \in 1 .. Len(P)
  BY DEF Follows
<1>3. Len(Q) = Len(P) + 1 /\ Len(P) \in Nat /\ \A v \in 1 .. Len(P) : Q[v] = P[v]
  BY OneMore
<1> HIDE DEF Q
<1>4. \A i \in 1 .. Len(recs) : recs[i].val \in 1 .. Len(Q) /\ Q[recs[i].val] = P[recs[i].val]
  <2> TAKE i \in 1 .. Len(recs)
  <2>1. recs[i].val \in 1 .. Len(P)
    BY <1>2
  <2> QED
    BY <1>3, <2>1
<1>5. /\ Len(Vals(recs)) = Len(recs)
      /\ \A i \in 1 .. Len(recs) : Vals(recs)[i] = recs[i].val
  BY <1>2, ValsAre
<1>6. Remembers(Q, Vals(recs), m, ms)
  <2> DEFINE vals == Vals(recs)
  <2>1. /\ ms \in [0 .. Len(vals) -> Memory] /\ ms[0] = m
        /\ \A i \in 1 .. Len(vals) : ms[i] = [ms[i - 1] EXCEPT ![P[vals[i]]] = vals[i]]
    BY <1>1 DEF Remembers
  <2>2. \A i \in 1 .. Len(vals) : Q[vals[i]] = P[vals[i]]
    BY <1>4, <1>5
  <2> HIDE DEF vals
  <2>3. \A i \in 1 .. Len(vals) : ms[i] = [ms[i - 1] EXCEPT ![Q[vals[i]]] = vals[i]]
    BY <2>1, <2>2
  <2>4. Remembers(Q, vals, m, ms)
    BY <2>1, <2>3 DEF Remembers
  <2> QED
    BY <2>4 DEF vals
<1>7. \A i \in 1 .. Len(recs) : recs[i] = RecOf(Q, ms[i - 1], recs[i].val)
  <2> TAKE i \in 1 .. Len(recs)
  <2> DEFINE v == recs[i].val
  <2>1. recs[i] = RecOf(P, ms[i - 1], v) /\ Q[v] = P[v]
    BY <1>1, <1>4
  <2> HIDE DEF v
  <2>2. RecOf(P, ms[i - 1], v) = RecOf(Q, ms[i - 1], v)
    BY <2>1 DEF RecOf
  <2> QED
    BY <2>1, <2>2 DEF v
<1>8. Follows(Q, recs, m, n)
  BY <1>1, <1>2, <1>4, <1>6, <1>7 DEF Follows
<1> QED
  BY <1>8 DEF Q

\* and so it is for a list
LEMMA LinkedKept ==
    ASSUME NEW P \in Seq(Names), NEW k \in Names, NEW l, NEW ms, Linked(P, l, ms)
    PROVE  Linked(Append(P, k), l, ms)
  BY FollowsKept DEF Linked

-----------------------------------------------------------------------------
(* The invariant.  A list l of blocks, the current block cur and the queue  *)
(* ins are what is on its way; z stands for zip, rd for a reader, w for     *)
(* wlog and parts for the parts of the log.                                 *)

Carries(b) == {b.recs[i].val : i \in 1 .. Len(b.recs)}
Carried(l, a, b) == UNION {Carries(l[i]) : i \in a .. b}
\* what one who has read n blocks of the list has yet to read
Coming(l, n, cur, ins) == Carried(l, n + 1, Len(l)) \cup Carried(cur, 1, Len(cur)) \cup Range(ins)

Rising(s) == \A i, j \in 1 .. Len(s) : i < j => s[i] < s[j]
Before(A, B) == \A v \in A, x \in B : v < x

\* values go from the queue through the current block to the list in their order
Ordered(P, l, cur, ins) ==
    /\ \A i \in 1 .. Len(l) : Rising(Vals(l[i].recs))
    /\ \A i \in 1 .. Len(cur) : Rising(Vals(cur[i].recs))
    /\ Rising(ins)
    /\ \A i \in 1 .. Len(l) : Before(Carries(l[i]), Coming(l, i, cur, ins))
    /\ Before(Carried(cur, 1, Len(cur)), Range(ins))
    /\ Coming(l, 0, cur, ins) \subseteq 1 .. Len(P)

\* the current block goes on from the list, or begins anew
Shaped(z) == DOMAIN z = {"cur", "size", "ago", "last"}
CurrentSound(P, l, z, ms) ==
    /\ Shaped(z)
    /\ z.cur \in Seq(Block) /\ Len(z.cur) <= 1 /\ z.ago \in Memory
    /\ z.cur # <<>> =>
          /\ Follows(P, z.cur[1].recs, IF z.cur[1].init THEN NoMemory ELSE ms[Len(l)], z.ago)
          /\ l = <<>> => z.cur[1].init

Zipers == [made : BOOLEAN, linked : BOOLEAN, init : BOOLEAN, size : Int, ago : Memory]
Readers == [kind : {"none", "whole", "filter", "plain"}, key : SubKeys \cup {None},
            ishead : BOOLEAN, open : BOOLEAN, isinit : BOOLEAN, pos : Nat, since : Nat, mem : Memory,
            ziper : Zipers, far : Memory, got : Seq(Nat)]
Asks(P, rd, v) == rd.kind = "whole" \/ P[v] = rd.key

\* what a subscriber has got, from the blocks "up" it has passed, with "come" to come
Gets(P, up, come, rd) ==
    /\ Rising(rd.got)
    /\ \A i \in 1 .. Len(rd.got) : /\ rd.got[i] \in 1 .. Len(P) /\ Asks(P, rd, rd.got[i])
                                   /\ \A x \in come : rd.got[i] < x
    /\ \A v \in up : Asks(P, rd, v) /\ ((rd.ishead /\ rd.since = 0) \/ (rd.got # <<>> /\ rd.got[1] <= v)) =>
          \E i \in 1 .. Len(rd.got) : rd.got[i] = v
    /\ ~rd.isinit => rd.got = <<>> /\ (rd.ishead /\ rd.since = 0 => rd.pos = 0)

\* it has the memory that the next block needs, and so has its client
Remembered(ms, rd) ==
    rd.isinit /\ rd.pos > 0 => (IF rd.kind = "whole" THEN rd.far ELSE rd.mem) = ms[rd.pos]
Zips(rd) ==
    /\ rd.open => rd.ziper.made
    /\ rd.kind \notin {"whole", "plain"} =>
          /\ rd.ziper.init \/ ~rd.ziper.made => rd.ziper.ago = NoMemory
          /\ ~rd.ziper.init => rd.far = rd.ziper.ago

ReaderSound(P, l, cur, ins, ms, rd) ==
    /\ rd \in Readers /\ rd.pos <= Len(l)
    /\ Remembered(ms, rd) /\ Zips(rd)
    /\ Gets(P, Carried(l, 1, rd.pos), Coming(l, rd.pos, cur, ins), rd)

\* the log's reader is at a block that its next part can begin with, or goes on
Begins(l, cur, w) ==
    /\ w \in [isinit : BOOLEAN, started : BOOLEAN, open : BOOLEAN, pos : Nat]
    /\ w.pos <= Len(l) /\ w.isinit = w.started
    /\ ~w.isinit => /\ w.pos < Len(l) => l[w.pos + 1].init
                    /\ w.pos = Len(l) /\ cur # <<>> => cur[1].init
\* every part can be read without the others, and the list goes on where the last one ends
Parts(P, parts, w, ms) ==
    \A p \in 1 .. Len(parts) :
        \E ls : /\ Linked(P, parts[p], ls)
                /\ p = Len(parts) /\ w.open /\ w.started /\ w.pos > 0 =>
                      ls[Len(parts[p])] = ms[w.pos]
LogOrdered(parts) ==
    \A p \in 1 .. Len(parts) : \A i \in 1 .. Len(parts[p]) :
        /\ Rising(Vals(parts[p][i].recs))
        /\ \A q \in 1 .. Len(parts) : \A j \in 1 .. Len(parts[q]) : (p < q \/ (p = q /\ i < j)) =>
              Before(Carries(parts[p][i]), Carries(parts[q][j]))
Logged(parts) == UNION {Carried(parts[p], 1, Len(parts[p])) : p \in 1 .. Len(parts)}

LogSound(P, l, cur, ins, ms, w, parts) ==
    /\ Begins(l, cur, w)
    /\ parts \in Seq(Seq(Block) \ {<<>>}) /\ (w.open /\ w.started => parts # <<>>)
    /\ Parts(P, parts, w, ms) /\ LogOrdered(parts)
    /\ Before(Logged(parts), Coming(l, w.pos, cur, ins))

\* all that is sound with memories ms, whatever the rest of the state
Sound(P, l, z, ins, rds, w, parts, ms) ==
    /\ P \in Seq(Names) /\ ins \in Seq(Nat) /\ Linked(P, l, ms)
    /\ CurrentSound(P, l, z, ms) /\ Ordered(P, l, z.cur, ins)
    /\ DOMAIN rds = Cids /\ \A c \in Cids : ReaderSound(P, l, z.cur, ins, ms, rds[c])
    /\ LogSound(P, l, z.cur, ins, ms, w, parts)
Flows(P, l, z, ins, rds, w, parts) == \E ms : Sound(P, l, z, ins, rds, w, parts, ms)

\* no publication is lost but those that are known to be
NothingLost ==
    /\ 1 .. Len(pubs) \subseteq dropped \cup Coming(outputs, 0, zip.cur, inputs)
    /\ ~tables => Range(inputs) \subseteq dropped
\* the log has what its reader has passed
HasPassed ==
    inited /\ ~stoped =>
        /\ Carried(outputs, 1, wlog.pos) \subseteq Logged(log.parts)
        /\ wlog.started /\ ~wlog.open =>
              ~tables /\ outputs = <<>> /\ Carried(zip.cur, 1, Len(zip.cur)) = {}

StreamInv ==
    ~fault => /\ Flows(pubs, outputs, zip, inputs, reader, wlog, log.parts)
              /\ DOMAIN log = {"date", "parts"}
              /\ NothingLost /\ HasPassed

-----------------------------------------------------------------------------
(* What is carried.                                                         *)

\* membership in what a block carries
LEMMA CarriesIs ==
    \A b, v : v \in Carries(b) <=> \E i \in 1 .. Len(b.recs) : v = b.recs[i].val
  BY DEF Carries

\* membership in what the blocks of a range carry
LEMMA CarriedIs ==
    \A l, a, b, v : v \in Carried(l, a, b) <=> \E i \in a .. b : v \in Carries(l[i])
  BY DEF Carried

\* of a list that is longer by one
LEMMA CarriedMore ==
    ASSUME NEW S, NEW l \in Seq(S), NEW b \in S, NEW a \in Nat, a > 0
    PROVE  /\ \A n \in 0 .. Len(l) : Carried(Append(l, b), a, n) = Carried(l, a, n)
           /\ a <= Len(l) + 1 => Carried(Append(l, b), a, Len(l) + 1) = Carried(l, a, Len(l)) \cup Carries(b)
<1> DEFINE L == Len(l)
           l2 == Append(l, b)
<1>1. Len(l2) = L + 1 /\ L \in Nat /\ l2[L + 1] = b /\ \A i \in 1 .. L : l2[i] = l[i]
  BY OneMore
<1> HIDE DEF L, l2
<1>2. ASSUME NEW n \in 0 .. L PROVE Carried(l2, a, n) = Carried(l, a, n)
  <2>1. \A i \in a .. n : i \in 1 .. L
    BY <1>1
  <2>2. \A i \in a .. n : Carries(l2[i]) = Carries(l[i])
    BY <1>1, <2>1
  <2>3. \A v : v \in Carried(l2, a, n) <=> v \in Carried(l, a, n)
    BY <2>2, CarriedIs
  <2> QED
    BY <2>3
<1>3. ASSUME a <= L + 1 PROVE Carried(l2, a, L + 1) = Carried(l, a, L) \cup Carries(b)
  <2>1. \A i \in a .. L : i \in 1 .. L /\ i \in a .. L + 1
    BY <1>1
  <2>2. \A i \in a .. L + 1 : i \in a .. L \/ i = L + 1
    BY <1>1
  <2>3. L + 1 \in a .. L + 1
    BY <1>1, <1>3
  <2>4. \A i \in a .. L : Carries(l2[i]) = Carries(l[i])
    BY <1>1, <2>1
  <2>5. Carries(l2[L + 1]) = Carries(b)
    BY <1>1
  <2>6. \A v : v \in Carried(l2, a, L + 1) <=> v \in Carried(l, a, L) \/ v \in Carries(b)
    <3> TAKE v
    <3>1. v \in Carried(l2, a, L + 1) <=> \E i \in a .. L + 1 : v \in Carries(l2[i])
      BY CarriedIs
    <3>2. v \in Carried(l, a, L) <=> \E i \in a .. L : v \in Carries(l[i])
      BY CarriedIs
    <3> QED
      BY <2>1, <2>2, <2>3, <2>4, <2>5, <3>1, <3>2
  <2> QED
    BY <2>6
<1> QED
  BY <1>2, <1>3 DEF L, l2

\* a block passes from what is to come to what has been
LEMMA ComingSplit ==
    ASSUME NEW S, NEW l \in Seq(S), NEW n \in Nat, n < Len(l), NEW cur, NEW ins
    PROVE  /\ Coming(l, n, cur, ins) = Carries(l[n + 1]) \cup Coming(l, n + 1, cur, ins)
           /\ Carried(l, 1, n + 1) = Carried(l, 1, n) \cup Carries(l[n + 1])
<1> DEFINE L == Len(l)
<1>1. L \in Nat /\ n < L
  BY LenProperties
<1> HIDE DEF L
<1>2. \A v : v \in Carried(l, n + 1, L) <=> v \in Carries(l[n + 1]) \/ v \in Carried(l, (n + 1) + 1, L)
  <2>1. \A i : i \in n + 1 .. L <=> i = n + 1 \/ i \in (n + 1) + 1 .. L
    BY <1>1
  <2> QED
    BY <2>1, CarriedIs
<1>3. \A v : v \in Carried(l, 1, n + 1) <=> v \in Carried(l, 1, n) \/ v \in Carries(l[n + 1])
  <2>1. \A i : i \in 1 .. n + 1 <=> i \in 1 .. n \/ i = n + 1
    BY <1>1
  <2> QED
    BY <2>1, CarriedIs
<1> QED
  BY <1>2, <1>3 DEF Coming, L

\* less is to come for one who has read more
LEMMA ComingLess ==
    ASSUME NEW l, Len(l) \in Nat, NEW n \in Nat, NEW k \in 0 .. n, NEW cur, NEW ins
    PROVE  Coming(l, n, cur, ins) \subseteq Coming(l, k, cur, ins)
<1>1. \A i \in n + 1 .. Len(l) : i \in k + 1 .. Len(l)
  OBVIOUS
<1>2. \A v : v \in Carried(l, n + 1, Len(l)) => v \in Carried(l, k + 1, Len(l))
  BY <1>1, CarriedIs
<1> QED
  BY <1>2 DEF Coming

\* what a block of the list carries was to come at its head
LEMMA PassedComing ==
    ASSUME NEW l, Len(l) \in Nat, NEW n \in 0 .. Len(l), NEW cur, NEW ins
    PROVE  /\ Carried(l, 1, n) \subseteq Coming(l, 0, cur, ins)
           /\ \A i \in 1 .. Len(l) : Carries(l[i]) \subseteq Coming(l, 0, cur, ins)
<1>1. \A i \in 1 .. n : i \in 0 + 1 .. Len(l)
  OBVIOUS
<1>2. \A v : v \in Carried(l, 1, n) => v \in Carried(l, 0 + 1, Len(l))
  BY <1>1, CarriedIs
<1>3. \A i \in 1 .. Len(l) : i \in 0 + 1 .. Len(l)
  OBVIOUS
<1>4. \A i \in 1 .. Len(l) : \A v : v \in Carries(l[i]) => v \in Carried(l, 0 + 1, Len(l))
  BY <1>3, CarriedIs
<1> QED
  BY <1>2, <1>4 DEF Coming

\* what a written block carries was published
LEMMA FollowsCarries ==
    ASSUME NEW P, NEW b, NEW m, NEW n, Follows(P, b.recs, m, n)
    PROVE  /\ Carries(b) \subseteq 1 .. Len(P)
           /\ \A v : v \in Carries(b) <=> v \in Range(Vals(b.recs))
<1>1. b.recs \in Seq(Record) /\ \A i \in 1 .. Len(b.recs) : b.recs[i].val \in 1 .. Len(P)
  BY DEF Follows
<1>2. /\ DOMAIN Vals(b.recs) = 1 .. Len(b.recs)
      /\ \A i \in 1 .. Len(b.recs) : Vals(b.recs)[i] = b.recs[i].val
  BY DEF Vals
<1>3. \A v : v \in Range(Vals(b.recs)) <=> \E i \in 1 .. Len(b.recs) : v = b.recs[i].val
  BY <1>2 DEF Range
<1>4. \A v : v \in Carries(b) <=> \E i \in 1 .. Len(b.recs) : v = b.recs[i].val
  BY CarriesIs
<1>5. \A v \in Carries(b) : v \in 1 .. Len(P)
  BY <1>1, <1>4
<1> QED
  BY <1>3, <1>4, <1>5

\* membership in what is logged
LEMMA LoggedIs ==
    \A parts, v : v \in Logged(parts) <=>
        \E p \in 1 .. Len(parts) : \E i \in 1 .. Len(parts[p]) : v \in Carries(parts[p][i])
  BY CarriedIs DEF Logged

\* what is logged was published
LEMMA LoggedKnown ==
    ASSUME NEW P, NEW parts, NEW w, NEW ms, Parts(P, parts, w, ms)
    PROVE  Logged(parts) \subseteq 1 .. Len(P)
<1>1. SUFFICES ASSUME NEW p \in 1 .. Len(parts), NEW i \in 1 .. Len(parts[p]), NEW v \in Carries(parts[p][i])
               PROVE  v \in 1 .. Len(P)
  BY LoggedIs
<1>2. PICK ls : Linked(P, parts[p], ls)
  BY DEF Parts
<1>3. Follows(P, parts[p][i].recs, IF parts[p][i].init THEN NoMemory ELSE ls[i - 1], ls[i])
  BY <1>2 DEF Linked
<1> QED
  BY <1>3, FollowsCarries

-----------------------------------------------------------------------------
(* Steps that leave what readers have passed.                               *)

\* more may be published and written; what comes is what came, or new
Later(P, l, cur, ins, ms, Q, l2, cur2, ins2, ms2) ==
    /\ P \in Seq(Names) /\ (Q = P \/ \E k \in Names : Q = Append(P, k))
    /\ Len(l) \in Nat /\ Len(l2) \in Nat /\ Len(l) <= Len(l2)
    /\ \A i \in 1 .. Len(l) : l2[i] = l[i] /\ ms2[i] = ms[i]
    /\ Coming(l, 0, cur, ins) \subseteq 1 .. Len(P)
    /\ \A n \in 0 .. Len(l) : \A x \in Coming(l2, n, cur2, ins2) :
          x \in Coming(l, n, cur, ins) \/ (x \in Nat /\ x > Len(P))

\* later publications leave the earlier ones
LEMMA LaterPubs ==
    ASSUME NEW P, NEW Q, P \in Seq(Names), Q = P \/ \E k \in Names : Q = Append(P, k)
    PROVE  /\ Q \in Seq(Names) /\ Len(P) \in Nat /\ Len(Q) \in Nat /\ Len(P) <= Len(Q)
           /\ \A v \in 1 .. Len(P) : Q[v] = P[v] /\ v \in 1 .. Len(Q)
<1>1. CASE Q = P
  BY <1>1, LenProperties
<1>2. CASE \E k \in Names : Q = Append(P, k)
  BY <1>2, OneMore
<1> QED
  BY <1>1, <1>2

\* a reader is sound later
LEMMA ReaderStays ==
    ASSUME NEW P, NEW l, NEW cur, NEW ins, NEW ms, NEW Q, NEW l2, NEW cur2, NEW ins2, NEW ms2,
           Later(P, l, cur, ins, ms, Q, l2, cur2, ins2, ms2),
           NEW rd, ReaderSound(P, l, cur, ins, ms, rd)
    PROVE  ReaderSound(Q, l2, cur2, ins2, ms2, rd)
<1> DEFINE n == rd.pos
           up == Carried(l, 1, n)
           come == Coming(l, n, cur, ins)
           come2 == Coming(l2, n, cur2, ins2)
<1>1. rd \in Readers /\ n \in Nat /\ n <= Len(l) /\ rd.got \in Seq(Nat) /\ Len(rd.got) \in Nat
  BY LenProperties DEF ReaderSound, Readers
<1>2. n \in 0 .. Len(l) /\ Len(l) \in Nat /\ Len(l2) \in Nat /\ Len(l) <= Len(l2)
  BY <1>1 DEF Later
<1>3. Carried(l2, 1, n) = up
  <2>1. \A i \in 1 .. n : l2[i] = l[i]
    BY <1>2 DEF Later
  <2>2. \A v : v \in Carried(l2, 1, n) <=> v \in Carried(l, 1, n)
    BY <2>1, CarriedIs
  <2> QED
    BY <2>2
<1>4. Remembered(ms2, rd)
  <2>1. n > 0 => ms2[n] = ms[n]
    BY <1>1, <1>2 DEF Later
  <2> QED
    BY <2>1 DEF ReaderSound, Remembered
<1>5. /\ Len(P) \in Nat /\ Len(P) <= Len(Q) /\ Len(Q) \in Nat
      /\ \A v \in 1 .. Len(P) : Q[v] = P[v] /\ v \in 1 .. Len(Q)
  BY LaterPubs DEF Later
<1>6. \A v \in 1 .. Len(P) : Asks(Q, rd, v) <=> Asks(P, rd, v)
  BY <1>5 DEF Asks
<1>7. up \subseteq 1 .. Len(P)
  BY <1>2, PassedComing DEF Later
<1>8. \A x \in come2 : x \in come \/ (x \in Nat /\ x > Len(P))
  BY <1>2 DEF Later
<1>9. Gets(P, up, come, rd)
  BY DEF ReaderSound
<1> HIDE DEF up, come, come2
<1>10. Gets(Q, up, come2, rd)
  <2>1. ASSUME NEW i \in 1 .. Len(rd.got)
        PROVE  rd.got[i] \in 1 .. Len(Q) /\ Asks(Q, rd, rd.got[i]) /\ \A x \in come2 : rd.got[i] < x
    <3>1. rd.got[i] \in 1 .. Len(P) /\ Asks(P, rd, rd.got[i]) /\ \A x \in come : rd.got[i] < x
      BY <1>9 DEF Gets
    <3>2. \A x \in Nat : x > Len(P) => rd.got[i] < x
      BY <1>5, <3>1
    <3> QED
      BY <1>5, <1>6, <1>8, <3>1, <3>2
  <2>2. \A v \in up : Asks(Q, rd, v) <=> Asks(P, rd, v)
    BY <1>6, <1>7
  <2> QED
    BY <1>9, <2>1, <2>2 DEF Gets
<1>11. rd.pos <= Len(l2) /\ Zips(rd)
  BY <1>1, <1>2 DEF ReaderSound
<1> QED
  BY <1>1, <1>3, <1>4, <1>10, <1>11 DEF ReaderSound, up, come2

\* the log is sound later
LEMMA LogStays ==
    ASSUME NEW P, NEW l, NEW cur, NEW ins, NEW ms, NEW Q, NEW l2, NEW cur2, NEW ins2, NEW ms2,
           Later(P, l, cur, ins, ms, Q, l2, cur2, ins2, ms2),
           NEW w, NEW parts, LogSound(P, l, cur, ins, ms, w, parts), Begins(l2, cur2, w)
    PROVE  LogSound(Q, l2, cur2, ins2, ms2, w, parts)
<1>1. w.pos \in 0 .. Len(l) /\ w.pos \in Nat /\ Len(l) \in Nat
  BY DEF LogSound, Begins, Later
<1>2. Parts(Q, parts, w, ms2)
  <2> SUFFICES ASSUME NEW p \in 1 .. Len(parts)
               PROVE  \E ls : /\ Linked(Q, parts[p], ls)
                              /\ p = Len(parts) /\ w.open /\ w.started /\ w.pos > 0 =>
                                    ls[Len(parts[p])] = ms2[w.pos]
    BY DEF Parts
  <2>1. PICK ls : /\ Linked(P, parts[p], ls)
                  /\ p = Len(parts) /\ w.open /\ w.started /\ w.pos > 0 =>
                        ls[Len(parts[p])] = ms[w.pos]
    BY DEF LogSound, Parts
  <2>2. Linked(Q, parts[p], ls)
    <3>1. CASE Q = P
      BY <2>1, <3>1
    <3>2. CASE \E k \in Names : Q = Append(P, k)
      BY <2>1, <3>2, LinkedKept DEF Later
    <3> QED
      BY <3>1, <3>2 DEF Later
  <2>3. w.pos > 0 => ms2[w.pos] = ms[w.pos]
    BY <1>1 DEF Later
  <2> QED
    BY <2>1, <2>2, <2>3
<1>3. Before(Logged(parts), Coming(l2, w.pos, cur2, ins2))
  <2>1. Logged(parts) \subseteq 1 .. Len(P)
    BY LoggedKnown DEF LogSound
  <2>2. \A x \in Coming(l2, w.pos, cur2, ins2) :
           x \in Coming(l, w.pos, cur, ins) \/ (x \in Nat /\ x > Len(P))
    BY <1>1 DEF Later
  <2>3. Before(Logged(parts), Coming(l, w.pos, cur, ins))
    BY DEF LogSound
  <2>4. Len(P) \in Nat
    BY LaterPubs DEF Later
  <2> QED
    BY <2>1, <2>2, <2>3, <2>4 DEF Before
<1> QED
  BY <1>2, <1>3 DEF LogSound

\* all is sound later, if the list, the current block and the queue are
LEMMA SoundFrom ==
    ASSUME NEW P, NEW l, NEW z, NEW ins, NEW rds, NEW w, NEW parts, NEW ms,
           Sound(P, l, z, ins, rds, w, parts, ms),
           NEW Q, NEW l2, NEW z2, NEW ins2, NEW ms2,
           Later(P, l, z.cur, ins, ms, Q, l2, z2.cur, ins2, ms2),
           ins2 \in Seq(Nat), Linked(Q, l2, ms2), CurrentSound(Q, l2, z2, ms2),
           Ordered(Q, l2, z2.cur, ins2), Begins(l2, z2.cur, w)
    PROVE  Sound(Q, l2, z2, ins2, rds, w, parts, ms2)
<1>1. Q \in Seq(Names)
  BY LaterPubs DEF Later
<1>2. \A c \in Cids : ReaderSound(Q, l2, z2.cur, ins2, ms2, rds[c])
  BY ReaderStays DEF Sound
<1>3. LogSound(Q, l2, z2.cur, ins2, ms2, w, parts)
  BY LogStays DEF Sound
<1> QED
  BY <1>1, <1>2, <1>3 DEF Sound

-----------------------------------------------------------------------------
(* The input side.                                                          *)

Fresh(isinit) == [init |-> isinit, recs |-> <<>>]

\* a block that is begun
LEMMA FreshIs ==
    ASSUME NEW f \in BOOLEAN
    PROVE  Fresh(f) \in Block /\ Fresh(f).init = f /\ Fresh(f).recs = <<>> /\ Carries(Fresh(f)) = {}
           /\ Rising(Vals(Fresh(f).recs))
<1>1. Fresh(f) \in Block /\ Fresh(f).init = f /\ Fresh(f).recs = <<>>
  BY DEF Fresh, Block
<1>2. \A v : v \notin Carries(Fresh(f))
  BY <1>1, CarriesIs
<1>3. Len(Vals(<<>>)) = 0
  BY DEF Vals
<1> QED
  BY <1>1, <1>2, <1>3 DEF Rising

\* a list of one block
LEMMA OneCarried ==
    ASSUME NEW b
    PROVE  Len(<<b>>) = 1 /\ <<b>>[1] = b /\ Carried(<<b>>, 1, Len(<<b>>)) = Carries(b)
<1>1. Len(<<b>>) = 1 /\ <<b>>[1] = b
  OBVIOUS
<1>2. \A v : v \in Carried(<<b>>, 1, 1) <=> v \in Carries(b)
  <2>1. \A i : i \in 1 .. 1 <=> i = 1
    OBVIOUS
  <2> QED
    BY <1>1, <2>1, CarriedIs
<1> QED
  BY <1>1, <1>2

\* a list of none
LEMMA NoneCarried == Len(<<>>) = 0 /\ Carried(<<>>, 1, Len(<<>>)) = {}
<1>1. \A i : i \notin 1 .. 0
  OBVIOUS
<1>2. \A v : v \notin Carried(<<>>, 1, 0)
  BY <1>1, CarriedIs
<1> QED
  BY <1>2

\* the current block, when there is one
LEMMA CurrentIs ==
    ASSUME NEW P, NEW l, NEW z, NEW ms, CurrentSound(P, l, z, ms), z.cur # <<>>
    PROVE  z.cur = <<z.cur[1]>> /\ z.cur[1] \in Block /\ Len(z.cur) = 1
<1>1. z.cur \in Seq(Block) /\ Len(z.cur) <= 1 /\ Len(z.cur) \in Nat
  BY LenProperties DEF CurrentSound
<1>2. Len(z.cur) = 1
  <2> DEFINE n == Len(z.cur)
  <2>1. n \in Nat \ {0} /\ n <= 1
    BY <1>1, EmptySeq
  <2> HIDE DEF n
  <2>2. n = 1
    BY <2>1
  <2> QED
    BY <2>2 DEF n
<1>3. z.cur[1] \in Block
  BY <1>1, <1>2, ElementOfSeq
<1>4. <<z.cur[1]>> \in Seq(Block) /\ Len(<<z.cur[1]>>) = 1 /\ <<z.cur[1]>>[1] = z.cur[1]
  BY <1>3
<1> QED
  BY <1>1, <1>2, <1>3, <1>4, SeqEqual

\* a current block that is sound
LEMMA CurrentFrom ==
    ASSUME NEW P, NEW l, NEW ms, NEW z, Shaped(z), NEW b \in Block, z.cur = <<b>>, z.ago \in Memory,
           Follows(P, b.recs, IF b.init THEN NoMemory ELSE ms[Len(l)], z.ago), l = <<>> => b.init
    PROVE  CurrentSound(P, l, z, ms)
<1>1. Len(z.cur) = 1 /\ z.cur[1] = b
  BY OneCarried
<1>2. <<b>> \in Seq(Block)
  OBVIOUS
<1>3. z.cur \in Seq(Block) /\ Len(z.cur) <= 1
  BY <1>1, <1>2
<1>4. /\ Follows(P, z.cur[1].recs, IF z.cur[1].init THEN NoMemory ELSE ms[Len(l)], z.ago)
      /\ l = <<>> => z.cur[1].init
  BY <1>1
<1> QED
  BY <1>3, <1>4 DEF CurrentSound

\* membership in a sequence
LEMMA RangeIs ==
    ASSUME NEW S, NEW s \in Seq(S)
    PROVE  \A v : v \in Range(s) <=> \E i \in 1 .. Len(s) : v = s[i]
<1>1. DOMAIN s = 1 .. Len(s)
  BY LenProperties
<1> QED
  BY <1>1 DEF Range

\* a sequence with one more value
LEMMA RangeMore ==
    ASSUME NEW S, NEW s \in Seq(S), NEW x \in S
    PROVE  Range(Append(s, x)) = Range(s) \cup {x}
<1>1. /\ Append(s, x) \in Seq(S) /\ Len(Append(s, x)) = Len(s) + 1 /\ Len(s) \in Nat
      /\ Append(s, x)[Len(s) + 1] = x /\ \A i \in 1 .. Len(s) : Append(s, x)[i] = s[i]
  BY OneMore
<1>2. \A i : i \in 1 .. Len(s) + 1 <=> i \in 1 .. Len(s) \/ i = Len(s) + 1
  BY <1>1
<1>3. \A v : v \in Range(Append(s, x)) <=> \E i \in 1 .. Len(s) + 1 : v = Append(s, x)[i]
  <2> DEFINE r == Append(s, x)
  <2>1. r \in Seq(S) /\ Len(r) = Len(s) + 1
    BY <1>1
  <2> HIDE DEF r
  <2>2. \A v : v \in Range(r) <=> \E i \in 1 .. Len(r) : v = r[i]
    BY <2>1, RangeIs
  <2> QED
    BY <2>1, <2>2 DEF r
<1>4. \A v : v \in Range(s) <=> \E i \in 1 .. Len(s) : v = s[i]
  BY RangeIs
<1>5. \A v : v \in Range(Append(s, x)) <=> v \in Range(s) \/ v = x
  BY <1>1, <1>2, <1>3, <1>4
<1> QED
  BY <1>5

\* the queue without its first value
LEMMA TailIs ==
    ASSUME NEW s \in Seq(Nat), s # <<>>, Rising(s)
    PROVE  /\ Tail(s) \in Seq(Nat) /\ Rising(Tail(s)) /\ Head(s) \in Nat
           /\ Range(s) = {Head(s)} \cup Range(Tail(s)) /\ Before({Head(s)}, Range(Tail(s)))
<1> DEFINE t == Tail(s)
           L == Len(s)
<1>1. L \in Nat /\ L > 0 /\ Head(s) = s[1] /\ \A i \in 1 .. L : s[i] \in Nat
  BY ElementOfSeq, LenProperties, EmptySeq
<1>2. t \in Seq(Nat) /\ Len(t) = L - 1 /\ \A i \in 1 .. L - 1 : t[i] = s[i + 1]
  BY HeadTailProperties
<1> HIDE DEF t, L
<1>3. \A i, j \in 1 .. L : i < j => s[i] < s[j]
  BY DEF Rising, L
<1>4. Rising(t)
  <2> SUFFICES ASSUME NEW i \in 1 .. L - 1, NEW j \in 1 .. L - 1, i < j PROVE t[i] < t[j]
    BY <1>2 DEF Rising
  <2>1. i + 1 \in 1 .. L /\ j + 1 \in 1 .. L /\ i + 1 < j + 1
    BY <1>1
  <2> QED
    BY <1>2, <1>3, <2>1
<1>5. \A v : v \in Range(t) <=> \E i \in 1 .. L - 1 : v = s[i + 1]
  <2> TAKE v
  <2>1. v \in Range(t) <=> \E i \in 1 .. L - 1 : v = t[i]
    BY <1>2, RangeIs
  <2>2. \A i \in 1 .. L - 1 : t[i] = s[i + 1]
    BY <1>2
  <2> QED
    BY <2>1, <2>2
<1>6. \A v : v \in Range(s) <=> \E i \in 1 .. L : v = s[i]
  BY RangeIs DEF L
<1>7. \A v : v \in Range(s) <=> v = s[1] \/ v \in Range(t)
  <2> TAKE v
  <2>1. \A i \in 1 .. L : i = 1 \/ (i - 1 \in 1 .. L - 1 /\ (i - 1) + 1 = i)
    BY <1>1
  <2>2. \A i \in 1 .. L - 1 : i + 1 \in 1 .. L
    BY <1>1
  <2>3. 1 \in 1 .. L
    BY <1>1
  <2> QED
    BY <1>5, <1>6, <2>1, <2>2, <2>3
<1>8. \A v \in Range(t) : s[1] < v
  <2>1. \A i \in 1 .. L - 1 : 1 \in 1 .. L /\ i + 1 \in 1 .. L /\ 1 < i + 1
    BY <1>1
  <2> QED
    BY <1>3, <1>5, <2>1
<1> QED
  BY <1>1, <1>2, <1>4, <1>7, <1>8 DEF Before, t, L

\* a step that does not change the list and what memories there are
LEMMA SameList ==
    ASSUME NEW P, NEW l, NEW z, NEW ins, NEW rds, NEW w, NEW parts, NEW ms,
           Sound(P, l, z, ins, rds, w, parts, ms),
           NEW z2, NEW ins2, ins2 \in Seq(Nat), CurrentSound(P, l, z2, ms),
           Carried(z2.cur, 1, Len(z2.cur)) \cup Range(ins2) \subseteq
                Carried(z.cur, 1, Len(z.cur)) \cup Range(ins),
           \A i \in 1 .. Len(z2.cur) : Rising(Vals(z2.cur[i].recs)),
           Rising(ins2), Before(Carried(z2.cur, 1, Len(z2.cur)), Range(ins2)),
           z2.cur # <<>> /\ z2.cur[1].init = FALSE => z.cur # <<>> /\ z.cur[1].init = FALSE
    PROVE  Sound(P, l, z2, ins2, rds, w, parts, ms)
<1>1. Len(l) \in Nat /\ l \in Seq(Block)
  BY LenProperties DEF Sound, Linked
<1>2. \A n : Coming(l, n, z2.cur, ins2) \subseteq Coming(l, n, z.cur, ins)
  BY DEF Coming
<1>3. Ordered(P, l, z2.cur, ins2)
  BY <1>2 DEF Sound, Ordered, Before
<1>4. Later(P, l, z.cur, ins, ms, P, l, z2.cur, ins2, ms)
  BY <1>1, <1>2 DEF Later, Sound, Ordered
<1>5. Begins(l, z2.cur, w)
  <2>1. Begins(l, z.cur, w)
    BY DEF Sound, LogSound
  <2>2. z2.cur # <<>> => z2.cur[1].init \in BOOLEAN
    <3>1. ASSUME z2.cur # <<>> PROVE z2.cur[1] \in Block
      BY <3>1, CurrentIs
    <3> QED
      BY <3>1 DEF Block
  <2> QED
    BY <2>1, <2>2 DEF Begins
<1> QED
  BY <1>3, <1>4, <1>5, SoundFrom DEF Sound

\* what the parts of z2 are
ZipIs(z2, cur, ago) == Shaped(z2) /\ z2.cur = cur /\ z2.ago = ago

\* a first block is begun
LEMMA OpenFlows ==
    ASSUME NEW P, NEW l, NEW z, NEW ins, NEW rds, NEW w, NEW parts,
           Flows(P, l, z, ins, rds, w, parts), z.cur = <<>>,
           NEW z2, ZipIs(z2, <<Fresh(TRUE)>>, NoMemory)
    PROVE  Flows(P, l, z2, ins, rds, w, parts)
<1> DEFINE b == Fresh(TRUE)
<1>1. PICK ms : Sound(P, l, z, ins, rds, w, parts, ms)
  BY DEF Flows
<1>2. b \in Block /\ b.init = TRUE /\ b.recs = <<>> /\ Carries(b) = {} /\ Rising(Vals(b.recs))
  BY FreshIs
<1> HIDE DEF b
<1>3. /\ Len(z2.cur) = 1 /\ z2.cur[1] = b /\ Carried(z2.cur, 1, Len(z2.cur)) = {}
      /\ z2.cur \in Seq(Block)
  <2>1. z2.cur = <<b>>
    BY DEF ZipIs, b
  <2> QED
    BY <1>2, <2>1, OneCarried
<1>4. CurrentSound(P, l, z2, ms)
  <2>1. Follows(P, <<>>, NoMemory, NoMemory) /\ NoMemory \in Memory
    BY FollowsNone, NoMemoryIs
  <2>2. Shaped(z2) /\ z2.cur = <<b>> /\ z2.ago = NoMemory
    BY DEF ZipIs, b
  <2> QED
    BY <1>2, <2>1, <2>2, CurrentFrom
<1>5. ins \in Seq(Nat) /\ Rising(ins) /\ Before({}, Range(ins))
  BY <1>1 DEF Sound, Ordered, Before
<1>6. \A i \in 1 .. Len(z2.cur) : Rising(Vals(z2.cur[i].recs))
  BY <1>2, <1>3
<1>7. Sound(P, l, z2, ins, rds, w, parts, ms)
  BY <1>1, <1>2, <1>3, <1>4, <1>5, <1>6, SameList
<1> QED
  BY <1>7 DEF Flows

\* what is not encoded leaves the queue
LEMMA DropFlows ==
    ASSUME NEW P, NEW l, NEW z, NEW ins, NEW rds, NEW w, NEW parts,
           Flows(P, l, z, ins, rds, w, parts), ins # <<>>
    PROVE  Flows(P, l, z, Tail(ins), rds, w, parts)
<1>1. PICK ms : Sound(P, l, z, ins, rds, w, parts, ms)
  BY DEF Flows
<1>2. ins \in Seq(Nat) /\ Rising(ins)
  BY <1>1 DEF Sound, Ordered
<1>3. Tail(ins) \in Seq(Nat) /\ Rising(Tail(ins)) /\ Range(Tail(ins)) \subseteq Range(ins)
  BY <1>2, TailIs
<1>4. /\ Before(Carried(z.cur, 1, Len(z.cur)), Range(Tail(ins)))
      /\ \A i \in 1 .. Len(z.cur) : Rising(Vals(z.cur[i].recs))
  BY <1>1, <1>3 DEF Sound, Ordered, Before
<1>5. CurrentSound(P, l, z, ms)
  BY <1>1 DEF Sound
<1>6. Sound(P, l, z, Tail(ins), rds, w, parts, ms)
  BY <1>1, <1>3, <1>4, <1>5, SameList
<1> QED
  BY <1>6 DEF Flows

\* a block with one more record
LEMMA CarriesMore ==
    ASSUME NEW b \in Block, NEW r \in Record, NEW f
    PROVE  LET b2 == [init |-> f, recs |-> Append(b.recs, r)]
           IN  /\ Carries(b2) = Carries(b) \cup {r.val}
               /\ Rising(Vals(b.recs)) /\ Before(Carries(b), {r.val}) => Rising(Vals(b2.recs))
<1> DEFINE b2 == [init |-> f, recs |-> Append(b.recs, r)]
           L == Len(b.recs)
<1>1. b.recs \in Seq(Record) /\ b2.recs = Append(b.recs, r)
  BY DEF Block
<1>2. /\ b2.recs \in Seq(Record) /\ Len(b2.recs) = L + 1 /\ L \in Nat /\ b2.recs[L + 1] = r
      /\ \A i \in 1 .. L : b2.recs[i] = b.recs[i]
  BY <1>1, OneMore
<1> HIDE DEF b2, L
<1>3. \A i : i \in 1 .. L + 1 <=> i \in 1 .. L \/ i = L + 1
  BY <1>2
<1>4. /\ \A v : v \in Carries(b2) <=> \E i \in 1 .. L + 1 : v = b2.recs[i].val
      /\ \A v : v \in Carries(b) <=> \E i \in 1 .. L : v = b.recs[i].val
  BY <1>2, CarriesIs DEF L
<1>5. \A v : v \in Carries(b2) <=> v \in Carries(b) \/ v = r.val
  BY <1>2, <1>3, <1>4
<1>6. ASSUME Rising(Vals(b.recs)), Before(Carries(b), {r.val}) PROVE Rising(Vals(b2.recs))
  <2>1. /\ Len(Vals(b2.recs)) = L + 1 /\ Len(Vals(b.recs)) = L
        /\ \A i \in 1 .. L + 1 : Vals(b2.recs)[i] = b2.recs[i].val
        /\ \A i \in 1 .. L : Vals(b.recs)[i] = b.recs[i].val
    BY <1>1, <1>2, ValsAre DEF L
  <2>2. SUFFICES ASSUME NEW i \in 1 .. L + 1, NEW j \in 1 .. L + 1, i < j
                 PROVE  b2.recs[i].val < b2.recs[j].val
    BY <2>1 DEF Rising
  <2>3. i \in 1 .. L
    BY <1>2, <2>2
  <2>4. CASE j = L + 1
    <3>1. b.recs[i].val \in Carries(b)
      BY <1>4, <2>3
    <3> QED
      BY <1>2, <1>6, <2>3, <2>4, <3>1 DEF Before
  <2>5. CASE j # L + 1
    <3>1. j \in 1 .. L
      BY <1>2, <2>5
    <3>2. b.recs[i].val < b.recs[j].val
      BY <1>6, <2>1, <2>2, <2>3, <3>1 DEF Rising
    <3> QED
      BY <1>2, <2>3, <3>1, <3>2
  <2> QED
    BY <2>4, <2>5
<1> QED
  BY <1>5, <1>6 DEF b2

\* a record goes from the queue to the current block
LEMMA RecordFlows ==
    ASSUME NEW z, Flows(pubs, outputs, z, inputs, reader, wlog, log.parts), z.cur # <<>>, inputs # <<>>,
           NEW z2, NEW b2, NEW n2, ZipIs(z2, <<b2>>, n2),
           b2 = [init |-> z.cur[1].init,
                 recs |-> Append(z.cur[1].recs, RecOf(pubs, z.ago, Head(inputs)))],
           n2 = [z.ago EXCEPT ![pubs[Head(inputs)]] = Head(inputs)]
    PROVE  /\ Flows(pubs, outputs, z2, Tail(inputs), reader, wlog, log.parts)
           /\ Carried(z2.cur, 1, Len(z2.cur)) = Carried(z.cur, 1, Len(z.cur)) \cup {Head(inputs)}
<1> DEFINE b == z.cur[1]
           v == Head(inputs)
           r == RecOf(pubs, z.ago, v)
           c2 == [init |-> b.init, recs |-> Append(b.recs, r)]
           m2 == [z.ago EXCEPT ![pubs[v]] = v]
<1>0. ZipIs(z2, <<c2>>, m2)
  OBVIOUS
<1>1. PICK ms : Sound(pubs, outputs, z, inputs, reader, wlog, log.parts, ms)
  BY DEF Flows
<1>2. /\ inputs \in Seq(Nat) /\ Rising(inputs) /\ pubs \in Seq(Names) /\ CurrentSound(pubs, outputs, z, ms)
      /\ Before(Carried(z.cur, 1, Len(z.cur)), Range(inputs))
      /\ Range(inputs) \subseteq 1 .. Len(pubs)
      /\ \A i \in 1 .. Len(z.cur) : Rising(Vals(z.cur[i].recs))
  BY <1>1 DEF Sound, Ordered, Coming
<1>3. /\ Tail(inputs) \in Seq(Nat) /\ Rising(Tail(inputs)) /\ v \in Nat
      /\ Range(inputs) = {v} \cup Range(Tail(inputs)) /\ Before({v}, Range(Tail(inputs)))
  BY <1>2, TailIs
<1>4. z.cur = <<b>> /\ b \in Block /\ Len(z.cur) = 1
  BY <1>2, CurrentIs
<1>5. Carried(z.cur, 1, Len(z.cur)) = Carries(b)
  <2> HIDE DEF b
  <2> QED
    BY <1>4, OneCarried
<1>6. z.ago \in Memory /\ Follows(pubs, b.recs, IF b.init THEN NoMemory ELSE ms[Len(outputs)], z.ago)
      /\ (outputs = <<>> => b.init)
  BY <1>2 DEF CurrentSound
<1>7. v \in 1 .. Len(pubs)
  BY <1>2, <1>3
<1> HIDE DEF b, v
<1>8. /\ r \in Record /\ m2 \in Memory
      /\ Follows(pubs, Append(b.recs, r), IF b.init THEN NoMemory ELSE ms[Len(outputs)], m2)
  BY <1>2, <1>6, <1>7, FollowsMore
<1>9. r.val = v
  BY DEF RecOf
<1>10. Rising(Vals(b.recs)) /\ Before(Carries(b), {v})
  BY <1>2, <1>3, <1>4, <1>5 DEF Before, b
<1> HIDE DEF r
<1>11. Carries(c2) = Carries(b) \cup {v} /\ Rising(Vals(c2.recs))
  BY <1>4, <1>8, <1>9, <1>10, CarriesMore
<1>12. c2 \in Block /\ c2.init = b.init /\ c2.recs = Append(b.recs, r)
  <2>1. b.recs \in Seq(Record) /\ b.init \in BOOLEAN
    BY <1>4 DEF Block
  <2>2. Append(b.recs, r) \in Seq(Record)
    BY <1>8, <2>1, OneMore
  <2> QED
    BY <2>1, <2>2 DEF Block
<1>13. z2.cur = <<c2>> /\ z2.ago = m2 /\ Shaped(z2)
  BY <1>0 DEF ZipIs
<1> HIDE DEF c2, m2
<1>14. /\ Len(z2.cur) = 1 /\ z2.cur[1] = c2 /\ Carried(z2.cur, 1, Len(z2.cur)) = Carries(c2)
       /\ z2.cur \in Seq(Block)
  BY <1>12, <1>13, OneCarried
<1>15. CurrentSound(pubs, outputs, z2, ms)
  BY <1>6, <1>8, <1>12, <1>13, CurrentFrom
<1>16. Carried(z2.cur, 1, Len(z2.cur)) = Carried(z.cur, 1, Len(z.cur)) \cup {v}
  BY <1>5, <1>11, <1>14
<1>17. Before(Carried(z2.cur, 1, Len(z2.cur)), Range(Tail(inputs)))
  BY <1>2, <1>3, <1>16 DEF Before
<1>18. \A i \in 1 .. Len(z2.cur) : Rising(Vals(z2.cur[i].recs))
  BY <1>11, <1>14
<1>19. Carried(z2.cur, 1, Len(z2.cur)) \cup Range(Tail(inputs)) \subseteq
          Carried(z.cur, 1, Len(z.cur)) \cup Range(inputs)
  BY <1>3, <1>16
<1>20. z2.cur # <<>> /\ z2.cur[1].init = FALSE => z.cur # <<>> /\ z.cur[1].init = FALSE
  BY <1>12, <1>14 DEF b
<1>21. Sound(pubs, outputs, z2, Tail(inputs), reader, wlog, log.parts, ms)
  BY <1>1, <1>3, <1>15, <1>17, <1>18, <1>19, <1>20, SameList
<1> QED
  BY <1>16, <1>21 DEF Flows, v

\* the current block goes to the list
LEMMA PushFlows ==
    ASSUME NEW P, NEW l, NEW z, NEW ins, NEW rds, NEW w, NEW parts,
           Flows(P, l, z, ins, rds, w, parts), z.cur # <<>>, NEW f \in BOOLEAN,
           NEW z2, ZipIs(z2, <<Fresh(f)>>, IF f THEN NoMemory ELSE z.ago)
    PROVE  /\ Flows(P, Append(l, z.cur[1]), z2, ins, rds, w, parts)
           /\ \A n \in 0 .. Len(l) : Coming(Append(l, z.cur[1]), n, z2.cur, ins) = Coming(l, n, z.cur, ins)
<1> DEFINE b == z.cur[1]
           l2 == Append(l, b)
           L == Len(l)
<1>1. PICK ms : Sound(P, l, z, ins, rds, w, parts, ms)
  BY DEF Flows
<1>2. CurrentSound(P, l, z, ms) /\ Linked(P, l, ms) /\ Ordered(P, l, z.cur, ins) /\ P \in Seq(Names)
  BY <1>1 DEF Sound
<1>3. z.cur = <<b>> /\ b \in Block /\ Len(z.cur) = 1 /\ Carried(z.cur, 1, Len(z.cur)) = Carries(b)
  <2>1. z.cur = <<b>> /\ b \in Block /\ Len(z.cur) = 1
    BY <1>2, CurrentIs
  <2> HIDE DEF b
  <2> QED
    BY <2>1, OneCarried
<1>4. z.ago \in Memory /\ Follows(P, b.recs, IF b.init THEN NoMemory ELSE ms[L], z.ago)
      /\ (l = <<>> => b.init)
  BY <1>2 DEF CurrentSound
<1>5. Rising(Vals(b.recs))
  BY <1>2, <1>3 DEF Ordered
<1>6. b.init \in BOOLEAN
  BY <1>3 DEF Block
<1> HIDE DEF b
<1>7. PICK ns : Linked(P, l2, ns) /\ ns[L + 1] = z.ago /\ \A i \in 0 .. L : ns[i] = ms[i]
  BY <1>2, <1>3, <1>4, LinkedMore
<1>8. l \in Seq(Block) /\ L \in Nat /\ Len(l2) = L + 1 /\ l2[L + 1] = b /\ \A i \in 1 .. L : l2[i] = l[i]
  <2>1. l \in Seq(Block)
    BY <1>2 DEF Linked
  <2> QED
    BY <1>3, <2>1, OneMore
<1>9. /\ Fresh(f) \in Block /\ Fresh(f).init = f /\ Fresh(f).recs = <<>> /\ Carries(Fresh(f)) = {}
      /\ Rising(Vals(Fresh(f).recs))
  BY FreshIs
<1>10. z2.cur = <<Fresh(f)>> /\ Shaped(z2) /\ z2.ago = IF f THEN NoMemory ELSE z.ago
  BY DEF ZipIs
<1>11. Len(z2.cur) = 1 /\ z2.cur[1] = Fresh(f) /\ Carried(z2.cur, 1, Len(z2.cur)) = {}
  BY <1>9, <1>10, OneCarried
<1>12. /\ \A n \in 0 .. L : Coming(l2, n, z2.cur, ins) = Coming(l, n, z.cur, ins)
       /\ Coming(l2, L + 1, z2.cur, ins) = Range(ins)
  <2>1. ASSUME NEW n \in 0 .. L PROVE Coming(l2, n, z2.cur, ins) = Coming(l, n, z.cur, ins)
    <3>1. n + 1 \in Nat /\ n + 1 > 0 /\ n + 1 <= L + 1
      BY <1>8
    <3>2. Carried(l2, n + 1, L + 1) = Carried(l, n + 1, L) \cup Carries(b)
      BY <1>3, <1>8, <3>1, CarriedMore
    <3> QED
      BY <1>3, <1>8, <1>11, <3>2 DEF Coming
  <2>2. Carried(l2, (L + 1) + 1, L + 1) = {}
    <3>1. \A i : i \notin (L + 1) + 1 .. L + 1
      BY <1>8
    <3>2. \A v : v \notin Carried(l2, (L + 1) + 1, L + 1)
      BY <3>1, CarriedIs
    <3> QED
      BY <3>2
  <2> QED
    BY <1>8, <1>11, <2>1, <2>2 DEF Coming
<1> HIDE DEF l2
<1>13. CurrentSound(P, l2, z2, ns)
  <2> DEFINE m == IF Fresh(f).init THEN NoMemory ELSE ns[Len(l2)]
  <2>1. m = z2.ago /\ z2.ago \in Memory
    BY <1>4, <1>7, <1>8, <1>9, <1>10, NoMemoryIs
  <2>2. Follows(P, <<>>, m, z2.ago)
    BY <2>1, FollowsNone
  <2>3. l2 # <<>>
    <3>1. Len(l2) # 0
      BY <1>8
    <3> QED
      BY <3>1
  <2> QED
    BY <1>9, <1>10, <2>1, <2>2, <2>3, CurrentFrom
<1>14. Ordered(P, l2, z2.cur, ins)
  <2>1. \A i \in 1 .. Len(l2) : Rising(Vals(l2[i].recs))
    <3> TAKE i \in 1 .. Len(l2)
    <3>1. i \in 1 .. L \/ i = L + 1
      BY <1>8
    <3>2. \A j \in 1 .. L : Rising(Vals(l[j].recs))
      BY <1>2 DEF Ordered
    <3> QED
      BY <1>5, <1>8, <3>1, <3>2
  <2>2. \A i \in 1 .. Len(z2.cur) : Rising(Vals(z2.cur[i].recs))
    BY <1>9, <1>11
  <2>3. \A i \in 1 .. Len(l2) : Before(Carries(l2[i]), Coming(l2, i, z2.cur, ins))
    <3> TAKE i \in 1 .. Len(l2)
    <3>1. CASE i = L + 1
      <4>1. Before(Carries(b), Range(ins))
        BY <1>2, <1>3 DEF Ordered
      <4> QED
        BY <1>8, <1>12, <3>1, <4>1
    <3>2. CASE i # L + 1
      <4>1. i \in 1 .. L /\ i \in 0 .. L
        BY <1>8, <3>2
      <4>2. Before(Carries(l[i]), Coming(l, i, z.cur, ins))
        BY <1>2, <4>1 DEF Ordered
      <4> QED
        BY <1>8, <1>12, <4>1, <4>2
    <3> QED
      BY <3>1, <3>2
  <2>4. Before(Carried(z2.cur, 1, Len(z2.cur)), Range(ins)) /\ Rising(ins)
    BY <1>2, <1>11 DEF Before, Ordered
  <2>5. Coming(l2, 0, z2.cur, ins) \subseteq 1 .. Len(P)
    <3>1. 0 \in 0 .. L
      BY <1>8
    <3> QED
      BY <1>2, <1>12, <3>1 DEF Ordered
  <2> QED
    BY <2>1, <2>2, <2>3, <2>4, <2>5 DEF Ordered
<1>15. Begins(l2, z2.cur, w)
  <2>1. Begins(l, z.cur, w)
    BY <1>1 DEF Sound, LogSound
  <2>2. w.pos \in Nat /\ w.pos <= L
    BY <2>1 DEF Begins
  <2>3. w.pos <= Len(l2) /\ w.pos # Len(l2)
    BY <1>8, <2>2
  <2>4. ASSUME ~w.isinit PROVE l2[w.pos + 1].init
    <3>1. CASE w.pos = L
      BY <1>3, <1>8, <2>1, <2>4, <3>1 DEF Begins, b
    <3>2. CASE w.pos # L
      <4>1. w.pos < L /\ w.pos + 1 \in 1 .. L
        BY <1>8, <2>2, <3>2
      <4> QED
        BY <1>8, <2>1, <2>4, <4>1 DEF Begins
    <3> QED
      BY <3>1, <3>2
  <2> QED
    BY <2>1, <2>3, <2>4 DEF Begins
<1>16. Later(P, l, z.cur, ins, ms, P, l2, z2.cur, ins, ns)
  <2>1. \A i \in 1 .. L : l2[i] = l[i] /\ ns[i] = ms[i]
    BY <1>7, <1>8
  <2>2. Coming(l, 0, z.cur, ins) \subseteq 1 .. Len(P)
    BY <1>2 DEF Ordered
  <2> QED
    BY <1>2, <1>8, <1>12, <2>1, <2>2 DEF Later
<1>17. ins \in Seq(Nat)
  BY <1>1 DEF Sound
<1>18. Sound(P, l2, z2, ins, rds, w, parts, ns)
  BY <1>1, <1>7, <1>13, <1>14, <1>15, <1>16, <1>17, SoundFrom
<1> QED
  BY <1>12, <1>18 DEF Flows, l2, b

\* a publication joins the queue
LEMMA PublishFlows ==
    ASSUME NEW P, NEW l, NEW z, NEW ins, NEW rds, NEW w, NEW parts,
           Flows(P, l, z, ins, rds, w, parts), NEW k \in Names
    PROVE  Flows(Append(P, k), l, z, Append(ins, Len(P) + 1), rds, w, parts)
<1> DEFINE Q == Append(P, k)
           x == Len(P) + 1
           ins2 == Append(ins, x)
<1>1. PICK ms : Sound(P, l, z, ins, rds, w, parts, ms)
  BY DEF Flows
<1>2. /\ CurrentSound(P, l, z, ms) /\ Linked(P, l, ms) /\ Ordered(P, l, z.cur, ins)
      /\ P \in Seq(Names) /\ ins \in Seq(Nat) /\ Len(l) \in Nat
  BY <1>1, LenProperties DEF Sound, Linked
<1>3. Len(P) \in Nat /\ x \in Nat /\ x > Len(P) /\ Len(Q) = x /\ Q \in Seq(Names)
  BY <1>2, OneMore
<1>4. /\ ins2 \in Seq(Nat) /\ Len(ins2) = Len(ins) + 1 /\ Len(ins) \in Nat /\ ins2[Len(ins) + 1] = x
      /\ \A i \in 1 .. Len(ins) : ins2[i] = ins[i]
  BY <1>2, <1>3, OneMore
<1>5. Range(ins2) = Range(ins) \cup {x}
  BY <1>2, <1>3, RangeMore
<1>6. Linked(Q, l, ms)
  BY <1>2, LinkedKept
<1>7. CurrentSound(Q, l, z, ms)
  BY <1>2, FollowsKept DEF CurrentSound
<1>8. Coming(l, 0, z.cur, ins) \subseteq 1 .. Len(P)
  BY <1>2 DEF Ordered
<1>9. \A n \in 0 .. Len(l) : Coming(l, n, z.cur, ins2) = Coming(l, n, z.cur, ins) \cup {x}
  BY <1>5 DEF Coming
<1>10. Range(ins) \subseteq 1 .. Len(P) /\ Carried(z.cur, 1, Len(z.cur)) \subseteq 1 .. Len(P)
  BY <1>8 DEF Coming
<1>11. \A i \in 1 .. Len(ins) : ins[i] \in 1 .. Len(P)
  BY <1>2, <1>10, RangeIs
<1>12. Rising(ins2)
  <2> SUFFICES ASSUME NEW i \in 1 .. Len(ins) + 1, NEW j \in 1 .. Len(ins) + 1, i < j
               PROVE  ins2[i] < ins2[j]
    BY <1>4 DEF Rising
  <2>1. i \in 1 .. Len(ins)
    BY <1>4
  <2>2. CASE j = Len(ins) + 1
    BY <1>3, <1>4, <1>11, <2>1, <2>2
  <2>3. CASE j # Len(ins) + 1
    <3>1. j \in 1 .. Len(ins)
      BY <1>4, <2>3
    <3>2. ins[i] < ins[j]
      BY <1>2, <2>1, <3>1 DEF Ordered, Rising
    <3> QED
      BY <1>4, <2>1, <3>1, <3>2
  <2> QED
    BY <2>2, <2>3
<1> HIDE DEF Q, x, ins2
<1>13. \A v \in 1 .. Len(P) : v < x
  BY <1>3
<1>14. Ordered(Q, l, z.cur, ins2)
  <2>1. \A i \in 1 .. Len(l) : Before(Carries(l[i]), Coming(l, i, z.cur, ins2))
    <3> TAKE i \in 1 .. Len(l)
    <3>1. Before(Carries(l[i]), Coming(l, i, z.cur, ins)) /\ i \in 0 .. Len(l)
      BY <1>2 DEF Ordered
    <3>2. Carries(l[i]) \subseteq 1 .. Len(P)
      <4>1. Carries(l[i]) \subseteq Coming(l, 0, z.cur, ins)
        BY <1>2, <3>1, PassedComing
      <4> QED
        BY <1>8, <4>1
    <3> QED
      BY <1>9, <1>13, <3>1, <3>2 DEF Before
  <2>2. Before(Carried(z.cur, 1, Len(z.cur)), Range(ins2))
    BY <1>2, <1>5, <1>10, <1>13 DEF Before, Ordered
  <2>3. Coming(l, 0, z.cur, ins2) \subseteq 1 .. Len(Q)
    <3>1. 0 \in 0 .. Len(l) /\ \A v \in 1 .. Len(P) : v \in 1 .. x
      BY <1>2, <1>3
    <3>2. x \in 1 .. x
      BY <1>3
    <3> QED
      BY <1>3, <1>8, <1>9, <3>1, <3>2
  <2> QED
    BY <1>2, <1>12, <2>1, <2>2, <2>3 DEF Ordered
<1>15. Later(P, l, z.cur, ins, ms, Q, l, z.cur, ins2, ms)
  <2>1. Q = P \/ \E n \in Names : Q = Append(P, n)
    BY DEF Q
  <2> QED
    BY <1>2, <1>3, <1>8, <1>9, <2>1 DEF Later
<1>16. Begins(l, z.cur, w)
  BY <1>1 DEF Sound, LogSound
<1>17. Sound(Q, l, z, ins2, rds, w, parts, ms)
  BY <1>1, <1>4, <1>6, <1>7, <1>14, <1>15, <1>16, SoundFrom
<1> QED
  BY <1>17 DEF Flows, Q, x, ins2

\* _sdcdb_new_data begins an empty block, with the memory that fits it
LEMMA NewBlockIs ==
    ASSUME NEW z, Shaped(z), NEW f \in BOOLEAN, NEW n
    PROVE  \E r \in BOOLEAN : (f => r) /\ ZipIs(NewBlock(z, f, n), <<Fresh(r)>>, IF r THEN NoMemory ELSE z.ago)
<1> DEFINE z2 == NewBlock(z, f, n)
<1>1. CASE f \/ z.size > InitSize
  <2>1. z2 = [cur |-> <<Fresh(TRUE)>>, size |-> 1, ago |-> NoMemory, last |-> n]
    BY <1>1 DEF NewBlock, Fresh
  <2> HIDE DEF z2
  <2>2. ZipIs(z2, <<Fresh(TRUE)>>, NoMemory)
    BY <2>1 DEF ZipIs, Shaped
  <2> QED
    BY <2>2 DEF z2
<1>2. CASE ~(f \/ z.size > InitSize)
  <2>1. z2 = [z EXCEPT !.cur = <<Fresh(FALSE)>>, !.size = z.size + 1]
    BY <1>2 DEF NewBlock, Fresh
  <2>2. Shaped(z2) /\ z2.cur = <<Fresh(FALSE)>> /\ z2.ago = z.ago
    <3> HIDE DEF z2
    <3> QED
      BY <2>1 DEF Shaped
  <2>3. ZipIs(z2, <<Fresh(FALSE)>>, z.ago)
    BY <2>2 DEF ZipIs
  <2> QED
    BY <1>2, <2>3
<1> QED
  BY <1>1, <1>2

StreamFlows == Flows(pubs, outputs, zip, inputs, reader, wlog, log.parts)

\* the block that the next record goes to
LEMMA OpenedIs ==
    ASSUME StreamFlows
    PROVE  /\ Flows(pubs, outputs, Opened, inputs, reader, wlog, log.parts)
           /\ Shaped(Opened) /\ Opened.cur # <<>>
           /\ Carried(Opened.cur, 1, Len(Opened.cur)) = Carried(zip.cur, 1, Len(zip.cur))
<1>1. PICK ms : Sound(pubs, outputs, zip, inputs, reader, wlog, log.parts, ms)
  BY DEF StreamFlows, Flows
<1>2. Shaped(zip)
  BY <1>1 DEF Sound, CurrentSound
<1>3. CASE zip.cur # <<>>
  BY <1>2, <1>3 DEF Opened, StreamFlows
<1>4. CASE zip.cur = <<>>
  <2>1. Opened = NewBlock(zip, TRUE, Len(outputs) + 1)
    BY <1>4 DEF Opened
  <2>2. ZipIs(Opened, <<Fresh(TRUE)>>, NoMemory)
    <3>1. PICK r \in BOOLEAN : (TRUE => r) /\ ZipIs(Opened, <<Fresh(r)>>, IF r THEN NoMemory ELSE zip.ago)
      BY <1>2, <2>1, NewBlockIs
    <3>2. r = TRUE
      BY <3>1
    <3> QED
      BY <3>1, <3>2
  <2>3. Flows(pubs, outputs, Opened, inputs, reader, wlog, log.parts)
    BY <1>4, <2>2, OpenFlows DEF StreamFlows
  <2>4. Opened.cur = <<Fresh(TRUE)>> /\ Shaped(Opened)
    BY <2>2 DEF ZipIs
  <2>5. Carried(Opened.cur, 1, Len(Opened.cur)) = {} /\ Len(Opened.cur) = 1
    BY <2>4, OneCarried, FreshIs
  <2>6. Opened.cur # <<>>
    BY <2>5
  <2> QED
    BY <1>4, <2>3, <2>4, <2>5, <2>6, NoneCarried
<1> QED
  BY <1>3, <1>4

\* what an action of the input side must show of what it does
LEMMA InputKeeps ==
    ASSUME StreamInv, ~fault,
           StreamFlows', UNCHANGED <<day, reader, wlog, log, hist>>,
           Coming(outputs', 0, zip'.cur, inputs') \subseteq Coming(outputs, 0, zip.cur, inputs),
           Coming(outputs, 0, zip.cur, inputs) \subseteq
                dropped \cup Coming(outputs', 0, zip'.cur, inputs'),
           Range(inputs') \subseteq Range(inputs),
           Carried(outputs', 1, wlog.pos) = Carried(outputs, 1, wlog.pos),
           ~tables /\ outputs = <<>> /\ Carried(zip.cur, 1, Len(zip.cur)) = {} =>
                outputs' = <<>> /\ Carried(zip'.cur, 1, Len(zip'.cur)) = {}
    PROVE  StreamInv'
<1>1. NothingLost'
  BY DEF StreamInv, NothingLost, hist, day
<1>2. HasPassed'
  BY DEF StreamInv, HasPassed, day
<1>3. DOMAIN log' = {"date", "parts"}
  BY DEF StreamInv
<1> QED
  BY <1>1, <1>2, <1>3 DEF StreamInv, StreamFlows

\* types and order of the state
LEMMA StreamFacts ==
    ASSUME StreamFlows
    PROVE  /\ pubs \in Seq(Names) /\ inputs \in Seq(Nat) /\ outputs \in Seq(Block)
           /\ Len(outputs) \in Nat /\ wlog.pos \in 0 .. Len(outputs)
           /\ Rising(inputs) /\ Range(inputs) \subseteq 1 .. Len(pubs)
           /\ Shaped(zip) /\ zip.cur \in Seq(Block) /\ zip.ago \in Memory
<1>1. PICK ms : Sound(pubs, outputs, zip, inputs, reader, wlog, log.parts, ms)
  BY DEF StreamFlows, Flows
<1>2. Coming(outputs, 0, zip.cur, inputs) \subseteq 1 .. Len(pubs) /\ Rising(inputs)
  BY <1>1 DEF Sound, Ordered
<1>3. Range(inputs) \subseteq 1 .. Len(pubs)
  BY <1>2 DEF Coming
<1>4. outputs \in Seq(Block) /\ Len(outputs) \in Nat
  BY <1>1, LenProperties DEF Sound, Linked
<1>5. wlog.pos \in Nat /\ wlog.pos <= Len(outputs)
  BY <1>1 DEF Sound, LogSound, Begins
<1> QED
  BY <1>1, <1>2, <1>3, <1>4, <1>5 DEF Sound, CurrentSound

\* a publication keeps the invariant
LEMMA PublishKeeps ==
    ASSUME StreamInv, ~fault, NEW k \in Names, Publish(k)
    PROVE  StreamInv'
<1> DEFINE x == Len(pubs) + 1
<1>0. StreamFlows
  BY DEF StreamInv, StreamFlows
<1>1. /\ pubs' = Append(pubs, k) /\ inputs' = Append(inputs, x)
      /\ dropped' = (IF tables THEN dropped ELSE dropped \cup {x})
      /\ UNCHANGED <<inited, stoped, tables, zip, outputs, reader, wlog, log, fault>>
  BY DEF Publish, day
<1>2. StreamFlows'
  BY <1>0, <1>1, PublishFlows DEF StreamFlows
<1>3. pubs \in Seq(Names) /\ inputs \in Seq(Nat) /\ Len(pubs') = x /\ x \in Nat /\ Len(pubs) \in Nat
  <2>1. pubs \in Seq(Names) /\ inputs \in Seq(Nat)
    BY <1>0, StreamFacts
  <2> QED
    BY <1>1, <2>1, OneMore
<1>4. Range(inputs') = Range(inputs) \cup {x}
  <2> HIDE DEF x
  <2>1. Range(Append(inputs, x)) = Range(inputs) \cup {x}
    BY <1>3, RangeMore
  <2> QED
    BY <1>1, <2>1
<1>5. Coming(outputs', 0, zip'.cur, inputs') = Coming(outputs, 0, zip.cur, inputs) \cup {x}
  BY <1>1, <1>4 DEF Coming
<1>6. \A v \in 1 .. x : v \in 1 .. Len(pubs) \/ v = x
  BY <1>3
<1> HIDE DEF x
<1>7. NothingLost'
  BY <1>1, <1>3, <1>4, <1>5, <1>6 DEF StreamInv, NothingLost
<1>8. HasPassed'
  BY <1>1 DEF StreamInv, HasPassed
<1> QED
  BY <1>1, <1>2, <1>7, <1>8 DEF StreamInv, StreamFlows

\* the block z.cur[1] goes to the list, a new one is begun
LEMMA PushIs ==
    ASSUME NEW z, Flows(pubs, outputs, z, inputs', reader, wlog, log.parts), z.cur # <<>>,
           PushBlock(z), outputs \in Seq(Block), Len(outputs) \in Nat
    PROVE  /\ Flows(pubs, outputs', zip', inputs', reader, wlog, log.parts)
           /\ \A n \in 0 .. Len(outputs) :
                 Coming(outputs', n, zip'.cur, inputs') = Coming(outputs, n, z.cur, inputs')
           /\ \A n \in 0 .. Len(outputs) : Carried(outputs', 1, n) = Carried(outputs, 1, n)
<1>1. PICK ms : Sound(pubs, outputs, z, inputs', reader, wlog, log.parts, ms)
  BY DEF Flows
<1>2. Shaped(z) /\ z.cur[1] \in Block
  BY <1>1, CurrentIs DEF Sound, CurrentSound
<1>3. outputs' = Append(outputs, z.cur[1]) /\ zip' = NewBlock(z, FALSE, Len(outputs) + 2)
  BY DEF PushBlock
<1>4. PICK r \in BOOLEAN : ZipIs(zip', <<Fresh(r)>>, IF r THEN NoMemory ELSE z.ago)
  BY <1>2, <1>3, NewBlockIs
<1>5. /\ Flows(pubs, Append(outputs, z.cur[1]), zip', inputs', reader, wlog, log.parts)
      /\ \A n \in 0 .. Len(outputs) :
            Coming(Append(outputs, z.cur[1]), n, zip'.cur, inputs') = Coming(outputs, n, z.cur, inputs')
  BY <1>4, PushFlows
<1>6. \A n \in 0 .. Len(outputs) : Carried(Append(outputs, z.cur[1]), 1, n) = Carried(outputs, 1, n)
  <2> DEFINE b == z.cur[1]
             one == 1
  <2>1. b \in Block /\ one \in Nat /\ one > 0
    BY <1>2
  <2> HIDE DEF b, one
  <2>2. ASSUME NEW l, l = outputs PROVE \A n \in 0 .. Len(l) : Carried(Append(l, b), one, n) = Carried(l, one, n)
    <3>1. l \in Seq(Block)
      BY <2>2
    <3> QED
      BY <2>1, <3>1, CarriedMore
  <2> QED
    BY <2>2 DEF b, one
<1> QED
  BY <1>3, <1>5, <1>6

\* the current block with other records
LEMMA FullIs ==
    ASSUME NEW z, Shaped(z), NEW b \in Block, z.cur = <<b>>, NEW recs, NEW ago
    PROVE  ZipIs([z EXCEPT !.cur[1].recs = recs, !.ago = ago], <<[init |-> b.init, recs |-> recs]>>, ago)
<1> DEFINE z2 == [z EXCEPT !.cur[1].recs = recs, !.ago = ago]
<1>1. [b EXCEPT !.recs = recs] = [init |-> b.init, recs |-> recs]
  BY DEF Block
<1>2. Shaped(z2) /\ z2.cur = <<[b EXCEPT !.recs = recs]>> /\ z2.ago = ago
  BY DEF Shaped
<1> QED
  BY <1>1, <1>2 DEF ZipIs

\* a record that is compressed keeps it
LEMMA InputRecordKeeps ==
    ASSUME StreamInv, ~fault, InputRecord
    PROVE  StreamInv'
<1> DEFINE z == Opened
           h == Head(inputs)
           r == RecOf(pubs, z.ago, h)
           e == EncodeRec([recs |-> z.cur[1].recs, ago |-> z.ago], h)
           full == [z EXCEPT !.cur[1].recs = e.recs, !.ago = e.ago]
           here == Carried(zip.cur, 1, Len(zip.cur))
           come == Coming(outputs, 0, zip.cur, inputs)
<1>0. StreamFlows
  BY DEF StreamInv, StreamFlows
<1>1. /\ inputs # <<>> /\ inputs' = Tail(inputs)
      /\ IF ~tables THEN zip' = z /\ UNCHANGED outputs
         ELSE IF Len(full.cur[1].recs) >= BlockMax THEN PushBlock(full)
         ELSE zip' = full /\ UNCHANGED outputs
      /\ UNCHANGED <<day, reader, wlog, log, hist, fault, pubs, inited, stoped, tables>>
  BY DEF InputRecord, hist, day
<1>2. /\ Flows(pubs, outputs, z, inputs, reader, wlog, log.parts)
      /\ Shaped(z) /\ z.cur # <<>> /\ Carried(z.cur, 1, Len(z.cur)) = here
  BY <1>0, OpenedIs
<1>3. /\ pubs \in Seq(Names) /\ inputs \in Seq(Nat) /\ outputs \in Seq(Block)
      /\ Len(outputs) \in Nat /\ wlog.pos \in 0 .. Len(outputs) /\ 0 \in 0 .. Len(outputs)
      /\ Rising(inputs) /\ Range(inputs) \subseteq 1 .. Len(pubs)
  BY <1>0, StreamFacts
<1>4. Range(inputs) = {h} \cup Range(inputs')
  BY <1>1, <1>3, TailIs
<1>5. h \in 1 .. Len(pubs) /\ Len(pubs) \in Nat
  BY <1>3, <1>4, LenProperties
<1>6. KeyOf(h) = pubs[h]
  BY <1>5 DEF KeyOf, Wrong
<1>7. e.recs = Append(z.cur[1].recs, r) /\ e.ago = [z.ago EXCEPT ![pubs[h]] = h]
  <2> HIDE DEF z, h
  <2> QED
    BY <1>6 DEF EncodeRec, RecOf
<1>8. PICK ms : Sound(pubs, outputs, z, inputs, reader, wlog, log.parts, ms)
  BY <1>2 DEF Flows
<1>9. CurrentSound(pubs, outputs, z, ms)
  BY <1>8 DEF Sound
<1>10. z.cur = <<z.cur[1]>> /\ z.cur[1] \in Block
  BY <1>2, <1>9, CurrentIs
<1> HIDE DEF z, h, r, e
<1>11. ZipIs(full, <<[init |-> z.cur[1].init, recs |-> e.recs]>>, e.ago)
  <2> DEFINE b == z.cur[1]
  <2>1. z.cur = <<b>> /\ b \in Block
    BY <1>10
  <2> HIDE DEF b
  <2>2. ZipIs(full, <<[init |-> b.init, recs |-> e.recs]>>, e.ago)
    BY <1>2, <2>1, FullIs
  <2> QED
    BY <2>2 DEF b
<1> HIDE DEF full
<1>12. /\ Flows(pubs, outputs, full, inputs', reader, wlog, log.parts)
       /\ Carried(full.cur, 1, Len(full.cur)) = here \cup {h}
  <2> DEFINE b2 == [init |-> z.cur[1].init, recs |-> e.recs]
             n2 == e.ago
  <2>1. /\ b2 = [init |-> z.cur[1].init,
                 recs |-> Append(z.cur[1].recs, RecOf(pubs, z.ago, Head(inputs)))]
        /\ n2 = [z.ago EXCEPT ![pubs[Head(inputs)]] = Head(inputs)]
        /\ ZipIs(full, <<b2>>, n2)
    BY <1>7, <1>11 DEF h, r
  <2> HIDE DEF b2, n2
  <2>2. /\ Flows(pubs, outputs, full, Tail(inputs), reader, wlog, log.parts)
        /\ Carried(full.cur, 1, Len(full.cur)) = Carried(z.cur, 1, Len(z.cur)) \cup {Head(inputs)}
    BY <1>1, <1>2, <2>1, RecordFlows
  <2> QED
    BY <1>1, <1>2, <2>2 DEF h
<1>13. Coming(outputs, 0, full.cur, inputs') = come
  BY <1>4, <1>12 DEF Coming
<1> HIDE DEF here, come
<1>14. CASE ~tables
  <2>1. StreamFlows'
    BY <1>1, <1>2, <1>14, DropFlows DEF StreamFlows
  <2>2. Carried(outputs', 1, wlog.pos) = Carried(outputs, 1, wlog.pos) /\ zip' = z /\ outputs' = outputs
    BY <1>1, <1>14
  <2>3. come = Coming(outputs', 0, zip'.cur, inputs') \cup {h}
    BY <1>2, <1>4, <2>2 DEF Coming, come, here
  <2>4. h \in dropped
    BY <1>4, <1>14 DEF StreamInv, NothingLost
  <2> QED
    BY <1>1, <1>2, <1>4, <2>1, <2>2, <2>3, <2>4, InputKeeps DEF come, here
<1>15. CASE tables /\ ~(Len(full.cur[1].recs) >= BlockMax)
  <2>1. zip' = full /\ outputs' = outputs
    BY <1>1, <1>15
  <2>2. StreamFlows'
    BY <1>1, <1>12, <2>1 DEF StreamFlows
  <2>3. Coming(outputs', 0, zip'.cur, inputs') = come
    BY <1>13, <2>1
  <2> QED
    BY <1>1, <1>4, <1>15, <2>1, <2>2, <2>3, InputKeeps DEF come
<1>16. CASE tables /\ Len(full.cur[1].recs) >= BlockMax
  <2>1. PushBlock(full)
    BY <1>1, <1>16
  <2>2. full.cur # <<>>
    <3>1. full.cur = <<[init |-> z.cur[1].init, recs |-> e.recs]>>
      BY <1>11 DEF ZipIs
    <3> QED
      BY <3>1
  <2>3. /\ Flows(pubs, outputs', zip', inputs', reader, wlog, log.parts)
        /\ Coming(outputs', 0, zip'.cur, inputs') = Coming(outputs, 0, full.cur, inputs')
        /\ Carried(outputs', 1, wlog.pos) = Carried(outputs, 1, wlog.pos)
    BY <1>3, <1>12, <2>1, <2>2, PushIs
  <2>4. StreamFlows'
    BY <1>1, <2>3 DEF StreamFlows
  <2> QED
    BY <1>1, <1>4, <1>13, <1>16, <2>3, <2>4, InputKeeps DEF come
<1> QED
  BY <1>14, <1>15, <1>16

\* a block that is pushed after a while keeps it
LEMMA InputTimeoutKeeps ==
    ASSUME StreamInv, ~fault, InputTimeout
    PROVE  StreamInv'
<1> DEFINE z == Opened
           here == Carried(zip.cur, 1, Len(zip.cur))
<1>0. StreamFlows
  BY DEF StreamInv, StreamFlows
<1>1. /\ inputs' = inputs
      /\ IF z.cur[1].recs # <<>> THEN PushBlock(z) ELSE zip' = z /\ UNCHANGED outputs
      /\ UNCHANGED <<day, reader, wlog, log, hist, fault, pubs, inited, stoped, tables>>
  BY DEF InputTimeout, hist, day
<1>2. /\ Flows(pubs, outputs, z, inputs, reader, wlog, log.parts)
      /\ Shaped(z) /\ z.cur # <<>> /\ Carried(z.cur, 1, Len(z.cur)) = here
  BY <1>0, OpenedIs
<1>3. /\ outputs \in Seq(Block) /\ Len(outputs) \in Nat
      /\ wlog.pos \in 0 .. Len(outputs) /\ 0 \in 0 .. Len(outputs)
  BY <1>0, StreamFacts
<1>4. PICK ms : Sound(pubs, outputs, z, inputs, reader, wlog, log.parts, ms)
  BY <1>2 DEF Flows
<1>5. CurrentSound(pubs, outputs, z, ms)
  BY <1>4 DEF Sound
<1>6. z.cur = <<z.cur[1]>> /\ z.cur[1] \in Block /\ Len(z.cur) = 1
  BY <1>2, <1>5, CurrentIs
<1>7. Coming(outputs, 0, z.cur, inputs) = Coming(outputs, 0, zip.cur, inputs)
  BY <1>2 DEF Coming
<1> HIDE DEF z
<1>8. CASE z.cur[1].recs = <<>>
  <2>1. zip' = z /\ outputs' = outputs
    BY <1>1, <1>8
  <2>2. StreamFlows'
    BY <1>1, <1>2, <2>1 DEF StreamFlows
  <2> QED
    BY <1>1, <1>2, <1>7, <2>1, <2>2, InputKeeps
<1>9. CASE z.cur[1].recs # <<>>
  <2>1. PushBlock(z)
    BY <1>1, <1>9
  <2>2. /\ Flows(pubs, outputs', zip', inputs', reader, wlog, log.parts)
        /\ Coming(outputs', 0, zip'.cur, inputs') = Coming(outputs, 0, z.cur, inputs')
        /\ Carried(outputs', 1, wlog.pos) = Carried(outputs, 1, wlog.pos)
    BY <1>1, <1>2, <1>3, <2>1, PushIs
  <2>3. StreamFlows'
    BY <1>1, <2>2 DEF StreamFlows
  <2>4. here # {}
    <3> DEFINE b == z.cur[1]
    <3>1. z.cur = <<b>> /\ b \in Block /\ b.recs # <<>>
      BY <1>6, <1>9
    <3> HIDE DEF b
    <3>2. here = Carries(b)
      BY <1>2, <3>1, OneCarried
    <3>3. b.recs \in Seq(Record)
      BY <3>1 DEF Block
    <3>4. Len(b.recs) \in Nat /\ Len(b.recs) # 0
      BY <3>1, <3>3, EmptySeq, LenProperties
    <3>5. 1 \in 1 .. Len(b.recs)
      BY <3>4
    <3>6. b.recs[1].val \in Carries(b)
      BY <3>5, CarriesIs
    <3> QED
      BY <3>2, <3>6
  <2> QED
    BY <1>1, <1>7, <2>2, <2>3, <2>4, InputKeeps
<1> QED
  BY <1>8, <1>9

-----------------------------------------------------------------------------
(* Subscribers.                                                             *)

\* a reader that starts has read nothing
LEMMA StartIs ==
    ASSUME NEW rd \in Readers, Zips(rd), NEW n \in Nat
    PROVE  LET r == RealtimeStart(rd, n)
           IN  /\ r \in Readers /\ Zips(r) /\ r.pos = n /\ r.since = n /\ r.got = <<>> /\ ~r.isinit
               /\ r.kind = rd.kind /\ r.key = rd.key /\ r.ishead = rd.ishead
<1> DEFINE x == IF rd.ziper.made THEN [rd.ziper EXCEPT !.linked = FALSE, !.ago = NoMemory]
                ELSE [rd.ziper EXCEPT !.made = TRUE, !.linked = TRUE]
           r1 == [rd EXCEPT !.open = TRUE, !.isinit = FALSE]
           r2 == [r1 EXCEPT !.pos = n, !.since = n, !.mem = NoMemory]
           none == <<>>
           r3 == [r2 EXCEPT !.far = NoMemory, !.got = none]
           r == [r3 EXCEPT !.ziper = x]
<1>1. RealtimeStart(rd, n) = r
  BY DEF RealtimeStart
<1>2. rd.ziper \in Zipers
  BY DEF Readers
<1>3. /\ x \in Zipers
      /\ x.made /\ x.init = rd.ziper.init /\ (~rd.ziper.made => x.ago = rd.ziper.ago)
      /\ (rd.ziper.made => x.ago = NoMemory)
  BY <1>2, NoMemoryIs DEF Zipers
<1> HIDE DEF x, r
<1>4. /\ r \in Readers /\ r.pos = n /\ r.got = <<>> /\ ~r.isinit /\ r.far = NoMemory /\ r.ziper = x
      /\ r.kind = rd.kind /\ r.key = rd.key /\ r.ishead = rd.ishead /\ r.since = n
  <2> HIDE DEF r1, r2, r3
  <2>1. r1 \in Readers /\ ~r1.isinit /\ r1.kind = rd.kind /\ r1.key = rd.key /\ r1.ishead = rd.ishead
    BY DEF r1, Readers
  <2>2. /\ r2 \in Readers /\ ~r2.isinit /\ r2.pos = n
        /\ r2.kind = rd.kind /\ r2.key = rd.key /\ r2.ishead = rd.ishead /\ r2.since = n
    BY <2>1, NoMemoryIs DEF r2, Readers
  <2>3. none \in Seq(Nat)
    OBVIOUS
  <2> HIDE DEF none
  <2>4. /\ r3 \in Readers /\ ~r3.isinit /\ r3.pos = n /\ r3.got = none /\ r3.far = NoMemory
        /\ r3.kind = rd.kind /\ r3.key = rd.key /\ r3.ishead = rd.ishead /\ r3.since = n
    BY <2>2, <2>3, NoMemoryIs DEF r3, Readers
  <2>5. /\ r \in Readers /\ r.pos = n /\ r.got = none /\ ~r.isinit /\ r.far = NoMemory /\ r.ziper = x
        /\ r.kind = rd.kind /\ r.key = rd.key /\ r.ishead = rd.ishead /\ r.since = n
    BY <1>3, <2>4 DEF r, Readers
  <2> QED
    BY <2>5 DEF none
<1>5. Zips(r)
  BY <1>3, <1>4 DEF Zips
<1> QED
  BY <1>1, <1>4, <1>5

\* a reader that has read nothing since it was started, and one that has at the head
Begun(rd) == /\ rd \in Readers /\ Zips(rd) /\ rd.pos = rd.since
             /\ rd.got = <<>> /\ ~rd.isinit
Newly(rd) == Begun(rd) /\ rd.pos = 0

\* one who has read nothing is sound wherever it stands
LEMMA BegunSound ==
    ASSUME NEW P, NEW l, Len(l) \in Nat, NEW cur, NEW ins, NEW ms, NEW rd, Begun(rd), rd.pos <= Len(l)
    PROVE  ReaderSound(P, l, cur, ins, ms, rd)
<1>1. Carried(l, 1, 0) = {}
  <2>1. \A i : i \notin 1 .. 0
    OBVIOUS
  <2>2. \A v : v \notin Carried(l, 1, 0)
    BY <2>1, CarriedIs
  <2> QED
    BY <2>2
<1>2. Len(<<>>) = 0 /\ \A i : i \notin 1 .. 0
  OBVIOUS
<1>3. rd.since = 0 => Carried(l, 1, rd.pos) = {}
  BY <1>1 DEF Begun
<1>4. Gets(P, Carried(l, 1, rd.pos), Coming(l, rd.pos, cur, ins), rd)
  BY <1>2, <1>3 DEF Begun, Gets, Rising
<1>5. Remembered(ms, rd)
  BY DEF Begun, Remembered
<1> QED
  BY <1>4, <1>5 DEF Begun, ReaderSound

\* and so it is at the head of every list
LEMMA NewlySound ==
    ASSUME NEW P, NEW l, Len(l) \in Nat, NEW cur, NEW ins, NEW ms, NEW rd, Newly(rd)
    PROVE  ReaderSound(P, l, cur, ins, ms, rd)
<1>1. Begun(rd) /\ rd.pos <= Len(l)
  BY DEF Newly
<1> QED
  BY <1>1, BegunSound

\* a subscription starts so, now or later
LEMMA NewReaderIs ==
    ASSUME NEW kind \in {"none", "whole", "filter", "plain"}, NEW k \in SubKeys \cup {None},
           NEW ishead \in BOOLEAN
    PROVE  Newly(NewReader(kind, k, ishead)) /\ Newly(RealtimeStart(NewReader(kind, k, ishead), 0))
           /\ Newly(NoReader)
<1>1. \A a \in {"none", "whole", "filter", "plain"}, b \in SubKeys \cup {None}, f \in BOOLEAN :
         Newly(NewReader(a, b, f))
  <2> TAKE a \in {"none", "whole", "filter", "plain"}, b \in SubKeys \cup {None}, f \in BOOLEAN
  <2> DEFINE rd == NewReader(a, b, f)
             none == <<>>
             x == [made |-> FALSE, linked |-> FALSE, init |-> TRUE, size |-> 0, ago |-> NoMemory]
  <2>1. x \in Zipers /\ x.ago = NoMemory /\ x.init /\ none \in Seq(Nat)
    BY NoMemoryIs DEF Zipers
  <2>2. rd = [kind |-> a, key |-> b, ishead |-> f, open |-> FALSE, isinit |-> FALSE, pos |-> 0,
              since |-> 0, mem |-> NoMemory, ziper |-> x, far |-> NoMemory, got |-> none]
    BY DEF NewReader
  <2> HIDE DEF rd, x, none
  <2>3. /\ rd \in Readers /\ rd.pos = 0 /\ rd.since = 0 /\ rd.got = none /\ ~rd.isinit
        /\ ~rd.open /\ rd.ziper = x
    BY <2>1, <2>2, NoMemoryIs DEF Readers
  <2>4. Zips(rd)
    BY <2>1, <2>3 DEF Zips
  <2> QED
    BY <2>3, <2>4 DEF Newly, Begun, rd, none
<1>2. \A rd : Newly(rd) => Newly(RealtimeStart(rd, 0))
  <2> TAKE rd
  <2> DEFINE r == RealtimeStart(rd, 0)
  <2>1. ASSUME Newly(rd)
        PROVE  r \in Readers /\ Zips(r) /\ r.pos = 0 /\ r.since = 0 /\ r.got = <<>> /\ ~r.isinit
    BY <2>1, StartIs DEF Newly, Begun
  <2> HIDE DEF r
  <2>2. Newly(rd) => Newly(r)
    BY <2>1 DEF Newly, Begun
  <2> QED
    BY <2>2 DEF r
<1>3. "none" \in {"none", "whole", "filter", "plain"} /\ None \in SubKeys \cup {None} /\ FALSE \in BOOLEAN
  OBVIOUS
<1> QED
  BY <1>1, <1>2, <1>3 DEF NoReader

\* a reader that is closed
LEMMA ClosedIs ==
    ASSUME NEW P, NEW l, NEW cur, NEW ins, NEW ms, NEW rd, ReaderSound(P, l, cur, ins, ms, rd)
    PROVE  ReaderSound(P, l, cur, ins, ms, [rd EXCEPT !.open = FALSE])
<1> DEFINE r == [rd EXCEPT !.open = FALSE]
<1>1. rd \in Readers
  BY DEF ReaderSound
<1>2. r \in Readers
  BY <1>1 DEF Readers
<1>3. /\ ~r.open /\ r.pos = rd.pos /\ r.isinit = rd.isinit /\ r.got = rd.got /\ r.kind = rd.kind
      /\ r.key = rd.key /\ r.ishead = rd.ishead /\ r.since = rd.since
      /\ r.mem = rd.mem /\ r.far = rd.far /\ r.ziper = rd.ziper
  BY <1>1 DEF Readers
<1> HIDE DEF r
<1>4. Remembered(ms, r) /\ Zips(r)
  BY <1>3 DEF ReaderSound, Remembered, Zips
<1>5. \A v : Asks(P, r, v) <=> Asks(P, rd, v)
  BY <1>3 DEF Asks
<1>6. Gets(P, Carried(l, 1, rd.pos), Coming(l, rd.pos, cur, ins), r)
  BY <1>3, <1>5 DEF ReaderSound, Gets
<1>7. ReaderSound(P, l, cur, ins, ms, r)
  BY <1>2, <1>3, <1>4, <1>6 DEF ReaderSound
<1> QED
  BY <1>7 DEF r

\* subscribers come, go and are closed
LEMMA ReadersChange ==
    ASSUME StreamFlows, NEW rds, DOMAIN rds = Cids,
           \A c \in Cids : \/ Newly(rds[c]) \/ rds[c] = reader[c]
                           \/ Begun(rds[c]) /\ rds[c].pos = reader[c].pos
                           \/ rds[c] = [reader[c] EXCEPT !.open = FALSE]
    PROVE  Flows(pubs, outputs, zip, inputs, rds, wlog, log.parts)
<1>1. PICK ms : Sound(pubs, outputs, zip, inputs, reader, wlog, log.parts, ms)
  BY DEF StreamFlows, Flows
<1>2. Len(outputs) \in Nat
  BY StreamFacts
<1>3. \A c \in Cids : ReaderSound(pubs, outputs, zip.cur, inputs, ms, reader[c])
  BY <1>1 DEF Sound
<1>4. \A c \in Cids : ReaderSound(pubs, outputs, zip.cur, inputs, ms, rds[c])
  <2> TAKE c \in Cids
  <2>1. reader[c].pos <= Len(outputs)
    BY <1>3 DEF ReaderSound
  <2> QED
    BY <1>2, <1>3, <2>1, NewlySound, BegunSound, ClosedIs
<1>5. Sound(pubs, outputs, zip, inputs, rds, wlog, log.parts, ms)
  BY <1>1, <1>4 DEF Sound
<1> QED
  BY <1>5 DEF Flows

\* types of the readers
LEMMA ReadersAre ==
    ASSUME StreamFlows
    PROVE  DOMAIN reader = Cids /\ \A c \in Cids : reader[c] \in Readers /\ Zips(reader[c])
  BY DEF StreamFlows, Flows, Sound, ReaderSound

\* an action that only opens, closes or removes readers keeps the invariant
LEMMA ReadersKeep ==
    ASSUME StreamInv, ~fault, DOMAIN reader' = Cids,
           \A c \in Cids : \/ Newly(reader'[c]) \/ reader'[c] = reader[c]
                           \/ Begun(reader'[c]) /\ reader'[c].pos = reader[c].pos
                           \/ reader'[c] = [reader[c] EXCEPT !.open = FALSE],
           UNCHANGED <<day, writer, outputs, wlog, log, hist>>
    PROVE  StreamInv'
<1>1. StreamFlows
  BY DEF StreamInv, StreamFlows
<1>2. UNCHANGED <<inited, stoped, tables, inputs, zip, outputs, wlog, log, pubs, dropped>>
  BY DEF day, writer, hist
<1>3. Flows(pubs, outputs, zip, inputs, reader', wlog, log.parts)
  BY <1>1, ReadersChange
<1>4. Flows(pubs, outputs, zip, inputs, reader, wlog, log.parts)'
  BY <1>2, <1>3
<1>5. NothingLost' /\ HasPassed' /\ DOMAIN log' = {"date", "parts"}
  BY <1>2 DEF StreamInv, NothingLost, HasPassed
<1> QED
  BY <1>4, <1>5 DEF StreamInv

\* a subscription keeps it
LEMMA SubscribeKeeps ==
    ASSUME StreamInv, ~fault, NEW c \in Cids, NEW kind \in {"whole", "filter", "plain"},
           NEW k \in SubKeys \cup {None}, NEW ishead \in BOOLEAN, Subscribe(c, kind, k, ishead)
    PROVE  StreamInv'
<1> DEFINE rd == NewReader(kind, k, ishead)
<1>1. reader' = [reader EXCEPT ![c] = IF inited THEN RealtimeStart(rd, 0) ELSE rd]
  BY DEF Subscribe
<1>2. UNCHANGED <<day, writer, outputs, wlog, log, hist>>
  BY DEF Subscribe
<1>3. DOMAIN reader = Cids
  BY ReadersAre DEF StreamInv, StreamFlows
<1>4. Newly(rd) /\ Newly(RealtimeStart(rd, 0))
  BY NewReaderIs
<1> HIDE DEF rd
<1>5. Newly(reader'[c]) /\ \A d \in Cids : d # c => reader'[d] = reader[d]
  BY <1>1, <1>3, <1>4
<1>6. DOMAIN reader' = Cids
  BY <1>1, <1>3
<1> QED
  BY <1>2, <1>5, <1>6, ReadersKeep

\* its end keeps it
LEMMA UnsubscribeKeeps ==
    ASSUME StreamInv, ~fault, NEW c \in Cids, Unsubscribe(c)
    PROVE  StreamInv'
<1>1. reader' = [reader EXCEPT ![c] = NoReader] /\ UNCHANGED <<day, writer, outputs, wlog, log, hist>>
  BY DEF Unsubscribe
<1>2. DOMAIN reader = Cids
  BY ReadersAre DEF StreamInv, StreamFlows
<1>3. Newly(NoReader)
  BY NewReaderIs
<1>4. DOMAIN reader' = Cids /\ Newly(reader'[c]) /\ \A d \in Cids : d # c => reader'[d] = reader[d]
  BY <1>1, <1>2, <1>3
<1> QED
  BY <1>1, <1>4, ReadersKeep

\* a log that is removed
LEMMA NoPartsSound ==
    ASSUME NEW P, NEW l, NEW cur, NEW ins, NEW ms, NEW w, Begins(l, cur, w), ~w.open
    PROVE  LogSound(P, l, cur, ins, ms, w, <<>>)
<1> DEFINE parts == <<>>
<1>1. parts \in Seq(Seq(Block) \ {<<>>}) /\ \A p : p \notin 1 .. Len(parts)
  OBVIOUS
<1> HIDE DEF parts
<1>2. \A v : v \notin Logged(parts)
  BY <1>1, LoggedIs
<1>3. LogSound(P, l, cur, ins, ms, w, parts)
  BY <1>1, <1>2 DEF LogSound, Parts, LogOrdered, Before
<1> QED
  BY <1>3 DEF parts

\* the end of a day keeps the invariant
LEMMA StopKeeps ==
    ASSUME StreamInv, ~fault, Stop
    PROVE  StreamInv'
<1> DEFINE w2 == [wlog EXCEPT !.open = FALSE]
<1>0. StreamFlows
  BY DEF StreamInv, StreamFlows
<1>1. /\ stoped' /\ wlog' = w2 /\ log' = NoLog
      /\ reader' = [c \in Cids |-> IF ~There(reader[c]) THEN NoReader
                                   ELSE [reader[c] EXCEPT !.open = FALSE]]
      /\ UNCHANGED <<tables, inputs, zip, outputs, pubs, dropped>>
  BY DEF Stop, writer, hist
<1>2. Flows(pubs, outputs, zip, inputs, reader', wlog, log.parts)
  <2>1. Newly(NoReader)
    BY NewReaderIs
  <2>2. DOMAIN reader' = Cids
    BY <1>1
  <2>3. \A c \in Cids : Newly(reader'[c]) \/ reader'[c] = [reader[c] EXCEPT !.open = FALSE]
    BY <1>1, <2>1
  <2> QED
    BY <1>0, <2>2, <2>3, ReadersChange
<1>3. PICK ms : Sound(pubs, outputs, zip, inputs, reader', wlog, log.parts, ms)
  BY <1>2 DEF Flows
<1>4. Begins(outputs, zip.cur, wlog)
  BY <1>3 DEF Sound, LogSound
<1>5. /\ w2 \in [isinit : BOOLEAN, started : BOOLEAN, open : BOOLEAN, pos : Nat]
      /\ w2.isinit = wlog.isinit /\ w2.started = wlog.started /\ ~w2.open /\ w2.pos = wlog.pos
  BY <1>4 DEF Begins
<1> HIDE DEF w2
<1>6. Begins(outputs, zip.cur, w2)
  BY <1>4, <1>5 DEF Begins
<1>7. LogSound(pubs, outputs, zip.cur, inputs, ms, w2, <<>>)
  BY <1>5, <1>6, NoPartsSound
<1>8. Sound(pubs, outputs, zip, inputs, reader', w2, <<>>, ms)
  BY <1>3, <1>7 DEF Sound
<1>9. log'.parts = <<>> /\ DOMAIN log' = {"date", "parts"}
  BY <1>1 DEF NoLog
<1>10. Flows(pubs, outputs, zip, inputs, reader, wlog, log.parts)'
  <2>1. Flows(pubs, outputs, zip, inputs, reader', w2, <<>>)
    BY <1>8 DEF Flows
  <2> QED
    BY <1>1, <1>9, <2>1
<1>11. NothingLost' /\ HasPassed'
  BY <1>1 DEF StreamInv, NothingLost, HasPassed
<1> QED
  BY <1>9, <1>10, <1>11 DEF StreamInv

-----------------------------------------------------------------------------
(* Days.                                                                    *)

\* before an empty list only the queue is to come
LEMMA NoneComing ==
    ASSUME NEW ins, NEW n \in Nat
    PROVE  Coming(<<>>, n, <<>>, ins) = Range(ins)
<1>1. Len(<<>>) = 0 /\ \A i : i \notin n + 1 .. 0
  OBVIOUS
<1>2. \A v : v \notin Carried(<<>>, n + 1, 0)
  BY <1>1, CarriedIs
<1> QED
  BY <1>1, <1>2, NoneCarried DEF Coming

\* the list and the current block are empty
LEMMA EmptySound ==
    ASSUME NEW P \in Seq(Names), NEW z, Shaped(z), z.cur = <<>>, z.ago \in Memory,
           NEW ins \in Seq(Nat), Rising(ins), Range(ins) \subseteq 1 .. Len(P),
           NEW rds, DOMAIN rds = Cids, NEW w, NEW parts, NEW ms \in [0 .. 0 -> Memory],
           \A c \in Cids : ReaderSound(P, <<>>, <<>>, ins, ms, rds[c]),
           LogSound(P, <<>>, <<>>, ins, ms, w, parts)
    PROVE  Sound(P, <<>>, z, ins, rds, w, parts, ms)
<1> DEFINE none == <<>>
<1>1. none \in Seq(Block) /\ Len(none) = 0 /\ \A i : i \notin 1 .. Len(none)
  OBVIOUS
<1>2. z.cur = none
  OBVIOUS
<1>3. Carried(none, 1, Len(none)) = {} /\ Coming(none, 0, none, ins) = Range(ins)
  BY NoneCarried, NoneComing
<1> HIDE DEF none
<1>4. Linked(P, none, ms)
  BY <1>1 DEF Linked, none
<1>5. CurrentSound(P, none, z, ms)
  BY <1>1, <1>2 DEF CurrentSound, none
<1>6. Ordered(P, none, z.cur, ins)
  BY <1>1, <1>2, <1>3 DEF Ordered, Before
<1> QED
  BY <1>4, <1>5, <1>6 DEF Sound, none

\* a reader at the head of a list that was cleared
LEMMA EmptiedReader ==
    ASSUME NEW P, NEW l \in Seq(Block), NEW cur, NEW ins, NEW ms, NEW rd,
           ReaderSound(P, l, cur, ins, ms, rd), NEW ms2
    PROVE  ReaderSound(P, <<>>, <<>>, ins, ms2, [rd EXCEPT !.pos = 0, !.since = 0])
<1> DEFINE r == [rd EXCEPT !.pos = 0, !.since = 0]
           none == <<>>
<1>1. rd \in Readers
  BY DEF ReaderSound
<1>2. r \in Readers
  BY <1>1 DEF Readers
<1>3. /\ r.pos = 0 /\ r.open = rd.open /\ r.isinit = rd.isinit /\ r.got = rd.got /\ r.kind = rd.kind
      /\ r.key = rd.key /\ r.ishead = rd.ishead /\ r.since = 0
      /\ r.mem = rd.mem /\ r.far = rd.far /\ r.ziper = rd.ziper
  BY <1>1 DEF Readers
<1> HIDE DEF r
<1>4. Remembered(ms2, r) /\ Zips(r)
  BY <1>3 DEF ReaderSound, Remembered, Zips
<1>5. \A v : Asks(P, r, v) <=> Asks(P, rd, v)
  BY <1>3 DEF Asks
<1>6. Coming(none, 0, none, ins) \subseteq Coming(l, rd.pos, cur, ins)
  <2>1. Coming(none, 0, none, ins) = Range(ins)
    BY NoneComing
  <2> QED
    BY <2>1 DEF Coming
<1>7. Carried(none, 1, 0) = {}
  BY NoneCarried
<1>8. Gets(P, Carried(none, 1, 0), Coming(none, 0, none, ins), r)
  BY <1>3, <1>5, <1>6, <1>7 DEF ReaderSound, Gets
<1>9. Len(none) = 0
  OBVIOUS
<1> HIDE DEF none
<1>10. ReaderSound(P, none, none, ins, ms2, r)
  BY <1>2, <1>3, <1>4, <1>8, <1>9 DEF ReaderSound
<1> QED
  BY <1>10 DEF r, none

\* the log's reader at the head of a list that was cleared
LEMMA EmptiedLog ==
    ASSUME NEW P, NEW l, NEW cur, NEW ins, NEW ms, NEW w, NEW parts,
           LogSound(P, l, cur, ins, ms, w, parts), NEW ms2, NEW w2,
           w2 \in [isinit : BOOLEAN, started : BOOLEAN, open : BOOLEAN, pos : Nat],
           w2.pos = 0, w2.isinit = w2.started, w2.open = w.open, w2.started => w.started
    PROVE  LogSound(P, <<>>, <<>>, ins, ms2, w2, parts)
<1> DEFINE none == <<>>
<1>1. Len(none) = 0 /\ Coming(none, 0, none, ins) = Range(ins) /\ ~(0 < 0) /\ ~(0 > 0)
  BY NoneComing
<1>2. none = <<>>
  OBVIOUS
<1> HIDE DEF none
<1>3. Begins(none, none, w2)
  BY <1>1, <1>2 DEF Begins
<1>4. Range(ins) \subseteq Coming(l, w.pos, cur, ins)
  BY DEF Coming
<1>5. Before(Logged(parts), Coming(none, w2.pos, none, ins))
  BY <1>1, <1>4 DEF LogSound, Before
<1>6. Parts(P, parts, w2, ms2)
  BY <1>1 DEF LogSound, Parts
<1>7. LogSound(P, none, none, ins, ms2, w2, parts)
  BY <1>3, <1>5, <1>6 DEF LogSound
<1> QED
  BY <1>7 DEF none

\* the values of a list, as the properties write them
LEMMA ValuesAre ==
    ASSUME NEW l \in Seq(Block)
    PROVE  ValuesOf(l) = Carried(l, 1, Len(l))
<1> DEFINE L == Len(l)
<1>1. DOMAIN l = 1 .. L /\ L \in Nat /\ \A i \in 1 .. L : l[i] \in Block
  BY LenProperties, ElementOfSeq
<1> HIDE DEF L
<1>2. ASSUME NEW i \in 1 .. L PROVE \A v : (\E r \in Range(l[i].recs) : v = r.val) <=> v \in Carries(l[i])
  <2> DEFINE recs == l[i].recs
  <2>1. recs \in Seq(Record)
    BY <1>1 DEF Block
  <2> HIDE DEF recs
  <2>2. \A r : r \in Range(recs) <=> \E j \in 1 .. Len(recs) : r = recs[j]
    BY <2>1, RangeIs
  <2>3. \A v : (\E r \in Range(recs) : v = r.val) <=> \E j \in 1 .. Len(recs) : v = recs[j].val
    BY <2>2
  <2>4. \A v : v \in Carries(l[i]) <=> \E j \in 1 .. Len(recs) : v = recs[j].val
    BY CarriesIs DEF recs
  <2>5. \A v : (\E r \in Range(recs) : v = r.val) <=> v \in Carries(l[i])
    BY <2>3, <2>4
  <2> QED
    BY <2>5 DEF recs
<1>3. \A v : v \in ValuesOf(l) <=> \E i \in 1 .. L : \E r \in Range(l[i].recs) : v = r.val
  BY <1>1 DEF ValuesOf
<1>4. \A v : v \in ValuesOf(l) <=> \E i \in 1 .. L : v \in Carries(l[i])
  BY <1>2, <1>3
<1>5. \A v : v \in Carried(l, 1, L) <=> \E i \in 1 .. L : v \in Carries(l[i])
  BY CarriedIs
<1> QED
  BY <1>4, <1>5 DEF L

\* the step empties the list and the current block
LEMMA Emptied ==
    ASSUME StreamInv, ~fault, NEW ms2 \in [0 .. 0 -> Memory],
           outputs' = <<>>, UNCHANGED <<inputs, log, pubs>>,
           Shaped(zip'), zip'.cur = <<>>, zip'.ago \in Memory,
           DOMAIN reader' = Cids,
           \A c \in Cids : Newly(reader'[c]) \/ reader'[c] = [reader[c] EXCEPT !.pos = 0, !.since = 0],
           wlog' \in [isinit : BOOLEAN, started : BOOLEAN, open : BOOLEAN, pos : Nat],
           wlog'.pos = 0, wlog'.isinit = wlog'.started, wlog'.open = wlog.open,
           wlog'.started => wlog.started,
           inited' /\ ~stoped' /\ wlog'.started /\ ~wlog'.open => ~tables',
           1 .. Len(pubs) \subseteq dropped' \cup Range(inputs),
           ~tables' => Range(inputs) \subseteq dropped'
    PROVE  StreamInv'
<1>0. StreamFlows
  BY DEF StreamInv, StreamFlows
<1>1. PICK ms : Sound(pubs, outputs, zip, inputs, reader, wlog, log.parts, ms)
  BY <1>0 DEF StreamFlows, Flows
<1>2. /\ pubs \in Seq(Names) /\ inputs \in Seq(Nat) /\ outputs \in Seq(Block)
      /\ Rising(inputs) /\ Range(inputs) \subseteq 1 .. Len(pubs)
  BY <1>0, StreamFacts
<1> DEFINE none == <<>>
<1>3. Len(none) = 0 /\ Len(none) \in Nat
  OBVIOUS
<1>4. \A c \in Cids : ReaderSound(pubs, none, none, inputs, ms2, reader'[c])
  <2> TAKE c \in Cids
  <2>1. ReaderSound(pubs, outputs, zip.cur, inputs, ms, reader[c])
    BY <1>1 DEF Sound
  <2>2. CASE Newly(reader'[c])
    <3> HIDE DEF none
    <3> QED
      BY <1>3, <2>2, NewlySound
  <2>3. CASE reader'[c] = [reader[c] EXCEPT !.pos = 0, !.since = 0]
    <3>1. ReaderSound(pubs, none, none, inputs, ms2, [reader[c] EXCEPT !.pos = 0, !.since = 0])
      BY <1>2, <2>1, EmptiedReader
    <3> QED
      BY <2>3, <3>1
  <2> QED
    BY <2>2, <2>3
<1>5. LogSound(pubs, none, none, inputs, ms2, wlog', log.parts)
  <2>1. LogSound(pubs, outputs, zip.cur, inputs, ms, wlog, log.parts)
    BY <1>1 DEF Sound
  <2> DEFINE w2 == wlog'
  <2>2. /\ w2 \in [isinit : BOOLEAN, started : BOOLEAN, open : BOOLEAN, pos : Nat]
        /\ w2.pos = 0 /\ w2.isinit = w2.started /\ w2.open = wlog.open
        /\ (w2.started => wlog.started)
    OBVIOUS
  <2> HIDE DEF w2, none
  <2>3. LogSound(pubs, <<>>, <<>>, inputs, ms2, w2, log.parts)
    BY ONLY <2>1, <2>2, EmptiedLog
  <2> QED
    BY <2>3 DEF w2, none
<1>6. Sound(pubs, none, zip', inputs, reader', wlog', log.parts, ms2)
  BY <1>2, <1>4, <1>5, EmptySound
<1> HIDE DEF none
<1>7. outputs' = none
  BY DEF none
<1>8. Flows(pubs, outputs, zip, inputs, reader, wlog, log.parts)'
  <2>1. Flows(pubs, none, zip', inputs, reader', wlog', log.parts)
    BY <1>6 DEF Flows
  <2> QED
    BY <1>7, <2>1
<1>9. Coming(outputs', 0, zip'.cur, inputs') = Range(inputs)
  BY NoneComing
<1>10. Carried(zip'.cur, 1, Len(zip'.cur)) = {} /\ Carried(outputs', 1, wlog'.pos) = {}
  BY NoneCarried
<1>11. NothingLost'
  BY <1>9 DEF NothingLost
<1>12. HasPassed'
  BY <1>10 DEF HasPassed
<1>13. DOMAIN log' = {"date", "parts"}
  BY DEF StreamInv
<1> QED
  BY <1>8, <1>11, <1>12, <1>13 DEF StreamInv

\* a clear keeps the invariant
LEMMA ClearDataKeeps ==
    ASSUME StreamInv, ~fault, NEW mode \in {"reader", "catch", "all"}, NEW gone \in SUBSET Cids,
           ClearData(mode, gone)
    PROVE  StreamInv'
<1> DEFINE kept == [c \in Cids |-> IF mode # "reader" /\ c \in gone THEN NoReader ELSE reader[c]]
<1>0. StreamFlows
  BY DEF StreamInv, StreamFlows
<1>1. UNCHANGED <<day, inputs, queued, log, pubs>>
  BY DEF ClearData
<1>2. Newly(NoReader)
  BY NewReaderIs
<1>3. CASE mode = "catch"
  <2>1. reader' = kept /\ UNCHANGED <<zip, outputs, wlog, dropped>>
    BY <1>3 DEF ClearData
  <2>2. DOMAIN reader' = Cids /\ \A c \in Cids : Newly(reader'[c]) \/ reader'[c] = reader[c]
    BY <1>2, <2>1
  <2> QED
    BY <1>1, <2>1, <2>2, ReadersKeep DEF writer, hist
<1>4. CASE mode # "catch"
  <2>1. /\ zip' = [zip EXCEPT !.cur = <<>>, !.last = 0]
        /\ dropped' = dropped \cup ValuesOf(outputs) \cup Current
        /\ outputs' = <<>>
        /\ wlog' = [wlog EXCEPT !.pos = 0]
        /\ reader' = [c \in Cids |-> IF ~There(kept[c]) THEN NoReader
                              ELSE [kept[c] EXCEPT !.pos = 0, !.since = 0]]
    BY <1>4 DEF ClearData
  <2>2. /\ pubs \in Seq(Names) /\ inputs \in Seq(Nat) /\ outputs \in Seq(Block)
        /\ Shaped(zip) /\ zip.cur \in Seq(Block) /\ zip.ago \in Memory
    BY <1>0, StreamFacts
  <2>3. Shaped(zip') /\ zip'.cur = <<>> /\ zip'.ago \in Memory
    BY <2>1, <2>2 DEF Shaped
  <2>4. \A c \in Cids : Newly(reader'[c]) \/ reader'[c] = [reader[c] EXCEPT !.pos = 0, !.since = 0]
    <3> TAKE c \in Cids
    <3>1. reader'[c] = IF ~There(kept[c]) THEN NoReader ELSE [kept[c] EXCEPT !.pos = 0, !.since = 0]
      BY <2>1
    <3>2. kept[c] = reader[c] \/ kept[c] = NoReader
      OBVIOUS
    <3> HIDE DEF kept
    <3> QED
      BY <1>2, <3>1, <3>2 DEF There
  <2>5. /\ wlog \in [isinit : BOOLEAN, started : BOOLEAN, open : BOOLEAN, pos : Nat]
        /\ wlog.isinit = wlog.started
    BY <1>0 DEF StreamFlows, Flows, Sound, LogSound, Begins
  <2>6. inited /\ ~stoped /\ wlog.started /\ ~wlog.open => ~tables
    BY DEF StreamInv, HasPassed
  <2>7. /\ wlog' \in [isinit : BOOLEAN, started : BOOLEAN, open : BOOLEAN, pos : Nat]
        /\ wlog'.pos = 0 /\ wlog'.isinit = wlog.isinit /\ wlog'.open = wlog.open
        /\ wlog'.started = wlog.started
    BY <2>1, <2>5
  <2>8. UNCHANGED <<inited, stoped, tables, inputs, log, pubs>>
    BY <1>1 DEF day
  <2>9. 1 .. Len(pubs) \subseteq dropped' \cup Range(inputs)
    <3>1. ValuesOf(outputs) = Carried(outputs, 1, Len(outputs)) /\ Current = Carried(zip.cur, 1, Len(zip.cur))
      BY <2>2, ValuesAre DEF Current
    <3>2. 1 .. Len(pubs) \subseteq dropped \cup Coming(outputs, 0, zip.cur, inputs)
      BY DEF StreamInv, NothingLost
    <3>3. Coming(outputs, 0, zip.cur, inputs) = ValuesOf(outputs) \cup Current \cup Range(inputs)
      <4>1. 0 + 1 = 1
        OBVIOUS
      <4> QED
        BY <3>1, <4>1 DEF Coming
    <3> QED
      BY <2>1, <3>2, <3>3
  <2>10. ~tables => Range(inputs) \subseteq dropped'
    BY <2>1 DEF StreamInv, NothingLost
  <2>11. DOMAIN reader' = Cids /\ outputs' = <<>>
    BY <2>1
  <2> DEFINE ms2 == [i \in 0 .. 0 |-> NoMemory]
  <2>12. ms2 \in [0 .. 0 -> Memory]
    BY NoMemoryIs
  <2> HIDE DEF ms2, kept
  <2> QED
    BY <2>3, <2>4, <2>5, <2>6, <2>7, <2>8, <2>9, <2>10, <2>11, <2>12, Emptied
<1> QED
  BY <1>3, <1>4

\* the start of a day keeps it, unless readers stand on freed nodes
LEMMA StartDayKeeps ==
    ASSUME StreamInv, ~fault, NEW d, StartDay(d), ~fault'
    PROVE  StreamInv'
<1>0. StreamFlows
  BY DEF StreamInv, StreamFlows
<1>1. /\ inputs = <<>> /\ tables' = (d # date) /\ zip' = FreshZip /\ outputs' = <<>>
      /\ wlog' = (IF d # date THEN [wlog EXCEPT !.isinit = FALSE, !.started = FALSE, !.pos = 0]
                  ELSE [wlog EXCEPT !.pos = 0])
      /\ dropped' = 1 .. Len(pubs)
      /\ reader' = [c \in Cids |-> IF ~There(reader[c]) THEN NoReader ELSE RealtimeStart(reader[c], 0)]
      /\ UNCHANGED <<inputs, log, pubs>>
  BY DEF StartDay
<1>2. /\ wlog \in [isinit : BOOLEAN, started : BOOLEAN, open : BOOLEAN, pos : Nat]
      /\ wlog.isinit = wlog.started
  BY <1>0 DEF StreamFlows, Flows, Sound, LogSound, Begins
<1>3. /\ wlog' \in [isinit : BOOLEAN, started : BOOLEAN, open : BOOLEAN, pos : Nat]
      /\ wlog'.pos = 0 /\ wlog'.isinit = wlog'.started /\ wlog'.open = wlog.open
      /\ (wlog'.started => wlog.started) /\ (wlog'.started => d = date)
  <2>1. CASE d # date
    <3>1. wlog' = [wlog EXCEPT !.isinit = FALSE, !.started = FALSE, !.pos = 0]
      BY <1>1, <2>1
    <3> QED
      BY <1>2, <3>1
  <2>2. CASE d = date
    <3>1. wlog' = [wlog EXCEPT !.pos = 0]
      BY <1>1, <2>2
    <3> QED
      BY <1>2, <2>2, <3>1
  <2> QED
    BY <2>1, <2>2
<1>4. Shaped(zip') /\ zip'.cur = <<>> /\ zip'.ago \in Memory
  BY <1>1, NoMemoryIs DEF FreshZip, Shaped
<1>5. DOMAIN reader' = Cids /\ \A c \in Cids : Newly(reader'[c])
  <2>1. Newly(NoReader)
    BY NewReaderIs
  <2>2. \A c \in Cids : Newly(RealtimeStart(reader[c], 0))
    <3> TAKE c \in Cids
    <3> DEFINE r == RealtimeStart(reader[c], 0)
    <3>1. reader[c] \in Readers /\ Zips(reader[c])
      BY <1>0, ReadersAre
    <3>2. r \in Readers /\ Zips(r) /\ r.pos = 0 /\ r.since = 0 /\ r.got = <<>> /\ ~r.isinit
      BY <3>1, StartIs
    <3> QED
      BY <3>2 DEF Newly, Begun
  <2> QED
    BY <1>1, <2>1, <2>2
<1>6. Range(inputs) = {}
  <2>1. DOMAIN inputs = {}
    BY <1>1
  <2> QED
    BY <2>1 DEF Range
<1> DEFINE ms2 == [i \in 0 .. 0 |-> NoMemory]
<1>7. ms2 \in [0 .. 0 -> Memory]
  BY NoMemoryIs
<1>8. outputs' = <<>> /\ UNCHANGED <<inputs, log, pubs>> /\ dropped' = 1 .. Len(pubs) /\ (tables' <=> d # date)
  BY <1>1
<1> HIDE DEF ms2
<1> QED
  BY <1>3, <1>4, <1>5, <1>6, <1>7, <1>8, Emptied

\* a start that fails keeps it: readers begin anew where they stand
LEMMA StartFailsKeeps ==
    ASSUME StreamInv, ~fault, StartFails
    PROVE  StreamInv'
<1>1. /\ reader' = [c \in Cids |-> IF ~There(reader[c]) THEN NoReader
                                  ELSE RealtimeStart(reader[c], IF reader[c].open THEN reader[c].pos ELSE 0)]
      /\ UNCHANGED <<day, writer, outputs, wlog, log, hist>>
  BY DEF StartFails
<1>2. \A c \in Cids : \/ Newly(reader'[c])
                      \/ Begun(reader'[c]) /\ reader'[c].pos = reader[c].pos
  <2> TAKE c \in Cids
  <2> DEFINE n == IF reader[c].open THEN reader[c].pos ELSE 0
             r == RealtimeStart(reader[c], n)
  <2>1. Newly(NoReader)
    BY NewReaderIs
  <2>2. reader[c] \in Readers /\ Zips(reader[c])
    BY ReadersAre DEF StreamInv, StreamFlows
  <2>3. n \in Nat /\ (n = 0 \/ n = reader[c].pos)
    BY <2>2 DEF Readers
  <2> HIDE DEF n
  <2>4. r \in Readers /\ Zips(r) /\ r.pos = n /\ r.since = n /\ r.got = <<>> /\ ~r.isinit
    BY <2>2, <2>3, StartIs
  <2>5. reader'[c] = NoReader \/ reader'[c] = r
    BY <1>1 DEF n
  <2> HIDE DEF r
  <2>6. Begun(r) /\ r.pos = n
    BY <2>4 DEF Begun
  <2> QED
    BY <2>1, <2>3, <2>5, <2>6 DEF Newly
<1>3. DOMAIN reader' = Cids
  BY <1>1
<1> QED
  BY <1>1, <1>2, <1>3, ReadersKeep

\* a part of the log, read back
LEMMA LoadedIs ==
    ASSUME NEW P, NEW parts, NEW w, NEW ms, Parts(P, parts, w, ms), LogOrdered(parts),
           parts \in Seq(Seq(Block) \ {<<>>}), NEW p \in 1 .. Len(parts)
    PROVE  \E ls : /\ Linked(P, parts[p], ls) /\ Ordered(P, parts[p], <<>>, <<>>)
                   /\ Carried(parts[p], 1, Len(parts[p])) \subseteq Logged(parts)
<1> DEFINE l == parts[p]
           L == Len(l)
           none == <<>>
<1>1. PICK ls : Linked(P, l, ls)
  BY DEF Parts
<1>2. l \in Seq(Block) /\ L \in Nat
  BY <1>1, LenProperties DEF Linked
<1>3. Len(none) = 0 /\ Carried(none, 1, Len(none)) = {} /\ Range(none) = {}
      /\ (\A i : i \notin 1 .. 0)
  <2>1. DOMAIN none = {}
    OBVIOUS
  <2> QED
    BY <2>1, NoneCarried DEF Range
<1> HIDE DEF none
<1>4. \A n : Coming(l, n, none, none) = Carried(l, n + 1, L)
  BY <1>3 DEF Coming
<1>5. \A i \in 1 .. L : /\ Rising(Vals(l[i].recs))
                        /\ \A j \in 1 .. L : i < j => Before(Carries(l[i]), Carries(l[j]))
  BY DEF LogOrdered
<1>6. \A i \in 1 .. L : Carries(l[i]) \subseteq 1 .. Len(P)
  <2> TAKE i \in 1 .. L
  <2>1. Follows(P, l[i].recs, IF l[i].init THEN NoMemory ELSE ls[i - 1], ls[i])
    BY <1>1 DEF Linked
  <2> QED
    BY <2>1, FollowsCarries
<1>7. \A v : v \in Carried(l, 1, L) => v \in Logged(parts)
  BY CarriedIs, LoggedIs
<1> HIDE DEF l, L
<1>8. \A i \in 1 .. L : Before(Carries(l[i]), Carried(l, i + 1, L))
  <2> SUFFICES ASSUME NEW i \in 1 .. L, NEW v \in Carries(l[i]), NEW x \in Carried(l, i + 1, L)
               PROVE  v < x
    BY DEF Before
  <2>1. PICK j \in i + 1 .. L : x \in Carries(l[j])
    BY CarriedIs
  <2>2. j \in 1 .. L /\ i < j
    BY <1>2
  <2> QED
    BY <1>5, <2>1, <2>2 DEF Before
<1>9. Carried(l, 0 + 1, L) \subseteq 1 .. Len(P)
  <2>1. \A v \in Carried(l, 0 + 1, L) : \E i \in 1 .. L : v \in Carries(l[i])
    BY CarriedIs
  <2> QED
    BY <1>6, <2>1
<1>10. Ordered(P, l, none, none)
  <2>1. Rising(none)
    BY <1>3 DEF Rising
  <2>2. \A i \in 1 .. L : Before(Carries(l[i]), Coming(l, i, none, none))
    BY <1>4, <1>8
  <2>3. Coming(l, 0, none, none) \subseteq 1 .. Len(P)
    BY <1>4, <1>9
  <2> QED
    BY <1>3, <1>5, <2>1, <2>2, <2>3 DEF Ordered, Before, L
<1> QED
  BY <1>1, <1>7, <1>10 DEF none, l, L

\* a crash and the load of the log keep it
LEMMA RestartKeeps ==
    ASSUME StreamInv, ~fault, Restart
    PROVE  StreamInv'
<1> DEFINE parts == log.parts
           n == Len(parts)
           l == IF n = 0 THEN <<>> ELSE parts[n]
           L == Len(l)
           none == <<>>
<1>0. StreamFlows
  BY DEF StreamInv, StreamFlows
<1>1. PICK ms : Sound(pubs, outputs, zip, inputs, reader, wlog, parts, ms)
  BY <1>0 DEF StreamFlows, Flows
<1>2. /\ Parts(pubs, parts, wlog, ms) /\ LogOrdered(parts) /\ parts \in Seq(Seq(Block) \ {<<>>})
      /\ pubs \in Seq(Names)
  BY <1>1 DEF Sound, LogSound
<1>3. /\ (inited' <=> n > 0)
      /\ outputs' = l /\ Shaped(zip') /\ zip'.cur = none /\ zip'.ago = NoMemory
      /\ wlog' = [isinit |-> FALSE, started |-> FALSE, open |-> FALSE, pos |-> L]
      /\ dropped' = (1 .. Len(pubs)) \ ValuesOf(l)
      /\ inputs' = none
      /\ reader' = [c \in Cids |-> NoReader]
      /\ UNCHANGED <<log, pubs, fault>>
  BY DEF Restart, FreshZip, Shaped, LogFrom
<1>4. Len(none) = 0 /\ none \in Seq(Nat) /\ none \in Seq(Block) /\ Range(none) = {}
      /\ (\A i : i \notin 1 .. 0) /\ Carried(none, 1, Len(none)) = {}
  <2>1. DOMAIN none = {}
    OBVIOUS
  <2> QED
    BY <2>1, NoneCarried DEF Range
<1>5. n \in Nat
  BY <1>2, LenProperties
<1>6. PICK ls : Linked(pubs, l, ls) /\ Ordered(pubs, l, none, none)
                /\ (n > 0 => Carried(l, 1, L) \subseteq Logged(parts))
  <2>1. CASE n = 0
    <3> DEFINE ls == [i \in 0 .. 0 |-> NoMemory]
    <3>1. ls \in [0 .. 0 -> Memory]
      BY NoMemoryIs
    <3>2. l = none
      BY <2>1
    <3> HIDE DEF none, ls, l
    <3>3. Linked(pubs, none, ls)
      BY <1>4, <3>1 DEF Linked, none
    <3>4. Coming(none, 0, none, none) = {}
      BY <1>4, NoneComing DEF none
    <3>5. Ordered(pubs, none, none, none)
      BY <1>4, <3>4 DEF Ordered, Rising, Before
    <3> QED
      BY <2>1, <3>2, <3>3, <3>5
  <2>2. CASE n # 0
    <3>1. n \in 1 .. Len(parts) /\ l = parts[n]
      BY <1>5, <2>2
    <3> HIDE DEF parts, n, l
    <3>2. \E ls : /\ Linked(pubs, parts[n], ls) /\ Ordered(pubs, parts[n], <<>>, <<>>)
                  /\ Carried(parts[n], 1, Len(parts[n])) \subseteq Logged(parts)
      BY <1>2, <3>1, LoadedIs
    <3> QED
      BY <3>1, <3>2
  <2> QED
    BY <2>1, <2>2
<1> HIDE DEF l, none
<1>7. L \in Nat /\ l \in Seq(Block)
  BY <1>6, LenProperties DEF Linked
<1>8. CurrentSound(pubs, l, zip', ls)
  BY <1>3, <1>4, NoMemoryIs DEF CurrentSound, none
<1>9. \A c \in Cids : ReaderSound(pubs, l, none, none, ls, reader'[c])
  <2>1. Newly(NoReader)
    BY NewReaderIs
  <2>2. \A c \in Cids : Newly(reader'[c])
    BY <1>3, <2>1
  <2> QED
    BY <1>7, <2>2, NewlySound
<1>10. LogSound(pubs, l, none, none, ls, wlog', parts)
  <2>1. /\ wlog' \in [isinit : BOOLEAN, started : BOOLEAN, open : BOOLEAN, pos : Nat]
        /\ wlog'.pos = L /\ ~wlog'.isinit /\ ~wlog'.started /\ ~wlog'.open
    BY <1>3, <1>7
  <2>2. Begins(l, none, wlog')
    BY <1>7, <2>1 DEF Begins, none
  <2>3. Coming(l, L, none, none) = {}
    <3>1. \A i : i \notin L + 1 .. L
      BY <1>7
    <3>2. \A v : v \notin Carried(l, L + 1, L)
      BY <3>1, CarriedIs
    <3> QED
      BY <1>4, <3>2 DEF Coming
  <2>4. Before(Logged(parts), Coming(l, wlog'.pos, none, none))
    BY <2>1, <2>3 DEF Before
  <2>5. Parts(pubs, parts, wlog', ls)
    BY <1>2, <2>1 DEF Parts
  <2> HIDE DEF parts
  <2> QED
    BY <1>2, <2>1, <2>2, <2>4, <2>5 DEF LogSound
<1>11. Sound(pubs, l, zip', none, reader', wlog', parts, ls)
  BY <1>2, <1>3, <1>4, <1>6, <1>8, <1>9, <1>10 DEF Sound
<1>12. Flows(pubs, outputs, zip, inputs, reader, wlog, log.parts)'
  <2>1. Flows(pubs, l, zip', none, reader', wlog', parts)
    BY <1>11 DEF Flows
  <2> QED
    BY <1>3, <2>1
<1>13. ValuesOf(l) = Carried(l, 1, L)
  BY <1>7, ValuesAre
<1>14. NothingLost'
  <2>1. Coming(outputs', 0, zip'.cur, inputs') = Carried(l, 1, L)
    <3>1. 0 + 1 = 1
      OBVIOUS
    <3> QED
      BY <1>3, <1>4, <3>1 DEF Coming
  <2>2. Range(inputs') = {}
    BY <1>3, <1>4
  <2>3. pubs' = pubs /\ dropped' = (1 .. Len(pubs)) \ Carried(l, 1, L)
    BY <1>3, <1>13
  <2> QED
    BY <2>1, <2>2, <2>3 DEF NothingLost
<1>15. HasPassed'
  <2>1. wlog'.pos = L /\ ~wlog'.started /\ outputs' = l /\ log' = log /\ (inited' => n > 0)
    BY <1>3
  <2> QED
    BY <1>6, <2>1 DEF HasPassed
<1>16. DOMAIN log' = {"date", "parts"}
  BY <1>3 DEF StreamInv
<1> QED
  BY <1>12, <1>14, <1>15, <1>16 DEF StreamInv

\* the invariant holds at the start
LEMMA InitHolds == StreamInit => StreamInv
<1> SUFFICES ASSUME StreamInit PROVE StreamInv
  OBVIOUS
<1> DEFINE ms == [i \in 0 .. 0 |-> NoMemory]
           none == <<>>
<1>1. /\ inputs = none /\ outputs = none /\ Shaped(zip) /\ zip.cur = none /\ zip.ago = NoMemory
      /\ reader = [c \in Cids |-> NoReader] /\ ~inited
      /\ wlog = [isinit |-> FALSE, started |-> FALSE, open |-> FALSE, pos |-> 0]
      /\ log = [date |-> 0, parts |-> none] /\ pubs = none
  BY DEF StreamInit, FreshZip, Shaped, NoLog
<1>2. Len(none) = 0 /\ none \in Seq(Nat) /\ none \in Seq(Names) /\ Range(none) = {}
      /\ (\A i : i \notin 1 .. 0) /\ Carried(none, 1, Len(none)) = {} /\ Coming(none, 0, none, none) = {}
  <2>1. DOMAIN none = {}
    OBVIOUS
  <2>2. Range(none) = {}
    BY <2>1 DEF Range
  <2> QED
    BY <2>2, NoneCarried, NoneComing
<1>3. ms \in [0 .. 0 -> Memory]
  BY NoMemoryIs
<1>4. \A c \in Cids : ReaderSound(none, none, none, none, ms, reader[c])
  <2>1. Newly(NoReader)
    BY NewReaderIs
  <2>2. \A c \in Cids : Newly(reader[c])
    BY <1>1, <2>1
  <2> HIDE DEF none, ms
  <2>3. Len(none) \in Nat
    BY <1>2
  <2> QED
    BY <2>2, <2>3, NewlySound
<1>5. LogSound(none, none, none, none, ms, wlog, none)
  <2>1. /\ wlog \in [isinit : BOOLEAN, started : BOOLEAN, open : BOOLEAN, pos : Nat]
        /\ wlog.pos = 0 /\ ~wlog.isinit /\ ~wlog.started /\ ~wlog.open
    BY <1>1
  <2>2. Begins(none, none, wlog)
    BY <1>2, <2>1 DEF Begins
  <2> HIDE DEF ms
  <2> QED
    BY <2>1, <2>2, NoPartsSound
<1>6. none = <<>> /\ Rising(none)
  BY <1>2 DEF Rising
<1>7. Sound(none, none, zip, none, reader, wlog, none, ms)
  <2>1. DOMAIN reader = Cids /\ zip.ago \in Memory /\ Range(none) \subseteq 1 .. Len(none)
    BY <1>1, <1>2, NoMemoryIs
  <2> HIDE DEF ms
  <2> QED
    BY <1>1, <1>2, <1>3, <1>4, <1>5, <1>6, <2>1, EmptySound
<1> HIDE DEF none, ms
<1>8. Flows(pubs, outputs, zip, inputs, reader, wlog, log.parts)
  <2>1. Flows(none, none, zip, none, reader, wlog, none)
    BY <1>7 DEF Flows
  <2>2. log.parts = none
    BY <1>1
  <2> QED
    BY <1>1, <2>1, <2>2
<1>9. NothingLost /\ HasPassed
  BY <1>1, <1>2 DEF NothingLost, HasPassed
<1> QED
  BY <1>1, <1>8, <1>9 DEF StreamInv

-----------------------------------------------------------------------------
(* The log.                                                                 *)

\* a part with a block more, and the order of what is logged
LEMMA LogMore ==
    ASSUME NEW parts \in Seq(Seq(Block) \ {<<>>}), LogOrdered(parts), NEW b \in Block,
           Rising(Vals(b.recs)), Before(Logged(parts), Carries(b)), NEW n \in Nat, n > 0, NEW new,
           new \in Seq(Seq(Block) \ {<<>>}), Len(new) = n,
           \A p \in 1 .. n - 1 : new[p] = parts[p],
           \/ n = Len(parts) /\ new[n] = Append(parts[n], b)
           \/ n = Len(parts) + 1 /\ new[n] = <<b>>
    PROVE  LogOrdered(new) /\ Logged(new) = Logged(parts) \cup Carries(b)
<1> DEFINE old(p, i) == p \in 1 .. Len(parts) /\ i \in 1 .. Len(parts[p])
           last == Len(new[n])
           in(p, i) == p \in 1 .. n /\ i \in 1 .. Len(new[p])
<1>1. /\ last \in Nat /\ last > 0 /\ new[n][last] = b
      /\ \A i : i \in 1 .. last /\ i # last => old(n, i) /\ new[n][i] = parts[n][i]
      /\ \A i : old(n, i) => i \in 1 .. last /\ i < last /\ new[n][i] = parts[n][i]
  <2>1. CASE n = Len(parts)
    <3>1. n \in 1 .. Len(parts)
      BY <2>1
    <3>2. parts[n] \in Seq(Block)
      BY <3>1, ElementOfSeq
    <3> DEFINE l == parts[n]
               L == Len(l)
    <3>3. Len(new[n]) = L + 1 /\ L \in Nat /\ new[n][L + 1] = b /\ \A i \in 1 .. L : new[n][i] = l[i]
      <4>1. new[n] = Append(l, b) /\ l \in Seq(Block)
        BY <2>1, <3>2
      <4> HIDE DEF l
      <4> QED
        BY <4>1, OneMore
    <3>4. \A i : i \in 1 .. L + 1 /\ i # L + 1 <=> i \in 1 .. L
      BY <3>3
    <3> HIDE DEF L
    <3> QED
      BY <3>1, <3>3, <3>4 DEF L
  <2>2. CASE n # Len(parts)
    <3>1. new[n] = <<b>> /\ n \notin 1 .. Len(parts)
      BY <2>2, LenProperties
    <3>2. last = 1 /\ new[n][1] = b
      BY <3>1
    <3> HIDE DEF last
    <3> QED
      BY <3>1, <3>2
  <2> QED
    BY <2>1, <2>2
<1>2. \A p : p \in 1 .. n /\ p # n => p \in 1 .. n - 1 /\ p \in 1 .. Len(parts) /\ p < n
  BY LenProperties
<1>3. \A p \in 1 .. Len(parts) : p # n => p \in 1 .. n - 1 /\ p \in 1 .. n
  BY LenProperties
<1>4. \A p, i : old(p, i) => in(p, i) /\ new[p][i] = parts[p][i] /\ (p < n \/ (p = n /\ i < last))
  <2> SUFFICES ASSUME NEW p, NEW i, old(p, i)
               PROVE  in(p, i) /\ new[p][i] = parts[p][i] /\ (p < n \/ (p = n /\ i < last))
    OBVIOUS
  <2>1. CASE p = n
    <3>1. n \in 1 .. n /\ old(n, i)
      BY <2>1
    <3> HIDE DEF old, last
    <3>2. i \in 1 .. last /\ i < last /\ new[n][i] = parts[n][i]
      BY <1>1, <3>1
    <3> QED
      BY <2>1, <3>1, <3>2 DEF last
  <2>2. CASE p # n
    BY <1>2, <1>3, <2>2
  <2> QED
    BY <2>1, <2>2
<1>5. \A p, i : in(p, i) => \/ old(p, i) /\ new[p][i] = parts[p][i]
                            \/ p = n /\ i = last /\ new[p][i] = b
  <2> SUFFICES ASSUME NEW p, NEW i, in(p, i)
               PROVE  \/ old(p, i) /\ new[p][i] = parts[p][i]
                      \/ p = n /\ i = last /\ new[p][i] = b
    OBVIOUS
  <2>1. CASE p = n
    BY <1>1, <2>1
  <2>2. CASE p # n
    BY <1>2, <2>2
  <2> QED
    BY <2>1, <2>2
<1>6. in(n, last)
  BY <1>1
<1>7. /\ \A v : v \in Logged(parts) <=> \E p, i : old(p, i) /\ v \in Carries(parts[p][i])
      /\ \A v : v \in Logged(new) <=> \E p, i : in(p, i) /\ v \in Carries(new[p][i])
  BY LoggedIs
<1>8. \A p, i : old(p, i) => Rising(Vals(parts[p][i].recs))
  BY DEF LogOrdered
<1>9. \A p, i, q, j : old(p, i) /\ old(q, j) /\ (p < q \/ (p = q /\ i < j)) =>
         Before(Carries(parts[p][i]), Carries(parts[q][j]))
  BY DEF LogOrdered
<1>10. \A p, i : old(p, i) => Before(Carries(parts[p][i]), Carries(b))
  BY <1>7 DEF Before
<1>11. \A p, i : in(p, i) => p \in 1 .. n /\ i \in Int
  OBVIOUS
<1>12. (\A p, i : in(p, i) <=> p \in 1 .. Len(new) /\ i \in 1 .. Len(new[p])) /\ ~(n < n) /\ ~(last < last)
  BY <1>1
<1>13. \A p \in 1 .. n : p <= n
  OBVIOUS
<1>14. \A i \in 1 .. last : i <= last
  OBVIOUS
<1> HIDE DEF old, in, last
<1>15. \A p, i : in(p, i) => Rising(Vals(new[p][i].recs))
  BY <1>5, <1>8
<1>16. \A p, i, q, j : in(p, i) /\ in(q, j) /\ (p < q \/ (p = q /\ i < j)) =>
          Before(Carries(new[p][i]), Carries(new[q][j]))
  <2> SUFFICES ASSUME NEW p, NEW i, NEW q, NEW j, in(p, i), in(q, j), p < q \/ (p = q /\ i < j)
               PROVE  Before(Carries(new[p][i]), Carries(new[q][j]))
    OBVIOUS
  <2>1. CASE old(p, i) /\ old(q, j)
    BY <1>4, <1>9, <2>1
  <2>2. CASE old(p, i) /\ q = n /\ j = last /\ new[q][j] = b
    BY <1>4, <1>10, <2>2
  <2>3. ~(p = n /\ i = last)
    <3>1. ASSUME p = n, i = last PROVE FALSE
      <4>1. n < q \/ (n = q /\ last < j)
        BY <3>1
      <4>2. q \in 1 .. n /\ (q = n => j \in 1 .. last)
        BY DEF in, last
      <4> QED
        BY <1>1, <4>1, <4>2
    <3> QED
      BY <3>1
  <2> QED
    BY <1>5, <2>1, <2>2, <2>3
<1>17. LogOrdered(new)
  BY <1>12, <1>15, <1>16 DEF LogOrdered
<1>18. \A v : v \in Logged(new) <=> v \in Logged(parts) \/ v \in Carries(b)
  <2> TAKE v
  <2>1. ASSUME v \in Logged(new) PROVE v \in Logged(parts) \/ v \in Carries(b)
    <3>1. PICK p, i : in(p, i) /\ v \in Carries(new[p][i])
      BY <1>7, <2>1
    <3>2. (old(p, i) /\ new[p][i] = parts[p][i]) \/ new[p][i] = b
      BY <1>5, <3>1
    <3> QED
      BY <1>7, <3>1, <3>2
  <2>2. ASSUME v \in Logged(parts) PROVE v \in Logged(new)
    <3>1. PICK p, i : old(p, i) /\ v \in Carries(parts[p][i])
      BY <1>7, <2>2
    <3>2. in(p, i) /\ new[p][i] = parts[p][i]
      BY <1>4, <3>1
    <3> QED
      BY <1>7, <3>1, <3>2
  <2>3. ASSUME v \in Carries(b) PROVE v \in Logged(new)
    <3>1. in(n, last) /\ new[n][last] = b
      BY <1>1, <1>6
    <3> QED
      BY <1>7, <2>3, <3>1
  <2> QED
    BY <2>1, <2>2, <2>3
<1> QED
  BY <1>17, <1>18

\* a part of the log begins with an initial block
LEMMA LinkedOne ==
    ASSUME NEW P, NEW b \in Block, b.init, NEW m \in Memory, Follows(P, b.recs, NoMemory, m)
    PROVE  \E ls : Linked(P, <<b>>, ls) /\ ls[1] = m /\ Len(<<b>>) = 1
<1> DEFINE ls == [i \in 0 .. 1 |-> IF i = 1 THEN m ELSE NoMemory]
           l == <<b>>
<1>1. l \in Seq(Block) /\ Len(l) = 1 /\ l[1] = b
  OBVIOUS
<1>2. ls \in [0 .. 1 -> Memory] /\ ls[1] = m /\ \A i \in 1 .. 1 : i = 1
  BY NoMemoryIs
<1> HIDE DEF ls, l
<1>3. Linked(P, l, ls)
  BY <1>1, <1>2 DEF Linked
<1> QED
  BY <1>1, <1>2, <1>3 DEF l

\* the last part goes on, or a part begins
LEMMA PartsMore ==
    ASSUME NEW P, NEW parts, NEW w, NEW ms, Parts(P, parts, w, ms), NEW n \in Nat, NEW new,
           Len(new) = n, \A p \in 1 .. n - 1 : new[p] = parts[p] /\ p \in 1 .. Len(parts),
           NEW w2, NEW ls, Linked(P, new[n], ls), ls[Len(new[n])] = ms[w2.pos]
    PROVE  Parts(P, new, w2, ms)
<1> SUFFICES ASSUME NEW p \in 1 .. Len(new)
             PROVE  \E ks : /\ Linked(P, new[p], ks)
                            /\ p = Len(new) /\ w2.open /\ w2.started /\ w2.pos > 0 =>
                                  ks[Len(new[p])] = ms[w2.pos]
  BY DEF Parts
<1>1. CASE p = n
  BY <1>1
<1>2. CASE p # n
  <2>1. p \in 1 .. n - 1
    BY <1>2
  <2>2. PICK ks : Linked(P, parts[p], ks)
    BY <2>1 DEF Parts
  <2> QED
    BY <1>2, <2>1, <2>2
<1> QED
  BY <1>1, <1>2

\* the log's reader keeps the invariant
LEMMA WriteLogKeeps ==
    ASSUME StreamInv, ~fault, WriteLog
    PROVE  StreamInv'
<1> DEFINE at == wlog.pos + 1
           b == outputs[at]
           parts == log.parts
           come == Coming(outputs, at, zip.cur, inputs)
<1>0. StreamFlows
  BY DEF StreamInv, StreamFlows
<1>1. PICK ms : Sound(pubs, outputs, zip, inputs, reader, wlog, parts, ms)
  BY <1>0 DEF StreamFlows, Flows
<1>2. /\ outputs \in Seq(Block) /\ Len(outputs) \in Nat
      /\ wlog.pos \in Nat /\ wlog.pos < Len(outputs) /\ at \in 1 .. Len(outputs) /\ b \in Block
  <2>1. wlog.pos < Len(outputs)
    BY DEF WriteLog
  <2>2. outputs \in Seq(Block) /\ Len(outputs) \in Nat /\ wlog.pos \in Nat
    BY <1>0, StreamFacts
  <2>3. at \in 1 .. Len(outputs)
    BY <2>1, <2>2
  <2> QED
    BY <2>1, <2>2, <2>3, ElementOfSeq
<1>3. /\ wlog \in [isinit : BOOLEAN, started : BOOLEAN, open : BOOLEAN, pos : Nat]
      /\ wlog.isinit = wlog.started /\ (~wlog.isinit => b.init)
      /\ parts \in Seq(Seq(Block) \ {<<>>}) /\ (wlog.open /\ wlog.started => parts # <<>>)
      /\ Parts(pubs, parts, wlog, ms) /\ LogOrdered(parts)
      /\ Before(Logged(parts), Coming(outputs, wlog.pos, zip.cur, inputs))
      /\ Linked(pubs, outputs, ms) /\ ms \in [0 .. Len(outputs) -> Memory]
      /\ Ordered(pubs, outputs, zip.cur, inputs)
  BY <1>1, <1>2 DEF Sound, LogSound, Begins, Linked
<1>4. /\ wlog' = [wlog EXCEPT !.pos = @ + 1, !.isinit = TRUE, !.started = TRUE,
                              !.open = @ \/ ~wlog.started]
      /\ log' = IF ~wlog.started
                  THEN [date |-> IF log = NoLog THEN date ELSE log.date,
                        parts |-> Append(parts, <<b>>)]
                ELSE IF wlog.open
                  THEN [log EXCEPT !.parts[Len(parts)] = Append(@, b)]
                ELSE log
      /\ UNCHANGED <<inited, stoped, tables, zip, inputs, outputs, reader, pubs, dropped>>
  <2>1. (wlog.isinit \/ b.init) = TRUE /\ (wlog.started \/ (wlog.isinit \/ b.init)) = TRUE
    BY <1>2, <1>3 DEF Block
  <2> QED
    BY <2>1 DEF WriteLog, day, writer, hist
<1>5. /\ wlog' \in [isinit : BOOLEAN, started : BOOLEAN, open : BOOLEAN, pos : Nat]
      /\ wlog'.pos = at /\ wlog'.isinit /\ wlog'.started /\ (wlog'.open <=> wlog.open \/ ~wlog.started)
  <2> DEFINE o == wlog.open \/ ~wlog.started
             q == wlog.pos + 1
             w1 == [wlog EXCEPT !.pos = q, !.isinit = TRUE]
             w2 == [w1 EXCEPT !.started = TRUE, !.open = o]
             W == [isinit : BOOLEAN, started : BOOLEAN, open : BOOLEAN, pos : Nat]
  <2>1. wlog' = w2
    BY <1>4
  <2>2. o \in BOOLEAN /\ q \in Nat
    BY <1>2
  <2> HIDE DEF o, q
  <2>3. w1 \in W /\ w1.pos = q /\ w1.isinit
    BY <1>3, <2>2
  <2> HIDE DEF w1
  <2>4. w2 \in W /\ w2.pos = w1.pos /\ w2.isinit = w1.isinit /\ w2.started /\ w2.open = o
    BY <2>2, <2>3
  <2> QED
    BY <2>1, <2>3, <2>4 DEF o, q
<1>6. /\ Coming(outputs, wlog.pos, zip.cur, inputs) = Carries(b) \cup come
      /\ Carried(outputs, 1, at) = Carried(outputs, 1, wlog.pos) \cup Carries(b)
  <2>1. outputs \in Seq(Block) /\ wlog.pos \in Nat /\ wlog.pos < Len(outputs)
    BY <1>2
  <2>2. Coming(outputs, wlog.pos, zip.cur, inputs) =
           Carries(outputs[wlog.pos + 1]) \cup Coming(outputs, wlog.pos + 1, zip.cur, inputs)
    BY <2>1, ComingSplit
  <2>3. Carried(outputs, 1, wlog.pos + 1) = Carried(outputs, 1, wlog.pos) \cup Carries(outputs[wlog.pos + 1])
    BY <2>1, ComingSplit
  <2> QED
    BY <2>2, <2>3
<1>7. Rising(Vals(b.recs)) /\ Before(Carries(b), come)
  BY <1>2, <1>3 DEF Ordered
<1>8. Before(Logged(parts), Carries(b)) /\ Before(Logged(parts), come)
  BY <1>3, <1>6 DEF Before
<1>9. Follows(pubs, b.recs, IF b.init THEN NoMemory ELSE ms[wlog.pos], ms[at]) /\ ms[at] \in Memory
  <2>1. at - 1 = wlog.pos /\ at \in 0 .. Len(outputs)
    BY <1>2
  <2> QED
    BY <1>2, <1>3, <2>1 DEF Linked
<1>10. Begins(outputs, zip.cur, wlog')
  <2>1. at <= Len(outputs)
    BY <1>2
  <2> HIDE DEF at
  <2> QED
    BY <1>5, <2>1 DEF Begins
<1>11. Len(parts) \in Nat
  BY <1>3, LenProperties
<1> HIDE DEF at, b, parts, come
\* what is to show of the new log
<1>12. ASSUME NEW new \in Seq(Seq(Block) \ {<<>>}), log'.parts = new, DOMAIN log' = {"date", "parts"},
              LogOrdered(new), Logged(new) \subseteq Logged(parts) \cup Carries(b),
              Logged(parts) \subseteq Logged(new),
              Carries(b) \subseteq Logged(new) \/ (wlog.started /\ ~wlog.open),
              Parts(pubs, new, wlog', ms), wlog'.open => new # <<>>
       PROVE  StreamInv'
  <2>1. Before(Logged(new), Coming(outputs, wlog'.pos, zip.cur, inputs))
    BY <1>5, <1>7, <1>8, <1>12 DEF Before, come
  <2>2. LogSound(pubs, outputs, zip.cur, inputs, ms, wlog', new)
    BY <1>10, <1>12, <2>1 DEF LogSound
  <2>3. Sound(pubs, outputs, zip, inputs, reader, wlog', new, ms)
    BY <1>1, <2>2 DEF Sound
  <2>4. Flows(pubs, outputs, zip, inputs, reader, wlog, log.parts)'
    <3>1. Flows(pubs, outputs, zip, inputs, reader, wlog', new)
      BY <2>3 DEF Flows
    <3> QED
      BY <1>4, <1>12, <3>1
  <2>5. NothingLost'
    BY <1>4 DEF StreamInv, NothingLost
  <2>6. HasPassed'
    <3> SUFFICES ASSUME inited, ~stoped
                 PROVE  /\ Carried(outputs, 1, at) \subseteq Logged(new)
                        /\ wlog'.open
      BY <1>4, <1>5, <1>12 DEF HasPassed
    <3>1. ~(wlog.started /\ ~wlog.open)
      <4>1. outputs # <<>>
        BY <1>2
      <4> QED
        BY <4>1 DEF StreamInv, HasPassed
    <3>2. Carried(outputs, 1, wlog.pos) \subseteq Logged(parts)
      BY DEF StreamInv, HasPassed, parts
    <3> QED
      BY <1>5, <1>6, <1>12, <3>1, <3>2
  <2> QED
    BY <1>12, <2>4, <2>5, <2>6 DEF StreamInv
<1>13. CASE ~wlog.started
  <2> DEFINE one == <<b>>
             new == Append(parts, one)
             n == Len(parts) + 1
  <2>1. one \in Seq(Block) \ {<<>>}
    BY <1>2
  <2>2. b.init
    BY <1>3, <1>13
  <2>3. PICK ls : Linked(pubs, one, ls) /\ ls[1] = ms[at] /\ Len(one) = 1
    BY <1>2, <1>9, <2>2, LinkedOne
  <2>4. one = <<b>>
    OBVIOUS
  <2> HIDE DEF one
  <2>5. /\ new \in Seq(Seq(Block) \ {<<>>}) /\ Len(new) = n /\ new[n] = one /\ n \in Nat /\ n > 0
        /\ \A p \in 1 .. Len(parts) : new[p] = parts[p]
    BY <1>3, <1>11, <2>1, OneMore
  <2>6. log'.parts = new /\ DOMAIN log' = {"date", "parts"}
    BY <1>4, <1>13, <2>4
  <2> HIDE DEF new
  <2>7. \A p \in 1 .. n - 1 : p \in 1 .. Len(parts)
    BY <1>11
  <2>8. n # Len(parts) /\ n = Len(parts) + 1
    BY <1>11
  <2> HIDE DEF n
  <2>9. LogOrdered(new) /\ Logged(new) = Logged(parts) \cup Carries(b)
    <3>1. \A p \in 1 .. n - 1 : new[p] = parts[p]
      BY <2>5, <2>7
    <3>2. n = Len(parts) + 1 /\ new[n] = <<b>>
      BY <2>4, <2>5, <2>8
    <3> QED
      BY <1>2, <1>3, <1>7, <1>8, <2>5, <3>1, <3>2, LogMore
  <2>10. Parts(pubs, new, wlog', ms)
    BY <1>3, <1>5, <2>3, <2>5, <2>7, PartsMore
  <2>11. new # <<>>
    BY <2>5
  <2> QED
    BY <1>12, <2>5, <2>6, <2>9, <2>10, <2>11
<1>14. CASE wlog.started /\ wlog.open
  <2> DEFINE n == Len(parts)
             more == Append(parts[n], b)
             new == [parts EXCEPT ![n] = more]
  <2>1. n \in Nat /\ n # 0 /\ n > 0 /\ n \in 1 .. Len(parts)
    BY <1>3, <1>11, <1>14, EmptySeq
  <2>2. parts[n] \in Seq(Block) /\ parts[n] # <<>>
    BY <1>3, <2>1, ElementOfSeq
  <2>3. more \in Seq(Block) /\ Len(more) = Len(parts[n]) + 1 /\ Len(parts[n]) \in Nat
    <3> DEFINE l == parts[n]
    <3>1. l \in Seq(Block)
      BY <2>2
    <3> HIDE DEF l
    <3>2. Append(l, b) \in Seq(Block) /\ Len(Append(l, b)) = Len(l) + 1 /\ Len(l) \in Nat
      BY <1>2, <3>1, OneMore
    <3> QED
      BY <3>2 DEF l
  <2>4. more # <<>>
    BY <2>3
  <2>5. log'.parts = new /\ DOMAIN log' = {"date", "parts"}
    <3>1. log' = [log EXCEPT !.parts[n] = Append(@, b)]
      BY <1>4, <1>14
    <3>2. DOMAIN log = {"date", "parts"}
      BY DEF StreamInv
    <3> QED
      BY <3>1, <3>2 DEF parts
  <2>6. PICK ls : /\ Linked(pubs, parts[n], ls)
                  /\ wlog.pos > 0 => ls[Len(parts[n])] = ms[wlog.pos]
    BY <1>3, <1>14, <2>1 DEF Parts
  <2>7. Follows(pubs, b.recs, IF b.init THEN NoMemory ELSE ls[Len(parts[n])], ms[at])
    <3>1. CASE wlog.pos > 0
      BY <1>9, <2>6, <3>1
    <3>2. CASE ~(wlog.pos > 0)
      <4>1. at = 1 /\ outputs # <<>>
        BY <1>2, <3>2 DEF at
      <4>2. b.init
        BY <1>3, <4>1 DEF Linked, b
      <4> QED
        BY <1>9, <4>2
    <3> QED
      BY <3>1, <3>2
  <2>8. PICK ks : Linked(pubs, more, ks) /\ ks[Len(parts[n]) + 1] = ms[at]
    <3> DEFINE l == parts[n]
    <3>1. Linked(pubs, l, ls) /\ l # <<>> /\ Follows(pubs, b.recs, IF b.init THEN NoMemory ELSE ls[Len(l)], ms[at])
      BY <2>2, <2>6, <2>7
    <3> HIDE DEF l
    <3>2. \E ks : Linked(pubs, Append(l, b), ks) /\ ks[Len(l) + 1] = ms[at]
      BY <1>2, <1>9, <3>1, LinkedMore
    <3> QED
      BY <3>2 DEF l
  <2>9. more = Append(parts[n], b)
    OBVIOUS
  <2> HIDE DEF more
  <2>10. /\ new \in Seq(Seq(Block) \ {<<>>}) /\ Len(new) = n /\ new[n] = more
         /\ \A p \in 1 .. n : p # n => new[p] = parts[p]
    BY <1>3, <2>1, <2>3, <2>4, ExceptSeq
  <2> HIDE DEF new
  <2>11. \A p \in 1 .. n - 1 : p \in 1 .. Len(parts) /\ new[p] = parts[p]
    BY <2>1, <2>10
  <2>12. n = Len(parts)
    OBVIOUS
  <2> HIDE DEF n
  <2>13. LogOrdered(new) /\ Logged(new) = Logged(parts) \cup Carries(b)
    <3>1. \A p \in 1 .. n - 1 : new[p] = parts[p]
      BY <2>11
    <3>2. n = Len(parts) /\ new[n] = Append(parts[n], b)
      BY <2>9, <2>10, <2>12
    <3> QED
      BY <1>2, <1>3, <1>7, <1>8, <2>1, <2>10, <3>1, <3>2, LogMore
  <2>14. Parts(pubs, new, wlog', ms)
    BY <1>3, <1>5, <2>1, <2>3, <2>8, <2>10, <2>11, PartsMore
  <2>15. new # <<>>
    BY <2>1, <2>10
  <2> QED
    BY <1>12, <2>5, <2>10, <2>13, <2>14, <2>15
<1>15. CASE wlog.started /\ ~wlog.open
  <2>1. log' = log /\ ~wlog'.open
    BY <1>4, <1>5, <1>15
  <2>2. DOMAIN log = {"date", "parts"}
    BY DEF StreamInv
  <2>3. Parts(pubs, parts, wlog', ms)
    BY <1>3, <2>1 DEF Parts
  <2> QED
    BY <1>3, <1>12, <1>15, <2>1, <2>2, <2>3 DEF parts
<1> QED
  BY <1>13, <1>14, <1>15

-----------------------------------------------------------------------------
(* What is sent.                                                            *)

\* the function by which values are chosen from a block exists
LEMMA ChoicesExist ==
    ASSUME NEW vals \in Seq(Nat), NEW rd
    PROVE  \E C \in [0 .. Len(vals) -> Seq(Nat)] :
              C = [n \in 0 .. Len(vals) |->
                     IF n = 0 THEN <<>>
                     ELSE IF Wants(rd, vals[n]) THEN Append(C[n - 1], vals[n]) ELSE C[n - 1]]
<1> DEFINE L == Len(vals)
           none == <<>>
           Next(s, n) == IF Wants(rd, vals[n]) THEN Append(s, vals[n]) ELSE s
           Upto(k, C) == /\ C \in [0 .. k -> Seq(Nat)] /\ C[0] = none
                         /\ \A n \in 1 .. k : C[n] = Next(C[n - 1], n)
           T == {k \in 0 .. L : \E C : Upto(k, C)}
<1>0. L \in Nat /\ 0 \in 0 .. L /\ none \in Seq(Nat)
  BY LenProperties
<1>1. 0 \in T
  <2>1. Upto(0, [k \in 0 .. 0 |-> none])
    <3> HIDE DEF none, Next
    <3> QED
      BY <1>0
  <2> QED
    BY <1>0, <2>1
<1>2. ASSUME NEW k \in 0 .. L, k # L, k \in T PROVE k + 1 \in T
  <2>1. PICK C : Upto(k, C)
    BY <1>2
  <2>2. k + 1 \in 1 .. L /\ k + 1 \in 0 .. L /\ k \in 0 .. k
    BY <1>0, <1>2
  <2> DEFINE new == Next(C[k], k + 1)
             D == [n \in 0 .. k + 1 |-> IF n = k + 1 THEN new ELSE C[n]]
  <2>3. new \in Seq(Nat)
    <3> DEFINE s == C[k]
               v == vals[k + 1]
    <3>1. s \in Seq(Nat)
      <4> HIDE DEF none, Next
      <4> QED
        BY <2>1, <2>2
    <3>2. v \in Nat
      BY <2>2, ElementOfSeq
    <3> HIDE DEF s, v
    <3>3. Append(s, v) \in Seq(Nat)
      BY <3>1, <3>2, OneMore
    <3> QED
      BY <3>1, <3>3 DEF s, v
  <2> HIDE DEF new, none, Next
  <2>4. \A n \in 0 .. k + 1 : n # k + 1 => n \in 0 .. k
    BY <1>2
  <2>5. D \in [0 .. k + 1 -> Seq(Nat)]
    BY <2>1, <2>3, <2>4
  <2>6. D[k + 1] = new /\ \A n \in 0 .. k : D[n] = C[n]
    BY <1>2
  <2> HIDE DEF D
  <2>7. \A n \in 1 .. k + 1 : D[n] = Next(D[n - 1], n)
    <3> TAKE n \in 1 .. k + 1
    <3>1. CASE n = k + 1
      <4>1. n - 1 = k /\ D[k] = C[k]
        BY <2>2, <2>6, <3>1
      <4> QED
        BY <2>6, <3>1, <4>1 DEF new
    <3>2. CASE n # k + 1
      <4>1. n \in 1 .. k /\ n \in 0 .. k /\ n - 1 \in 0 .. k
        BY <1>2, <3>2
      <4> QED
        BY <2>1, <2>6, <4>1
    <3> QED
      BY <3>1, <3>2
  <2>8. D[0] = none
    BY <2>1, <2>2, <2>6
  <2> QED
    BY <2>2, <2>5, <2>7, <2>8
<1> HIDE DEF T
<1>3. \A k \in 0 .. L : k \in T
  BY <1>0, <1>1, <1>2, AllSteps
<1>4. L \in T
  BY <1>0, <1>3
<1>5. PICK C : Upto(L, C)
  BY <1>4 DEF T
<1>6. C = [n \in 0 .. L |-> IF n = 0 THEN none ELSE Next(C[n - 1], n)]
  <2> HIDE DEF Next, none
  <2>1. \A n \in 0 .. L : n # 0 => n \in 1 .. L
    OBVIOUS
  <2>2. \A n \in 0 .. L : C[n] = IF n = 0 THEN none ELSE Next(C[n - 1], n)
    BY <1>5, <2>1
  <2> QED
    BY <1>5, <2>2
<1> QED
  BY <1>5, <1>6

\* of rising values those are taken, in their order, that are asked for
LEMMA ChosenIs ==
    ASSUME pubs \in Seq(Names), NEW vals \in Seq(Nat), Rising(vals), NEW rd,
           \A i \in 1 .. Len(vals) : vals[i] \in 1 .. Len(pubs)
    PROVE  LET s == Chosen(rd, vals)
           IN  /\ s \in Seq(Nat) /\ Rising(s)
               /\ \A i \in 1 .. Len(s) : \E j \in 1 .. Len(vals) : s[i] = vals[j] /\ Asks(pubs, rd, vals[j])
               /\ \A j \in 1 .. Len(vals) : Asks(pubs, rd, vals[j]) => \E i \in 1 .. Len(s) : s[i] = vals[j]
<1> DEFINE L == Len(vals)
           h == CHOOSE f : f = [n \in 0 .. L |->
                                  IF n = 0 THEN <<>>
                                  ELSE IF Wants(rd, vals[n]) THEN Append(f[n - 1], vals[n]) ELSE f[n - 1]]
           Is(s, n) == /\ s \in Seq(Nat) /\ Rising(s)
                       /\ \A i \in 1 .. Len(s) : \E j \in 1 .. n : s[i] = vals[j] /\ Asks(pubs, rd, vals[j])
                       /\ \A j \in 1 .. n : Asks(pubs, rd, vals[j]) => \E i \in 1 .. Len(s) : s[i] = vals[j]
           S == {n \in 0 .. L : Is(h[n], n)}
<1>1. L \in Nat /\ 0 \in 0 .. L /\ \A i \in 1 .. L : vals[i] \in Nat
  BY LenProperties, ElementOfSeq
<1>2. \A i \in 1 .. L : Wants(rd, vals[i]) <=> Asks(pubs, rd, vals[i])
  <2> TAKE i \in 1 .. L
  <2> DEFINE v == vals[i]
  <2>1. v \in Nat
    BY <1>1
  <2> HIDE DEF v
  <2>2. KeyOf(v) = pubs[v]
    BY <2>1 DEF KeyOf, Wrong
  <2>3. Wants(rd, v) <=> Asks(pubs, rd, v)
    BY <2>2 DEF Wants, Asks
  <2> QED
    BY <2>3 DEF v
<1>3. h = [n \in 0 .. L |-> IF n = 0 THEN <<>>
                            ELSE IF Wants(rd, vals[n]) THEN Append(h[n - 1], vals[n]) ELSE h[n - 1]]
  <2>1. PICK C \in [0 .. L -> Seq(Nat)] :
           C = [n \in 0 .. L |-> IF n = 0 THEN <<>>
                                 ELSE IF Wants(rd, vals[n]) THEN Append(C[n - 1], vals[n]) ELSE C[n - 1]]
    BY ChoicesExist
  <2> QED
    BY <2>1, Zenon
<1>4. Chosen(rd, vals) = h[L]
  BY DEF Chosen
<1> HIDE DEF h, L
<1>5. h[0] = <<>>
  BY <1>1, <1>3
<1>6. Is(h[0], 0)
  <2> DEFINE none == <<>>
  <2>1. none \in Seq(Nat) /\ Len(none) = 0 /\ (\A i : i \notin 1 .. 0) /\ h[0] = none
    BY <1>5
  <2> HIDE DEF none
  <2> QED
    BY <2>1 DEF Rising
<1>7. ASSUME NEW n \in 0 .. L, n # L, n \in S PROVE n + 1 \in S
  <2> DEFINE s == h[n]
             v == vals[n + 1]
             t == h[n + 1]
  <2>1. n + 1 \in 0 .. L /\ n + 1 \in 1 .. L /\ n + 1 # 0 /\ (n + 1) - 1 = n
    BY <1>1, <1>7
  <2>2. t = IF Wants(rd, v) THEN Append(s, v) ELSE s
    BY <1>3, <2>1
  <2>3. Is(s, n)
    BY <1>7
  <2>4. \A j : j \in 1 .. n + 1 <=> j \in 1 .. n \/ j = n + 1
    BY <1>7
  <2>5. v \in Nat /\ \A j \in 1 .. n : vals[j] < v
    <3>1. \A j \in 1 .. n : j \in 1 .. L /\ j < n + 1
      BY <1>1, <1>7
    <3> QED
      BY <1>1, <2>1, <3>1 DEF Rising, L
  <2> HIDE DEF s, t
  <2>6. Is(t, n + 1)
    <3>1. CASE ~Wants(rd, v)
      <4>1. t = s /\ ~Asks(pubs, rd, vals[n + 1])
        BY <1>2, <2>1, <2>2, <3>1
      <4>2. s \in Seq(Nat) /\ Rising(s)
        BY <2>3
      <4>3. \A i \in 1 .. Len(s) : \E j \in 1 .. n + 1 : s[i] = vals[j] /\ Asks(pubs, rd, vals[j])
        BY <2>3, <2>4
      <4>4. \A j \in 1 .. n + 1 : Asks(pubs, rd, vals[j]) => \E i \in 1 .. Len(s) : s[i] = vals[j]
        BY <2>3, <2>4, <4>1
      <4> QED
        BY <4>1, <4>2, <4>3, <4>4
    <3>2. CASE Wants(rd, v)
      <4> DEFINE K == Len(s)
      <4>1. s \in Seq(Nat) /\ Rising(s) /\ K \in Nat
        BY <2>3, LenProperties
      <4>2. t = Append(s, v)
        BY <2>2, <3>2
      <4>3. t \in Seq(Nat) /\ Len(t) = K + 1 /\ t[K + 1] = v /\ \A i \in 1 .. K : t[i] = s[i]
        <5> HIDE DEF v
        <5> QED
          BY <2>5, <4>1, <4>2, OneMore
      <4>4. /\ \A i \in 1 .. K : \E j \in 1 .. n : s[i] = vals[j] /\ Asks(pubs, rd, vals[j])
            /\ \A j \in 1 .. n : Asks(pubs, rd, vals[j]) => \E i \in 1 .. K : s[i] = vals[j]
            /\ \A i, j \in 1 .. K : i < j => s[i] < s[j]
        BY <2>3 DEF Rising
      <4>5. Asks(pubs, rd, vals[n + 1])
        BY <1>2, <2>1, <3>2
      <4> HIDE DEF K
      <4>6. \A i : i \in 1 .. K + 1 <=> i \in 1 .. K \/ i = K + 1
        BY <4>1
      <4>7. \A i \in 1 .. K : s[i] < v /\ i < K + 1
        <5> TAKE i \in 1 .. K
        <5>1. s[i] < v
          BY <2>5, <4>4
        <5> QED
          BY <4>1, <5>1
      <4>8. Rising(t)
        <5> SUFFICES ASSUME NEW i \in 1 .. K + 1, NEW j \in 1 .. K + 1, i < j PROVE t[i] < t[j]
          BY <4>3 DEF Rising
        <5>1. i \in 1 .. K
          BY <4>1
        <5> QED
          BY <4>3, <4>4, <4>6, <4>7, <5>1
      <4>9. \A i \in 1 .. K + 1 : \E j \in 1 .. n + 1 : t[i] = vals[j] /\ Asks(pubs, rd, vals[j])
        <5> TAKE i \in 1 .. K + 1
        <5>1. CASE i = K + 1
          <6>1. n + 1 \in 1 .. n + 1
            BY <2>4
          <6> QED
            BY <4>3, <4>5, <5>1, <6>1
        <5>2. CASE i \in 1 .. K
          <6>1. PICK j \in 1 .. n : s[i] = vals[j] /\ Asks(pubs, rd, vals[j])
            BY <4>4, <5>2
          <6>2. j \in 1 .. n + 1
            BY <2>4
          <6> QED
            BY <4>3, <5>2, <6>1, <6>2
        <5> QED
          BY <4>6, <5>1, <5>2
      <4>10. \A j \in 1 .. n + 1 : Asks(pubs, rd, vals[j]) => \E i \in 1 .. K + 1 : t[i] = vals[j]
        <5> SUFFICES ASSUME NEW j \in 1 .. n + 1, Asks(pubs, rd, vals[j])
                     PROVE  \E i \in 1 .. K + 1 : t[i] = vals[j]
          OBVIOUS
        <5>1. CASE j = n + 1
          <6>1. K + 1 \in 1 .. K + 1
            BY <4>1
          <6> QED
            BY <4>3, <5>1, <6>1
        <5>2. CASE j \in 1 .. n
          <6>1. PICK i \in 1 .. K : s[i] = vals[j]
            BY <4>4, <5>2
          <6> QED
            BY <4>3, <4>6, <6>1
        <5> QED
          BY <2>4, <5>1, <5>2
      <4> QED
        BY <4>3, <4>8, <4>9, <4>10
    <3> QED
      BY <3>1, <3>2
  <2> QED
    BY <2>1, <2>6 DEF t
<1> HIDE DEF Is
<1>8. \A n \in 0 .. L : n \in S
  <2>1. 0 \in S
    BY <1>1, <1>6
  <2> HIDE DEF S
  <2> QED
    BY <1>1, <1>7, <2>1, AllSteps
<1>9. Is(h[L], L)
  <2>1. L \in 0 .. L
    BY <1>1
  <2> QED
    BY <1>8, <2>1
<1> QED
  BY <1>4, <1>9 DEF Is, L

\* rising values after smaller ones
LEMMA Joined ==
    ASSUME NEW a \in Seq(Nat), NEW b \in Seq(Nat), Rising(a), Rising(b),
           \A i \in 1 .. Len(a), j \in 1 .. Len(b) : a[i] < b[j],
           NEW s, s = a \o b
    PROVE  /\ s \in Seq(Nat) /\ Rising(s)
           /\ \A i \in 1 .. Len(s) : \/ \E j \in 1 .. Len(a) : s[i] = a[j]
                                     \/ \E j \in 1 .. Len(b) : s[i] = b[j]
           /\ \A j \in 1 .. Len(a) : \E i \in 1 .. Len(s) : s[i] = a[j]
           /\ \A j \in 1 .. Len(b) : \E i \in 1 .. Len(s) : s[i] = b[j]
           /\ a # <<>> => s # <<>> /\ s[1] = a[1]
           /\ a = <<>> => s = b
<1> DEFINE A == Len(a)
           B == Len(b)
<1>1. A \in Nat /\ B \in Nat
  BY LenProperties
<1>2. /\ s \in Seq(Nat) /\ Len(s) = A + B
      /\ \A i \in 1 .. A + B : s[i] = IF i <= A THEN a[i] ELSE b[i - A]
  BY ConcatProperties
<1>3. a # <<>> => A > 0
  <2>1. a # <<>> => A # 0
    BY EmptySeq
  <2> QED
    BY <1>1, <2>1
<1>4. a = <<>> => s = b
  BY ConcatEmptySeq
<1>5. /\ \A i, j \in 1 .. A : i < j => a[i] < a[j]
      /\ \A i, j \in 1 .. B : i < j => b[i] < b[j]
      /\ \A i \in 1 .. A, j \in 1 .. B : a[i] < b[j]
  BY DEF Rising
<1> HIDE DEF A, B
<1>6. \A i \in 1 .. A + B : (i \in 1 .. A /\ s[i] = a[i]) \/ (i - A \in 1 .. B /\ s[i] = b[i - A])
  BY <1>1, <1>2
<1>7. \A j \in 1 .. A : j \in 1 .. A + B /\ s[j] = a[j]
  BY <1>1, <1>2
<1>8. \A j \in 1 .. B : A + j \in 1 .. A + B /\ s[A + j] = b[j]
  <2> TAKE j \in 1 .. B
  <2>1. A + j \in 1 .. A + B /\ ~(A + j <= A) /\ (A + j) - A = j
    BY <1>1
  <2> QED
    BY <1>2, <2>1
<1>9. Rising(s)
  <2> SUFFICES ASSUME NEW i \in 1 .. A + B, NEW j \in 1 .. A + B, i < j PROVE s[i] < s[j]
    BY <1>2 DEF Rising
  <2>1. CASE i \in 1 .. A /\ j \in 1 .. A
    BY <1>5, <1>7, <2>1
  <2>2. CASE i \in 1 .. A /\ j \notin 1 .. A
    BY <1>5, <1>6, <1>7, <2>2
  <2>3. CASE i \notin 1 .. A
    <3>1. j \notin 1 .. A /\ i - A < j - A
      BY <1>1, <2>3
    <3>2. i - A \in 1 .. B /\ j - A \in 1 .. B /\ s[i] = b[i - A] /\ s[j] = b[j - A]
      BY <1>6, <2>3, <3>1
    <3> QED
      BY <1>5, <3>1, <3>2
  <2> QED
    BY <2>1, <2>2, <2>3
<1>10. a # <<>> => s # <<>> /\ s[1] = a[1]
  <2>1. ASSUME a # <<>> PROVE s # <<>> /\ s[1] = a[1]
    <3>1. 1 \in 1 .. A /\ A + B # 0
      BY <1>1, <1>3, <2>1
    <3>2. s[1] = a[1]
      BY <1>7, <3>1
    <3>3. Len(s) # 0
      BY <1>2, <3>1
    <3> QED
      BY <3>2, <3>3
  <2> QED
    BY <2>1
<1>11. \A i \in 1 .. Len(s) : (\E j \in 1 .. A : s[i] = a[j]) \/ (\E j \in 1 .. B : s[i] = b[j])
  <2> TAKE i \in 1 .. Len(s)
  <2>1. i \in 1 .. A + B
    BY <1>2
  <2> QED
    BY <1>6, <2>1
<1>12. /\ \A j \in 1 .. A : \E i \in 1 .. Len(s) : s[i] = a[j]
       /\ \A j \in 1 .. B : \E i \in 1 .. Len(s) : s[i] = b[j]
  <2>1. /\ \A j \in 1 .. A : \E i \in 1 .. A + B : s[i] = a[j]
        /\ \A j \in 1 .. B : \E i \in 1 .. A + B : s[i] = b[j]
    BY <1>7, <1>8
  <2> QED
    BY <1>2, <2>1
<1>13. \A i \in 1 .. Len(s) : \/ \E j \in 1 .. Len(a) : s[i] = a[j]
                              \/ \E j \in 1 .. Len(b) : s[i] = b[j]
  BY <1>11 DEF A, B
<1>14. /\ \A j \in 1 .. Len(a) : \E i \in 1 .. Len(s) : s[i] = a[j]
       /\ \A j \in 1 .. Len(b) : \E i \in 1 .. Len(s) : s[i] = b[j]
  BY <1>12 DEF A, B
<1> QED
  BY <1>2, <1>4, <1>9, <1>10, <1>13, <1>14

\* one who has got the values of a block that it asked for
LEMMA GetsMore ==
    ASSUME NEW P, NEW up, NEW here, NEW come, NEW rd, rd.got \in Seq(Nat), Gets(P, up, here \cup come, rd),
           NEW mine \in Seq(Nat), Rising(mine),
           \A i \in 1 .. Len(mine) : mine[i] \in here /\ mine[i] \in 1 .. Len(P) /\ Asks(P, rd, mine[i]),
           \A v \in here : Asks(P, rd, v) => \E i \in 1 .. Len(mine) : mine[i] = v,
           Before(here, come), Before(up, here), up \subseteq Nat, here \subseteq Nat,
           NEW r, r.got = rd.got \o mine, r.kind = rd.kind, r.key = rd.key, r.ishead = rd.ishead,
           r.since = rd.since, r.isinit
    PROVE  Gets(P, up \cup here, come, r) /\ r.got \in Seq(Nat)
<1> DEFINE a == rd.got
           s == a \o mine
<1>1. /\ a \in Seq(Nat) /\ Rising(a)
      /\ \A i \in 1 .. Len(a) : /\ a[i] \in 1 .. Len(P) /\ Asks(P, rd, a[i])
                                /\ \A x \in here \cup come : a[i] < x
      /\ \A v \in up : Asks(P, rd, v) /\ ((rd.ishead /\ rd.since = 0) \/ (a # <<>> /\ a[1] <= v)) =>
            \E i \in 1 .. Len(a) : a[i] = v
  BY DEF Gets
<1>2. \A i \in 1 .. Len(a), j \in 1 .. Len(mine) : a[i] < mine[j]
  BY <1>1
<1> HIDE DEF a
<1>3. /\ s \in Seq(Nat) /\ Rising(s)
      /\ \A i \in 1 .. Len(s) : \/ \E j \in 1 .. Len(a) : s[i] = a[j]
                                \/ \E j \in 1 .. Len(mine) : s[i] = mine[j]
      /\ \A j \in 1 .. Len(a) : \E i \in 1 .. Len(s) : s[i] = a[j]
      /\ \A j \in 1 .. Len(mine) : \E i \in 1 .. Len(s) : s[i] = mine[j]
      /\ a # <<>> => s # <<>> /\ s[1] = a[1]
      /\ a = <<>> => s = mine
  <2>1. a \in Seq(Nat) /\ Rising(a) /\ s = a \o mine
    BY <1>1
  <2> HIDE DEF s
  <2>2. \A i \in 1 .. Len(a), j \in 1 .. Len(mine) : a[i] < mine[j]
    BY <1>2
  <2>3. s \in Seq(Nat) /\ Rising(s)
    BY <2>1, <2>2, Joined
  <2>4. \A i \in 1 .. Len(s) : \/ \E j \in 1 .. Len(a) : s[i] = a[j]
                               \/ \E j \in 1 .. Len(mine) : s[i] = mine[j]
    BY <2>1, <2>2, Joined
  <2>5. \A j \in 1 .. Len(a) : \E i \in 1 .. Len(s) : s[i] = a[j]
    BY <2>1, <2>2, Joined
  <2>6. \A j \in 1 .. Len(mine) : \E i \in 1 .. Len(s) : s[i] = mine[j]
    <3> TAKE j \in 1 .. Len(mine)
    <3>1. Len(a) \in Nat /\ Len(mine) \in Nat
      BY <2>1, LenProperties
    <3>2. /\ Len(s) = Len(a) + Len(mine)
          /\ \A i \in 1 .. Len(a) + Len(mine) : s[i] = IF i <= Len(a) THEN a[i] ELSE mine[i - Len(a)]
      BY <2>1, ConcatProperties
    <3> DEFINE i == Len(a) + j
    <3>3. i \in 1 .. Len(a) + Len(mine) /\ ~(i <= Len(a)) /\ i - Len(a) = j
      BY <3>1
    <3> QED
      BY <3>2, <3>3
  <2>7. a # <<>> => s # <<>> /\ s[1] = a[1]
    BY <2>1, <2>2, Joined
  <2>8. a = <<>> => s = mine
    BY <2>1, <2>2, Joined
  <2> QED
    BY <2>3, <2>4, <2>5, <2>6, <2>7, <2>8
<1>4. r.got = s
  BY DEF a
<1> HIDE DEF s
<1>5. \A v : Asks(P, r, v) <=> Asks(P, rd, v)
  BY DEF Asks
<1>6. ASSUME NEW i \in 1 .. Len(s)
      PROVE  s[i] \in 1 .. Len(P) /\ Asks(P, rd, s[i]) /\ \A x \in come : s[i] < x
  <2>1. CASE \E j \in 1 .. Len(a) : s[i] = a[j]
    BY <1>1, <2>1
  <2>2. CASE \E j \in 1 .. Len(mine) : s[i] = mine[j]
    BY <2>2 DEF Before
  <2> QED
    BY <1>3, <2>1, <2>2
<1>7. ASSUME NEW v \in up \cup here, Asks(P, rd, v), (rd.ishead /\ rd.since = 0) \/ (s # <<>> /\ s[1] <= v)
      PROVE  \E i \in 1 .. Len(s) : s[i] = v
  <2>1. CASE v \in here
    <3>1. PICK j \in 1 .. Len(mine) : mine[j] = v
      BY <1>7, <2>1
    <3>2. \E i \in 1 .. Len(s) : s[i] = mine[j]
      BY <1>3
    <3> QED
      BY <3>1, <3>2
  <2>2. CASE v \in up /\ ((rd.ishead /\ rd.since = 0) \/ a # <<>>)
    <3>1. PICK j \in 1 .. Len(a) : a[j] = v
      <4>1. (rd.ishead /\ rd.since = 0) \/ (a # <<>> /\ a[1] <= v)
        BY <1>3, <1>7, <2>2
      <4> QED
        BY <1>1, <1>7, <2>2, <4>1
    <3>2. \E i \in 1 .. Len(s) : s[i] = a[j]
      BY <1>3
    <3> QED
      BY <3>1, <3>2
  <2>3. CASE v \in up /\ ~(rd.ishead /\ rd.since = 0) /\ a = <<>>
    <3>1. s = mine /\ s # <<>> /\ mine[1] <= v
      BY <1>3, <1>7, <2>3
    <3>2. 1 \in 1 .. Len(mine)
      <4>1. Len(mine) \in Nat /\ Len(mine) # 0
        BY <3>1, LenProperties, EmptySeq
      <4> QED
        BY <4>1
    <3>3. mine[1] \in here /\ v < mine[1] /\ v \in Nat /\ mine[1] \in Nat
      BY <2>3, <3>2 DEF Before
    <3> QED
      BY <3>1, <3>3
  <2> QED
    BY <1>7, <2>1, <2>2, <2>3
<1>8. Gets(P, up \cup here, come, r)
  BY <1>3, <1>4, <1>5, <1>6, <1>7 DEF Gets
<1> QED
  BY <1>3, <1>4, <1>8

\* a subscriber with more values
Takes(rd, r, mine) ==
    /\ r \in Readers /\ mine \in Seq(Nat) /\ r.got = rd.got \o mine
    /\ r.kind = rd.kind /\ r.key = rd.key /\ r.ishead = rd.ishead /\ r.since = rd.since
    /\ r.open = rd.open /\ r.isinit = rd.isinit /\ r.pos = rd.pos

\* a client that has the memory a block was written from
LEMMA ReceiveIs ==
    ASSUME pubs \in Seq(Names), NEW rd \in Readers, NEW b, NEW m \in Memory, NEW n,
           Follows(pubs, b.recs, m, n), m = IF b.init THEN NoMemory ELSE rd.far
    PROVE  /\ Takes(rd, Receive(rd, b), Vals(b.recs)) /\ Receive(rd, b).far = n /\ n \in Memory
           /\ Receive(rd, b).mem = rd.mem /\ Receive(rd, b).ziper = rd.ziper
<1> DEFINE vs == Vals(b.recs)
           more == rd.got \o vs
           r == [rd EXCEPT !.far = n, !.got = more]
<1>1. n \in Memory /\ Unzip(b, rd.far) = [vals |-> vs, ago |-> n]
  BY UnzipIs
<1>2. vs \in Seq(Nat)
  BY ValsAre DEF Follows
<1>3. rd.got \in Seq(Nat)
  BY DEF Readers
<1> HIDE DEF vs
<1>4. more \in Seq(Nat)
  BY <1>2, <1>3, ConcatProperties
<1>5. Receive(rd, b) = r
  BY <1>1 DEF Receive
<1>6. r \in Readers
  <2> HIDE DEF more
  <2> QED
    BY <1>1, <1>4 DEF Readers
<1>7. /\ r.got = more /\ r.far = n /\ r.mem = rd.mem /\ r.ziper = rd.ziper
      /\ r.kind = rd.kind /\ r.key = rd.key /\ r.ishead = rd.ishead /\ r.since = rd.since
      /\ r.open = rd.open /\ r.isinit = rd.isinit /\ r.pos = rd.pos
  <2> HIDE DEF more
  <2> QED
    BY DEF Readers
<1> HIDE DEF r
<1>8. Takes(rd, r, vs)
  BY <1>2, <1>6, <1>7 DEF Takes
<1> QED
  BY <1>1, <1>5, <1>7, <1>8 DEF vs

\* what was asked for is compressed again for the client
LEMMA FilteredIs ==
    ASSUME pubs \in Seq(Names), NEW rd \in Readers, Zips(rd), rd.open, rd.kind \notin {"whole", "plain"},
           NEW vals \in Seq(Nat), \A i \in 1 .. Len(vals) : vals[i] \in 1 .. Len(pubs)
    PROVE  /\ Takes(rd, SendFiltered(rd, vals), vals) /\ Zips(SendFiltered(rd, vals))
           /\ SendFiltered(rd, vals).mem = rd.mem
<1>1. CASE vals = <<>>
  <2>1. SendFiltered(rd, vals) = rd
    BY <1>1 DEF SendFiltered
  <2>2. rd.got \in Seq(Nat)
    BY DEF Readers
  <2>3. rd.got \o vals = rd.got
    BY <1>1, <2>2, ConcatEmptySeq
  <2> QED
    BY <2>1, <2>3 DEF Takes
<1>2. CASE vals # <<>>
  <2> DEFINE z == rd.ziper
             e == EncodeSeq(vals, z.ago)
             restart == z.size > InitSize
             b == [init |-> z.init, recs |-> e.recs]
             r == Receive(rd, b)
             size == IF restart THEN 0 ELSE z.size + 1
             ago == IF restart THEN NoMemory ELSE e.ago
             y == [z EXCEPT !.init = restart, !.size = size, !.ago = ago]
             s == [r EXCEPT !.ziper = y]
  <2>1. SendFiltered(rd, vals) = s
    BY <1>2 DEF SendFiltered
  <2>2. z \in Zipers /\ z.made /\ (z.init => z.ago = NoMemory) /\ (~z.init => rd.far = z.ago)
    BY DEF Readers, Zips
  <2>3. z.ago \in Memory /\ z.init \in BOOLEAN /\ z.size \in Int
    BY <2>2 DEF Zipers
  <2>4. /\ e.ago \in Memory /\ Follows(pubs, e.recs, z.ago, e.ago) /\ Vals(e.recs) = vals
    BY <2>3, EncodeSeqIs
  <2> HIDE DEF e
  <2>5. b.init = z.init /\ b.recs = e.recs
    OBVIOUS
  <2>6. z.ago = IF b.init THEN NoMemory ELSE rd.far
    BY <2>2, <2>3, <2>5
  <2> HIDE DEF b
  <2>7. /\ Takes(rd, r, vals) /\ r.far = e.ago /\ r.mem = rd.mem /\ r.ziper = z
    BY <2>3, <2>4, <2>5, <2>6, ReceiveIs
  <2> HIDE DEF r, restart
  <2>8. restart \in BOOLEAN
    BY DEF restart
  <2>9. size \in Int /\ ago \in Memory
    BY <2>3, <2>4, NoMemoryIs
  <2>10. (restart => ago = NoMemory) /\ (~restart => ago = e.ago)
    OBVIOUS
  <2> HIDE DEF size, ago
  <2>11. y \in Zipers /\ y.made /\ y.init = restart /\ y.ago = ago
    BY <2>2, <2>8, <2>9 DEF Zipers
  <2> HIDE DEF y
  <2>12. r \in Readers
    BY <2>7 DEF Takes
  <2>13. s \in Readers
    BY <2>11, <2>12 DEF Readers
  <2>14. /\ s.got = r.got /\ s.far = r.far /\ s.mem = r.mem /\ s.ziper = y
         /\ s.kind = r.kind /\ s.key = r.key /\ s.ishead = r.ishead /\ s.since = r.since
         /\ s.open = r.open /\ s.isinit = r.isinit /\ s.pos = r.pos
    BY <2>12 DEF Readers
  <2> HIDE DEF s
  <2>15. Takes(rd, s, vals)
    BY <2>7, <2>13, <2>14 DEF Takes
  <2>16. Zips(s)
    BY <2>7, <2>10, <2>11, <2>14 DEF Zips
  <2> QED
    BY <2>1, <2>7, <2>14, <2>15, <2>16
<1> QED
  BY <1>1, <1>2

\* a subscriber with the values of a block that it asked for, and the memory after it
Served(rd, r, b, n, mine) ==
    /\ Takes(rd, r, mine) /\ Zips(r)
    /\ (IF rd.kind = "whole" THEN r.far ELSE r.mem) = n
    /\ Rising(mine)
    /\ \A i \in 1 .. Len(mine) : /\ mine[i] \in Carries(b) /\ mine[i] \in 1 .. Len(pubs)
                                 /\ Asks(pubs, rd, mine[i])
    /\ \A v \in Carries(b) : Asks(pubs, rd, v) => \E i \in 1 .. Len(mine) : mine[i] = v

\* a subscriber that is sent a block takes from it what it asked for
LEMMA SendIs ==
    ASSUME pubs \in Seq(Names), NEW rd \in Readers, Zips(rd), rd.open, NEW b, NEW m \in Memory, NEW n,
           Follows(pubs, b.recs, m, n), Rising(Vals(b.recs)),
           m = IF b.init THEN NoMemory ELSE IF rd.kind = "whole" THEN rd.far ELSE rd.mem,
           NEW r, r = Send(rd, b)
    PROVE  \E mine : Served(rd, r, b, n, mine)
<1> DEFINE vs == Vals(b.recs)
<1>1. vs \in Seq(Nat) /\ Len(vs) \in Nat /\ \A i \in 1 .. Len(vs) : vs[i] \in 1 .. Len(pubs)
  BY ValsAre DEF Follows
<1>2. \A v : v \in Carries(b) <=> \E i \in 1 .. Len(vs) : v = vs[i]
  <2>1. b.recs \in Seq(Record)
    BY DEF Follows
  <2>2. Len(vs) = Len(b.recs) /\ \A i \in 1 .. Len(b.recs) : vs[i] = b.recs[i].val
    BY <2>1, ValsAre
  <2> HIDE DEF vs
  <2> TAKE v
  <2>3. v \in Carries(b) <=> \E i \in 1 .. Len(b.recs) : v = b.recs[i].val
    BY CarriesIs
  <2> QED
    BY <2>2, <2>3
<1>3. CASE rd.kind = "whole"
  <2>1. r = Receive(rd, b)
    BY <1>3 DEF Send
  <2>2. m = IF b.init THEN NoMemory ELSE rd.far
    BY <1>3
  <2>3. Takes(rd, r, vs) /\ r.far = n /\ r.mem = rd.mem /\ r.ziper = rd.ziper
    <3>1. /\ Takes(rd, Receive(rd, b), Vals(b.recs)) /\ Receive(rd, b).far = n
          /\ Receive(rd, b).mem = rd.mem /\ Receive(rd, b).ziper = rd.ziper
      BY <2>2, ReceiveIs
    <3> QED
      BY <2>1, <3>1
  <2> HIDE DEF vs
  <2>4. Zips(r)
    BY <1>3, <2>3 DEF Zips, Takes
  <2>5. \A v : Asks(pubs, rd, v)
    BY <1>3 DEF Asks
  <2>6. Rising(vs)
    BY DEF vs
  <2>7. Served(rd, r, b, n, vs)
    BY <1>1, <1>2, <1>3, <2>3, <2>4, <2>5, <2>6 DEF Served
  <2> QED
    BY <2>7
<1>4. CASE rd.kind # "whole"
  <2> DEFINE mine == Chosen(rd, vs)
             read == [rd EXCEPT !.mem = n]
             more == rd.got \o mine
             plain == [read EXCEPT !.got = more]
  <2>1. Rising(vs) /\ n \in Memory /\ Unzip(b, rd.mem) = [vals |-> vs, ago |-> n]
    BY <1>4, UnzipIs
  <2> HIDE DEF vs
  <2>2. /\ mine \in Seq(Nat) /\ Rising(mine)
        /\ \A i \in 1 .. Len(mine) : \E j \in 1 .. Len(vs) : mine[i] = vs[j] /\ Asks(pubs, rd, vs[j])
        /\ \A j \in 1 .. Len(vs) : Asks(pubs, rd, vs[j]) => \E i \in 1 .. Len(mine) : mine[i] = vs[j]
    <3>1. vs \in Seq(Nat) /\ Rising(vs) /\ \A i \in 1 .. Len(vs) : vs[i] \in 1 .. Len(pubs)
      BY <1>1, <2>1
    <3>2. mine \in Seq(Nat) /\ Rising(mine)
      BY <3>1, ChosenIs
    <3>3. \A i \in 1 .. Len(mine) : \E j \in 1 .. Len(vs) : mine[i] = vs[j] /\ Asks(pubs, rd, vs[j])
      BY <3>1, ChosenIs
    <3>4. \A j \in 1 .. Len(vs) : Asks(pubs, rd, vs[j]) => \E i \in 1 .. Len(mine) : mine[i] = vs[j]
      BY <3>1, ChosenIs
    <3> QED
      BY <3>2, <3>3, <3>4
  <2>3. r = IF rd.kind = "plain" THEN plain ELSE SendFiltered(read, mine)
    BY <1>4, <2>1 DEF Send
  <2> HIDE DEF mine
  <2>4. /\ read \in Readers /\ read.mem = n /\ read.got = rd.got
        /\ read.far = rd.far /\ read.ziper = rd.ziper
        /\ read.kind = rd.kind /\ read.key = rd.key /\ read.ishead = rd.ishead /\ read.since = rd.since
        /\ read.open = rd.open /\ read.isinit = rd.isinit /\ read.pos = rd.pos
    BY <2>1 DEF Readers
  <2> HIDE DEF read
  <2>5. Zips(read)
    BY <2>4 DEF Zips
  <2>6. Takes(rd, r, mine) /\ Zips(r) /\ r.mem = n
    <3>1. CASE rd.kind = "plain"
      <4>1. more \in Seq(Nat)
        BY <2>2, ConcatProperties DEF Readers
      <4> HIDE DEF more
      <4>2. /\ plain \in Readers /\ plain.mem = n /\ plain.got = more /\ plain.ziper = rd.ziper
            /\ plain.kind = rd.kind /\ plain.key = rd.key /\ plain.ishead = rd.ishead /\ plain.since = rd.since
            /\ plain.open = rd.open /\ plain.isinit = rd.isinit /\ plain.pos = rd.pos
        BY <2>4, <4>1 DEF Readers
      <4> HIDE DEF plain
      <4>3. Takes(rd, plain, mine)
        BY <2>2, <4>2 DEF Takes, more
      <4>4. Zips(plain)
        BY <3>1, <4>2 DEF Zips
      <4> QED
        BY <2>3, <3>1, <4>2, <4>3, <4>4
    <3>2. CASE rd.kind # "plain"
      <4>1. r = SendFiltered(read, mine)
        BY <2>3, <3>2
      <4>2. read.kind \notin {"whole", "plain"} /\ read.open
        BY <1>4, <2>4, <3>2
      <4>3. \A i \in 1 .. Len(mine) : mine[i] \in 1 .. Len(pubs)
        BY <1>1, <2>2
      <4>4. Takes(read, r, mine) /\ Zips(r) /\ r.mem = n
        BY <2>2, <2>4, <2>5, <4>1, <4>2, <4>3, FilteredIs
      <4>5. Takes(rd, r, mine)
        BY <2>4, <4>4 DEF Takes
      <4> QED
        BY <4>4, <4>5
    <3> QED
      BY <3>1, <3>2
  <2>7. \A i \in 1 .. Len(mine) : /\ mine[i] \in Carries(b) /\ mine[i] \in 1 .. Len(pubs)
                                  /\ Asks(pubs, rd, mine[i])
    BY <1>1, <1>2, <2>2
  <2>8. \A v \in Carries(b) : Asks(pubs, rd, v) => \E i \in 1 .. Len(mine) : mine[i] = v
    <3> SUFFICES ASSUME NEW v \in Carries(b), Asks(pubs, rd, v)
                 PROVE  \E i \in 1 .. Len(mine) : mine[i] = v
      OBVIOUS
    <3>1. PICK j \in 1 .. Len(vs) : v = vs[j]
      BY <1>2
    <3> QED
      BY <2>2, <3>1
  <2>9. Served(rd, r, b, n, mine)
    BY <1>4, <2>2, <2>6, <2>7, <2>8 DEF Served
  <2> QED
    BY <2>9
<1> QED
  BY <1>3, <1>4

\* the reader goes on by a block
PosIs(rd, r, n) ==
    /\ r \in Readers /\ r.pos = n
    /\ r.kind = rd.kind /\ r.key = rd.key /\ r.ishead = rd.ishead /\ r.since = rd.since /\ r.open = rd.open
    /\ r.isinit = rd.isinit /\ r.got = rd.got /\ r.mem = rd.mem /\ r.far = rd.far /\ r.ziper = rd.ziper

\* only the position changes
LEMMA Moved ==
    ASSUME NEW rd \in Readers, NEW n \in Nat
    PROVE  PosIs(rd, [rd EXCEPT !.pos = n], n)
  BY DEF Readers, PosIs

\* a reader that still waits for a block to begin with
LEMMA WaitsSound ==
    ASSUME NEW P, NEW l, NEW cur, NEW ins, NEW ms, NEW rd, ReaderSound(P, l, cur, ins, ms, rd),
           Len(l) \in Nat, rd.pos < Len(l), ~rd.isinit, ~(rd.ishead /\ rd.since = 0),
           NEW r, PosIs(rd, r, rd.pos + 1)
    PROVE  ReaderSound(P, l, cur, ins, ms, r)
<1>1. rd \in Readers /\ rd.pos \in Nat /\ Zips(rd) /\ rd.got = <<>>
  BY DEF ReaderSound, Readers, Gets
<1>2. Remembered(ms, r) /\ Zips(r)
  BY <1>1 DEF PosIs, Remembered, Zips
<1>3. Len(<<>>) = 0 /\ \A i : i \notin 1 .. 0
  OBVIOUS
<1>4. Gets(P, Carried(l, 1, r.pos), Coming(l, r.pos, cur, ins), r)
  BY <1>1, <1>3 DEF PosIs, Gets, Rising
<1>5. r \in Readers /\ r.pos <= Len(l)
  BY <1>1 DEF PosIs
<1> QED
  BY <1>2, <1>4, <1>5 DEF ReaderSound

\* a reader that is sent the next block
LEMMA SentSound ==
    ASSUME NEW ms, Linked(pubs, outputs, ms), Ordered(pubs, outputs, zip.cur, inputs),
           pubs \in Seq(Names), NEW rd, ReaderSound(pubs, outputs, zip.cur, inputs, ms, rd),
           rd.open, rd.pos < Len(outputs), rd.isinit \/ outputs[rd.pos + 1].init,
           NEW r, r = [Send([rd EXCEPT !.isinit = TRUE], outputs[rd.pos + 1]) EXCEPT !.pos = rd.pos + 1]
    PROVE  ReaderSound(pubs, outputs, zip.cur, inputs, ms, r)
<1> DEFINE at == rd.pos + 1
           b == outputs[at]
           rd1 == [rd EXCEPT !.isinit = TRUE]
           sent == Send(rd1, b)
           m == IF b.init THEN NoMemory ELSE ms[rd.pos]
           up == Carried(outputs, 1, rd.pos)
           come == Coming(outputs, at, zip.cur, inputs)
<1>1. /\ outputs \in Seq(Block) /\ Len(outputs) \in Nat /\ ms \in [0 .. Len(outputs) -> Memory]
      /\ \A i \in 1 .. Len(outputs) :
            Follows(pubs, outputs[i].recs, IF outputs[i].init THEN NoMemory ELSE ms[i - 1], ms[i])
      /\ outputs # <<>> => outputs[1].init
  BY LenProperties DEF Linked
<1>2. /\ rd \in Readers /\ rd.pos \in Nat /\ Zips(rd) /\ Remembered(ms, rd)
      /\ Gets(pubs, up, Coming(outputs, rd.pos, zip.cur, inputs), rd)
  BY DEF ReaderSound, Readers
<1>3. at \in 1 .. Len(outputs) /\ at - 1 = rd.pos /\ rd.pos \in 0 .. Len(outputs) /\ at \in Nat
  BY <1>1, <1>2
<1>4. Follows(pubs, b.recs, m, ms[at]) /\ m \in Memory
  BY <1>1, <1>3, NoMemoryIs
<1>5. /\ rd1 \in Readers /\ rd1.isinit /\ rd1.open
      /\ rd1.kind = rd.kind /\ rd1.key = rd.key /\ rd1.ishead = rd.ishead /\ rd1.since = rd.since /\ rd1.got = rd.got
      /\ rd1.mem = rd.mem /\ rd1.far = rd.far /\ rd1.ziper = rd.ziper
  BY <1>2 DEF Readers
<1>6. Zips(rd1)
  <2> HIDE DEF rd1
  <2> QED
    BY <1>2, <1>5 DEF Zips
<1>7. m = IF b.init THEN NoMemory ELSE IF rd1.kind = "whole" THEN rd1.far ELSE rd1.mem
  <2> HIDE DEF rd1
  <2>1. CASE b.init
    BY <2>1
  <2>2. CASE ~b.init
    <3>1. rd.isinit
      BY <2>2
    <3>2. rd.pos > 0
      <4>1. outputs # <<>>
        BY <1>3, EmptySeq
      <4>2. rd.pos = 0 => b.init
        BY <1>1, <4>1
      <4> QED
        BY <1>2, <2>2, <4>2
    <3>3. (IF rd.kind = "whole" THEN rd.far ELSE rd.mem) = ms[rd.pos]
      BY <1>2, <3>1, <3>2 DEF Remembered
    <3> QED
      BY <1>5, <2>2, <3>3
  <2> QED
    BY <2>1, <2>2
<1>8. Rising(Vals(b.recs))
  BY <1>3 DEF Ordered
<1>9. Coming(outputs, rd.pos, zip.cur, inputs) = Carries(b) \cup come /\ Carried(outputs, 1, at) = up \cup Carries(b)
  BY <1>1, <1>2, ComingSplit
<1>10. Before(Carries(b), come)
  BY <1>3 DEF Ordered
<1>11. Before(up, Carries(b))
  <2>1. ASSUME NEW v \in up, NEW x \in Carries(b) PROVE v < x
    <3>1. PICK i \in 1 .. rd.pos : v \in Carries(outputs[i])
      BY CarriedIs
    <3>2. i \in 1 .. Len(outputs) /\ i \in 0 .. rd.pos
      BY <1>3
    <3>3. x \in Coming(outputs, i, zip.cur, inputs)
      <4>1. Coming(outputs, rd.pos, zip.cur, inputs) \subseteq Coming(outputs, i, zip.cur, inputs)
        BY <1>1, <1>2, <3>2, ComingLess
      <4> QED
        BY <1>9, <4>1
    <3>4. Before(Carries(outputs[i]), Coming(outputs, i, zip.cur, inputs))
      BY <3>2 DEF Ordered
    <3> QED
      BY <3>1, <3>3, <3>4 DEF Before
  <2> QED
    BY <2>1 DEF Before
<1>12. up \subseteq Nat /\ Carries(b) \subseteq Nat
  <2>1. /\ up \subseteq Coming(outputs, 0, zip.cur, inputs)
        /\ Carries(b) \subseteq Coming(outputs, 0, zip.cur, inputs)
    BY <1>1, <1>3, PassedComing
  <2>2. Coming(outputs, 0, zip.cur, inputs) \subseteq 1 .. Len(pubs)
    BY DEF Ordered
  <2> QED
    BY <2>1, <2>2
<1>13. r = [sent EXCEPT !.pos = at] /\ sent = Send(rd1, b)
  OBVIOUS
<1>14. come = Coming(outputs, at, zip.cur, inputs)
  OBVIOUS
<1> DEFINE n == ms[at]
<1> HIDE DEF rd1, b, m, up, come, sent, at, n
<1>15. PICK mine : Served(rd1, sent, b, n, mine)
  <2>1. Follows(pubs, b.recs, m, n)
    BY <1>4 DEF n
  <2>2. rd1 \in Readers /\ Zips(rd1) /\ rd1.open /\ m \in Memory /\ Rising(Vals(b.recs))
    BY <1>4, <1>5, <1>6, <1>8
  <2>3. sent = Send(rd1, b)
    BY <1>13
  <2> QED
    BY <1>7, <2>1, <2>2, <2>3, SendIs
<1>16. PosIs(sent, r, at)
  <2>1. sent \in Readers
    BY <1>15 DEF Served, Takes
  <2> QED
    BY <1>3, <1>13, <2>1, Moved
<1>17. \A v : Asks(pubs, rd1, v) <=> Asks(pubs, rd, v)
  BY <1>5 DEF Asks
<1>18. /\ mine \in Seq(Nat) /\ r.got = rd.got \o mine /\ r.kind = rd.kind /\ r.key = rd.key
       /\ r.ishead = rd.ishead /\ r.since = rd.since /\ r.isinit /\ r.open = rd.open /\ r.pos = at /\ r \in Readers
       /\ r.mem = sent.mem /\ r.far = sent.far /\ r.ziper = sent.ziper
       /\ sent.kind = rd.kind /\ sent.open = rd.open
  BY <1>5, <1>15, <1>16 DEF Served, Takes, PosIs
<1>19. Gets(pubs, up \cup Carries(b), come, r)
  <2>1. rd.got \in Seq(Nat) /\ Gets(pubs, up, Carries(b) \cup come, rd)
    BY <1>2, <1>9 DEF Readers
  <2> DEFINE mn == mine
             hr == Carries(b)
  <2>2. /\ \A i \in 1 .. Len(mn) : mn[i] \in hr /\ mn[i] \in 1 .. Len(pubs) /\ Asks(pubs, rd, mn[i])
        /\ \A v \in hr : Asks(pubs, rd, v) => \E i \in 1 .. Len(mn) : mn[i] = v
    BY <1>15, <1>17 DEF Served
  <2>3. mn \in Seq(Nat) /\ Rising(mn) /\ Before(hr, come) /\ Before(up, hr) /\ up \subseteq Nat /\ hr \subseteq Nat
    BY <1>10, <1>11, <1>12, <1>15, <1>18 DEF Served
  <2>4. r.got = rd.got \o mn /\ Gets(pubs, up, hr \cup come, rd)
    BY <1>18, <2>1
  <2> HIDE DEF mn, hr
  <2>5. Gets(pubs, up \cup hr, come, r)
    BY <1>18, <2>1, <2>2, <2>3, <2>4, GetsMore
  <2> QED
    BY <2>5 DEF hr
<1>20. Remembered(ms, r) /\ Zips(r)
  BY <1>5, <1>15, <1>18 DEF Served, Remembered, Zips, n
<1>21. Gets(pubs, Carried(outputs, 1, r.pos), Coming(outputs, r.pos, zip.cur, inputs), r) /\ r.pos <= Len(outputs)
  <2>1. Carried(outputs, 1, r.pos) = up \cup Carries(b)
    BY <1>9, <1>18
  <2>2. Coming(outputs, r.pos, zip.cur, inputs) = come
    BY <1>18, <1>14
  <2>3. r.pos <= Len(outputs)
    BY <1>1, <1>3, <1>18
  <2> QED
    BY <1>19, <2>1, <2>2, <2>3
<1> QED
  BY <1>18, <1>20, <1>21 DEF ReaderSound

\* a subscriber's reader keeps the invariant
LEMMA ReadOutputKeeps ==
    ASSUME StreamInv, ~fault, NEW c \in Cids, ReadOutput(c)
    PROVE  StreamInv'
<1> DEFINE rd == reader[c]
           at == rd.pos + 1
           begins == outputs[at].init /\ (rd.ishead \/ zip.last = at)
           sends == rd.isinit \/ begins
           next == IF sends THEN Send([rd EXCEPT !.isinit = TRUE], outputs[at]) ELSE rd
           r == [next EXCEPT !.pos = at]
<1>1. /\ StreamFlows /\ DOMAIN log = {"date", "parts"} /\ NothingLost /\ HasPassed
  BY DEF StreamInv, StreamFlows
<1>2. PICK ms : Sound(pubs, outputs, zip, inputs, reader, wlog, log.parts, ms)
  BY <1>1 DEF StreamFlows, Flows
<1>3. /\ rd.open /\ rd.pos < Len(outputs) /\ reader' = [reader EXCEPT ![c] = r]
      /\ UNCHANGED <<day, writer, outputs, wlog, log, hist>>
  BY DEF ReadOutput
<1>4. /\ pubs \in Seq(Names) /\ Linked(pubs, outputs, ms) /\ Ordered(pubs, outputs, zip.cur, inputs)
      /\ DOMAIN reader = Cids
      /\ \A x \in Cids : ReaderSound(pubs, outputs, zip.cur, inputs, ms, reader[x])
  BY <1>2 DEF Sound
<1>5. /\ rd \in Readers /\ rd.pos \in Nat /\ Len(outputs) \in Nat /\ at \in Nat
      /\ Gets(pubs, Carried(outputs, 1, rd.pos), Coming(outputs, rd.pos, zip.cur, inputs), rd)
      /\ ReaderSound(pubs, outputs, zip.cur, inputs, ms, rd)
  <2>1. ReaderSound(pubs, outputs, zip.cur, inputs, ms, rd)
    BY <1>4
  <2>2. Len(outputs) \in Nat
    BY <1>1, StreamFacts
  <2> HIDE DEF rd
  <2>3. /\ rd \in Readers /\ rd.pos \in Nat
        /\ Gets(pubs, Carried(outputs, 1, rd.pos), Coming(outputs, rd.pos, zip.cur, inputs), rd)
    BY <2>1 DEF ReaderSound, Readers
  <2> QED
    BY <2>1, <2>2, <2>3
<1>6. ReaderSound(pubs, outputs, zip.cur, inputs, ms, r)
  <2>1. CASE sends
    <3> DEFINE sent == Send([rd EXCEPT !.isinit = TRUE], outputs[at])
    <3>2. r = [sent EXCEPT !.pos = at]
      BY <2>1
    <3> HIDE DEF r, rd
    <3>4. rd.isinit \/ outputs[rd.pos + 1].init
      BY <2>1
    <3> QED
      BY <1>3, <1>4, <1>5, <3>2, <3>4, SentSound
  <2>2. CASE ~sends
    <3>1. r = [rd EXCEPT !.pos = at]
      BY <2>2
    <3> HIDE DEF r
    <3>2. PosIs(rd, r, at)
      BY <1>5, <3>1, Moved
    <3>3. ~rd.isinit /\ ~begins
      BY <2>2
    <3>4. ~(rd.ishead /\ rd.since = 0)
      <4>1. ASSUME rd.ishead, rd.since = 0 PROVE FALSE
        <5>1. rd.pos = 0
          BY <1>5, <3>3, <4>1 DEF Gets
        <5>2. outputs # <<>> /\ at = 1
          BY <1>3, <1>5, <5>1, EmptySeq
        <5>3. outputs[at].init
          BY <1>4, <5>2 DEF Linked
        <5> QED
          BY <3>3, <4>1, <5>3
      <4> QED
        BY <4>1
    <3> QED
      BY <1>3, <1>5, <3>2, <3>3, <3>4, WaitsSound
  <2> QED
    BY <2>1, <2>2
<1> HIDE DEF r, rd
<1>7. DOMAIN reader' = Cids /\ \A x \in Cids : ReaderSound(pubs, outputs, zip.cur, inputs, ms, reader'[x])
  BY <1>3, <1>4, <1>6
<1>8. Sound(pubs, outputs, zip, inputs, reader', wlog, log.parts, ms)
  BY <1>2, <1>7 DEF Sound
<1>9. StreamFlows'
  BY <1>3, <1>8 DEF StreamFlows, Flows, writer, hist
<1>10. NothingLost' /\ HasPassed'
  BY <1>1, <1>3 DEF NothingLost, HasPassed, writer, hist, day
<1> QED
  BY <1>1, <1>3, <1>9, <1>10 DEF StreamInv, StreamFlows

\* every step of the dataset keeps the invariant
LEMMA StepKeeps == StreamInv /\ [StreamNext]_streamvars => StreamInv'
<1> SUFFICES ASSUME StreamInv, [StreamNext]_streamvars PROVE StreamInv'
  OBVIOUS
<1>1. CASE UNCHANGED streamvars
  <2>1. UNCHANGED <<inited, stoped, date, tables, inputs, queued, zip, outputs, reader, wlog, log,
                    pubs, dropped, fault>>
    BY <1>1 DEF streamvars, day, writer, hist
  <2> QED
    BY <2>1 DEF StreamInv, Flows, NothingLost, HasPassed
<1>2. CASE StreamNext /\ fault'
  BY <1>2 DEF StreamInv
<1>3. CASE StreamNext /\ ~fault'
  <2>1. ~fault
    BY <1>3 DEF StreamNext
  <2>2. ASSUME NEW k \in Names, Publish(k) PROVE StreamInv'
    BY <2>1, <2>2, PublishKeeps
  <2>3. CASE InputRecord
    BY <2>1, <2>3, InputRecordKeeps
  <2>4. CASE InputTimeout
    BY <2>1, <2>4, InputTimeoutKeeps
  <2>5. ASSUME NEW c \in Cids, NEW ishead \in BOOLEAN, Subscribe(c, "whole", None, ishead)
        PROVE  StreamInv'
    <3>1. "whole" \in {"whole", "filter", "plain"} /\ None \in SubKeys \cup {None}
      OBVIOUS
    <3> QED
      BY <2>1, <2>5, <3>1, SubscribeKeeps
  <2>6. ASSUME NEW c \in Cids, NEW ishead \in BOOLEAN, NEW kind \in {"filter", "plain"},
               NEW k \in SubKeys, Subscribe(c, kind, k, ishead)
        PROVE  StreamInv'
    <3>1. kind \in {"whole", "filter", "plain"} /\ k \in SubKeys \cup {None}
      OBVIOUS
    <3> QED
      BY <2>1, <2>6, <3>1, SubscribeKeeps
  <2>7. ASSUME NEW c \in Cids, Unsubscribe(c) PROVE StreamInv'
    BY <2>1, <2>7, UnsubscribeKeeps
  <2>8. ASSUME NEW c \in Cids, ReadOutput(c) PROVE StreamInv'
    BY <2>1, <2>8, ReadOutputKeeps
  <2>9. CASE WriteLog
    BY <2>1, <2>9, WriteLogKeeps
  <2>10. ASSUME NEW d \in Dates, StartDay(d) PROVE StreamInv'
    BY <1>3, <2>1, <2>10, StartDayKeeps
  <2>16. CASE StartFails
    BY <2>1, <2>16, StartFailsKeeps
  <2>11. CASE Stop
    BY <2>1, <2>11, StopKeeps
  <2>12. ASSUME NEW mode \in {"reader", "catch", "all"}, NEW gone \in SUBSET Cids, ClearData(mode, gone)
         PROVE  StreamInv'
    BY <2>1, <2>12, ClearDataKeeps
  <2>13. CASE Restart
    BY <2>1, <2>13, RestartKeeps
  <2>14. "reader" \in {"reader", "catch", "all"} /\ {} \in SUBSET Cids
    OBVIOUS
  <2>15. \A mode \in {"catch", "all"} : mode \in {"reader", "catch", "all"}
    OBVIOUS
  <2> QED
    BY <1>3, <2>2, <2>3, <2>4, <2>5, <2>6, <2>7, <2>8, <2>9, <2>10, <2>11, <2>12, <2>13, <2>14,
       <2>15, <2>16 DEF StreamNext
<1> QED
  BY <1>1, <1>2, <1>3

(* The invariant: with the memories that writers had before and after each  *)
(* block, all blocks follow from each other; every reader, every part of    *)
(* the log and the current block stand where their memory is the right one. *)
THEOREM StreamSound == StreamSpec => []StreamInv
<1> QED
  BY InitHolds, StepKeeps, PTL DEF StreamSpec

-----------------------------------------------------------------------------
(* What the invariant says of subscribers and of the log.                   *)

\* rising by pairs, and from one to the next
LEMMA RisingIncreases ==
    ASSUME NEW s \in Seq(Nat), Rising(s)
    PROVE  Increasing(s)
<1>1. Len(s) \in Nat
  BY LenProperties
<1>2. \A i \in 1 .. Len(s) - 1 : i \in 1 .. Len(s) /\ i + 1 \in 1 .. Len(s) /\ i < i + 1
  BY <1>1
<1> QED
  BY <1>2 DEF Rising, Increasing

\* the values of the blocks from one position to another
LEMMA ValuesFrom ==
    ASSUME NEW l \in Seq(Block), NEW a \in Nat, NEW b \in Nat, a > 0, b <= Len(l)
    PROVE  ValuesOf(SubSeq(l, a, b)) = Carried(l, a, b)
<1> DEFINE s == SubSeq(l, a, b)
           n == IF a <= b THEN b - a + 1 ELSE 0
<1>1. s \in Seq(Block) /\ Len(s) = n /\ n \in Nat /\ \A i \in 1 .. n : s[i] = l[a + i - 1]
  <2>1. Len(l) \in Nat
    BY LenProperties
  <2>2. CASE a <= b
    <3>1. s \in Seq(Block) /\ Len(s) = b - a + 1 /\ \A i \in 1 .. b - a + 1 : s[i] = l[a + i - 1]
      <4>1. a \in 1 .. Len(l) + 1 /\ b \in a - 1 .. Len(l)
        BY <2>1, <2>2
      <4> QED
        BY <4>1, SubSeqProperties
    <3> QED
      BY <2>2, <3>1
  <2>3. CASE ~(a <= b)
    <3>1. s = <<>>
      BY <2>3, SubSeqEmpty
    <3> QED
      BY <2>3, <3>1
  <2> QED
    BY <2>2, <2>3
<1> HIDE DEF s
<1>2. ValuesOf(s) = Carried(s, 1, n)
  BY <1>1, ValuesAre
<1>3. \A v : v \in Carried(s, 1, n) <=> v \in Carried(l, a, b)
  <2> TAKE v
  <2>1. ASSUME v \in Carried(s, 1, n) PROVE v \in Carried(l, a, b)
    <3>1. PICK i \in 1 .. n : v \in Carries(s[i])
      BY <2>1, CarriedIs
    <3>2. a + i - 1 \in a .. b /\ s[i] = l[a + i - 1]
      BY <1>1
    <3> QED
      BY <3>1, <3>2, CarriedIs
  <2>2. ASSUME v \in Carried(l, a, b) PROVE v \in Carried(s, 1, n)
    <3>1. PICK j \in a .. b : v \in Carries(l[j])
      BY <2>2, CarriedIs
    <3> DEFINE i == j - a + 1
    <3>2. i \in 1 .. n /\ a + i - 1 = j
      OBVIOUS
    <3>3. s[i] = l[j]
      BY <1>1, <3>2
    <3> QED
      BY <3>1, <3>2, <3>3, CarriedIs
  <2> QED
    BY <2>1, <2>2
<1> QED
  BY <1>2, <1>3 DEF s

\* the list, as a reader divides it
LEMMA PassedOrComing ==
    ASSUME NEW l, Len(l) \in Nat, NEW n \in 0 .. Len(l), NEW cur, NEW ins
    PROVE  Coming(l, 0, cur, ins) = Carried(l, 1, n) \cup Coming(l, n, cur, ins)
<1>1. \A v : v \in Carried(l, 1, Len(l)) <=> v \in Carried(l, 1, n) \/ v \in Carried(l, n + 1, Len(l))
  <2> TAKE v
  <2>1. \A i : i \in 1 .. Len(l) <=> i \in 1 .. n \/ i \in n + 1 .. Len(l)
    OBVIOUS
  <2> QED
    BY <2>1, CarriedIs
<1>2. Carried(l, 0 + 1, Len(l)) = Carried(l, 1, Len(l))
  OBVIOUS
<1> QED
  BY <1>1, <1>2 DEF Coming

\* of one subscriber
LEMMA OneDecodes ==
    ASSUME StreamFlows, NothingLost, NEW c \in Cids
    PROVE  LET rd == reader[c]
               coming == ValuesOf(SubSeq(outputs, rd.pos + 1, Len(outputs))) \cup Current
                         \cup Range(inputs)
               first == IF rd.ishead /\ rd.since = 0 THEN 1
                        ELSE IF rd.got = <<>> THEN Len(pubs) + 1 ELSE Head(rd.got)
           IN  /\ Increasing(rd.got)
               /\ \A v \in Range(rd.got) : ~Wrong(v) /\ Wants(rd, v)
               /\ \A v \in (first .. Len(pubs)) \ dropped :
                     Wants(rd, v) => v \in Range(rd.got) \cup coming
<1> DEFINE rd == reader[c]
           got == rd.got
           first == IF rd.ishead /\ rd.since = 0 THEN 1 ELSE IF got = <<>> THEN Len(pubs) + 1 ELSE Head(got)
           up == Carried(outputs, 1, rd.pos)
           come == Coming(outputs, rd.pos, zip.cur, inputs)
<1>1. PICK ms : Sound(pubs, outputs, zip, inputs, reader, wlog, log.parts, ms)
  BY DEF StreamFlows, Flows
<1>2. ReaderSound(pubs, outputs, zip.cur, inputs, ms, rd)
  BY <1>1 DEF Sound
<1>3. /\ pubs \in Seq(Names) /\ Len(pubs) \in Nat /\ outputs \in Seq(Block) /\ Len(outputs) \in Nat
      /\ zip.cur \in Seq(Block)
  BY StreamFacts, LenProperties
<1> HIDE DEF rd
<1>4. /\ rd \in Readers /\ rd.pos \in 0 .. Len(outputs) /\ got \in Seq(Nat) /\ Gets(pubs, up, come, rd)
  BY <1>2, <1>3 DEF ReaderSound, Readers
<1>5. \A v \in Nat : ~Wrong(v) /\ (Wants(rd, v) <=> Asks(pubs, rd, v))
  <2> TAKE v \in Nat
  <2>1. ~Wrong(v) /\ KeyOf(v) = pubs[v]
    BY DEF KeyOf, Wrong
  <2> QED
    BY <2>1 DEF Wants, Asks
<1>6. \A v : v \in Range(got) <=> \E i \in 1 .. Len(got) : v = got[i]
  BY <1>4, LenProperties DEF Range
<1>7. Increasing(got)
  BY <1>4, RisingIncreases DEF Gets
<1>8. \A v \in Range(got) : ~Wrong(v) /\ Wants(rd, v)
  <2> TAKE v \in Range(got)
  <2>1. v \in 1 .. Len(pubs) /\ Asks(pubs, rd, v)
    BY <1>4, <1>6 DEF Gets
  <2> QED
    BY <1>3, <1>5, <2>1
<1>9. ValuesOf(SubSeq(outputs, rd.pos + 1, Len(outputs))) \cup Current \cup Range(inputs) = come
  <2>1. ValuesOf(SubSeq(outputs, rd.pos + 1, Len(outputs))) = Carried(outputs, rd.pos + 1, Len(outputs))
    <3> DEFINE a == rd.pos + 1
    <3>1. a \in Nat /\ a > 0
      BY <1>3, <1>4
    <3> HIDE DEF a
    <3>2. ValuesOf(SubSeq(outputs, a, Len(outputs))) = Carried(outputs, a, Len(outputs))
      BY <1>3, <3>1, ValuesFrom
    <3> QED
      BY <3>2 DEF a
  <2>2. Current = Carried(zip.cur, 1, Len(zip.cur))
    BY <1>3, ValuesAre DEF Current
  <2> QED
    BY <2>1, <2>2 DEF Coming
<1>10. ASSUME NEW v \in (first .. Len(pubs)) \ dropped, Wants(rd, v), v \notin come PROVE v \in Range(got)
  <2>1. /\ v \in 1 .. Len(pubs)
        /\ (rd.ishead /\ rd.since = 0) \/ (got # <<>> /\ got[1] <= v)
    <3>1. CASE rd.ishead /\ rd.since = 0
      BY <1>3, <3>1
    <3>2. CASE ~(rd.ishead /\ rd.since = 0) /\ got = <<>>
      <4>1. v \in Len(pubs) + 1 .. Len(pubs)
        BY <3>2
      <4> QED
        BY <1>3, <4>1
    <3>3. CASE ~(rd.ishead /\ rd.since = 0) /\ got # <<>>
      <4>1. Head(got) = got[1] /\ 1 \in 1 .. Len(got)
        <5>1. Len(got) \in Nat /\ Len(got) # 0
          BY <1>4, <3>3, LenProperties, EmptySeq
        <5> QED
          BY <5>1
      <4>2. got[1] \in 1 .. Len(pubs)
        BY <1>4, <4>1 DEF Gets
      <4>3. v \in got[1] .. Len(pubs)
        BY <3>3, <4>1
      <4> QED
        BY <1>3, <3>3, <4>2, <4>3
    <3> QED
      BY <3>1, <3>2, <3>3
  <2>2. v \in up
    <3>1. v \in Coming(outputs, 0, zip.cur, inputs)
      BY <1>10, <2>1 DEF NothingLost
    <3>2. Coming(outputs, 0, zip.cur, inputs) = up \cup come
      BY <1>3, <1>4, PassedOrComing
    <3> QED
      BY <1>10, <3>1, <3>2
  <2>3. Asks(pubs, rd, v)
    BY <1>3, <1>5, <1>10, <2>1
  <2>4. \E i \in 1 .. Len(got) : got[i] = v
    <3> HIDE DEF up, come, first
    <3> QED
      BY <1>4, <2>1, <2>2, <2>3 DEF Gets
  <2> QED
    BY <1>6, <2>4
<1>11. \A v \in (first .. Len(pubs)) \ dropped : Wants(rd, v) => v \in Range(got) \cup come
  BY <1>10
<1>12. \A v \in (first .. Len(pubs)) \ dropped :
          Wants(rd, v) => v \in Range(got) \cup (ValuesOf(SubSeq(outputs, rd.pos + 1, Len(outputs)))
                                                 \cup Current \cup Range(inputs))
  <2> HIDE DEF come, first
  <2> QED
    BY <1>9, <1>11
<1> QED
  BY <1>7, <1>8, <1>12 DEF rd

(* A subscriber has got what was published, each record once, in order and  *)
(* decoded right, and from its first one it lacks none but those that are   *)
(* on their way or known to be lost: for any keys, any number of            *)
(* connections and publications and any sizes of blocks, whatever is        *)
(* cleared, stopped, started again or killed in between.                    *)
THEOREM SubscribersServed == StreamSpec => []SubscribersDecode
<1>1. StreamInv => SubscribersDecode
  <2> SUFFICES ASSUME StreamInv, NEW c \in Cids, ~fault /\ There(reader[c]) /\ reader[c].open
               PROVE  LET rd == reader[c]
                          coming == ValuesOf(SubSeq(outputs, rd.pos + 1, Len(outputs))) \cup Current
                                    \cup Range(inputs)
                          first == IF rd.ishead /\ rd.since = 0 THEN 1
                                   ELSE IF rd.got = <<>> THEN Len(pubs) + 1 ELSE Head(rd.got)
                      IN  /\ Increasing(rd.got)
                          /\ \A v \in Range(rd.got) : ~Wrong(v) /\ Wants(rd, v)
                          /\ \A v \in (first .. Len(pubs)) \ dropped :
                                Wants(rd, v) => v \in Range(rd.got) \cup coming
    BY DEF SubscribersDecode
  <2>1. StreamFlows /\ NothingLost
    BY DEF StreamInv, StreamFlows
  <2> QED
    BY <2>1, OneDecodes
<1> QED
  BY <1>1, StreamSound, PTL

\* what is read from the parts of the log
LEMMA ReadBack ==
    ASSUME StreamFlows
    PROVE  /\ log.parts \in Seq(Seq(Block) \ {<<>>}) /\ DOMAIN log.parts = 1 .. Len(log.parts)
           /\ LogOrdered(log.parts)
           /\ \A p \in 1 .. Len(log.parts) :
                 /\ DOMAIN Unzipped(log.parts[p]) = 1 .. Len(log.parts[p])
                 /\ \A i \in 1 .. Len(log.parts[p]) :
                       LET had == Unzipped(log.parts[p])[i]
                       IN  /\ had = Vals(log.parts[p][i].recs) /\ had \in Seq(Nat)
                           /\ \A v : v \in Range(had) <=> v \in Carries(log.parts[p][i])
<1>1. PICK ms : Sound(pubs, outputs, zip, inputs, reader, wlog, log.parts, ms)
  BY DEF StreamFlows, Flows
<1> DEFINE parts == log.parts
<1>2. /\ parts \in Seq(Seq(Block) \ {<<>>}) /\ Parts(pubs, parts, wlog, ms) /\ LogOrdered(parts)
      /\ pubs \in Seq(Names)
  BY <1>1 DEF Sound, LogSound
<1>3. DOMAIN parts = 1 .. Len(parts)
  BY <1>2, LenProperties
<1> HIDE DEF parts
<1>4. ASSUME NEW p \in 1 .. Len(parts)
      PROVE  /\ DOMAIN Unzipped(parts[p]) = 1 .. Len(parts[p])
             /\ \A i \in 1 .. Len(parts[p]) :
                   LET had == Unzipped(parts[p])[i]
                   IN  /\ had = Vals(parts[p][i].recs) /\ had \in Seq(Nat)
                       /\ \A v : v \in Range(had) <=> v \in Carries(parts[p][i])
  <2> DEFINE l == parts[p]
             u == Unzipped(l)
  <2>1. PICK ls : Linked(pubs, l, ls)
    BY <1>2 DEF Parts
  <2> HIDE DEF l
  <2>2. DOMAIN u = 1 .. Len(l) /\ \A i \in 1 .. Len(l) : u[i] = Vals(l[i].recs)
    BY <1>2, <2>1, UnzippedIs
  <2> HIDE DEF u
  <2>3. ASSUME NEW i \in 1 .. Len(l)
        PROVE  u[i] \in Seq(Nat) /\ \A v : v \in Range(u[i]) <=> v \in Carries(l[i])
    <3> DEFINE b == l[i]
               m == IF b.init THEN NoMemory ELSE ls[i - 1]
    <3>1. Follows(pubs, b.recs, m, ls[i]) /\ u[i] = Vals(b.recs)
      BY <2>1, <2>2 DEF Linked
    <3> HIDE DEF b, m
    <3>2. Vals(b.recs) \in Seq(Nat)
      BY <3>1, ValsAre DEF Follows
    <3>3. \A v : v \in Carries(b) <=> v \in Range(Vals(b.recs))
      BY <3>1, FollowsCarries
    <3> QED
      BY <3>1, <3>2, <3>3 DEF b
  <2> QED
    BY <2>2, <2>3 DEF u, l
<1> QED
  BY <1>2, <1>3, <1>4 DEF parts

\* the log in terms of the invariant
LEMMA LogReads ==
    ASSUME StreamInv
    PROVE  LogDecodes
<1> SUFFICES ASSUME ~fault PROVE LogDecodes
  BY DEF LogDecodes
<1> DEFINE parts == log.parts
           had == [p \in DOMAIN parts |-> Unzipped(parts[p])]
<1>1. StreamFlows /\ HasPassed
  BY DEF StreamInv, StreamFlows
<1>2. DOMAIN had = 1 .. Len(parts) /\ \A p \in 1 .. Len(parts) : had[p] = Unzipped(parts[p])
  BY <1>1, ReadBack
<1>3. ASSUME NEW p \in 1 .. Len(parts)
      PROVE  /\ DOMAIN had[p] = 1 .. Len(parts[p])
             /\ \A i \in 1 .. Len(parts[p]) :
                   /\ had[p][i] = Vals(parts[p][i].recs) /\ had[p][i] \in Seq(Nat)
                   /\ \A v : v \in Range(had[p][i]) <=> v \in Carries(parts[p][i])
  BY <1>1, <1>2, ReadBack
<1>4. LogOrdered(parts)
  BY <1>1, ReadBack
<1>5. /\ outputs \in Seq(Block) /\ wlog.pos \in 0 .. Len(outputs)
  BY <1>1, StreamFacts
<1> HIDE DEF parts, had
<1>6. ASSUME NEW p \in DOMAIN had, NEW i \in DOMAIN had[p]
      PROVE  Increasing(had[p][i]) /\ \A v \in Range(had[p][i]) : ~Wrong(v)
  <2>1. p \in 1 .. Len(parts) /\ i \in 1 .. Len(parts[p])
    BY <1>2, <1>3
  <2> DEFINE s == had[p][i]
  <2>2. s \in Seq(Nat) /\ Rising(s)
    BY <1>3, <1>4, <2>1 DEF LogOrdered
  <2> HIDE DEF s
  <2>3. \A v \in Range(s) : v \in Nat
    BY <2>2, LenProperties, ElementOfSeq DEF Range
  <2>4. \A v \in Range(s) : ~Wrong(v)
    BY <2>3 DEF Wrong
  <2> QED
    BY <2>2, <2>4, RisingIncreases DEF s
<1>7. ASSUME NEW p \in DOMAIN had, NEW i \in DOMAIN had[p], NEW q \in DOMAIN had, NEW j \in DOMAIN had[q],
             p < q \/ (p = q /\ i < j)
      PROVE  \A v \in Range(had[p][i]), w \in Range(had[q][j]) : v < w
  <2>1. p \in 1 .. Len(parts) /\ i \in 1 .. Len(parts[p]) /\ q \in 1 .. Len(parts) /\ j \in 1 .. Len(parts[q])
    BY <1>2, <1>3
  <2>2. Before(Carries(parts[p][i]), Carries(parts[q][j]))
    BY <1>4, <1>7, <2>1 DEF LogOrdered
  <2> QED
    BY <1>3, <2>1, <2>2 DEF Before
<1>8. ASSUME inited, ~stoped, NEW v \in ValuesOf(SubSeq(outputs, 1, wlog.pos))
      PROVE  \E p \in DOMAIN had : \E i \in DOMAIN had[p] : v \in Range(had[p][i])
  <2>1. ValuesOf(SubSeq(outputs, 1, wlog.pos)) = Carried(outputs, 1, wlog.pos)
    <3> DEFINE one == 1
               n == wlog.pos
    <3>1. one \in Nat /\ one > 0 /\ n \in Nat /\ n <= Len(outputs)
      BY <1>5, LenProperties
    <3> HIDE DEF one, n
    <3>2. ValuesOf(SubSeq(outputs, one, n)) = Carried(outputs, one, n)
      BY <1>5, <3>1, ValuesFrom
    <3> QED
      BY <3>2 DEF one, n
  <2>2. v \in Logged(parts)
    BY <1>1, <1>8, <2>1 DEF HasPassed, parts
  <2>3. PICK p \in 1 .. Len(parts) : \E i \in 1 .. Len(parts[p]) : v \in Carries(parts[p][i])
    BY <2>2, LoggedIs
  <2>4. PICK i \in 1 .. Len(parts[p]) : v \in Carries(parts[p][i])
    BY <2>3
  <2>5. p \in DOMAIN had /\ i \in DOMAIN had[p] /\ v \in Range(had[p][i])
    BY <1>2, <1>3, <2>3, <2>4
  <2> QED
    BY <2>5
<1>9. /\ \A p \in DOMAIN had : \A i \in DOMAIN had[p] :
            /\ Increasing(had[p][i]) /\ \A v \in Range(had[p][i]) : ~Wrong(v)
            /\ \A q \in DOMAIN had : \A j \in DOMAIN had[q] : (p < q \/ (p = q /\ i < j)) =>
                  \A v \in Range(had[p][i]), w \in Range(had[q][j]) : v < w
      /\ (inited /\ ~stoped) => \A v \in ValuesOf(SubSeq(outputs, 1, wlog.pos)) :
            \E p \in DOMAIN had : \E i \in DOMAIN had[p] : v \in Range(had[p][i])
  BY <1>6, <1>7, <1>8
<1> QED
  BY <1>9 DEF LogDecodes, had, parts

(* The log can be read back after any crash: every part of it decodes       *)
(* without the others, no record is in it twice, and while the day is open  *)
(* it has all that its reader has passed.                                   *)
THEOREM LogIsReadBack == StreamSpec => []LogDecodes
<1> QED
  BY LogReads, StreamSound, PTL
=============================================================================
