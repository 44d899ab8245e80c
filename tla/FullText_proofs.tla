--------------------------- MODULE FullText_proofs ---------------------------
(***************************************************************************)
(* Theorems about FullText, for files of any number of units and blocks,   *)
(* bodies of any size and reads of any size.                               *)
(***************************************************************************)
EXTENDS FullText, SequenceTheorems, WellFoundedInduction, TLAPS

\* the least number of a set: what induction over the blocks of a unit rests on
LEMMA LeastNumber ==
    ASSUME NEW T, T \subseteq Nat, T # {}
    PROVE  \E x \in T : \A y \in T : x <= y
<1>1. PICK x \in T : \A y \in T : ~ (<<y, x>> \in OpToRel(<, Nat))
  BY WFMin, NatLessThanWellFounded
<1>2. ASSUME NEW y \in T PROVE x <= y
  <2>1. y < x => <<y, x>> \in OpToRel(<, Nat)
    BY DEF OpToRel
  <2>2. x \in Nat /\ y \in Nat /\ ~(y < x)
    BY <1>1, <2>1
  <2> QED
    BY <2>2
<1> QED
  BY <1>2

\* what holds of the first number of a range and passes from one to the next holds of all
LEMMA AllSteps ==
    ASSUME NEW a \in Nat, NEW b \in Nat, NEW S, a \in S,
           \A k \in a .. b : k # b /\ k \in S => k + 1 \in S
    PROVE  \A k \in a .. b : k \in S
<1> DEFINE T == {k \in a .. b : k \notin S}
<1>1. ASSUME T # {} PROVE FALSE
  <2>1. PICK n \in T : \A k \in T : n <= k
    <3>1. T \subseteq Nat
      OBVIOUS
    <3> HIDE DEF T
    <3> QED
      BY <1>1, <3>1, LeastNumber
  <2>2. n \in a .. b /\ n # a /\ n \notin S
    BY <2>1
  <2>3. n - 1 \in a .. b /\ n - 1 # b /\ ~(n <= n - 1) /\ (n - 1) + 1 = n
    BY <2>2
  <2>4. n - 1 \in S
    BY <2>1, <2>3
  <2> QED
    BY <2>2, <2>3, <2>4
<1> QED
  BY <1>1

-----------------------------------------------------------------------------
(* Where blocks are.                                                       *)

Hids == {"stream", "index", "dict", "log", "sno", "end"}
AnyBlock == [hid : Hids, body : Nat, zip : BOOLEAN]
\* a block that is not the end of a file's body has a head and a body
LEMMA BlockFacts ==
    ASSUME NEW b \in AnyBlock
    PROVE  /\ BlockSize(b) \in Nat /\ BlockSize(b) >= 1 /\ b.body \in Nat
           /\ LenSize(b.body) \in {1, 2}
           /\ b.hid # "end" => BlockSize(b) = 1 + LenSize(b.body) + b.body
           /\ b.hid = "end" => BlockSize(b) = 1
  BY TextAssumption DEF AnyBlock, BlockSize, LenSize

IsStarts(unit, m, g) ==
    g = [k \in 1 .. m |-> IF k = 1 THEN 0 ELSE g[k - 1] + BlockSize(unit[k - 1])]

LEMMA StartsExist ==
    ASSUME NEW unit, NEW m \in Nat \ {0} PROVE \E g : IsStarts(unit, m, g)
<1> DEFINE S == {n \in 1 .. m : \E g : IsStarts(unit, n, g)}
<1>1. 1 \in S
  <2> DEFINE g == [k \in 1 .. 1 |-> 0]
  <2>1. g = [k \in 1 .. 1 |-> IF k = 1 THEN 0 ELSE g[k - 1] + BlockSize(unit[k - 1])]
    OBVIOUS
  <2> HIDE DEF g
  <2>2. IsStarts(unit, 1, g)
    BY <2>1 DEF IsStarts
  <2> QED
    BY <2>2
<1>2. ASSUME NEW o \in 1 .. m, o # m, o \in S PROVE o + 1 \in S
  <2>1. PICK h : IsStarts(unit, o, h)
    BY <1>2
  <2>2. h = [k \in 1 .. o |-> IF k = 1 THEN 0 ELSE h[k - 1] + BlockSize(unit[k - 1])]
    BY <2>1 DEF IsStarts
  <2> DEFINE n == o + 1
             g == [k \in 1 .. n |-> IF k = n THEN h[o] + BlockSize(unit[o]) ELSE h[k]]
  <2>3. ASSUME NEW k \in 1 .. n
        PROVE  g[k] = IF k = 1 THEN 0 ELSE g[k - 1] + BlockSize(unit[k - 1])
    <3>1. CASE k = n
      <4>1. g[k] = h[o] + BlockSize(unit[o]) /\ k # 1
        BY <3>1
      <4>2. k - 1 \in 1 .. n /\ k - 1 # n /\ k - 1 = o
        BY <3>1
      <4>3. g[k - 1] = h[o]
        BY <4>2
      <4> HIDE DEF g
      <4> QED
        BY <4>1, <4>2, <4>3
    <3>2. CASE k # n
      <4>1. k \in 1 .. o /\ (k # 1 => k - 1 \in 1 .. o /\ k - 1 \in 1 .. n /\ k - 1 # n)
        BY <3>2
      <4>2. g[k] = h[k] /\ (k # 1 => g[k - 1] = h[k - 1])
        BY <3>2, <4>1
      <4>3. h[k] = IF k = 1 THEN 0 ELSE h[k - 1] + BlockSize(unit[k - 1])
        BY <2>2, <4>1
      <4> HIDE DEF g
      <4> QED
        BY <4>2, <4>3
    <3> QED
      BY <3>1, <3>2
  <2>4. g = [k \in 1 .. n |-> g[k]]
    OBVIOUS
  <2> HIDE DEF g
  <2>5. g = [k \in 1 .. n |-> IF k = 1 THEN 0 ELSE g[k - 1] + BlockSize(unit[k - 1])]
    BY <2>3, <2>4
  <2>6. IsStarts(unit, n, g)
    BY <2>5 DEF IsStarts
  <2>7. n \in 1 .. m
    BY <1>2
  <2> QED
    BY <2>6, <2>7
<1> HIDE DEF S
<1>3. \A n \in 1 .. m : n \in S
  BY <1>1, <1>2, AllSteps
<1> QED
  BY <1>3 DEF S

LEMMA StartIs ==
    ASSUME NEW unit \in Seq(AnyBlock)
    PROVE  /\ Start(unit, 1) = 0
           /\ \A n \in 1 .. Len(unit) : Start(unit, n + 1) = Start(unit, n) + BlockSize(unit[n])
<1> DEFINE g == CHOOSE f : f = [k \in 1 .. Len(unit) + 1 |->
                                  IF k = 1 THEN 0 ELSE f[k - 1] + BlockSize(unit[k - 1])]
<1>0. Len(unit) \in Nat
  BY LenProperties
<1>1. \E f : f = [k \in 1 .. Len(unit) + 1 |-> IF k = 1 THEN 0 ELSE f[k - 1] + BlockSize(unit[k - 1])]
  <2>1. Len(unit) + 1 \in Nat \ {0}
    BY <1>0
  <2>2. PICK h : IsStarts(unit, Len(unit) + 1, h)
    BY <2>1, StartsExist
  <2>3. h = [k \in 1 .. Len(unit) + 1 |-> IF k = 1 THEN 0 ELSE h[k - 1] + BlockSize(unit[k - 1])]
    BY <2>2, Zenon DEF IsStarts
  <2> QED
    BY <2>3, Zenon
<1>2. g = [k \in 1 .. Len(unit) + 1 |-> IF k = 1 THEN 0 ELSE g[k - 1] + BlockSize(unit[k - 1])]
  BY <1>1
<1>3. \A n : Start(unit, n) = g[n]
  BY DEF Start
<1> HIDE DEF g
<1>4. g[1] = 0
  <2>1. 1 \in 1 .. Len(unit) + 1
    BY <1>0
  <2> QED
    BY <1>2, <2>1
<1>5. ASSUME NEW n \in 1 .. Len(unit) PROVE g[n + 1] = g[n] + BlockSize(unit[n])
  <2>1. n + 1 \in 1 .. Len(unit) + 1 /\ n + 1 # 1 /\ (n + 1) - 1 = n
    BY <1>0
  <2>2. g[n + 1] = g[(n + 1) - 1] + BlockSize(unit[(n + 1) - 1])
    BY <1>2, <2>1
  <2> QED
    BY <2>1, <2>2
<1> QED
  BY <1>3, <1>4, <1>5

\* blocks do not overlap
LEMMA StartsAscend ==
    ASSUME NEW unit \in Seq(AnyBlock)
    PROVE  /\ \A n \in 1 .. Len(unit) + 1 : Start(unit, n) \in Nat
           /\ \A n \in 1 .. Len(unit), m \in 1 .. Len(unit) + 1 :
                 n < m => Start(unit, n) + BlockSize(unit[n]) <= Start(unit, m)
<1> DEFINE L == Len(unit)
           s(n) == Start(unit, n)
<1>1. L \in Nat
  BY LenProperties
<1>2. s(1) = 0 /\ \A n \in 1 .. L : s(n + 1) = s(n) + BlockSize(unit[n])
  BY StartIs
<1>3. \A n \in 1 .. L : BlockSize(unit[n]) \in Nat
  <2>1. \A n \in 1 .. L : unit[n] \in AnyBlock
    BY ElementOfSeq
  <2> QED
    BY <2>1, BlockFacts
<1> HIDE DEF s, L
<1>4. \A n \in 1 .. L + 1 : s(n) \in Nat
  <2> DEFINE S == {n \in Nat : s(n) \in Nat}
  <2>1. 1 \in S
    BY <1>2
  <2>2. ASSUME NEW k \in 1 .. L + 1, k # L + 1, k \in S PROVE k + 1 \in S
    <3>1. k \in 1 .. L
      BY <1>1, <2>2
    <3>2. BlockSize(unit[k]) \in Nat /\ s(k + 1) = s(k) + BlockSize(unit[k])
      BY <1>2, <1>3, <3>1
    <3> QED
      BY <2>2, <3>2
  <2> HIDE DEF S
  <2>3. \A n \in 1 .. L + 1 : n \in S
    BY <1>1, <2>1, <2>2, AllSteps
  <2> QED
    BY <2>3 DEF S
<1>5. ASSUME NEW n \in 1 .. L, NEW m \in 1 .. L + 1, n < m
      PROVE  s(n) + BlockSize(unit[n]) <= s(m)
  <2> DEFINE S == {k \in n + 1 .. L + 1 : s(n) + BlockSize(unit[n]) <= s(k)}
  <2>0. /\ BlockSize(unit[n]) \in Nat /\ s(n) \in Nat /\ n \in 1 .. L + 1
        /\ n + 1 \in Nat /\ n + 1 \in n + 1 .. L + 1 /\ m \in n + 1 .. L + 1
    BY <1>1, <1>3, <1>4, <1>5
  <2>1. n + 1 \in S
    <3>1. s(n + 1) = s(n) + BlockSize(unit[n])
      BY <1>2
    <3> QED
      BY <2>0, <3>1
  <2>2. ASSUME NEW k \in n + 1 .. L + 1, k # L + 1, k \in S PROVE k + 1 \in S
    <3>1. k \in 1 .. L /\ k \in 1 .. L + 1 /\ k + 1 \in n + 1 .. L + 1
      BY <1>1, <2>2
    <3>2. BlockSize(unit[k]) \in Nat /\ s(k) \in Nat /\ s(k + 1) = s(k) + BlockSize(unit[k])
      BY <1>2, <1>3, <1>4, <3>1
    <3>3. s(n) + BlockSize(unit[n]) <= s(k)
      BY <2>2
    <3>4. s(n) + BlockSize(unit[n]) <= s(k + 1)
      BY <2>0, <3>2, <3>3
    <3> QED
      BY <3>1, <3>4
  <2> HIDE DEF S
  <2>3. n + 1 \in Nat /\ L + 1 \in Nat
    BY <1>1, <2>0
  <2>4. \A k \in n + 1 .. L + 1 : k # L + 1 /\ k \in S => k + 1 \in S
    BY <2>2
  <2>5. \A k \in n + 1 .. L + 1 : k \in S
    BY <2>1, <2>3, <2>4, AllSteps, Zenon
  <2>6. m \in S
    BY <2>0, <2>5
  <2> QED
    BY <2>6 DEF S
<1> QED
  BY <1>4, <1>5, Zenon DEF s, L

-----------------------------------------------------------------------------
(* The file.                                                               *)

Styles == {"stream", "index", "log", "sno"}
FileOK ==
    /\ style \in Styles
    /\ units \in Seq(Seq(Blocks(style))) /\ units # <<>>
    /\ \A v \in 1 .. Len(units) : units[v] # <<>>
    /\ Tailed \/ Len(units) = 1

LEMMA BlockKinds ==
    ASSUME style \in Styles, NEW b \in Blocks(style)
    PROVE  /\ b \in AnyBlock /\ BlockSize(b) >= b.body
           /\ b.hid = "end" => style = "sno"
           /\ style \in {"stream", "index"} => Emptied(b.hid)
<1>1. Kinds(style) \subseteq Hids /\ "end" \in Hids
  BY DEF Kinds, Styles, Hids
<1>2. b \in AnyBlock
  <2>1. CASE b \in [hid : Kinds(style) \ {"end"}, body : Bodies, zip : BOOLEAN]
    BY <1>1, <2>1, TextAssumption DEF AnyBlock
  <2>2. CASE b = [hid |-> "end", body |-> 0, zip |-> FALSE]
    BY <1>1, <2>2 DEF AnyBlock
  <2>3. \A c \in (IF "end" \in Kinds(style) THEN {[hid |-> "end", body |-> 0, zip |-> FALSE]} ELSE {}) :
           c = [hid |-> "end", body |-> 0, zip |-> FALSE]
    OBVIOUS
  <2> QED
    BY <2>1, <2>2, <2>3, Zenon DEF Blocks
<1>3. "end" \in Kinds(style) => style = "sno"
  BY DEF Kinds, Styles
<1>4. /\ b.hid = "end" => b.body = 0 /\ style = "sno"
      /\ b.hid # "end" => b.hid \in Kinds(style)
  BY <1>3 DEF Blocks
<1>5. style \in {"stream", "index"} => Emptied(b.hid)
  BY <1>4 DEF Kinds, Emptied
<1>6. BlockSize(b) >= b.body
  BY <1>2, <1>4, BlockFacts
<1> QED
  BY <1>2, <1>4, <1>5, <1>6

LEMMA UnitTyped ==
    ASSUME FileOK, NEW v \in 1 .. Len(units)
    PROVE  /\ units[v] \in Seq(Blocks(style)) /\ units[v] \in Seq(AnyBlock)
           /\ Len(units[v]) \in Nat \ {0}
<1>1. units[v] \in Seq(Blocks(style)) /\ units[v] # <<>>
  BY ElementOfSeq DEF FileOK
<1>2. Blocks(style) \subseteq AnyBlock
  BY BlockKinds DEF FileOK
<1>3. units[v] \in Seq(AnyBlock)
  BY <1>1, <1>2
<1> QED
  BY <1>1, <1>3, EmptySeq

\* where the blocks and the tail of the current unit are
Layout ==
    LET s(n) == Start(Unit, n)
        L == Len(Unit)
    IN  /\ L \in Nat \ {0} /\ L + 1 \in 1 .. L + 1
        /\ \A n \in 1 .. L + 1 : s(n) \in Nat
        /\ s(1) = 0
        /\ \A n \in 1 .. L :
              /\ s(n + 1) = s(n) + BlockSize(Unit[n])
              /\ \A m \in 1 .. L + 1 : n < m => s(n) + BlockSize(Unit[n]) <= s(m)
              /\ Unit[n] \in Blocks(style) /\ Unit[n] \in AnyBlock
              /\ BlockSize(Unit[n]) \in Nat /\ BlockSize(Unit[n]) >= 1
              /\ BlockSize(Unit[n]) >= Unit[n].body
        /\ UnitSize(Unit) = s(L + 1) + (IF Tailed THEN MinBuffer ELSE 0)

LEMMA UnitLayout ==
    ASSUME FileOK, u \in 1 .. Len(units) PROVE Layout
<1>1. Unit \in Seq(Blocks(style)) /\ Unit \in Seq(AnyBlock) /\ Len(Unit) \in Nat \ {0}
  BY UnitTyped DEF Unit
<1>2. \A b \in Blocks(style) : b \in AnyBlock /\ BlockSize(b) >= b.body
  BY BlockKinds DEF FileOK
<1>3. Unit \in Seq(AnyBlock)
  BY <1>1
<1>4. Len(Unit) \in Nat \ {0} /\ Len(Unit) + 1 \in 1 .. Len(Unit) + 1
  BY <1>1
<1>5. \A n \in 1 .. Len(Unit) : Unit[n] \in Blocks(style)
  BY <1>1, ElementOfSeq
<1>6. \A n \in 1 .. Len(Unit) : BlockSize(Unit[n]) \in Nat /\ BlockSize(Unit[n]) >= 1
  BY <1>2, <1>5, BlockFacts
<1>7. UnitSize(Unit) = Start(Unit, Len(Unit) + 1) + (IF Tailed THEN MinBuffer ELSE 0)
  BY DEF UnitSize
<1>8. /\ \A n \in 1 .. Len(Unit) + 1 : Start(Unit, n) \in Nat
      /\ \A n \in 1 .. Len(Unit), m \in 1 .. Len(Unit) + 1 :
            n < m => Start(Unit, n) + BlockSize(Unit[n]) <= Start(Unit, m)
  BY <1>3, StartsAscend
<1>9. /\ Start(Unit, 1) = 0
      /\ \A n \in 1 .. Len(Unit) : Start(Unit, n + 1) = Start(Unit, n) + BlockSize(Unit[n])
  BY <1>3, StartIs
<1> QED
  BY <1>2, <1>4, <1>5, <1>6, <1>7, <1>8, <1>9, Zenon DEF Layout

\* before the end of a unit stand its last block and its tail
LEMMA UnitInside ==
    ASSUME Layout
    PROVE  LET L == Len(Unit) IN
           /\ L \in Nat \ {0} /\ L \in 1 .. L /\ L + 1 \in 1 .. L + 1 /\ UnitSize(Unit) \in Nat
           /\ Start(Unit, L + 1) \in Nat /\ BlockSize(Unit[L]) \in Nat
           /\ UnitSize(Unit) = Start(Unit, L + 1) + (IF Tailed THEN MinBuffer ELSE 0)
           /\ \A n \in 1 .. L + 1 : Start(Unit, n) \in Nat /\ Start(Unit, n) <= Start(Unit, L + 1)
           /\ \A n \in 1 .. L : Start(Unit, n) + BlockSize(Unit[L]) <= Start(Unit, L + 1)
<1> DEFINE L == Len(Unit)
<1>1. /\ L \in Nat \ {0} /\ L \in 1 .. L /\ L + 1 \in 1 .. L + 1
      /\ \A n \in 1 .. L + 1 : Start(Unit, n) \in Nat
      /\ UnitSize(Unit) = Start(Unit, L + 1) + (IF Tailed THEN MinBuffer ELSE 0)
  BY DEF Layout
<1>2. UnitSize(Unit) \in Nat
  BY <1>1, TextAssumption
<1>3. BlockSize(Unit[L]) \in Nat /\ Start(Unit, L + 1) = Start(Unit, L) + BlockSize(Unit[L])
  BY <1>1 DEF Layout
<1>4. ASSUME NEW n \in 1 .. L, NEW m \in 1 .. L + 1, n < m PROVE Start(Unit, n) <= Start(Unit, m)
  <2>1. n \in 1 .. L + 1
    BY <1>1
  <2>2. /\ Start(Unit, n) \in Nat /\ Start(Unit, m) \in Nat /\ BlockSize(Unit[n]) \in Nat
        /\ Start(Unit, n) + BlockSize(Unit[n]) <= Start(Unit, m)
    BY <1>1, <1>4, <2>1 DEF Layout
  <2> QED
    BY <2>2
<1> HIDE DEF L
<1>5. ASSUME NEW n \in 1 .. L + 1 PROVE Start(Unit, n) <= Start(Unit, L + 1)
  <2>1. CASE n = L + 1
    BY <1>1, <2>1
  <2>2. CASE n # L + 1
    <3>1. n \in 1 .. L /\ n < L + 1
      BY <1>1, <2>2
    <3> QED
      BY <1>1, <1>4, <3>1
  <2> QED
    BY <2>1, <2>2
<1>6. ASSUME NEW n \in 1 .. L
      PROVE  Start(Unit, n) + BlockSize(Unit[L]) <= Start(Unit, L + 1)
  <2>1. Start(Unit, n) <= Start(Unit, L)
    <3>1. CASE n = L
      BY <1>1, <3>1
    <3>2. CASE n # L
      <4>1. n < L /\ L \in 1 .. L + 1
        BY <1>1, <3>2
      <4> QED
        BY <1>4, <4>1
    <3> QED
      BY <3>1, <3>2
  <2>2. n \in 1 .. L + 1 /\ L \in 1 .. L + 1
    BY <1>1
  <2>3. Start(Unit, n) \in Nat /\ Start(Unit, L) \in Nat
    BY <1>1, <2>2
  <2> QED
    BY <1>3, <2>1, <2>3
<1> QED
  BY <1>1, <1>2, <1>3, <1>5, <1>6, Zenon DEF L

\* a place where a block starts belongs to one block
LEMMA OneStart ==
    ASSUME Layout, NEW n \in 1 .. Len(Unit) + 1, NEW m \in 1 .. Len(Unit) + 1,
           Start(Unit, n) = Start(Unit, m)
    PROVE  n = m
<1>1. ASSUME NEW i \in 1 .. Len(Unit) + 1, NEW j \in 1 .. Len(Unit) + 1, i < j
      PROVE  Start(Unit, i) # Start(Unit, j)
  <2>1. i \in 1 .. Len(Unit) /\ Len(Unit) \in Nat
    BY <1>1 DEF Layout
  <2>2. /\ Start(Unit, i) \in Nat /\ Start(Unit, j) \in Nat
        /\ BlockSize(Unit[i]) \in Nat /\ BlockSize(Unit[i]) >= 1
        /\ Start(Unit, i) + BlockSize(Unit[i]) <= Start(Unit, j)
    BY <1>1, <2>1, Zenon DEF Layout
  <2> QED
    BY <2>2
<1>2. n \in Int /\ m \in Int
  BY DEF Layout
<1> QED
  BY <1>1, <1>2

LEMMA FunctionIsSeq ==
    ASSUME NEW S, NEW n \in Nat, NEW l \in [1 .. n -> S] PROVE l \in Seq(S) /\ Len(l) = n
  BY SMT

LEMMA InitFileOK == ASSUME TextInit PROVE FileOK
<1>0. PICK cut \in Cuts : \E blocks \in [1 .. Last(cut) -> Blocks(style)] :
          /\ Tailed \/ Len(cut) = 1
          /\ units = [v \in 1 .. Len(cut) |->
                        SubSeq(blocks, (IF v = 1 THEN 0 ELSE cut[v - 1]) + 1, cut[v])]
  BY DEF TextInit
<1>1. PICK blocks \in [1 .. Last(cut) -> Blocks(style)] :
          /\ Tailed \/ Len(cut) = 1
          /\ units = [v \in 1 .. Len(cut) |->
                        SubSeq(blocks, (IF v = 1 THEN 0 ELSE cut[v - 1]) + 1, cut[v])]
  BY <1>0
<1> DEFINE lo(v) == IF v = 1 THEN 0 ELSE cut[v - 1]
<1>2. /\ cut \in Seq(Nat) /\ cut # <<>> /\ cut[1] > 0
      /\ \A v \in 1 .. Len(cut) - 1 : cut[v] < cut[v + 1]
  BY TextAssumption
<1>3. Len(cut) \in Nat \ {0} /\ \A v \in 1 .. Len(cut) : cut[v] \in Nat
  BY <1>2, EmptySeq, LenProperties, ElementOfSeq
<1>4. ASSUME NEW v \in 1 .. Len(cut) PROVE cut[v] <= Last(cut)
  <2> DEFINE S == {k \in 1 .. Len(cut) : cut[v] <= cut[k]}
  <2>1. v \in S /\ v \in Nat
    BY <1>3
  <2>2. ASSUME NEW k \in v .. Len(cut), k # Len(cut), k \in S PROVE k + 1 \in S
    <3>1. k \in 1 .. Len(cut) - 1 /\ k + 1 \in 1 .. Len(cut) /\ k \in 1 .. Len(cut)
      BY <1>3, <2>2
    <3>2. cut[k] < cut[k + 1] /\ cut[k] \in Nat /\ cut[k + 1] \in Nat /\ cut[v] \in Nat
      BY <1>2, <1>3, <3>1
    <3> QED
      BY <2>2, <3>1, <3>2
  <2> HIDE DEF S
  <2>3. \A k \in v .. Len(cut) : k \in S
    BY <1>3, <2>1, <2>2, AllSteps
  <2>4. Len(cut) \in S
    BY <1>3, <2>3
  <2> QED
    BY <2>4 DEF S, Last
<1>5. Last(cut) \in Nat
  BY <1>3 DEF Last
<1>6. blocks \in Seq(Blocks(style)) /\ Len(blocks) = Last(cut)
  BY <1>5, FunctionIsSeq
<1>7. ASSUME NEW v \in 1 .. Len(cut)
      PROVE  /\ SubSeq(blocks, lo(v) + 1, cut[v]) \in Seq(Blocks(style))
             /\ SubSeq(blocks, lo(v) + 1, cut[v]) # <<>>
  <2>1. lo(v) \in Nat /\ cut[v] \in Nat /\ lo(v) < cut[v]
    <3>1. CASE v = 1
      BY <1>2, <1>3, <3>1
    <3>2. CASE v # 1
      <4>1. v - 1 \in 1 .. Len(cut) - 1 /\ v - 1 \in 1 .. Len(cut) /\ (v - 1) + 1 = v
        BY <1>3, <3>2
      <4>2. cut[v - 1] < cut[(v - 1) + 1]
        BY <1>2, <4>1
      <4> QED
        BY <1>3, <3>2, <4>1, <4>2
    <3> QED
      BY <3>1, <3>2
  <2> HIDE DEF lo
  <2>2. lo(v) + 1 \in 1 .. Len(blocks) + 1 /\ cut[v] \in (lo(v) + 1) - 1 .. Len(blocks)
        /\ cut[v] - (lo(v) + 1) + 1 # 0
    BY <1>4, <1>5, <1>6, <2>1
  <2>3. \A i \in lo(v) + 1 .. cut[v] : blocks[i] \in Blocks(style)
    <3>1. \A i \in lo(v) + 1 .. cut[v] : i \in 1 .. Len(blocks)
      BY <1>4, <1>5, <1>6, <2>1
    <3> QED
      BY <1>6, <3>1, ElementOfSeq
  <2>4. /\ SubSeq(blocks, lo(v) + 1, cut[v]) \in Seq(Blocks(style))
        /\ Len(SubSeq(blocks, lo(v) + 1, cut[v])) = cut[v] - (lo(v) + 1) + 1
    BY <1>6, <2>1, <2>2, <2>3, SubSeqProperties
  <2>5. Len(<< >>) = 0
    OBVIOUS
  <2> QED
    BY <2>2, <2>4, <2>5
<1>8. units = [v \in 1 .. Len(cut) |-> SubSeq(blocks, lo(v) + 1, cut[v])]
  BY <1>1
<1> HIDE DEF lo
<1>9. units \in [1 .. Len(cut) -> Seq(Blocks(style))]
  BY <1>7, <1>8
<1>10. units \in Seq(Seq(Blocks(style))) /\ Len(units) = Len(cut)
  BY <1>3, <1>9, FunctionIsSeq
<1>11. units # <<>> /\ \A v \in 1 .. Len(units) : units[v] # <<>>
  <2>1. Len(<< >>) = 0 /\ Len(units) # 0
    BY <1>3, <1>10
  <2> QED
    BY <1>7, <1>8, <1>10, <2>1
<1>12. style \in Styles
  BY DEF TextInit, Styles
<1> QED
  BY <1>1, <1>10, <1>11, <1>12 DEF FileOK

-----------------------------------------------------------------------------
(***************************************************************************)
(* The reader knows bytes, the property speaks of blocks.  What ties them: *)
(* between two steps the reader stands where a block starts, or at the     *)
(* body of a block that is longer than what was read of it, and the last   *)
(* block that a callback was given is the one before.  It only leaves a    *)
(* unit at its end: what is left to parse there is less than MinBuffer,    *)
(* less than a tail and less than the last block of a unit without one.    *)
(***************************************************************************)
InBuffer ==
    /\ pos <= got /\ got <= UnitSize(Unit)
    /\ fileend => got = UnitSize(Unit)

\* the last block that was given is the n-th of unit v; the 0-th is the one before the first
GivenTo(v, n) ==
    IF n = 0 /\ v = 1 THEN given = <<>>
    ELSE given # <<>> /\ Last(Last(given)) = IF n = 0 THEN <<v - 1, Len(units[v - 1])>> ELSE <<v, n>>

OnHead(n) == n \in 1 .. Len(Unit) + 1 /\ size = 0 /\ pos = Start(Unit, n) /\ GivenTo(u, n - 1)
OnBody(n) ==
    /\ n \in 1 .. Len(Unit) /\ here = n /\ size = Unit[n].body /\ size > 0
    /\ pos + size = Start(Unit, n + 1) /\ GivenTo(u, n - 1)
Standing == at \in {"read", "parse"} =>
    \/ \E n \in 1 .. Len(Unit) + 1 : OnHead(n)
    \/ \E n \in 1 .. Len(Unit) : OnBody(n) /\ (at = "parse" => got - pos >= size)

Readable == Tailed \/ Last(Unit).body >= MinBuffer
Leaving ==
    /\ at \in {"next", "done"} /\ Readable => GivenTo(u, Len(Unit))
    /\ at = "done" => u = Len(units)

InOrder(g) ==
    \A i \in 1 .. Len(g) :
        /\ Last(g[i]) \in BlockIds
        /\ Last(g[i]) = IF i = 1 THEN <<1, 1>> ELSE Following(Last(g[i - 1]))
        /\ style \in {"stream", "index"} => Len(g[i]) = 1
Given == InOrder(given) /\ (style \in {"stream", "index"} => omem = <<>>)

TextInv == FileOK /\ TextTypeOK /\ InBuffer /\ Standing /\ Leaving /\ Given

LEMMA InitTextInv == TextInit => TextInv
<1> SUFFICES ASSUME TextInit PROVE TextInv
  OBVIOUS
<1>1. FileOK
  BY InitFileOK
<1>2. /\ u = 1 /\ got = 0 /\ pos = 0 /\ size = 0 /\ fileend = FALSE /\ at = "read"
      /\ omem = << >> /\ given = << >>
  BY DEF TextInit
<1>3. 1 \in 1 .. Len(units)
  BY <1>1, EmptySeq DEF FileOK
<1>4. Layout
  BY <1>1, <1>2, <1>3, UnitLayout
<1>5. TextTypeOK
  <2>1. << >> \in Seq(Nat \X Nat) /\ << >> \in Seq(Seq(Nat \X Nat) \ {<< >>})
    BY EmptySeq
  <2> QED
    BY <1>2, <1>3, <2>1 DEF TextTypeOK
<1>6. InBuffer
  BY <1>2, <1>4, UnitInside DEF InBuffer
<1>7. Standing
  <2>1. 1 \in 1 .. Len(Unit) + 1 /\ Start(Unit, 1) = 0
    BY <1>4 DEF Layout
  <2>2. OnHead(1)
    BY <1>2, <2>1 DEF OnHead, GivenTo
  <2> QED
    BY <2>1, <2>2 DEF Standing
<1>8. Leaving /\ Given
  BY <1>2 DEF Leaving, Given, InOrder
<1> QED
  BY <1>1, <1>5, <1>6, <1>7, <1>8 DEF TextInv

\* what a step that stays in the unit and calls nobody leaves as it was
LEMMA SameUnit ==
    ASSUME UNCHANGED <<style, units, u>>
    PROVE  /\ Unit' = Unit /\ UnitSize(Unit)' = UnitSize(Unit) /\ Len(Unit)' = Len(Unit)
           /\ \A n : Start(Unit, n)' = Start(Unit, n)
           /\ Readable' <=> Readable
           /\ FileOK' <=> FileOK
<1>1. Unit' = Unit
  BY DEF Unit
<1>2. Tailed' <=> Tailed
  BY DEF Tailed
<1> QED
  BY <1>1, <1>2 DEF UnitSize, Readable, FileOK

LEMMA SameGiven ==
    ASSUME UNCHANGED <<style, units, omem, given>>
    PROVE  /\ \A v, n : GivenTo(v, n)' <=> GivenTo(v, n)
           /\ Given' <=> Given
<1>1. BlockIds' = BlockIds
  BY DEF BlockIds
<1>2. \A id : Following(id)' = Following(id)
  BY DEF Following
<1>3. InOrder(given)' <=> InOrder(given)
  BY <1>1, <1>2 DEF InOrder
<1> QED
  BY <1>3 DEF GivenTo, Given

LEMMA ReadKeeps == ASSUME TextInv, Read PROVE TextInv'
<1>1. /\ at = "read" /\ got' = Filled /\ fileend' = (got' = got)
      /\ at' = IF got' - pos >= size THEN "parse" ELSE IF fileend' THEN "next" ELSE "read"
      /\ UNCHANGED <<style, units, u, pos, size, here, omem, given>>
  BY DEF Read
<1>2. FileOK /\ TextTypeOK /\ InBuffer /\ Standing /\ Given
  BY DEF TextInv
<1>3. Layout
  BY <1>2, UnitLayout DEF TextTypeOK
<1>4. UnitSize(Unit) \in Nat
  BY <1>3, UnitInside
<1>5. /\ got' \in Nat /\ got <= got' /\ got' <= UnitSize(Unit) /\ pos <= got'
      /\ fileend' => got' = UnitSize(Unit)
  BY <1>1, <1>2, <1>4, TextAssumption DEF TextTypeOK, InBuffer, Filled, Least
<1>6. /\ UnitSize(Unit)' = UnitSize(Unit) /\ Len(Unit)' = Len(Unit) /\ Unit' = Unit
      /\ \A n : Start(Unit, n)' = Start(Unit, n)
      /\ FileOK'
  BY <1>1, <1>2, SameUnit
<1>7. Given' /\ \A v, n : GivenTo(v, n)' <=> GivenTo(v, n)
  BY <1>1, <1>2, SameGiven
<1>8. \A n : OnHead(n)' <=> OnHead(n)
  BY <1>1, <1>6, <1>7 DEF OnHead
<1>9. \A n : OnBody(n)' <=> OnBody(n)
  BY <1>1, <1>6, <1>7 DEF OnBody
<1>10. (\E n \in 1 .. Len(Unit) + 1 : OnHead(n)) \/ \E n \in 1 .. Len(Unit) : OnBody(n)
  BY <1>1, <1>2 DEF Standing
<1>11. at' = "parse" => got' - pos >= size
  BY <1>1
<1>12. Standing'
  BY <1>1, <1>6, <1>8, <1>9, <1>10, <1>11 DEF Standing
<1>13. at' # "next"
  <2>1. SUFFICES ASSUME fileend' PROVE got' - pos >= size
    BY <1>1
  <2>2. CASE \E n \in 1 .. Len(Unit) + 1 : OnHead(n)
    BY <1>2, <1>5, <2>2 DEF OnHead, TextTypeOK
  <2>3. CASE \E n \in 1 .. Len(Unit) : OnBody(n)
    <3>1. PICK n \in 1 .. Len(Unit) : OnBody(n)
      BY <2>3
    <3>2. n + 1 \in 1 .. Len(Unit) + 1
      BY <1>3 DEF Layout
    <3>3. /\ Start(Unit, n + 1) \in Nat /\ Start(Unit, n + 1) <= Start(Unit, Len(Unit) + 1)
          /\ UnitSize(Unit) = Start(Unit, Len(Unit) + 1) + (IF Tailed THEN MinBuffer ELSE 0)
          /\ Start(Unit, Len(Unit) + 1) \in Nat
      BY <1>3, <3>2, UnitInside
    <3>4. UnitSize(Unit) >= Start(Unit, n + 1)
      BY <3>3, TextAssumption
    <3>5. pos + size = Start(Unit, n + 1)
      BY <3>1 DEF OnBody
    <3> QED
      BY <1>2, <1>4, <1>5, <2>1, <3>3, <3>4, <3>5 DEF TextTypeOK
  <2> QED
    BY <1>10, <2>2, <2>3
<1>14. at' \in {"read", "parse"}
  BY <1>1, <1>13
<1>15. TextTypeOK'
  BY <1>1, <1>2, <1>5, <1>14 DEF TextTypeOK
<1>16. InBuffer'
  BY <1>1, <1>5, <1>6 DEF InBuffer
<1>17. Leaving'
  BY <1>14 DEF Leaving
<1> QED
  BY <1>6, <1>7, <1>12, <1>15, <1>16, <1>17 DEF TextInv

LEMMA ParseEndKeeps == ASSUME TextInv, ParseEnd PROVE TextInv'
<1>1. /\ at = "parse" /\ got - pos < MinBuffer
      /\ at' = IF fileend THEN "next" ELSE "read"
      /\ UNCHANGED <<style, units, u, got, pos, size, here, fileend, omem, given>>
  BY DEF ParseEnd, Buffered
<1>2. FileOK /\ TextTypeOK /\ InBuffer /\ Standing /\ Given
  BY DEF TextInv
<1>3. Layout
  BY <1>2, UnitLayout DEF TextTypeOK
<1>4. /\ UnitSize(Unit)' = UnitSize(Unit) /\ Len(Unit)' = Len(Unit) /\ Unit' = Unit
      /\ \A n : Start(Unit, n)' = Start(Unit, n)
      /\ Readable' <=> Readable
      /\ FileOK'
  BY <1>1, <1>2, SameUnit
<1>5. Given' /\ \A v, n : GivenTo(v, n)' <=> GivenTo(v, n)
  BY <1>1, <1>2, SameGiven
<1>6. TextTypeOK' /\ InBuffer'
  BY <1>1, <1>2, <1>4 DEF TextTypeOK, InBuffer
<1>7. \A n : (OnHead(n)' <=> OnHead(n)) /\ (OnBody(n)' <=> OnBody(n))
  BY <1>1, <1>4, <1>5 DEF OnHead, OnBody
<1>8. (\E n \in 1 .. Len(Unit) + 1 : OnHead(n)) \/ \E n \in 1 .. Len(Unit) : OnBody(n)
  BY <1>1, <1>2 DEF Standing
<1>9. Standing'
  BY <1>1, <1>4, <1>7, <1>8 DEF Standing
<1>10. ASSUME fileend, Readable PROVE GivenTo(u, Len(Unit))
  <2> DEFINE L == Len(Unit)
  <2>1. got = UnitSize(Unit) /\ pos \in Nat /\ size \in Nat /\ MinBuffer \in Nat
    BY <1>2, <1>10, TextAssumption DEF InBuffer, TextTypeOK
  <2>2. /\ L \in Nat \ {0} /\ L \in 1 .. L /\ Start(Unit, L + 1) \in Nat
        /\ UnitSize(Unit) = Start(Unit, L + 1) + (IF Tailed THEN MinBuffer ELSE 0)
        /\ \A n \in 1 .. L + 1 : Start(Unit, n) \in Nat /\ Start(Unit, n) <= Start(Unit, L + 1)
        /\ \A n \in 1 .. L : Start(Unit, n) + BlockSize(Unit[L]) <= Start(Unit, L + 1)
    BY <1>3, UnitInside
  <2>3. /\ BlockSize(Unit[L]) \in Nat /\ BlockSize(Unit[L]) >= Unit[L].body
        /\ Unit[L].body \in Nat
    BY <1>3, <2>2 DEF Layout, AnyBlock
  <2>4. ~Tailed => Unit[L].body >= MinBuffer
    BY <1>10 DEF Readable, Last
  <2> HIDE DEF L
  <2>5. ASSUME NEW n \in 1 .. L + 1, OnHead(n) PROVE n = L + 1
    <3>1. SUFFICES ASSUME n \in 1 .. L PROVE FALSE
      BY <2>2, <2>5
    <3>2. pos = Start(Unit, n)
      BY <2>5 DEF OnHead
    <3>3. /\ Start(Unit, n) \in Nat /\ Start(Unit, n) <= Start(Unit, L + 1)
          /\ Start(Unit, n) + BlockSize(Unit[L]) <= Start(Unit, L + 1)
      BY <2>2, <2>5, <3>1
    <3>4. CASE Tailed
      BY <1>1, <2>1, <2>2, <3>2, <3>3, <3>4
    <3>5. CASE ~Tailed
      BY <1>1, <2>1, <2>2, <2>3, <2>4, <3>2, <3>3, <3>5
    <3> QED
      BY <3>4, <3>5
  <2>6. ASSUME NEW n \in 1 .. L, OnBody(n) PROVE FALSE
    <3>1. pos + size = Start(Unit, n + 1) /\ size = Unit[n].body
      BY <2>6 DEF OnBody
    <3>2. n + 1 \in 1 .. L + 1
      BY <2>2
    <3>3. Start(Unit, n + 1) \in Nat /\ Start(Unit, n + 1) <= Start(Unit, L + 1)
      BY <2>2, <3>2
    <3>4. CASE Tailed
      BY <1>1, <2>1, <2>2, <3>1, <3>3, <3>4
    <3>5. CASE ~Tailed /\ n = L
      BY <1>1, <2>1, <2>2, <2>3, <2>4, <3>1, <3>3, <3>5
    <3>6. CASE ~Tailed /\ n # L
      <4>1. n + 1 \in 1 .. L
        BY <2>2, <3>6
      <4>2. Start(Unit, n + 1) + BlockSize(Unit[L]) <= Start(Unit, L + 1)
        BY <2>2, <4>1
      <4> QED
        BY <1>1, <2>1, <2>2, <2>3, <2>4, <3>1, <3>3, <3>6, <4>2
    <3> QED
      BY <3>4, <3>5, <3>6
  <2>7. OnHead(L + 1)
    BY <1>8, <2>5, <2>6 DEF L
  <2>8. GivenTo(u, (L + 1) - 1) /\ (L + 1) - 1 = L
    BY <2>2, <2>7 DEF OnHead
  <2> QED
    BY <2>8 DEF L
<1>11. Leaving'
  BY <1>1, <1>4, <1>5, <1>10 DEF Leaving
<1> QED
  BY <1>4, <1>5, <1>6, <1>9, <1>11 DEF TextInv

LEMMA NextUnitKeeps == ASSUME TextInv, NextUnit PROVE TextInv'
<1>1. at = "next" /\ UNCHANGED <<style, units, here, omem, given>>
  BY DEF NextUnit
<1>2. FileOK /\ TextTypeOK /\ InBuffer /\ Leaving /\ Given
  BY DEF TextInv
<1>3. FileOK'
  BY <1>1, <1>2 DEF FileOK, Tailed
<1>4. Given' /\ \A v, n : GivenTo(v, n)' <=> GivenTo(v, n)
  BY <1>1, <1>2, SameGiven
<1>5. u \in 1 .. Len(units) /\ Len(units) \in Nat
  BY <1>2 DEF TextTypeOK
<1>6. CASE u < Len(units)
  <2>1. u' = u + 1 /\ got' = 0 /\ pos' = 0 /\ size' = 0 /\ fileend' = FALSE /\ at' = "read"
    BY <1>6 DEF NextUnit
  <2>2. u + 1 \in 1 .. Len(units) /\ u + 1 # 1
    BY <1>5, <1>6
  <2>3. Unit' = units[u + 1]
    BY <1>1, <2>1 DEF Unit
  <2>4. /\ Unit' \in Seq(AnyBlock) /\ Len(Unit') \in Nat \ {0}
        /\ 1 \in 1 .. Len(Unit') + 1 /\ Len(Unit') + 1 \in 1 .. Len(Unit') + 1
    BY <1>2, <2>2, <2>3, UnitTyped
  <2>5. Start(Unit', 1) = 0 /\ Start(Unit', Len(Unit') + 1) \in Nat
    <3> HIDE DEF Unit
    <3> QED
      BY <2>4, StartIs, StartsAscend
  <2>6. TextTypeOK'
    BY <1>1, <1>2, <2>1, <2>2 DEF TextTypeOK
  <2>7. InBuffer'
    <3>1. UnitSize(Unit)' = Start(Unit', Len(Unit') + 1) + (IF Tailed' THEN MinBuffer ELSE 0)
      BY DEF UnitSize
    <3>2. UnitSize(Unit)' \in Nat
      BY <2>5, <3>1, TextAssumption
    <3> QED
      BY <2>1, <3>2 DEF InBuffer
  <2>8. Readable
    BY <1>2, <1>5, <1>6 DEF FileOK, Readable
  <2>9. given # << >> /\ Last(Last(given)) = <<u, Len(Unit)>>
    <3>1. GivenTo(u, Len(Unit)) /\ Len(Unit) \in Nat \ {0}
      BY <1>1, <1>2, <1>5, <2>8, UnitTyped DEF Leaving, Unit
    <3> QED
      BY <3>1 DEF GivenTo
  <2>10. GivenTo(u + 1, 0)
    <3>1. (u + 1) - 1 = u /\ u + 1 # 1
      BY <1>5
    <3>2. Last(Last(given)) = <<(u + 1) - 1, Len(units[(u + 1) - 1])>>
      BY <2>9, <3>1 DEF Unit
    <3> QED
      BY <2>9, <3>1, <3>2, Zenon DEF GivenTo
  <2>11. OnHead(1)'
    BY <1>4, <2>1, <2>4, <2>5, <2>10 DEF OnHead
  <2>12. Standing'
    BY <2>4, <2>11 DEF Standing
  <2>13. Leaving'
    BY <2>1 DEF Leaving
  <2> QED
    BY <1>3, <1>4, <2>6, <2>7, <2>12, <2>13 DEF TextInv
<1>7. CASE ~(u < Len(units))
  <2>1. at' = "done" /\ UNCHANGED <<u, got, pos, size, fileend>>
    BY <1>7 DEF NextUnit
  <2>2. /\ UnitSize(Unit)' = UnitSize(Unit) /\ Len(Unit)' = Len(Unit)
        /\ Readable' <=> Readable
    BY <1>1, <2>1, SameUnit
  <2>3. TextTypeOK'
    BY <1>1, <1>2, <2>1 DEF TextTypeOK
  <2>4. InBuffer' /\ Standing'
    BY <1>1, <1>2, <2>1, <2>2 DEF InBuffer, Standing
  <2>5. u = Len(units)
    BY <1>5, <1>7
  <2>6. Readable => GivenTo(u, Len(Unit))
    BY <1>1, <1>2 DEF Leaving
  <2>7. Leaving'
    BY <1>1, <1>4, <2>1, <2>2, <2>5, <2>6 DEF Leaving
  <2> QED
    BY <1>3, <1>4, <2>3, <2>4, <2>7 DEF TextInv
<1> QED
  BY <1>6, <1>7

LEMMA TakeTailKeeps == ASSUME TextInv, TakeTail PROVE TextInv'
<1>1. /\ at = "parse" /\ size = 0 /\ pos = Start(Unit, Len(Unit) + 1) /\ at' = "next"
      /\ UNCHANGED <<style, units, u, got, pos, size, here, fileend, omem, given>>
  BY DEF TakeTail, AtHead, At
<1>2. FileOK /\ TextTypeOK /\ InBuffer /\ Standing /\ Given
  BY DEF TextInv
<1>3. Layout
  BY <1>2, UnitLayout DEF TextTypeOK
<1>4. /\ UnitSize(Unit)' = UnitSize(Unit) /\ Len(Unit)' = Len(Unit) /\ FileOK'
  BY <1>1, <1>2, SameUnit
<1>5. Given' /\ \A v, n : GivenTo(v, n)' <=> GivenTo(v, n)
  BY <1>1, <1>2, SameGiven
<1>6. TextTypeOK' /\ InBuffer' /\ Standing'
  BY <1>1, <1>2, <1>4 DEF TextTypeOK, InBuffer, Standing
<1>7. PICK n \in 1 .. Len(Unit) + 1 : OnHead(n)
  BY <1>1, <1>2 DEF Standing, OnBody
<1>8. n = Len(Unit) + 1
  <2>1. Start(Unit, n) = Start(Unit, Len(Unit) + 1) /\ Len(Unit) + 1 \in 1 .. Len(Unit) + 1
    BY <1>1, <1>3, <1>7 DEF OnHead, Layout
  <2> QED
    BY <1>3, <2>1, OneStart
<1>9. GivenTo(u, Len(Unit))
  <2>1. Len(Unit) \in Nat /\ (Len(Unit) + 1) - 1 = Len(Unit)
    BY <1>3 DEF Layout
  <2> QED
    BY <1>7, <1>8, <2>1 DEF OnHead
<1>10. Leaving'
  BY <1>1, <1>4, <1>5, <1>9 DEF Leaving
<1> QED
  BY <1>4, <1>5, <1>6, <1>10 DEF TextInv

-----------------------------------------------------------------------------
(* Callbacks.                                                              *)

\* the next block after those that were given is given
LEMMA GiveNext ==
    ASSUME FileOK, TextTypeOK, InOrder(given), NEW n \in 1 .. Len(Unit), GivenTo(u, n - 1),
           NEW m \in Seq(Nat \X Nat), m # << >>, Last(m) = <<u, n>>,
           style \in {"stream", "index"} => Len(m) = 1,
           given' = Append(given, m), UNCHANGED <<style, units, u>>
    PROVE  /\ given' \in Seq(Seq(Nat \X Nat) \ {<< >>})
           /\ InOrder(given)' /\ GivenTo(u, n)'
<1> DEFINE L == Len(given)
           G == Seq(Nat \X Nat) \ {<< >>}
<1>1. given \in Seq(G) /\ m \in G
  BY DEF TextTypeOK
<1> HIDE DEF G
<1>2. L \in Nat /\ (given = << >> => L = 0) /\ (given # << >> => L # 0)
  BY <1>1, LenProperties, EmptySeq
<1>3. /\ given' \in Seq(G) /\ given' # << >> /\ Len(given') = L + 1 /\ given'[L + 1] = m
      /\ \A i \in 1 .. L : given'[i] = given[i]
  BY <1>1, AppendProperties
<1> HIDE DEF L
<1>4. u \in Nat /\ u \in 1 .. Len(units) /\ Len(Unit) \in Nat /\ n \in 1 .. Len(units[u])
  BY UnitTyped DEF TextTypeOK, Unit
<1>5. BlockIds' = BlockIds /\ \A id : Following(id)' = Following(id)
  BY DEF BlockIds, Following
<1>6. <<u, n>> \in BlockIds
  BY <1>4 DEF BlockIds, Ids
<1>7. <<u, n>> = IF L + 1 = 1 THEN <<1, 1>> ELSE Following(Last(given'[(L + 1) - 1]))
  <2>1. CASE given = << >>
    <3>1. n - 1 = 0 /\ u = 1
      BY <2>1 DEF GivenTo
    <3>2. n = 1
      BY <1>4, <3>1
    <3> QED
      BY <1>2, <2>1, <3>1, <3>2
  <2>2. CASE given # << >>
    <3>1. L \in 1 .. L /\ (L + 1) - 1 = L /\ L + 1 # 1
      BY <1>2, <2>2
    <3>2. given'[(L + 1) - 1] = Last(given)
      BY <1>3, <3>1 DEF Last, L
    <3>3. CASE n = 1
      <4>1. n - 1 = 0
        BY <3>3
      <4>2. u # 1 /\ Last(Last(given)) = <<u - 1, Len(units[u - 1])>>
        BY <2>2, <4>1 DEF GivenTo
      <4>3. (u - 1) + 1 = u
        BY <1>4
      <4>4. u - 1 \in 1 .. Len(units)
        BY <1>4, <4>2
      <4>5. Len(units[u - 1]) \in Nat
        BY <4>4, UnitTyped
      <4>6. ~(Len(units[u - 1]) < Len(units[u - 1]))
        BY <4>5
      <4>7. Following(<<u - 1, Len(units[u - 1])>>) = <<(u - 1) + 1, 1>>
        BY <4>6 DEF Following
      <4> QED
        BY <3>1, <3>2, <3>3, <4>2, <4>3, <4>7
    <3>4. CASE n # 1
      <4>1. n - 1 # 0 /\ (n - 1) + 1 = n /\ n - 1 < Len(units[u])
        BY <1>4, <3>4 DEF Unit
      <4>2. Last(Last(given)) = <<u, n - 1>>
        BY <4>1, <2>2 DEF GivenTo
      <4>3. Following(<<u, n - 1>>) = <<u, (n - 1) + 1>>
        BY <4>1 DEF Following
      <4> QED
        BY <3>1, <3>2, <4>1, <4>2, <4>3
    <3> QED
      BY <3>3, <3>4
  <2> QED
    BY <2>1, <2>2
<1>8. ASSUME NEW i \in 1 .. L + 1
      PROVE  /\ Last(given'[i]) \in BlockIds
             /\ Last(given'[i]) = IF i = 1 THEN <<1, 1>> ELSE Following(Last(given'[i - 1]))
             /\ style \in {"stream", "index"} => Len(given'[i]) = 1
  <2>1. CASE i = L + 1
    BY <1>3, <1>6, <1>7, <2>1
  <2>2. CASE i # L + 1
    <3>1. i \in 1 .. L /\ (i # 1 => i - 1 \in 1 .. L)
      BY <1>2, <2>2
    <3>2. given'[i] = given[i] /\ (i # 1 => given'[i - 1] = given[i - 1])
      BY <1>3, <3>1
    <3>3. /\ Last(given[i]) \in BlockIds
          /\ Last(given[i]) = IF i = 1 THEN <<1, 1>> ELSE Following(Last(given[i - 1]))
          /\ style \in {"stream", "index"} => Len(given[i]) = 1
      BY <3>1 DEF InOrder, L
    <3> QED
      BY <3>2, <3>3
  <2> QED
    BY <2>1, <2>2
<1>9. InOrder(given)'
  BY <1>3, <1>5, <1>8 DEF InOrder
<1>10. Last(Last(given)') = <<u, n>>
  BY <1>3 DEF Last
<1>11. GivenTo(u, n)'
  <2>1. n # 0 /\ u' = u
    OBVIOUS
  <2>2. Last(Last(given))' = <<u, n>>
    BY <1>3 DEF Last
  <2> QED
    BY <1>3, <2>1, <2>2 DEF GivenTo
<1> QED
  BY <1>3, <1>9, <1>11 DEF G

\* the body of the n-th block is taken from where it starts
LEMMA DeliverKeeps ==
    ASSUME TextInv, at = "parse", NEW n \in 1 .. Len(Unit), GivenTo(u, n - 1),
           NEW p \in Nat, p + Unit[n].body = Start(Unit, n + 1), p + Unit[n].body <= got,
           DeliverAt(n, p)
    PROVE  TextInv'
<1> DEFINE m == Uncompress(n, p)
<1>1. /\ given' = Append(given, m) /\ at' \in {"parse", "stopped"}
      /\ omem' = IF Emptied(Unit[n].hid) THEN << >> ELSE m
      /\ pos' = p + Unit[n].body /\ size' = 0
      /\ UNCHANGED <<style, units, u, got, here, fileend>>
  BY DEF DeliverAt, Callback
<1>2. FileOK /\ TextTypeOK /\ InBuffer /\ Given
  BY DEF TextInv
<1>3. Layout /\ u \in Nat
  BY <1>2, UnitLayout DEF TextTypeOK
<1>4. Unit[n].body \in Nat /\ Unit[n] \in Blocks(style) /\ n + 1 \in 1 .. Len(Unit) + 1
  BY <1>3 DEF Layout, AnyBlock
<1>5. style \in {"stream", "index"} => Emptied(Unit[n].hid)
  BY <1>2, <1>4, BlockKinds DEF FileOK
<1>6. Body(n, p) = <<u, n>> /\ <<u, n>> \in Nat \X Nat
  BY <1>3 DEF Body
<1>7. /\ m \in Seq(Nat \X Nat) /\ m # << >> /\ Last(m) = <<u, n>>
      /\ style \in {"stream", "index"} => Len(m) = 1
  <2> DEFINE b == <<u, n>>
  <2>1. omem \in Seq(Nat \X Nat) /\ (style \in {"stream", "index"} => omem = << >>)
    BY <1>2 DEF TextTypeOK, Given
  <2>2. CASE Unit[n].zip
    <3>1. m = <<b>>
      BY <1>6, <2>2 DEF Uncompress
    <3> HIDE DEF b, m
    <3>2. b \in Nat \X Nat
      BY <1>6 DEF b
    <3> QED
      BY <3>1, <3>2 DEF Last, b
  <2>3. CASE ~Unit[n].zip
    <3>1. m = Append(omem, b)
      BY <1>6, <2>3 DEF Uncompress
    <3> HIDE DEF b, m
    <3>2. b \in Nat \X Nat
      BY <1>6 DEF b
    <3> DEFINE Pairs == Nat \X Nat
    <3>3. /\ m \in Seq(Pairs) /\ m # << >> /\ Len(m) = Len(omem) + 1
          /\ m[Len(omem) + 1] = b
      <4>1. omem \in Seq(Pairs) /\ b \in Pairs
        BY <2>1, <3>2
      <4> HIDE DEF Pairs
      <4> QED
        BY <3>1, <4>1, AppendProperties
    <3>4. omem = << >> => Len(m) = 1
      BY <3>3, EmptySeq
    <3> QED
      BY <2>1, <3>3, <3>4 DEF Last, b
  <2> QED
    BY <2>2, <2>3
<1> HIDE DEF m
<1>8. InOrder(given)
  BY <1>2 DEF Given
<1>9. given' \in Seq(Seq(Nat \X Nat) \ {<< >>}) /\ InOrder(given)' /\ GivenTo(u, n)'
  BY <1>1, <1>2, <1>7, <1>8, GiveNext
<1>10. omem' \in Seq(Nat \X Nat) /\ (style \in {"stream", "index"} => omem' = << >>)
  BY <1>1, <1>5, <1>7, EmptySeq
<1>11. Given'
  BY <1>1, <1>9, <1>10 DEF Given
<1>12. /\ UnitSize(Unit)' = UnitSize(Unit) /\ Len(Unit)' = Len(Unit) /\ Unit' = Unit
       /\ \A k : Start(Unit, k)' = Start(Unit, k)
       /\ FileOK'
  BY <1>1, <1>2, SameUnit
<1>13. TextTypeOK'
  <2>1. pos' \in Nat /\ size' \in Nat
    BY <1>1, <1>4
  <2>2. u' \in 1 .. Len(units') /\ got' \in Nat /\ fileend' \in BOOLEAN
    BY <1>1, <1>2 DEF TextTypeOK
  <2> QED
    BY <1>1, <1>9, <1>10, <2>1, <2>2, Zenon DEF TextTypeOK
<1>14. InBuffer'
  BY <1>1, <1>2, <1>12 DEF InBuffer
<1>15. OnHead(n + 1)'
  <2>1. (n + 1) - 1 = n
    BY <1>4
  <2> QED
    BY <1>1, <1>4, <1>9, <1>12, <2>1 DEF OnHead
<1>16. Standing'
  BY <1>4, <1>12, <1>15 DEF Standing
<1>17. Leaving'
  BY <1>1 DEF Leaving
<1> QED
  BY <1>11, <1>12, <1>13, <1>14, <1>16, <1>17 DEF TextInv

-----------------------------------------------------------------------------
(* The inner loop, and the theorem.                                        *)

\* a head that is parsed is that of the block the reader stands at
LEMMA HeadFound ==
    ASSUME TextInv, AtHead, NEW n \in Ids(Unit), At(n)
    PROVE  /\ at = "parse" /\ got - pos >= MinBuffer /\ size = 0 /\ Layout
           /\ n \in 1 .. Len(Unit) /\ pos = Start(Unit, n) /\ GivenTo(u, n - 1)
<1>1. /\ at = "parse" /\ got - pos >= MinBuffer /\ size = 0
      /\ n \in 1 .. Len(Unit) /\ pos = Start(Unit, n)
  BY DEF AtHead, At, Buffered, Ids
<1>2. FileOK /\ TextTypeOK /\ Standing
  BY DEF TextInv
<1>3. Layout
  BY <1>2, UnitLayout DEF TextTypeOK
<1>4. PICK k \in 1 .. Len(Unit) + 1 : OnHead(k)
  BY <1>1, <1>2 DEF Standing, OnBody
<1>5. n = k
  <2>1. Start(Unit, n) = Start(Unit, k) /\ n \in 1 .. Len(Unit) + 1
    BY <1>1, <1>3, <1>4 DEF OnHead, Layout
  <2> QED
    BY <1>3, <2>1, OneStart
<1> QED
  BY <1>1, <1>3, <1>4, <1>5 DEF OnHead

LEMMA TakeEndKeeps ==
    ASSUME TextInv, NEW n \in Ids(Unit), TakeEnd(n) PROVE TextInv'
<1> DEFINE m == <<<<u, n>>>>
<1>1. /\ given' = Append(given, m) /\ at' \in {"parse", "stopped"} /\ pos' = pos + 1
      /\ Unit[n].hid = "end"
      /\ UNCHANGED <<style, units, u, got, size, here, fileend, omem>>
  BY DEF TakeEnd, Callback
<1>2. /\ at = "parse" /\ got - pos >= MinBuffer /\ size = 0 /\ Layout
      /\ n \in 1 .. Len(Unit) /\ pos = Start(Unit, n) /\ GivenTo(u, n - 1)
  BY HeadFound DEF TakeEnd
<1>3. FileOK /\ TextTypeOK /\ InBuffer /\ Given
  BY DEF TextInv
<1>4. Unit[n] \in AnyBlock /\ n \in Nat /\ n + 1 \in 1 .. Len(Unit) + 1
      /\ Start(Unit, n + 1) = Start(Unit, n) + BlockSize(Unit[n])
  BY <1>2 DEF Layout
<1>5. Start(Unit, n + 1) = pos + 1
  BY <1>1, <1>2, <1>4, BlockFacts
<1>6. m \in Seq(Nat \X Nat) /\ m # << >> /\ Last(m) = <<u, n>> /\ Len(m) = 1
  <2> DEFINE b == <<u, n>>
             Pairs == Nat \X Nat
  <2>1. b \in Pairs
    BY <1>3, <1>4 DEF TextTypeOK
  <2> HIDE DEF b, Pairs
  <2>2. <<b>> \in Seq(Pairs) /\ <<b>> # << >> /\ Last(<<b>>) = b /\ Len(<<b>>) = 1
    BY <2>1 DEF Last
  <2> QED
    BY <2>2 DEF b, Pairs
<1> HIDE DEF m
<1>7. InOrder(given)
  BY <1>3 DEF Given
<1>8. given' \in Seq(Seq(Nat \X Nat) \ {<< >>}) /\ InOrder(given)' /\ GivenTo(u, n)'
  BY <1>1, <1>2, <1>3, <1>6, <1>7, GiveNext
<1>9. Given'
  BY <1>1, <1>3, <1>8 DEF Given
<1>10. /\ UnitSize(Unit)' = UnitSize(Unit) /\ Len(Unit)' = Len(Unit)
       /\ \A k : Start(Unit, k)' = Start(Unit, k)
       /\ FileOK'
  BY <1>1, <1>3, SameUnit
<1>11. TextTypeOK'
  <2>1. pos' \in Nat
    BY <1>1, <1>3 DEF TextTypeOK
  <2>2. u' \in 1 .. Len(units') /\ got' \in Nat /\ fileend' \in BOOLEAN /\ size' \in Nat
        /\ omem' \in Seq(Nat \X Nat)
    BY <1>1, <1>3 DEF TextTypeOK
  <2> QED
    BY <1>1, <1>8, <2>1, <2>2, Zenon DEF TextTypeOK
<1>12. InBuffer'
  <2>1. pos' <= got'
    BY <1>1, <1>2, <1>3, TextAssumption DEF TextTypeOK
  <2> QED
    BY <1>1, <1>3, <1>10, <2>1 DEF InBuffer
<1>13. OnHead(n + 1)'
  <2>1. (n + 1) - 1 = n
    BY <1>4
  <2> QED
    BY <1>1, <1>2, <1>4, <1>5, <1>8, <1>10, <2>1 DEF OnHead
<1>14. Standing'
  BY <1>4, <1>10, <1>13 DEF Standing
<1>15. Leaving'
  BY <1>1 DEF Leaving
<1> QED
  BY <1>9, <1>10, <1>11, <1>12, <1>14, <1>15 DEF TextInv

LEMMA TakeHeadKeeps ==
    ASSUME TextInv, NEW n \in Ids(Unit), TakeHead(n) PROVE TextInv'
<1> DEFINE b == Unit[n]
           p == pos + 1 + LenSize(b.body)
<1>1. AtHead /\ At(n) /\ b.hid # "end"
  BY DEF TakeHead
<1>2. /\ at = "parse" /\ got - pos >= MinBuffer /\ size = 0 /\ Layout
      /\ n \in 1 .. Len(Unit) /\ pos = Start(Unit, n) /\ GivenTo(u, n - 1)
  BY <1>1, HeadFound
<1>3. FileOK /\ TextTypeOK /\ InBuffer /\ Given
  BY DEF TextInv
<1>4. b \in AnyBlock /\ n + 1 \in 1 .. Len(Unit) + 1
      /\ Start(Unit, n + 1) = Start(Unit, n) + BlockSize(b)
  BY <1>2 DEF Layout
<1>5. b.body \in Nat /\ LenSize(b.body) \in {1, 2} /\ BlockSize(b) = 1 + LenSize(b.body) + b.body
  BY <1>1, <1>4, BlockFacts
<1>6. pos \in Nat /\ got \in Nat
  BY <1>3 DEF TextTypeOK
<1>7. p \in Nat /\ p <= got /\ p + b.body = Start(Unit, n + 1)
  <2>1. PICK l \in {1, 2}, c \in Nat : l = LenSize(b.body) /\ c = b.body
    BY <1>5
  <2>2. Start(Unit, n + 1) = pos + (1 + l + c)
    BY <1>2, <1>4, <1>5, <2>1
  <2>3. MinBuffer \in Nat /\ MinBuffer >= 3 /\ got - pos >= MinBuffer
    BY <1>2, TextAssumption
  <2>4. pos + 1 + l \in Nat /\ pos + 1 + l <= got /\ (pos + 1 + l) + c = pos + (1 + l + c)
    BY <1>6, <2>1, <2>3
  <2> QED
    BY <2>1, <2>2, <2>4
<1>8. CASE got - p >= b.body
  <2>1. DeliverAt(n, p)
    BY <1>8 DEF TakeHead
  <2>2. p + b.body <= got
    BY <1>5, <1>6, <1>7, <1>8
  <2> HIDE DEF p
  <2> QED
    BY <1>2, <1>7, <2>1, <2>2, DeliverKeeps
<1>9. CASE ~(got - p >= b.body)
  <2>1. /\ pos' = p /\ size' = b.body /\ here' = n /\ at' = "read"
        /\ UNCHANGED <<style, units, u, got, fileend, omem, given>>
    BY <1>9 DEF TakeHead
  <2>2. b.body > 0
    BY <1>5, <1>6, <1>7, <1>9
  <2> HIDE DEF p
  <2>3. Given' /\ \A v, k : GivenTo(v, k)' <=> GivenTo(v, k)
    BY <1>3, <2>1, SameGiven
  <2>4. /\ UnitSize(Unit)' = UnitSize(Unit) /\ Len(Unit)' = Len(Unit) /\ Unit' = Unit
        /\ \A k : Start(Unit, k)' = Start(Unit, k)
        /\ FileOK'
    BY <1>3, <2>1, SameUnit
  <2>5. TextTypeOK'
    <3>1. pos' \in Nat /\ size' \in Nat
      BY <1>5, <1>7, <2>1
    <3> QED
      BY <1>3, <2>1, <3>1 DEF TextTypeOK
  <2>6. InBuffer'
    BY <1>3, <1>7, <2>1, <2>4 DEF InBuffer
  <2>7. OnBody(n)'
    BY <1>2, <1>7, <2>1, <2>2, <2>3, <2>4 DEF OnBody
  <2>8. Standing'
    BY <1>2, <2>1, <2>4, <2>7 DEF Standing
  <2>9. Leaving'
    BY <2>1 DEF Leaving
  <2> QED
    BY <2>3, <2>4, <2>5, <2>6, <2>8, <2>9 DEF TextInv
<1> QED
  BY <1>8, <1>9

LEMMA TakeBodyKeeps == ASSUME TextInv, TakeBody PROVE TextInv'
<1>1. at = "parse" /\ size > 0 /\ DeliverAt(here, pos)
  BY DEF TakeBody
<1>2. FileOK /\ TextTypeOK /\ InBuffer /\ Standing
  BY DEF TextInv
<1>3. PICK n \in 1 .. Len(Unit) : OnBody(n) /\ got - pos >= size
  BY <1>1, <1>2 DEF Standing, OnHead
<1>4. /\ here = n /\ size = Unit[n].body /\ pos + size = Start(Unit, n + 1) /\ GivenTo(u, n - 1)
  BY <1>3 DEF OnBody
<1>5. pos \in Nat /\ got \in Nat /\ size \in Nat
  BY <1>2 DEF TextTypeOK
<1>6. pos + size <= got
  BY <1>3, <1>5
<1> QED
  BY <1>1, <1>4, <1>5, <1>6, DeliverKeeps

LEMMA TextNextKeeps == TextInv /\ [TextNext]_textvars => TextInv'
<1> SUFFICES ASSUME TextInv, [TextNext]_textvars PROVE TextInv'
  OBVIOUS
<1>1. CASE Read
  BY <1>1, ReadKeeps
<1>2. CASE ParseEnd
  BY <1>2, ParseEndKeeps
<1>3. CASE NextUnit
  BY <1>3, NextUnitKeeps
<1>4. CASE TakeTail
  BY <1>4, TakeTailKeeps
<1>5. CASE TakeBody
  BY <1>5, TakeBodyKeeps
<1>6. ASSUME NEW n \in Ids(Unit), TakeEnd(n) \/ TakeHead(n) PROVE TextInv'
  BY <1>6, TakeEndKeeps, TakeHeadKeeps
<1>7. CASE UNCHANGED textvars
  <2>1. UNCHANGED <<style, units, u, got, pos, size, here, fileend, omem, given, at>>
    BY <1>7 DEF textvars
  <2>2. Given' /\ \A v, n : GivenTo(v, n)' <=> GivenTo(v, n)
    BY <2>1, SameGiven DEF TextInv
  <2>3. /\ UnitSize(Unit)' = UnitSize(Unit) /\ Len(Unit)' = Len(Unit) /\ Unit' = Unit
        /\ \A n : Start(Unit, n)' = Start(Unit, n)
        /\ Readable' <=> Readable
        /\ FileOK'
    BY <2>1, SameUnit DEF TextInv
  <2>4. TextTypeOK' /\ InBuffer'
    BY <2>1, <2>3 DEF TextInv, TextTypeOK, InBuffer
  <2>5. \A n : (OnHead(n)' <=> OnHead(n)) /\ (OnBody(n)' <=> OnBody(n))
    BY <2>1, <2>2, <2>3 DEF OnHead, OnBody
  <2>6. Standing'
    BY <2>1, <2>3, <2>5 DEF TextInv, Standing
  <2>7. Leaving'
    BY <2>1, <2>2, <2>3 DEF TextInv, Leaving
  <2> QED
    BY <2>2, <2>3, <2>4, <2>6, <2>7 DEF TextInv
<1> QED
  BY <1>1, <1>2, <1>3, <1>4, <1>5, <1>6, <1>7, Zenon DEF TextNext

LEMMA InvReadsWhole == TextInv => ReadsWhole
<1> SUFFICES ASSUME TextInv PROVE ReadsWhole
  OBVIOUS
<1>1. InOrder(given)
  BY DEF TextInv, Given
<1>2. ASSUME at = "done", Tailed \/ Last(Unit).body >= MinBuffer
      PROVE  given # << >> /\ Last(given[Len(given)]) = <<Len(units), Len(Unit)>>
  <2>1. GivenTo(u, Len(Unit)) /\ u = Len(units)
    BY <1>2 DEF TextInv, Leaving, Readable
  <2>2. Len(Unit) # 0
    BY UnitTyped DEF TextInv, TextTypeOK, Unit
  <2> QED
    BY <2>1, <2>2 DEF GivenTo, Last
<1> QED
  BY <1>1, <1>2 DEF ReadsWhole, InOrder

LEMMA TextInvariant == TextSpec => []TextInv
  BY InitTextInv, TextNextKeeps, PTL DEF TextSpec

\* The reader stays inside a unit of the file, its counts of bytes never fall below
\* zero, and it calls no callback with an empty buffer.
THEOREM TextTypeCorrect == TextSpec => []TextTypeOK
<1>1. TextInv => TextTypeOK
  BY DEF TextInv
<1> QED
  BY <1>1, TextInvariant, PTL

\* sis_files_read_fulltext: for every file, whatever the lengths of its units and bodies,
\* and for every size of a read, callbacks are called for whole blocks, each once and in
\* the order of the file; unless one of them ends the reading, the last of them gets the
\* last block of the last unit.  The size in which a tail or a block can still hide,
\* SIS_DISK_MIN_BUFFER, is what makes it stop no earlier.
THEOREM EveryBlockOnce == TextSpec => []ReadsWhole
  BY TextInvariant, InvReadsWhole, PTL
=============================================================================
