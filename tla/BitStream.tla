------------------------------ MODULE BitStream ------------------------------
(***************************************************************************)
(* The compressed format of records (src/src/core/zip/sis_bits.c): fields  *)
(* are written as differences to the previous record of the same key, in   *)
(* as few bits as their values need.  A sender (sis_bits_struct_encode)    *)
(* fills blocks, a receiver (sis_bits_struct_decode) reads them; each keeps *)
(* the previous records (ago_memory) for itself.                           *)
(*                                                                         *)
(* A 64-bit word is the set of its bits that are 1.  A record has one      *)
(* integer and one char field; float fields are integers after a           *)
(* multiplication and are left out.                                        *)
(***************************************************************************)
EXTENDS Integers, Sequences, SequencesExt

CONSTANTS
    Kids,           \* indices of keys
    MaxKeynum,      \* max_keynum: keys from here on are not processed
    Ints, Chars,    \* words and char codes the records are made of
    BatchLens,      \* how many records a publication may have
    Counts,         \* counts that are written and read alone
    MaxBatches      \* bound: publications in a behaviour

VARIABLES
    bits, bags, init,   \* the sender's block: what is written, how many batches, its init flag
    ago, mem,           \* ago_memory of the sender and of the receiver
    given, got,         \* history: the batches of the block, and what the last block gave
    spoiled,            \* history: keys whose first batch since the flush had several records
    sent                \* number of batches
vars == <<bits, bags, init, ago, mem, given, got, spoiled, sent>>

Zero == {}
Unset == [set |-> FALSE, int |-> Zero, char |-> 0]
Flushed == [k \in Kids |-> Unset]

Init ==
    /\ bits = <<>> /\ bags = 0 /\ init = TRUE
    /\ ago = Flushed /\ mem = Flushed
    /\ given = <<>> /\ got = <<>> /\ spoiled = {} /\ sent = 0

-----------------------------------------------------------------------------
(* Words: 64 bits, arithmetic modulo 2^64 *)

Word == 0 .. 63
Bit(w, i) == IF i \in w THEN 1 ELSE 0

\* the sum without its carries, and what is carried
RECURSIVE Plus(_, _)
Plus(v, w) ==
    IF v \cap w = {} THEN v \cup w
    ELSE Plus((v \cup w) \ (v \cap w), {i + 1 : i \in (v \cap w) \ {63}})
Negate(w) ==
    IF w = {} THEN {}
    ELSE LET low == CHOOSE i \in w : \A j \in w : i <= j
         IN  {low} \cup ((low + 1 .. 63) \ w)
Minus(v, w) == Plus(v, Negate(w))
Negative(w) == 63 \in w

\* the word of a small number
WordOf(n) == {i \in 0 .. 30 : (n \div 2^i) % 2 = 1}

-----------------------------------------------------------------------------
(* Writing *)

\* sis_bits_stream_put: the n low bits of w, the highest first
Put(w, n) == [i \in 1 .. n |-> Bit(w, n - i)]

PutCount(n) ==
    LET dw == WordOf(n - 1)
    IN  CASE dw \cap (8 .. 15) # {} -> <<1, 1>> \o Put(dw, 16)
          [] dw \cap (8 .. 15) = {} /\ dw \cap (0 .. 7) # {} -> <<1, 0>> \o Put(dw, 8)
          [] OTHER -> <<0>>

(* The level of 12 bits is never chosen: bits 8 to 11 are among those that  *)
(* ask for 16.                                                              *)
PutUint(n) ==
    LET dw == WordOf(n)
    IN  CASE n >= 2^24 -> <<1, 1, 1>> \o Put(dw, 32)
          [] n \in 2^16 .. 2^24 - 1 -> <<1, 1, 0>> \o Put(dw, 24)
          [] n \in 2^8 .. 2^16 - 1 -> <<1, 0, 1>> \o Put(dw, 16)
          [] n \in 2^4 .. 2^8 - 1 -> <<0, 1>> \o Put(dw, 8)
          [] OTHER -> <<0, 0>> \o Put(dw, 4)

\* the bits a level of sis_bits_stream_put_int tests for, from the widest level
\* down, with the level's code and width
IntLevels == <<
    [mask |-> 56 .. 62, code |-> <<1, 1, 1, 1, 1, 1>>, width |-> 63],
    [mask |-> 48 .. 55, code |-> <<1, 1, 1, 1, 1, 0>>, width |-> 56],
    [mask |-> 40 .. 47, code |-> <<1, 1, 1, 1, 0, 1>>, width |-> 48],
    [mask |-> 32 .. 39, code |-> <<1, 1, 1, 1, 0, 0>>, width |-> 40],
    [mask |-> 28 .. 31, code |-> <<1, 1, 1, 0, 1, 0>>, width |-> 32],
    [mask |-> 24 .. 27, code |-> <<1, 1, 1, 0, 0, 1>>, width |-> 28],
    [mask |-> 20 .. 23, code |-> <<1, 1, 1, 0, 0, 0>>, width |-> 24],
    [mask |-> 16 .. 19, code |-> <<1, 1, 0, 1, 1>>,    width |-> 20],
    [mask |-> 12 .. 15, code |-> <<1, 1, 0, 1, 0>>,    width |-> 16],
    [mask |->  8 .. 11, code |-> <<1, 1, 0, 0, 1>>,    width |-> 12],
    [mask |->  4 .. 7,  code |-> <<1, 1, 0, 0, 0>>,    width |-> 8],
    [mask |->  0 .. 3,  code |-> <<1, 0>>,             width |-> 4]>>

\* the sign, then the magnitude at the first level whose bits it has; nothing
\* of the lowest 63 bits set is the level 0
PutInt(w) ==
    LET sign == IF Negative(w) THEN <<1>> ELSE <<0>>
        dw == IF Negative(w) THEN Negate(w) ELSE w
        hits == {l \in DOMAIN IntLevels : dw \cap IntLevels[l].mask # {}}
    IN  IF hits = {} THEN sign \o <<0>>
        ELSE LET level == IntLevels[CHOOSE l \in hits : \A k \in hits : l <= k]
             IN  sign \o level.code \o Put(dw, level.width)

Lower(c) == IF c \in 65 .. 90 THEN c + 32 ELSE c

\* sis_bits_stream_put_incr_chars: the old text is not repeated, whatever its case
PutIncrChars(c, old) ==
    IF Lower(c) = Lower(old) THEN <<0>> ELSE <<1>> \o PutUint(1) \o Put(WordOf(c), 8)

PutRecord(rec, old) ==
    PutInt(Minus(rec.int, old.int)) \o PutIncrChars(rec.char, old.char)

AsMemory(rec) == [set |-> TRUE, int |-> rec.int, char |-> rec.char]

\* mutation: every record of a batch is compared with the one before the batch
PutRecordsFlat(recs, old) ==
    IF recs = <<>> THEN <<>> ELSE FlattenSeq([i \in DOMAIN recs |-> PutRecord(recs[i], old)])

\* one record after the other, each against the one before
RECURSIVE PutRecords(_, _)
PutRecords(recs, old) ==
    IF recs = <<>> THEN <<>>
    ELSE PutRecord(recs[1], old) \o PutRecords(Tail(recs), recs[1])

-----------------------------------------------------------------------------
(* Reading.  A reader takes the stream and a position and returns the value *)
(* and the next position.                                                   *)

\* sis_bits_stream_get
Get(s, p, n) == {i \in 0 .. n - 1 : s[p + n - i] = 1}
RECURSIVE Number(_)
Number(w) == IF w = {} THEN 0 ELSE LET i == CHOOSE j \in w : TRUE IN 2^i + Number(w \ {i})
Read(s, p, n) == [val |-> Get(s, p, n), pos |-> p + n]
ReadNumber(s, p, n) == [val |-> Number(Get(s, p, n)), pos |-> p + n]

GetCount(s, p) ==
    CASE s[p + 1] = 0 -> [val |-> 1, pos |-> p + 1]
      [] s[p + 1] = 1 /\ s[p + 2] = 0 ->
            [val |-> 1 + Number(Get(s, p + 2, 8)), pos |-> p + 10]
      [] OTHER -> [val |-> 1 + Number(Get(s, p + 2, 16)), pos |-> p + 18]

GetUint(s, p) ==
    IF s[p + 1] = 0
      THEN ReadNumber(s, p + 2, IF s[p + 2] = 0 THEN 4 ELSE 8)
      ELSE ReadNumber(s, p + 3, <<12, 16, 24, 32>>[Number(Get(s, p + 1, 2)) + 1])

GetInt(s, p) ==
    LET dw ==
          CASE s[p + 2] = 0 -> [val |-> Zero, pos |-> p + 2]
            [] s[p + 2] = 1 /\ s[p + 3] = 0 -> Read(s, p + 3, 4)
            [] s[p + 2] = 1 /\ s[p + 3] = 1 /\ s[p + 4] = 0 ->
                  Read(s, p + 6, <<8, 12, 16, 20>>[Number(Get(s, p + 4, 2)) + 1])
            [] OTHER ->
                  Read(s, p + 7,
                       <<24, 28, 32, 36, 40, 48, 56, 63>>[Number(Get(s, p + 4, 3)) + 1])
    IN  [dw EXCEPT !.val = IF s[p + 1] = 1 /\ s[p + 2] = 1 THEN Negate(@) ELSE @]

GetIncrChars(s, p, old) ==
    IF s[p + 1] = 0 THEN [val |-> old, pos |-> p + 1]
    ELSE LET size == GetUint(s, p + 1)
         IN  ReadNumber(s, size.pos, 8 * size.val)

GetRecord(s, p, old) ==
    LET n == GetInt(s, p)
        c == GetIncrChars(s, n.pos, old.char)
    IN  [val |-> [int |-> Plus(n.val, old.int), char |-> c.val], pos |-> c.pos]

\* A batch whose flag is 0 is read without a previous record, all of it.
RECURSIVE GetRecords(_, _, _, _, _)
GetRecords(s, p, n, zip, old) ==
    IF n = 0 THEN [val |-> <<>>, pos |-> p]
    ELSE LET r == GetRecord(s, p, IF zip THEN old ELSE Unset)
             rest == GetRecords(s, r.pos, n - 1, zip, r.val)
         IN  [val |-> <<r.val>> \o rest.val, pos |-> rest.pos]

\* bags batches from position p on, with the receiver's memory
RECURSIVE Decode(_, _, _, _)
Decode(s, p, n, memory) ==
    IF n = 0 THEN [batches |-> <<>>, memory |-> memory]
    ELSE LET kid == GetUint(s, p + 1)
             sid == GetUint(s, kid.pos)
             count == GetCount(s, sid.pos)
             recs == GetRecords(s, count.pos, count.val, s[p + 1] = 1, memory[kid.val])
             rest == Decode(s, recs.pos, n - 1,
                            [memory EXCEPT ![kid.val] = AsMemory(Last(recs.val))])
         IN  [batches |-> <<[kid |-> kid.val, recs |-> recs.val]>> \o rest.batches,
              memory |-> rest.memory]

-----------------------------------------------------------------------------
Repeat(rec, n) == [i \in 1 .. n |-> rec]

\* What is published: one record, or several equal ones after a first one.
\* bound: integers and texts vary apart
Batches ==
    {<<[int |-> w, char |-> 65]>> : w \in Ints}
    \cup {<<[int |-> {5}, char |-> c]>> : c \in Chars}
    \cup {<<[int |-> Zero, char |-> 65]>> \o Repeat([int |-> {5}, char |-> 65], n - 1) :
             n \in BatchLens \ {1}}

(* sis_bits_struct_encode: keys beyond max_keynum are passed over.          *)
Encode(kid, recs) ==
    /\ sent < MaxBatches
    /\ sent' = sent + 1
    /\ IF kid >= MaxKeynum
         THEN UNCHANGED <<bits, bags, ago, given, spoiled>>
         ELSE /\ bits' = bits \o <<IF ago[kid].set THEN 1 ELSE 0>> \o PutUint(kid) \o PutUint(0)
                              \o PutCount(Len(recs)) \o PutRecords(recs, ago[kid])
              /\ bags' = bags + 1
              /\ ago' = [ago EXCEPT ![kid] = AsMemory(Last(recs))]
              /\ given' = Append(given, [kid |-> kid, recs |-> recs])
              /\ spoiled' = IF ~ago[kid].set /\ Len(recs) > 1 THEN spoiled \cup {kid} ELSE spoiled
    /\ UNCHANGED <<init, mem, got>>

(* The block is received, as sdcdb_worker_unzip_set does: a block with the  *)
(* init flag flushes the memory first.  The sender links a new block, and   *)
(* flushes its memory if that is to start anew.                             *)
Deliver(restart) ==
    /\ bags > 0
    /\ LET d == Decode(bits, 0, bags, IF init THEN Flushed ELSE mem)
       IN  /\ mem' = d.memory
           /\ got' = [batches |-> d.batches, given |-> given, spoiled |-> spoiled]
    /\ bits' = <<>> /\ bags' = 0 /\ given' = <<>>
    /\ init' = restart
    /\ ago' = IF restart THEN Flushed ELSE ago
    /\ spoiled' = IF restart THEN {} ELSE spoiled
    /\ UNCHANGED sent

Next ==
    \/ \E kid \in Kids \cup {MaxKeynum}, recs \in Batches : Encode(kid, recs)
    \/ \E restart \in BOOLEAN : Deliver(restart)

Spec == Init /\ [][Next]_vars

-----------------------------------------------------------------------------
SameBatch(b, c) ==
    /\ b.kid = c.kid /\ Len(b.recs) = Len(c.recs)
    /\ \A i \in DOMAIN b.recs :
          /\ b.recs[i].int = c.recs[i].int
          /\ Lower(b.recs[i].char) = Lower(c.recs[i].char)

(* A block gives the receiver the batches it was made of, texts up to their *)
(* case: every level of the number formats is read as it was written,       *)
(* differences over several blocks, batches and keys are added up to the    *)
(* values, and both memories start anew at the same block.  Only a key      *)
(* whose first batch has several records is lost until the next flush,      *)
(* because the receiver reads all of that batch without the memory          *)
(* (sis_bits_struct_decode).  Long counts are checked by themselves.         *)
BatchesDecode ==
    got # <<>> =>
        /\ \A n \in Counts : GetCount(PutCount(n), 0).val = n
        /\ Len(got.batches) = Len(got.given)
        /\ \A i \in DOMAIN got.batches :
              got.given[i].kid \in got.spoiled \/ SameBatch(got.batches[i], got.given[i])
=============================================================================
