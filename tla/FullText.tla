------------------------------ MODULE FullText ------------------------------
(***************************************************************************)
(* sis_files_read_fulltext: a file of one or more units is read from start *)
(* to end in pieces and cut into blocks; each block goes to a callback in  *)
(* the buffer omem.  Sizes are in bytes of a small scale: the head of a    *)
(* block takes 1, its length 1 or 2, the tail of a unit MinBuffer.         *)
(***************************************************************************)
EXTENDS Integers, Sequences, SequencesExt

CONSTANTS Piece,       \* SIS_MEMORY_SIZE, what one read asks for
          MinBuffer,   \* SIS_DISK_MIN_BUFFER, 18 in the code
          Bodies,      \* sizes of the bodies of blocks
          Short,       \* the largest body whose length takes one byte
          Cuts         \* bound: where the units of a file end, in numbers of blocks

\* the head and the length of a block lie inside the smallest buffer that is parsed
ASSUME TextAssumption ==
    /\ Piece \in Nat \ {0} /\ MinBuffer \in Nat /\ MinBuffer >= 3
    /\ Bodies \subseteq Nat /\ Short \in Nat
    /\ \A cut \in Cuts :
          /\ cut \in Seq(Nat) /\ cut # <<>> /\ cut[1] > 0
          /\ \A v \in 1 .. Len(cut) - 1 : cut[v] < cut[v + 1]

VARIABLES
    style, units,        \* the file: its style and its units, sequences of blocks
    u, got, pos,         \* current unit, bytes read from it, bytes of it that are consumed
    size, here,          \* the body that is waited for, its block; LINEEND is size = 0
    fileend,
    omem,                \* the blocks whose bytes are in omem
    given,               \* history: what each callback found in omem
    at                   \* "read", "parse", "next" unit, "done" or "stopped"

textvars == <<style, units, u, got, pos, size, here, fileend, omem, given, at>>

-----------------------------------------------------------------------------
(* Files.  Streams and logs have no tail and one unit.                     *)

Tailed == style \in {"sno", "index"}
\* the blocks of a style; those of a stream, of an index and of the records of
\* a log leave nothing in omem, the others do
Kinds(s) == CASE s = "stream" -> {"stream"}
              [] s = "index"  -> {"index"}
              [] s = "log"    -> {"dict", "log"}
              [] s = "sno"    -> {"dict", "sno", "end"}
Emptied(h) == h \in {"stream", "index", "log"}
Blocks(s) == [hid : Kinds(s) \ {"end"}, body : Bodies, zip : BOOLEAN]
             \cup (IF "end" \in Kinds(s) THEN {[hid |-> "end", body |-> 0, zip |-> FALSE]} ELSE {})

LenSize(b) == IF b > Short THEN 2 ELSE 1
BlockSize(b) == IF b.hid = "end" THEN 1 ELSE 1 + LenSize(b.body) + b.body
\* where the n-th block of a unit starts, and the size of the unit
Start(unit, n) ==
    LET from[k \in 1 .. Len(unit) + 1] ==
            IF k = 1 THEN 0 ELSE from[k - 1] + BlockSize(unit[k - 1])
    IN  from[n]
UnitSize(unit) == Start(unit, Len(unit) + 1) + IF Tailed THEN MinBuffer ELSE 0

Unit == units[u]
Buffered == got - pos
Ids(unit) == 1 .. Len(unit)
\* the n-th block starts at pos; the tail stands after the last one
At(n) == pos = Start(Unit, n)

TextInit ==
    /\ style \in {"stream", "index", "log", "sno"}
    /\ \E cut \in Cuts : \E blocks \in [1 .. Last(cut) -> Blocks(style)] :
          /\ Tailed \/ Len(cut) = 1
          /\ units = [v \in 1 .. Len(cut) |->
                        SubSeq(blocks, (IF v = 1 THEN 0 ELSE cut[v - 1]) + 1, cut[v])]
    /\ u = 1 /\ got = 0 /\ pos = 0 /\ size = 0 /\ here = 0
    /\ fileend = FALSE /\ omem = <<>> /\ given = <<>>
    /\ at = "read"

-----------------------------------------------------------------------------

Least(a, b) == IF a < b THEN a ELSE b
Filled == Least(got + Piece, UnitSize(Unit))
ReadAnyway ==
    /\ at = "read"
    /\ got' = Filled /\ fileend' = (got' = got) /\ at' = "parse"
    /\ UNCHANGED <<style, units, u, pos, size, here, omem, given>>
\* one turn of the outer loop: a piece more; the inner loop if it may be enough
Read ==
    /\ at = "read"
    /\ got' = Filled /\ fileend' = (got' = got)
    /\ at' = IF got' - pos >= size THEN "parse" ELSE IF fileend' THEN "next" ELSE "read"
    /\ UNCHANGED <<style, units, u, pos, size, here, omem, given>>

\* the inner loop has too little left
ParseEnd ==
    /\ at = "parse" /\ Buffered < MinBuffer
    /\ at' = IF fileend THEN "next" ELSE "read"
    /\ UNCHANGED <<style, units, u, got, pos, size, here, fileend, omem, given>>

NextUnit ==
    /\ at = "next"
    /\ IF u < Len(units)
       THEN u' = u + 1 /\ got' = 0 /\ pos' = 0 /\ size' = 0 /\ fileend' = FALSE /\ at' = "read"
       ELSE at' = "done" /\ UNCHANGED <<u, got, pos, size, fileend>>
    /\ UNCHANGED <<style, units, here, omem, given>>

AtHead == at = "parse" /\ Buffered >= MinBuffer /\ size = 0

TakeTail ==
    /\ AtHead /\ Tailed /\ At(Len(Unit) + 1)
    /\ at' = "next"
    /\ UNCHANGED <<style, units, u, got, pos, size, here, fileend, omem, given>>

\* a callback is called with m in omem; it may end the reading
Callback(m) ==
    /\ given' = Append(given, m)
    /\ at' \in {"parse", "stopped"}

TakeEnd(n) ==
    /\ AtHead /\ At(n) /\ Unit[n].hid = "end"
    /\ Callback(<<<<u, n>>>>)
    /\ pos' = pos + 1
    /\ UNCHANGED <<style, units, u, got, size, here, fileend, omem>>

\* the body of a block from p on, if all of it is in the buffer
Body(n, p) == IF p + Unit[n].body <= got THEN <<u, n>> ELSE <<u, 0>>
\* sis_files_uncompress clears omem or adds to it
Uncompress(n, p) == IF Unit[n].zip THEN <<Body(n, p)>> ELSE Append(omem, Body(n, p))
DeliverAt(n, p) ==
    /\ Callback(Uncompress(n, p))
    /\ omem' = IF Emptied(Unit[n].hid) THEN <<>> ELSE Uncompress(n, p)
    /\ pos' = p + Unit[n].body /\ size' = 0
    /\ UNCHANGED <<style, units, u, got, here, fileend>>

\* a head; its block follows if all of it is there
TakeHead(n) ==
    LET b == Unit[n]
        p == pos + 1 + LenSize(b.body) IN
    /\ AtHead /\ At(n) /\ b.hid # "end"
    /\ IF got - p >= b.body
       THEN DeliverAt(n, p)
       ELSE /\ pos' = p /\ size' = b.body /\ here' = n /\ at' = "read"
            /\ UNCHANGED <<style, units, u, got, fileend, omem, given>>

TakeBody ==
    /\ at = "parse" /\ Buffered >= MinBuffer /\ size > 0
    /\ DeliverAt(here, pos)

TextNext ==
    \/ Read \/ ParseEnd \/ NextUnit \/ TakeTail \/ TakeBody
    \/ \E n \in Ids(Unit) : TakeEnd(n) \/ TakeHead(n)

TextSpec == TextInit /\ [][TextNext]_textvars

-----------------------------------------------------------------------------

\* the unit is one of the file, and no callback finds an empty buffer
TextTypeOK ==
    /\ u \in 1 .. Len(units) /\ got \in Nat /\ pos \in Nat /\ size \in Nat
    /\ fileend \in BOOLEAN /\ at \in {"read", "parse", "next", "done", "stopped"}
    /\ omem \in Seq(Nat \X Nat) /\ given \in Seq(Seq(Nat \X Nat) \ {<<>>})

BlockIds == UNION {{<<v, n>> : n \in Ids(units[v])} : v \in 1 .. Len(units)}
Following(id) == IF id[2] < Len(units[id[1]]) THEN <<id[1], id[2] + 1>> ELSE <<id[1] + 1, 1>>

\* However the pieces cut the blocks, their lengths and the tail, callbacks are called for
\* whole blocks of the file in their order, from the first one on, and those of streams and
\* indexes are given their block alone; a reading that no callback has ended ends with the
\* last block.  A unit without a tail must end in a body of MinBuffer or more for that: a
\* shorter block is not read.
ReadsWhole ==
    LET id(i) == Last(given[i]) IN
    /\ \A i \in 1 .. Len(given) :
          /\ id(i) \in BlockIds
          /\ id(i) = IF i = 1 THEN <<1, 1>> ELSE Following(id(i - 1))
          /\ style \in {"stream", "index"} => Len(given[i]) = 1
    /\ at = "done" /\ (Tailed \/ Last(Unit).body >= MinBuffer) =>
          given # <<>> /\ id(Len(given)) = <<Len(units), Len(Unit)>>
=============================================================================
