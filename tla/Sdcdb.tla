------------------------------- MODULE Sdcdb -------------------------------
(***************************************************************************)
(* The streaming dataset (src/src/workers/sdcdb): records published with   *)
(* spub are queued, compressed into blocks by the thread of the input      *)
(* queue and pushed to the list "outputs", which keeps all of a day's      *)
(* blocks.  A thread per subscriber reads the list and sends blocks, or    *)
(* what it takes from them; one more writes them to a log, from which the  *)
(* list is filled again after a crash.                                     *)
(*                                                                         *)
(* A record is written as the difference to the previous record of its key *)
(* (see BitStream): it has the value val for a receiver that does not need *)
(* a previous record, or whose previous record is base.  Values number the *)
(* publications; decoded against a wrong previous record a value becomes    *)
(* negative.                                                               *)
(***************************************************************************)
EXTENDS Integers, Sequences, SequencesExt, FiniteSetsExt

CONSTANTS
    Names,      \* names of keys
    SubKeys,    \* the keys that subscriptions name; others ask for all
    Cids,       \* connections of subscribers
    Dates,      \* work dates
    BlockMax,   \* a block is full when it holds this many records
    InitSize,   \* blocks of full size that follow an initial one
    MaxPubs, MaxEvents  \* bounds: publications; starts and crashes together

VARIABLES
    inited, stoped, date, \* date: the work date; 0 while there are no work_keys
    tables,     \* cur_sbits knows the tables; without them nothing is encoded
    inputs,     \* the input queue: values that are not yet compressed
    queued,     \* the input queue exists
    zip,        \* cur_object (no or one block), cur_size, ago_memory, last_object
    outputs,    \* the list of blocks, by position
    reader,     \* per connection its s_sdcdb_reader, or NoReader
    wlog,       \* the log's reader and file handle
    log,        \* the log file: its date, and for every "set" a list of blocks
    pubs,       \* history: the keys of the publications
    dropped,    \* history: values that a clear, a crash or a missing table lost
    fault,      \* undefined behaviour has been met; the behaviour ends
    events      \* starts and crashes so far

None == 0      \* no previous record

writer     == <<inputs, queued, zip>>
day        == <<inited, stoped, date, tables>>
hist       == <<pubs, dropped>>
streamvars == <<day, writer, outputs, reader, wlog, log, hist, fault, events>>

NoMemory == [k \in Names |-> None]
FreshZip == [cur |-> <<>>, size |-> 0, ago |-> NoMemory, last |-> 0]
NoLog    == [date |-> 0, parts |-> <<>>]

\* sdcdb_reader_create
NewReader(kind, k, ishead) ==
    [kind |-> kind, key |-> k, ishead |-> ishead,
     open |-> FALSE, isinit |-> FALSE, pos |-> 0,
     since |-> 0,                                    \* history: pos at the latest start
     mem |-> NoMemory,                               \* of sub_unziper
     ziper |-> [made |-> FALSE, linked |-> FALSE, init |-> TRUE, size |-> 0, ago |-> NoMemory],
     far |-> NoMemory, got |-> <<>>]                 \* the client: its memory, what it got
NoReader == NewReader("none", None, FALSE)
There(rd) == rd # NoReader

StreamInit ==
    /\ inited = FALSE /\ stoped = FALSE /\ date = 0 /\ tables = FALSE
    /\ inputs = <<>> /\ queued = FALSE /\ zip = FreshZip
    /\ outputs = <<>> /\ reader = [c \in Cids |-> NoReader]
    /\ wlog = [isinit |-> FALSE, started |-> FALSE, open |-> FALSE, pos |-> 0]
    /\ log = NoLog /\ pubs = <<>> /\ dropped = {} /\ fault = FALSE
    /\ events = 0

-----------------------------------------------------------------------------
(* Compression, record by record *)

Wrong(v) == v < 0
KeyOf(v) == pubs[IF Wrong(v) THEN -v ELSE v]

EncodeRec(z, v) ==
    LET k == KeyOf(v)
    IN  [recs |-> Append(z.recs, [zip |-> z.ago[k] # None, base |-> z.ago[k], val |-> v]),
         ago |-> [z.ago EXCEPT ![k] = v]]
EncodeSeq(vals, ago) ==
    LET done[n \in 0 .. Len(vals)] ==
            IF n = 0 THEN [recs |-> <<>>, ago |-> ago] ELSE EncodeRec(done[n - 1], vals[n])
    IN  done[Len(vals)]

DecodeRec(d, r) ==
    LET k == KeyOf(r.val)
        v == IF r.zip /\ d.ago[k] # r.base /\ ~Wrong(r.val) THEN -r.val ELSE r.val
    IN  [vals |-> Append(d.vals, v), ago |-> [d.ago EXCEPT ![k] = v]]

\* sdcdb_worker_unzip_set: the memory is flushed by an initial block
Unzip(block, ago) ==
    LET done[n \in 0 .. Len(block.recs)] ==
            IF n = 0 THEN [vals |-> <<>>, ago |-> IF block.init THEN NoMemory ELSE ago]
            ELSE DecodeRec(done[n - 1], block.recs[n])
    IN  done[Len(block.recs)]

ValuesOf(blocks) == {r.val : r \in UNION {Range(blocks[i].recs) : i \in DOMAIN blocks}}
Current == ValuesOf(zip.cur)

-----------------------------------------------------------------------------
(* The input side *)

\* mutation: the sender goes on with its memory in an initial block
NewBlockKeeps(z, isinit, at) ==
    IF isinit \/ z.size > InitSize
      THEN [cur |-> <<[init |-> TRUE, recs |-> <<>>]>>, size |-> 1, ago |-> z.ago, last |-> at]
      ELSE [z EXCEPT !.cur = <<[init |-> FALSE, recs |-> <<>>]>>, !.size = @ + 1]

(* _sdcdb_new_data.  last_object names the newest initial block from the    *)
(* time it is made, before it is in the list, where its place will be "at". *)
NewBlock(z, isinit, at) ==
    IF isinit \/ z.size > InitSize
      THEN [cur |-> <<[init |-> TRUE, recs |-> <<>>]>>, size |-> 1, ago |-> NoMemory, last |-> at]
      ELSE [z EXCEPT !.cur = <<[init |-> FALSE, recs |-> <<>>]>>, !.size = @ + 1]

\* _sdcdb_get_data
Opened == IF zip.cur = <<>> THEN NewBlock(zip, TRUE, Len(outputs) + 1) ELSE zip

\* the current block goes to the list and a new one is begun
PushBlock(z) ==
    /\ outputs' = Append(outputs, z.cur[1])
    /\ zip' = NewBlock(z, FALSE, Len(outputs) + 2)

(* _sdcdb_write, by spub or ipub                                            *)
Publish(k) ==
    /\ inited /\ ~stoped
    /\ Len(pubs) < MaxPubs
    /\ pubs' = Append(pubs, k)
    /\ inputs' = Append(inputs, Len(pubs) + 1)
    /\ queued' = TRUE
    /\ dropped' = IF tables THEN dropped ELSE dropped \cup {Len(pubs) + 1}
    /\ UNCHANGED <<day, zip, outputs, reader, wlog, log, fault, events>>

(* cb_input_reader with a record: without tables it is not encoded          *)
InputRecord ==
    /\ inputs # <<>>
    /\ inputs' = Tail(inputs)
    /\ LET z == Opened
           e == EncodeRec([recs |-> z.cur[1].recs, ago |-> z.ago], Head(inputs))
           full == [z EXCEPT !.cur[1].recs = e.recs, !.ago = e.ago]
       IN  IF ~tables THEN zip' = z /\ UNCHANGED outputs
           ELSE IF Len(full.cur[1].recs) >= BlockMax THEN PushBlock(full)
           ELSE zip' = full /\ UNCHANGED outputs
    /\ UNCHANGED <<day, queued, reader, wlog, log, hist, fault, events>>

(* cb_input_reader after a while without records                            *)
InputTimeout ==
    /\ queued /\ inputs = <<>>
    /\ IF Opened.cur[1].recs # <<>> THEN PushBlock(Opened) ELSE zip' = Opened /\ UNCHANGED outputs
    /\ UNCHANGED <<day, inputs, queued, reader, wlog, log, hist, fault, events>>

-----------------------------------------------------------------------------
(* Subscribers *)

\* kinds: "whole", zsub *.*; "filter", zsub of one key; "plain", sub of one key
Wants(rd, v) == rd.kind = "whole" \/ KeyOf(v) = rd.key

\* cb_unzip_reply takes from a block, record by record, what was asked for
Chosen(rd, vals) ==
    LET done[n \in 0 .. Len(vals)] ==
            IF n = 0 THEN <<>>
            ELSE IF Wants(rd, vals[n]) THEN Append(done[n - 1], vals[n]) ELSE done[n - 1]
    IN  done[Len(vals)]

(* sdcdb_reader_realtime_start: a second start clears the compressor, which *)
(* then has no buffer to write to.  The client begins anew with the message *)
(* of the start.                                                            *)
RealtimeStart(rd, pos) ==
    [rd EXCEPT !.open = TRUE, !.isinit = FALSE, !.pos = pos, !.since = pos,
               !.mem = NoMemory, !.far = NoMemory, !.got = <<>>,
               !.ziper = IF rd.ziper.made THEN [@ EXCEPT !.linked = FALSE, !.ago = NoMemory]
                         ELSE [@ EXCEPT !.made = TRUE, !.linked = TRUE]]

(* zsub and sub for today's data: an older subscription of the connection   *)
(* is removed, and the new one starts now or with the next start.           *)
Subscribe(c, kind, k, ishead) ==
    /\ ~stoped
    /\ LET rd == NewReader(kind, k, ishead)
       IN  reader' = [reader EXCEPT ![c] = IF inited THEN RealtimeStart(rd, 0) ELSE rd]
    /\ UNCHANGED <<day, writer, outputs, wlog, log, hist, fault, events>>

Unsubscribe(c) ==
    /\ There(reader[c])
    /\ reader' = [reader EXCEPT ![c] = NoReader]
    /\ UNCHANGED <<day, writer, outputs, wlog, log, hist, fault, events>>

\* the client receives a block
Receive(rd, block) ==
    LET d == Unzip(block, rd.far)
    IN  [rd EXCEPT !.far = d.ago, !.got = @ \o d.vals]

(* cb_unzip_reply at the end of a block: what was asked for is compressed   *)
(* again and sent, and the compressor begins a new block (zip_flush).       *)
SendFiltered(rd, vals) ==
    IF vals = <<>> THEN rd
    ELSE LET z == rd.ziper
             e == EncodeSeq(vals, z.ago)
             restart == z.size > InitSize
         IN  [Receive(rd, [init |-> z.init, recs |-> e.recs]) EXCEPT
                !.ziper = [z EXCEPT !.init = restart,
                                    !.size = IF restart THEN 0 ELSE @ + 1,
                                    !.ago = IF restart THEN NoMemory ELSE e.ago]]

(* cb_output_reader_send                                                    *)
Send(rd, block) ==
    IF rd.kind = "whole" THEN Receive(rd, block)
    ELSE LET d == Unzip(block, rd.mem)
             mine == Chosen(rd, d.vals)
             read == [rd EXCEPT !.mem = d.ago]
         IN  IF rd.kind = "plain" THEN [read EXCEPT !.got = @ \o mine]
             ELSE SendFiltered(read, mine)

(* cb_output_reader: a reader begins with an initial block, and unless it   *)
(* asked for the head, with the newest one.                                 *)
ReadOutput(c) ==
    /\ There(reader[c]) /\ reader[c].open /\ reader[c].pos < Len(outputs)
    /\ LET rd == reader[c]
           at == rd.pos + 1
           begins == outputs[at].init /\ (rd.ishead \/ zip.last = at)
           sends == rd.isinit \/ begins
           next == IF sends THEN Send([rd EXCEPT !.isinit = TRUE], outputs[at]) ELSE rd
       IN  /\ reader' = [reader EXCEPT ![c] = [next EXCEPT !.pos = at]]
           /\ fault' = (sends /\ rd.kind = "filter" /\ ~rd.ziper.linked
                        /\ \E v \in ValuesOf(<<outputs[at]>>) : Wants(rd, v))
    /\ UNCHANGED <<day, writer, outputs, wlog, log, hist, events>>

-----------------------------------------------------------------------------
(* The log *)

(* cb_wlog_reader.  A file that is not open takes nothing.                  *)
WriteLog ==
    /\ wlog.pos < Len(outputs)
    /\ LET block == outputs[wlog.pos + 1]
           takes == wlog.isinit \/ block.init
           begins == takes /\ ~wlog.started
       IN  /\ wlog' = [wlog EXCEPT !.pos = @ + 1, !.isinit = takes,
                                   !.started = @ \/ takes, !.open = @ \/ begins]
           /\ log' = IF begins
                       THEN [date |-> IF log = NoLog THEN date ELSE log.date,
                             parts |-> Append(log.parts, <<block>>)]
                     ELSE IF takes /\ wlog.open
                       THEN [log EXCEPT !.parts[Len(log.parts)] = Append(@, block)]
                     ELSE log
    /\ UNCHANGED <<day, writer, outputs, reader, hist, fault, events>>

-----------------------------------------------------------------------------
(* Days *)

\* sis_lock_list_clear frees nodes that a reader may still stand on
Lagging(readers) ==
    \/ wlog.pos < Len(outputs)
    \/ \E c \in Cids : There(readers[c]) /\ readers[c].open /\ readers[c].pos < Len(outputs)

(* cmd_sdcdb_start with keys and tables that were set since the last start:  *)
(* _sdcdb_write_init.  The queue is cleared without its read end, so that   *)
(* it must be empty; with an unchanged date the tables are not set again.   *)
StartDay(d) ==
    /\ events < MaxEvents
    /\ events' = events + 1
    /\ fault' = (inputs # <<>> \/ Lagging(reader))
    /\ inited' = TRUE /\ stoped' = FALSE
    /\ date' = d /\ tables' = (d # date)
    /\ zip' = FreshZip /\ outputs' = <<>>
    /\ wlog' = IF d # date THEN [wlog EXCEPT !.isinit = FALSE, !.started = FALSE, !.pos = 0]
               ELSE [wlog EXCEPT !.pos = 0]
    /\ dropped' = 1 .. Len(pubs)
    /\ reader' = [c \in Cids |-> IF ~There(reader[c]) THEN NoReader ELSE RealtimeStart(reader[c], 0)]
    /\ UNCHANGED <<inputs, queued, log, pubs>>

(* cmd_sdcdb_start without them: _sdcdb_write_init fails and leaves all as   *)
(* it is, and yet every subscriber is started, an open reader where it       *)
(* stands and a closed one at the head.  Before the first start the command *)
(* fails as well.                                                           *)
StartFails ==
    /\ inited /\ events < MaxEvents
    /\ events' = events + 1
    /\ reader' = [c \in Cids |->
                     LET rd == reader[c]
                     IN  IF ~There(rd) THEN NoReader
                         ELSE RealtimeStart(rd, IF rd.open THEN rd.pos ELSE 0)]
    /\ UNCHANGED <<day, writer, outputs, wlog, log, hist, fault>>

(* cmd_sdcdb_stop: the subscribers' readers are closed, the log is closed   *)
(* and removed.                                                             *)
Stop ==
    /\ inited /\ ~stoped
    /\ stoped' = TRUE
    /\ reader' = [c \in Cids |-> IF ~There(reader[c]) THEN NoReader ELSE [reader[c] EXCEPT !.open = FALSE]]
    /\ wlog' = [wlog EXCEPT !.open = FALSE]
    /\ log' = NoLog
    /\ UNCHANGED <<inited, date, tables, writer, outputs, hist, fault, events>>

(* cmd_sdcdb_clear tests its mode the wrong way round: every mode but       *)
(* "reader" removes subscriptions, every mode but "catch" the data.         *)
ClearData(mode, gone) ==
    /\ LET kept == [c \in Cids |-> IF mode # "reader" /\ c \in gone THEN NoReader ELSE reader[c]]
       IN  IF mode = "catch"
             THEN reader' = kept /\ UNCHANGED <<zip, outputs, wlog, dropped, fault>>
             ELSE /\ fault' = Lagging(kept)
                  /\ zip' = [zip EXCEPT !.cur = <<>>, !.last = 0]
                  /\ dropped' = dropped \cup ValuesOf(outputs) \cup Current
                  /\ outputs' = <<>>
                  /\ wlog' = [wlog EXCEPT !.pos = 0]
                  /\ reader' = [c \in Cids |-> IF ~There(kept[c]) THEN NoReader
                                               ELSE [kept[c] EXCEPT !.pos = 0, !.since = 0]]
    /\ UNCHANGED <<day, inputs, queued, log, pubs, events>>

\* mutation: the blocks that come from the log are written to it again
LogFromHead(loaded) == 0

\* sdcdb_init opens the log's reader at the tail when a log was loaded
LogFrom(loaded) == Len(loaded)

(* The process is killed and starts again (sdcdb_init).  Loading the log,   *)
(* every "set" begins as a start does: the blocks before it are cleared,    *)
(* and from the second one on the date is known and the tables are not set. *)
Restart ==
    /\ events < MaxEvents
    /\ events' = events + 1
    /\ LET n == Len(log.parts)
           loaded == IF n = 0 THEN <<>> ELSE log.parts[n]
           initial == {i \in DOMAIN loaded : loaded[i].init}
       IN  /\ inited' = (n > 0) /\ tables' = (n = 1)
           /\ date' = log.date
           /\ outputs' = loaded
           /\ zip' = [FreshZip EXCEPT !.last = IF initial = {} THEN 0 ELSE Max(initial)]
           /\ wlog' = [isinit |-> FALSE, started |-> FALSE, open |-> FALSE,
                       pos |-> LogFrom(loaded)]
           /\ dropped' = (1 .. Len(pubs)) \ ValuesOf(loaded)
    /\ stoped' = FALSE /\ inputs' = <<>> /\ queued' = FALSE
    /\ reader' = [c \in Cids |-> NoReader]
    /\ UNCHANGED <<log, pubs, fault>>

StreamNext ==
    /\ ~fault
    /\ \/ \E k \in Names : Publish(k)
       \/ InputRecord \/ InputTimeout
       \/ \E c \in Cids : \/ \E ishead \in BOOLEAN :
                              \/ Subscribe(c, "whole", None, ishead)
                              \/ \E kind \in {"filter", "plain"}, k \in SubKeys :
                                    Subscribe(c, kind, k, ishead)
                           \/ Unsubscribe(c)
                           \/ ReadOutput(c)
       \/ WriteLog
       \/ \E d \in Dates : StartDay(d)
       \/ StartFails
       \/ Stop
       \/ ClearData("reader", {})
       \/ \E mode \in {"catch", "all"}, gone \in SUBSET Cids : ClearData(mode, gone)
       \/ Restart

StreamSpec == StreamInit /\ [][StreamNext]_streamvars

-----------------------------------------------------------------------------
Increasing(s) == \A i \in 1 .. Len(s) - 1 : s[i] < s[i + 1]

(* What a subscriber has got is what was published, each record once and in *)
(* order, decoded right, though it passed through a queue, two or three     *)
(* compressions and a log: from the first record it got on, or from the     *)
(* first of the day for a subscriber who asked for the head and was not     *)
(* started again in the middle, it lacks no record that is not still on its *)
(* way and that it wants.                                                   *)
SubscribersDecode ==
    \A c \in Cids :
        (~fault /\ There(reader[c]) /\ reader[c].open) =>
            LET rd == reader[c]
                coming == ValuesOf(SubSeq(outputs, rd.pos + 1, Len(outputs))) \cup Current
                          \cup Range(inputs)
                first == IF rd.ishead /\ rd.since = 0 THEN 1
                         ELSE IF rd.got = <<>> THEN Len(pubs) + 1 ELSE Head(rd.got)
            IN  /\ Increasing(rd.got)
                /\ \A v \in Range(rd.got) : ~Wrong(v) /\ Wants(rd, v)
                /\ \A v \in (first .. Len(pubs)) \ dropped :
                      Wants(rd, v) => v \in Range(rd.got) \cup coming

\* what one who has nothing before them reads from each of the blocks
Unzipped(blocks) ==
    LET done[n \in 0 .. Len(blocks)] ==
            IF n = 0 THEN [vals |-> <<>>, ago |-> NoMemory] ELSE Unzip(blocks[n], done[n - 1].ago)
    IN  [n \in DOMAIN blocks |-> done[n].vals]

(* The log can be read back: every part of it decodes without the parts     *)
(* before it, no record is in it twice, whatever crashes and starts there   *)
(* were, and until the day is stopped it has all its reader has passed.     *)
LogDecodes ==
    LET had == [p \in DOMAIN log.parts |-> Unzipped(log.parts[p])]
    IN  ~fault =>
        /\ \A p \in DOMAIN had : \A i \in DOMAIN had[p] :
              /\ Increasing(had[p][i]) /\ \A v \in Range(had[p][i]) : ~Wrong(v)
              /\ \A q \in DOMAIN had : \A j \in DOMAIN had[q] : (p < q \/ (p = q /\ i < j)) =>
                    \A v \in Range(had[p][i]), w \in Range(had[q][j]) : v < w
        /\ (inited /\ ~stoped) => \A v \in ValuesOf(SubSeq(outputs, 1, wlog.pos)) :
              \E p \in DOMAIN had : \E i \in DOMAIN had[p] : v \in Range(had[p][i])
=============================================================================
