------------------------------ MODULE EepromLog ------------------------------
(***************************************************************************)
(* The record log in the serial EEPROM (faia/services/datalogger): a ring  *)
(* of fixed-size records between two iterators LOG_BEGIN and LOG_END.      *)
(* dl_task_store_data appends; send_data_with_post walks back from the end *)
(* and flags what the server accepted.  Both run in the main program, one  *)
(* after the other, so their only concurrency is with a reset, which may   *)
(* come between any two EEPROM transactions, those that format an empty    *)
(* chip included, and with each other between the iterations of a pass.    *)
(* A record is a function from offsets to bytes: its last byte is the sent *)
(* flag, the others stand for its time stamp.  A slot of the ring holds    *)
(* one record; a slot may straddle two pages of the chip.                  *)
(***************************************************************************)
EXTENDS RecordRing, Sequences, Functions

CONSTANTS
  Page,       \* page size of the chip: the LSB of an address is its offset
  QueueLen,   \* QUEUE_LEN: records in one post
  Window,     \* a real-time pass goes this far back in time
  MaxStamp,   \* bound: records stored in a behaviour
  MaxResets   \* bound: resets in a behaviour

ASSUME LogAssumption ==
  /\ First \in Nat /\ Last \in Nat /\ Item \in Nat /\ Page \in Nat \ {0}
  /\ Item >= 2 /\ First >= Item /\ First + 2 * Item <= Last
  /\ QueueLen \in Nat \ {0} /\ Window \in Nat /\ MaxStamp \in Nat
  /\ MaxResets \in Nat
  /\ First % Page \notin 1..(Item - 1)  \* 256: the first record starts a page

Offsets == 0..(Item - 1)
FlagByte == Item - 1
Passes == {"send_RT", "send_data"}

\* Each iterator is saved in a ring of cells of which the one before the first
\* Tag is current; the second ring begins 8 bytes, two cells, after the first.
Iterators == {"begin", "end"}
Tag == -1      \* 0xFAFAFAFA
Erased == -2   \* 0xFFFFFFFF
RingLen == 8   \* DL_ITER_CBUFFER_LEN
Ring == 0..(RingLen - 1)
CellOf(w, i) == IF w = "begin" THEN i ELSE i + 2
Cells == 0..9

LSB(a) == a % Page

\* AT24CXX_iterator_add(it, sizeof(DL_LOG_ITEM)) and the wrap that follows it
After(a) == IF a + Item > Last THEN First ELSE a + Item

VARIABLES
  pc,         \* where the main program is
  mem,        \* mem[slot][offset]: the EEPROM from First on
  cells,      \* the cells of the iterators in the EEPROM, from address 4 on
  marked,     \* does the EEPROM begin with the mark of a formatted one?
  fmt,        \* cells formatted so far
  clock,      \* the RTC, advanced by one with each record
  slot,       \* address that dl_task_store_data writes to
  iter_send,  \* iter_send of the two DL_SEND_PARAMS, 0: no pass
  dt_end,     \* dl_send_params_RT.dt_end; dl_send_params.dt_end is never read
  ready,      \* passes whose task status is READY
  pass,       \* the pass whose send_data_with_post runs
  iter,       \* local iter
  q,          \* local q: slots whose flag will be written, in this order
  resets,     \* resets so far
  batch,      \* local szBuf: the data of the records in the post being built
  server      \* auxiliary: the data that the server has accepted

stored == << mem, cells, marked, fmt >>
ram == << begin, end, slot, iter_send, dt_end, ready, pass, it, iter, q, ds >>
sent == << batch, server >>
vars == << pc, mem, cells, marked, fmt, begin, end, slot, iter_send, dt_end, ready, pass, it,
           iter, q, ds, clock, resets, batch, server >>

Stamps == 0..MaxStamp
DataOffsets == Offsets \ {FlagByte}
Blank == [o \in Offsets |-> 0]
NewRecord(t) == [o \in Offsets |-> IF o = FlagByte THEN 0 ELSE t]

Points == {"boot", "format", "reformat", "idle",
           "write", "write2", "save_begin", "tag_begin", "save_end", "tag_end",
           "scan", "scanned", "post", "flag"}

TypeOK ==
  /\ pc \in Points
  /\ mem \in [Slots -> [Offsets -> Stamps]]
  /\ cells \in [Cells -> Slots \cup {Tag, Erased}]
  /\ marked \in BOOLEAN /\ fmt \in 0..(2 * RingLen)
  /\ begin \in Slots \cup {Erased} /\ end \in Slots \cup {Erased} /\ slot \in Slots
  /\ clock \in Stamps
  /\ iter_send \in [Passes -> Slots \cup {0}]
  /\ dt_end \in Int
  /\ ready \subseteq Passes /\ pass \in Passes
  /\ it \in Slots /\ iter \in 0..QueueLen
  /\ Range(q) \subseteq Slots /\ Len(q) <= QueueLen
  /\ ds \in [Offsets -> Stamps]
  /\ resets \in 0..MaxResets
  /\ batch \subseteq [DataOffsets -> Stamps] /\ server \subseteq [DataOffsets -> Stamps]

Init ==
  /\ pc = "boot" /\ clock = 0 /\ resets = 0
  /\ mem = [s \in Slots |-> Blank]
  /\ cells = [c \in Cells |-> Erased] /\ marked = FALSE /\ fmt = 0
  /\ begin = Erased /\ end = Erased /\ slot = First
  /\ iter_send = [p \in Passes |-> 0] /\ dt_end = 0
  /\ ready = {} /\ pass = "send_RT"
  /\ it = First /\ iter = 0 /\ q = << >> /\ ds = Blank
  /\ batch = {} /\ server = {}

\* A reset or a power failure.
Reset ==
  /\ resets < MaxResets /\ resets' = resets + 1
  /\ pc' = "boot" /\ fmt' = 0
  /\ begin' = Erased /\ end' = Erased /\ slot' = First
  /\ iter_send' = [p \in Passes |-> 0] /\ dt_end' = 0
  /\ ready' = {} /\ pass' = "send_RT"
  /\ it' = First /\ iter' = 0 /\ q' = << >> /\ ds' = Blank
  /\ batch' = {}
  /\ UNCHANGED << mem, cells, marked, clock, server >>

(***************************************************************************)
(* The iterators in the EEPROM.                                            *)
(***************************************************************************)
Tagged(w, i) == cells[CellOf(w, i)] = Tag
FirstTag(w) == CHOOSE i \in Ring : Tagged(w, i) /\ \A j \in 0..(i - 1) : ~Tagged(w, j)
TagCell(w) == CellOf(w, FirstTag(w))
Current(w) == CellOf(w, (FirstTag(w) - 1) % RingLen)

\* datalogger_read_iterators_from_eeprom
Found(w) == IF \E i \in Ring : Tagged(w, i) THEN cells[Current(w)] ELSE Erased

\* datalogger_init has the chip, or the cells, to format.
Unset == ~marked \/ \E w \in Iterators : Found(w) = Erased

\* datalogger_init formats the chip, or the cells, or takes what they hold.
Boot ==
  /\ pc = "boot"
  /\ IF Unset
     THEN /\ pc' = IF marked THEN "reformat" ELSE "format"
          /\ marked' = TRUE
          /\ begin' = First /\ end' = First
     ELSE /\ pc' = "idle" /\ begin' = Found("begin") /\ end' = Found("end")
          /\ UNCHANGED marked
  /\ UNCHANGED << mem, cells, fmt, slot, iter_send, dt_end, ready, pass, it, iter, q, ds,
                  clock, resets, sent >>

\* datalogger_init_iterators_to_eeprom, cell by cell
FormatCell(here, next) ==
  LET w == IF fmt < RingLen THEN "begin" ELSE "end"
      i == fmt % RingLen
  IN  /\ pc = here
      /\ cells' = [cells EXCEPT ![CellOf(w, i)] =
           IF i > 0 THEN Tag ELSE IF w = "begin" THEN begin ELSE end]
      /\ IF fmt + 1 < 2 * RingLen
         THEN fmt' = fmt + 1 /\ UNCHANGED pc
         ELSE fmt' = 0 /\ pc' = next
      /\ UNCHANGED << mem, marked, ram, clock, resets, sent >>

\* datalogger_reset_eeprom, after which the iterators are read back
Format == FormatCell("format", "boot")
Reformat == FormatCell("reformat", "idle")

\* datalogger_write_iterators_to_eeprom for one iterator: its value, unless it
\* is there already, then the tag behind it.
SaveValue(w, value, here, tag, next) ==
  /\ pc = here
  /\ IF Found(w) = value
     THEN pc' = next /\ UNCHANGED cells
     ELSE pc' = tag /\ cells' = [cells EXCEPT ![Current(w)] = value]
  /\ UNCHANGED << mem, marked, fmt, ram, clock, resets, sent >>

SaveTag(w, here, next) ==
  /\ pc = here /\ pc' = next
  /\ cells' = [cells EXCEPT ![TagCell(w)] = Tag]
  /\ UNCHANGED << mem, marked, fmt, ram, clock, resets, sent >>

(***************************************************************************)
(* dl_task_store_data: the iterators in RAM move first, then the record is *)
(* written in one or two page writes, then BEGIN and END are saved.        *)
(***************************************************************************)
\* Mutant: the log catches up with its own beginning.
MovedBeginNever == begin

MovedBegin == IF After(end) = begin THEN After(After(end)) ELSE begin

StoreMove ==
  /\ pc = "idle" /\ clock < MaxStamp
  /\ clock' = clock + 1
  /\ slot' = end /\ end' = After(end)
  /\ begin' = MovedBegin
  /\ pc' = "write"
  /\ UNCHANGED << stored, iter_send, dt_end, ready, pass, it, iter, q, ds, resets, sent >>

\* Bytes of the new record that go to the page of its first byte: all of them
\* unless the LSB of the new END says that the record straddles two pages.
FirstPart == IF LSB(end) \in 1..(Item - 1) THEN Item - LSB(end) ELSE Item

StoreWrite ==
  /\ pc = "write"
  /\ mem' = [mem EXCEPT ![slot] =
       [o \in Offsets |-> IF o < FirstPart THEN NewRecord(clock)[o] ELSE @[o]]]
  /\ pc' = IF FirstPart < Item THEN "write2" ELSE "save_begin"
  /\ UNCHANGED << cells, marked, fmt, ram, clock, resets, sent >>

StoreWrite2 ==
  /\ pc = "write2"
  /\ mem' = [mem EXCEPT ![slot] =
       [o \in Offsets |-> IF o >= FirstPart THEN NewRecord(clock)[o] ELSE @[o]]]
  /\ pc' = "save_begin"
  /\ UNCHANGED << cells, marked, fmt, ram, clock, resets, sent >>

SaveBegin == SaveValue("begin", begin, "save_begin", "tag_begin", "save_end")
TagBegin == SaveTag("begin", "tag_begin", "save_end")
SaveEnd == SaveValue("end", end, "save_end", "tag_end", "idle")
TagEnd == SaveTag("end", "tag_end", "idle")

(***************************************************************************)
(* Reading.  dl_get_record looks at the LSB of the record's own address:   *)
(* for 1..Item-1 it reads the last LSB bytes from the start of that page,  *)
(* which holds the tail of the record before.                              *)
(***************************************************************************)
\* Bytes that it reads from the record itself.
Own(a) == IF LSB(a) \in 1..(Item - 1) THEN Item - LSB(a) ELSE Item

Read(a) == [o \in Offsets |-> IF o < Own(a) THEN mem[a][o] ELSE mem[a - Item][o]]

\* What a post says of a record that was read: all but its flag.
Data(r) == Restrict(r, DataOffsets)

(***************************************************************************)
(* Transmission.  dl_task_send_data_prepare_RT starts a pass at the end of *)
(* the log; a GET_BY_DATE_RANGE command starts one at a record that        *)
(* dl_search_record_by_date found.                                         *)
(***************************************************************************)
PrepareRT ==
  /\ pc = "idle"
  /\ iter_send' = [iter_send EXCEPT !["send_RT"] = end]
  /\ dt_end' = clock - Window
  /\ ready' = ready \cup {"send_RT"}
  /\ UNCHANGED << pc, stored, begin, end, slot, pass, it, iter, q, ds, clock,
                  resets, sent >>

GetByDateRange ==
  /\ pc = "idle" /\ begin # end
  /\ \E found \in Between(begin, end) \cup {end} :
       iter_send' = [iter_send EXCEPT !["send_data"] = found]
  /\ ready' = ready \cup {"send_data"}
  /\ UNCHANGED << pc, stored, begin, end, slot, dt_end, pass, it, iter, q, ds, clock,
                  resets, sent >>

\* quit_senddatapost_task
Quit(p) ==
  /\ pc' = "idle"
  /\ ready' = ready \ {p}
  /\ iter_send' = [iter_send EXCEPT ![p] = 0]

NothingLeft(p) ==
  /\ pc = "idle" /\ p \in ready /\ iter_send[p] = begin
  /\ Quit(p)
  /\ UNCHANGED << stored, begin, end, slot, dt_end, pass, it, iter, q, ds, clock,
                  resets, sent >>

SendStart(p) ==
  /\ pc = "idle" /\ p \in ready /\ iter_send[p] # begin
  /\ pc' = "scan" /\ pass' = p
  /\ it' = iter_send[p] /\ iter' = 0 /\ q' = << >> /\ batch' = {}
  /\ UNCHANGED << stored, begin, end, slot, iter_send, dt_end, ready, ds, clock,
                  resets, server >>

\* Mutant: the wrong offset for the flag.
SentOffByOne(r) == r[FlagByte - 1] # 0

TooOld(r) == r[0] < dt_end
Sent(r) == r[FlagByte] # 0

Scan ==
  /\ pc = "scan" /\ iter < QueueLen /\ it # begin
  /\ it' = MoveBack(it, 1) /\ ds' = Read(it')
  /\ \/ /\ TooOld(ds')
        /\ pc' = "scanned" /\ UNCHANGED << iter, q, batch >>
     \/ /\ ~TooOld(ds') /\ pass = "send_RT" /\ Sent(ds')
        /\ UNCHANGED << pc, iter, q, batch >>
     \/ /\ ~TooOld(ds') /\ ~(pass = "send_RT" /\ Sent(ds'))
        /\ iter' = iter + 1 /\ batch' = batch \cup {Data(ds')}
        /\ q' = IF Sent(ds') THEN q ELSE Append(q, it')
        /\ UNCHANGED pc
  /\ UNCHANGED << stored, begin, end, slot, iter_send, dt_end, ready, pass, clock,
                  resets, server >>

ScanEnds ==
  /\ pc = "scanned" \/ (pc = "scan" /\ (iter = QueueLen \/ it = begin))
  /\ IF iter = 0
     THEN Quit(pass)
     ELSE /\ pc' = "post" /\ iter_send' = [iter_send EXCEPT ![pass] = it]
          /\ UNCHANGED ready
  /\ UNCHANGED << stored, begin, end, slot, dt_end, pass, it, iter, q, ds, clock,
                  resets, sent >>

PostSucceeds ==
  /\ pc = "post" /\ pc' = "flag"
  /\ server' = server \cup batch
  /\ UNCHANGED << stored, ram, clock, resets, batch >>

\* Mutant: the error of sim900_http_post is not looked at.
PostFailsIgnored ==
  /\ pc = "post" /\ pc' = "flag"
  /\ UNCHANGED << stored, ram, clock, resets, sent >>

PostFails ==
  /\ pc = "post" /\ Quit(pass)
  /\ UNCHANGED << stored, begin, end, slot, dt_end, pass, it, iter, q, ds, clock,
                  resets, sent >>

WriteFlag ==
  /\ pc = "flag" /\ q # << >>
  /\ mem' = [mem EXCEPT ![Head(q)][FlagByte] = 1]
  /\ q' = Tail(q)
  /\ UNCHANGED << pc, cells, marked, fmt, begin, end, slot, iter_send, dt_end, ready, pass, it,
                  iter, ds, clock, resets, sent >>

\* Another iteration (99) unless the date or the beginning was reached.
SendEnds ==
  /\ pc = "flag" /\ q = << >>
  /\ IF TooOld(ds) \/ iter_send[pass] = begin
     THEN Quit(pass)
     ELSE pc' = "idle" /\ UNCHANGED << ready, iter_send >>
  /\ UNCHANGED << stored, begin, end, slot, dt_end, pass, it, iter, q, ds, clock,
                  resets, sent >>

Start == Boot \/ Format \/ Reformat

Store ==
  StoreMove \/ StoreWrite \/ StoreWrite2 \/ SaveBegin \/ TagBegin \/ SaveEnd \/ TagEnd

Send ==
  \/ \E p \in Passes : NothingLeft(p) \/ SendStart(p)
  \/ Scan \/ ScanEnds \/ PostSucceeds \/ PostFails \/ WriteFlag \/ SendEnds

Next == Start \/ Store \/ PrepareRT \/ GetByDateRange \/ Send \/ Reset

SafetySpec == Init /\ [][Next]_vars

\* Tasks terminate, each ready task has its turn in every pass of the main loop
\* and transmissions are prepared again and again (see Scheduler); of the
\* real-time posts tried again and again some succeed.
Spec ==
  /\ SafetySpec
  /\ WF_vars(Start) /\ WF_vars(Store) /\ WF_vars(Send)
  /\ \A p \in Passes : SF_vars(NothingLeft(p) \/ SendStart(p))
  /\ SF_vars(PrepareRT /\ "send_RT" \notin ready)
  /\ SF_vars(PostSucceeds /\ pass = "send_RT")

(***************************************************************************)
(* Properties.                                                             *)
(***************************************************************************)
RingSize == Item * Cardinality(Slots)

\* The log from b up to, and without, e; oldest record first.
LogFrom(b, e) ==
  [i \in 1..(((e - b) % RingSize) \div Item) |->
     mem[First + ((b - First + (i - 1) * Item) % RingSize)][0]]

\* The log, and its slots, that a restart recovers.
Recovered == IF Unset THEN << >> ELSE LogFrom(Found("begin"), Found("end"))
InLog(s) == ~Unset /\ s \in Between(Found("begin"), Found("end"))

Durable == INSTANCE DurableLog WITH
  Record <- Stamps, Capacity <- Cardinality(Slots) - 1, log <- Recovered

\* Across stores, transmissions and resets at any point, and those of the first
\* boot, the recovered log only grows at its end and loses only its oldest
\* record, when it is full.  This rests on the free slot between END and BEGIN,
\* on saving BEGIN first, and on the test for erased iterators at boot, which
\* finds the cells that a reset left half formatted (datalogger.c:509).
DurableSpec == Durable!Spec

\* The server has what dl_get_record reads from the record itself: all its data
\* unless the record begins at an offset of 2..Item-1 in its page, and then its
\* first bytes, sent with the tail of the record before.
Posted(s) == \E r \in server : \A o \in DataOffsets : o < Own(s) => r[o] = mem[s][o]

\* A record of the recovered log that is flagged as sent was accepted by the
\* server, so far as dl_get_record reads it (733), whatever was interrupted: the
\* flag is never that of an older record in the slot, or of a post that failed.
FlagImpliesPosted == \A s \in Slots : mem[s][FlagByte] # 0 /\ InLog(s) => Posted(s)

\* The record whose flag a pass sees when it looks at the record at a.
FlagSeen(a) == IF Own(a) < Item THEN a - Item ELSE a

\* A real-time pass stays in the log, whatever is stored and evicted between its
\* iterations, and skips a record ("Record flag==0 means that is unsent",
\* datalogger.c:1126) only if the server has it; but of a record that begins in
\* the first Item-1 bytes of a page it sees the flag of the record before, and
\* then it is that one, if the log still holds it, which the server has.
SkipsOnlyPosted ==
  [][pc = "scan" /\ pc' = "scan" /\ iter' = iter =>
       InLog(it') /\ (InLog(FlagSeen(it')) => Posted(FlagSeen(it')))]_vars

\* Every record of the log is posted at last, or leaves the log or the window.
EveryRecordPosted ==
  \A s \in Slots :
    InLog(s) ~> Posted(s) \/ ~InLog(s) \/ mem[s][0] < clock - Window
=============================================================================
