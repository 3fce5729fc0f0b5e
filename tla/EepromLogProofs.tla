------------------------- MODULE EepromLogProofs --------------------------
(***************************************************************************)
(* Theorems about EepromLog, for every size of record, page and memory,    *)
(* any number of records and of resets, and about RecordSearch: the cells  *)
(* of the saved iterators act as two registers; a sent flag in the log     *)
(* tells the truth; the record log implements the durable log (DurableLog);*)
(* a pass stays in the log and skips what the server has; the search finds *)
(* what it should.                                                         *)
(***************************************************************************)
EXTENDS EepromLog, RecordSearch, TLAPS, FiniteSetTheorems, SequenceTheorems, WellFoundedInduction

(***************************************************************************)
(* Part 1.  The cells of the saved iterators.  Once the chip is formatted, *)
(* whatever resets came meanwhile, the two overlapping rings behave as two *)
(* registers, and every step but SaveBegin and SaveEnd leaves them alone.  *)
(***************************************************************************)
Formatting == {"format", "reformat"}
Starting == {"boot"} \cup Formatting

\* Each ring holds its iterator, then a Tag.
Formatted ==
  /\ marked /\ cells[0] \in Nat /\ cells[1] = Tag /\ cells[2] \in Nat /\ cells[3] = Tag

\* A chip on which END has not been written yet.
Fresh ==
  /\ pc \in Starting
  /\ cells[0] \in {First, Erased}
  /\ \A c \in 1..7 : cells[c] \in {Tag, Erased}
  /\ cells[8] = Erased /\ cells[9] = Erased

\* How far the formatting has come.
Progress ==
  /\ marked /\ begin = First /\ end = First /\ fmt \in 0..15
  /\ fmt >= 1 => cells[0] = First
  /\ fmt <= 8 => Fresh /\ \A c \in 1..7 : c < fmt => cells[c] = Tag
  /\ fmt >= 9 => Formatted /\ cells[2] = First

CellInv ==
  /\ cells \in [Cells -> Int]
  /\ Formatted \/ Fresh
  /\ pc \notin Starting => Formatted /\ begin \in Nat /\ end \in Nat
  /\ pc = "boot" => fmt = 0
  /\ pc \in Formatting => Progress

\* The two registers.
saved ==
  [begin |-> IF Formatted THEN cells[0] ELSE First,
   end |-> IF Formatted THEN cells[2] ELSE First]

LEMMA FirstNat == First \in Nat /\ Item \in Nat
BY LogAssumption

\* In a formatted chip both rings are found, at their first cells.
LEMMA FoundFormatted ==
  ASSUME Formatted
  PROVE  /\ Found("begin") = cells[0] /\ Found("end") = cells[2] /\ ~Unset
         /\ Current("begin") = 0 /\ Current("end") = 2
         /\ TagCell("begin") = 1 /\ TagCell("end") = 3
<1> USE DEF RingLen
<1>1. /\ ~Tagged("begin", 0) /\ Tagged("begin", 1)
      /\ ~Tagged("end", 0) /\ Tagged("end", 1)
  BY DEF Formatted, Tagged, CellOf, Tag
<1>2. FirstTag("begin") = 1
  BY <1>1 DEF FirstTag, Ring
<1>3. FirstTag("end") = 1
  BY <1>1 DEF FirstTag, Ring
<1>4. /\ Current("begin") = 0 /\ Current("end") = 2
      /\ TagCell("begin") = 1 /\ TagCell("end") = 3
  BY <1>2, <1>3 DEF Current, TagCell, CellOf
<1>5. Found("begin") = cells[0] /\ Found("end") = cells[2]
  BY <1>1, <1>4 DEF Found, Ring
<1>6. ~Unset
  BY <1>5 DEF Unset, Formatted, Iterators, Erased
<1> QED
  BY <1>4, <1>5, <1>6

\* In a fresh one END is missing, whatever a reset has left.
LEMMA FreshUnset ==
  ASSUME Fresh
  PROVE  Unset /\ ~Formatted
<1> USE DEF RingLen
<1>1. Found("end") = Erased
  <2>1. SUFFICES ASSUME \E i \in Ring : Tagged("end", i)
                 PROVE  cells[Current("end")] = Erased
    BY DEF Found
  <2>2. \E i \in Ring : Tagged("end", i) /\ \A j \in 0..(i - 1) : ~Tagged("end", j)
    <3> DEFINE T(i) == Tagged("end", i)
    <3>1. \E i \in 0..7 : T(i)
      BY <2>1 DEF Ring
    <3> HIDE DEF T
    <3>2. \E i \in 0..7 : T(i) /\ \A j \in 0..(i - 1) : ~T(j)
      BY <3>1, SMTT(30)
    <3> QED
      BY <3>2 DEF Ring, T
  <2>3. /\ FirstTag("end") \in Ring /\ Tagged("end", FirstTag("end"))
        /\ \A j \in 0..(FirstTag("end") - 1) : ~Tagged("end", j)
    BY <2>2 DEF FirstTag
  <2>4. PICK i \in 0..7 : i = FirstTag("end")
    BY <2>3 DEF Ring
  <2>5. CASE i = 0
    BY <2>4, <2>5 DEF Current, CellOf, Fresh
  <2>6. CASE i # 0
    <3>1. Current("end") = i + 1
      BY <2>4, <2>6 DEF Current, CellOf
    <3>2. ~Tagged("end", i - 1)
      BY <2>3, <2>4, <2>6
    <3>3. cells[i + 1] # Tag
      BY <3>2 DEF Tagged, CellOf
    <3> QED
      BY <2>6, <3>1, <3>3 DEF Fresh
  <2> QED
    BY <2>5, <2>6
<1> QED
  BY <1>1 DEF Unset, Iterators, Fresh, Formatted, Tag, Erased

\* What a restart recovers is what the registers hold.
LEMMA LogOfRegisters ==
  ASSUME CellInv
  PROVE  /\ Unset <=> Fresh
         /\ ~Unset => Found("begin") = saved["begin"] /\ Found("end") = saved["end"]
         /\ Fresh => saved["begin"] = First /\ saved["end"] = First
<1>1. CASE Formatted
  <2>1. ~Unset /\ ~Fresh
    BY <1>1, FoundFormatted, FreshUnset
  <2> QED
    BY <1>1, <2>1, FoundFormatted DEF saved
<1>2. CASE Fresh
  BY <1>2, FreshUnset DEF saved
<1> QED
  BY <1>1, <1>2 DEF CellInv

\* An empty chip.
LEMMA CellInit == Init => CellInv /\ Fresh
BY DEF Init, CellInv, Fresh, Starting, Formatting, Cells, Tag, Erased

(***************************************************************************)
(* What a step does to the cells.                                          *)
(***************************************************************************)
\* A cell of the formatting: when END is written the chip is formatted, empty.
LEMMA FormatCellKeeps ==
  ASSUME NEW here \in Formatting, NEW next \in {"boot", "idle"},
         CellInv, FormatCell(here, next)
  PROVE  /\ CellInv' /\ saved' = saved /\ pc' \in {here, next}
         /\ pc' = "idle" => begin' = saved["begin"] /\ end' = saved["end"]
<1> USE FirstNat DEF RingLen
<1>1. /\ pc = here /\ Progress /\ begin' = begin /\ end' = end /\ marked' = marked
      /\ fmt \in 0..15
  BY DEF CellInv, FormatCell, ram, Progress
<1> DEFINE c == CellOf(IF fmt < RingLen THEN "begin" ELSE "end", fmt % RingLen)
           v == IF fmt % RingLen > 0 THEN Tag ELSE First
<1>2. /\ cells' = [cells EXCEPT ![c] = v]
      /\ IF fmt < 15 THEN fmt' = fmt + 1 /\ pc' = pc ELSE fmt' = 0 /\ pc' = next
  BY <1>1 DEF FormatCell, Progress
<1>3. c = IF fmt < 8 THEN fmt ELSE fmt - 6
  BY <1>1 DEF CellOf
<1>4. v = IF fmt \in {0, 8} THEN First ELSE Tag
  BY <1>1
<1> HIDE DEF c, v
<1>5. c \in Cells /\ cells' \in [Cells -> Int] /\ cells'[c] = v
      /\ \A d \in Cells : d # c => cells'[d] = cells[d]
  BY <1>1, <1>2, <1>3, <1>4 DEF CellInv, Cells, Tag
<1>6. here \in Starting /\ here # "boot" /\ here # "idle"
  BY DEF Starting, Formatting
<1>7. CASE fmt < 8
  <2>1. Fresh /\ cells[0] \in {First, Erased} /\ \A d \in 1..7 : cells[d] \in {Tag, Erased}
    BY <1>1, <1>7 DEF Progress, Fresh
  <2>2. cells'[0] = First
    BY <1>1, <1>3, <1>4, <1>5, <1>7 DEF Progress, Cells
  <2>3. \A d \in 1..7 : cells'[d] \in {Tag, Erased} /\ (d < fmt + 1 => cells'[d] = Tag)
    BY <1>1, <1>3, <1>4, <1>5, <1>7, <2>1 DEF Progress, Cells
  <2>4. cells'[8] = Erased /\ cells'[9] = Erased
    BY <1>3, <1>5, <1>7, <2>1 DEF Fresh, Cells
  <2>5. fmt' = fmt + 1 /\ pc' = here
    BY <1>1, <1>2, <1>7
  <2>6. Fresh'
    BY <1>6, <2>2, <2>3, <2>4, <2>5 DEF Fresh
  <2>7. Progress'
    BY <1>1, <1>7, <2>2, <2>3, <2>5, <2>6 DEF Progress
  <2>8. CellInv'
    BY <1>5, <1>6, <2>5, <2>6, <2>7 DEF CellInv
  <2>9. ~Formatted /\ ~Formatted'
    BY <2>1, <2>3 DEF Formatted, Tag, Erased
  <2> QED
    BY <1>6, <2>5, <2>8, <2>9 DEF saved
<1>8. CASE fmt = 8
  <2>1. Fresh /\ cells[0] = First /\ cells[1] = Tag /\ cells[3] = Tag
    BY <1>1, <1>8 DEF Progress
  <2>2. cells'[0] = First /\ cells'[1] = Tag /\ cells'[2] = First /\ cells'[3] = Tag
    BY <1>3, <1>4, <1>5, <1>8, <2>1 DEF Cells
  <2>3. fmt' = 9 /\ pc' = here
    BY <1>1, <1>2, <1>8
  <2>4. Formatted'
    BY <1>1, <2>2 DEF Formatted, Progress
  <2>5. Progress'
    BY <1>1, <2>2, <2>3, <2>4 DEF Progress
  <2>6. CellInv'
    BY <1>5, <1>6, <2>3, <2>4, <2>5 DEF CellInv
  <2>7. ~Formatted
    BY <2>1 DEF Fresh, Formatted, Tag, Erased
  <2> QED
    BY <1>6, <2>2, <2>3, <2>4, <2>6, <2>7 DEF saved
<1>9. CASE fmt > 8
  <2>1. Formatted /\ cells[0] = First /\ cells[2] = First
    BY <1>1, <1>9 DEF Progress
  <2>2. cells'[0] = First /\ cells'[1] = Tag /\ cells'[2] = First /\ cells'[3] = Tag
    BY <1>1, <1>3, <1>4, <1>5, <1>9, <2>1 DEF Formatted, Cells
  <2>3. Formatted'
    BY <1>1, <2>2 DEF Formatted, Progress
  <2>4. begin' = First /\ end' = First
    BY <1>1 DEF Progress
  <2>5. CASE fmt < 15
    <3>1. fmt' = fmt + 1 /\ pc' = here
      BY <1>1, <1>2, <2>5
    <3>2. Progress'
      BY <1>1, <1>9, <2>2, <2>3, <2>5, <3>1 DEF Progress
    <3>3. CellInv'
      BY <1>5, <1>6, <2>3, <3>1, <3>2 DEF CellInv
    <3> QED
      BY <1>6, <2>1, <2>2, <2>3, <3>1, <3>3 DEF saved
  <2>6. CASE fmt = 15
    <3>1. fmt' = 0 /\ pc' = next /\ pc' \notin Formatting
      BY <1>2, <2>6 DEF Formatting
    <3>2. CellInv'
      BY <1>5, <2>3, <2>4, <3>1 DEF CellInv
    <3> QED
      BY <2>1, <2>2, <2>3, <2>4, <3>1, <3>2 DEF saved
  <2> QED
    BY <1>1, <2>5, <2>6
<1> QED
  BY <1>1, <1>7, <1>8, <1>9

\* The boot reads the registers, or finds an empty chip.
LEMMA BootKeeps ==
  ASSUME CellInv, Boot
  PROVE  /\ CellInv' /\ saved' = saved
         /\ pc' = "idle" => begin' = saved["begin"] /\ end' = saved["end"]
         /\ pc' # "idle" => pc' \in Formatting /\ begin' = First /\ end' = First
<1> USE FirstNat
<1>1. pc = "boot" /\ cells' = cells /\ fmt' = 0 /\ fmt = 0
  BY DEF Boot, CellInv
<1>2. CASE Formatted
  <2>1. pc' = "idle" /\ begin' = cells[0] /\ end' = cells[2] /\ marked' = marked
    BY <1>2, FoundFormatted DEF Boot
  <2>2. Formatted'
    BY <1>1, <1>2, <2>1 DEF Formatted
  <2>3. CellInv' /\ saved' = saved
    BY <1>1, <1>2, <2>1, <2>2 DEF CellInv, saved, Starting, Formatting, Formatted
  <2> QED
    BY <1>2, <2>1, <2>3 DEF saved
<1>3. CASE Fresh
  <2>1. /\ pc' \in Formatting /\ begin' = First /\ end' = First /\ marked'
        /\ pc' # "boot" /\ pc' # "idle"
    BY <1>3, FreshUnset DEF Boot, Formatting
  <2>2. Fresh'
    BY <1>1, <1>3, <2>1 DEF Fresh, Starting
  <2>3. ~Formatted /\ ~Formatted'
    BY <1>1, <1>3 DEF Fresh, Formatted, Tag, Erased
  <2>4. Progress'
    BY <1>1, <2>1, <2>2 DEF Progress
  <2> QED
    BY <1>1, <2>1, <2>2, <2>3, <2>4 DEF CellInv, saved, Starting
<1> QED
  BY <1>2, <1>3 DEF CellInv

\* The value goes to the register.
LEMMA SaveValueKeeps ==
  ASSUME CellInv, SaveBegin \/ SaveEnd
  PROVE  /\ CellInv'
         /\ SaveBegin => saved' = [saved EXCEPT !["begin"] = begin]
         /\ SaveEnd => saved' = [saved EXCEPT !["end"] = end]
<1>1. /\ pc \in {"save_begin", "save_end"} /\ begin' = begin /\ end' = end
      /\ marked' = marked /\ pc' \in {"tag_begin", "save_end", "tag_end", "idle"}
  BY DEF SaveBegin, SaveEnd, SaveValue, ram
<1>2. Formatted /\ begin \in Nat /\ end \in Nat
  BY <1>1 DEF CellInv, Starting, Formatting
<1>3. CASE SaveBegin
  <2>1. cells' = [cells EXCEPT ![0] = begin]
    <3>1. IF cells[0] = begin THEN cells' = cells ELSE cells' = [cells EXCEPT ![0] = begin]
      BY <1>2, <1>3, FoundFormatted DEF SaveBegin, SaveValue
    <3> QED
      BY <3>1 DEF CellInv, Cells
  <2>2. /\ cells'[0] = begin /\ cells'[1] = Tag /\ cells'[2] = cells[2] /\ cells'[3] = Tag
        /\ cells' \in [Cells -> Int]
    BY <1>2, <2>1 DEF CellInv, Cells, Formatted
  <2>3. Formatted'
    BY <1>1, <1>2, <2>2 DEF Formatted
  <2>4. CellInv'
    BY <1>1, <1>2, <2>2, <2>3 DEF CellInv, Starting, Formatting
  <2>5. pc # "save_end"
    BY <1>3 DEF SaveBegin, SaveValue
  <2>6. saved' = [saved EXCEPT !["begin"] = begin]
    BY <1>2, <2>2, <2>3 DEF saved
  <2>7. ~SaveEnd
    BY <2>5 DEF SaveEnd, SaveValue
  <2> QED
    BY <1>3, <2>4, <2>6, <2>7
<1>4. CASE SaveEnd
  <2>1. cells' = [cells EXCEPT ![2] = end]
    <3>1. IF cells[2] = end THEN cells' = cells ELSE cells' = [cells EXCEPT ![2] = end]
      BY <1>2, <1>4, FoundFormatted DEF SaveEnd, SaveValue
    <3> QED
      BY <3>1 DEF CellInv, Cells
  <2>2. /\ cells'[0] = cells[0] /\ cells'[1] = Tag /\ cells'[2] = end /\ cells'[3] = Tag
        /\ cells' \in [Cells -> Int]
    BY <1>2, <2>1 DEF CellInv, Cells, Formatted
  <2>3. Formatted'
    BY <1>1, <1>2, <2>2 DEF Formatted
  <2>4. CellInv'
    BY <1>1, <1>2, <2>2, <2>3 DEF CellInv, Starting, Formatting
  <2>5. pc # "save_begin"
    BY <1>4 DEF SaveEnd, SaveValue
  <2>6. saved' = [saved EXCEPT !["end"] = end]
    BY <1>2, <2>2, <2>3 DEF saved
  <2>7. ~SaveBegin
    BY <2>5 DEF SaveBegin, SaveValue
  <2> QED
    BY <1>4, <2>4, <2>6, <2>7
<1> QED
  BY <1>3, <1>4

\* The Tag is there already.
LEMMA SaveTagKeeps ==
  ASSUME CellInv, TagBegin \/ TagEnd
  PROVE  CellInv' /\ saved' = saved
<1>1. /\ pc \in {"tag_begin", "tag_end"} /\ begin' = begin /\ end' = end
      /\ marked' = marked /\ pc' \in {"save_end", "idle"}
  BY DEF TagBegin, TagEnd, SaveTag, ram
<1>2. Formatted /\ begin \in Nat /\ end \in Nat
  BY <1>1 DEF CellInv, Starting, Formatting
<1>3. cells' = cells
  <2>1. \E c \in {1, 3} : cells' = [cells EXCEPT ![c] = Tag]
    BY <1>2, FoundFormatted DEF TagBegin, TagEnd, SaveTag
  <2> QED
    BY <1>2, <2>1 DEF CellInv, Formatted, Cells
<1> QED
  BY <1>1, <1>2, <1>3 DEF CellInv, saved, Starting, Formatting, Formatted

\* The other steps leave the cells alone, and END a number.
LEMMA OtherCellsKept ==
  ASSUME CellInv,
         \/ UNCHANGED vars
         \/ StoreMove \/ StoreWrite \/ StoreWrite2 \/ PrepareRT \/ GetByDateRange \/ Send
         \/ Reset
  PROVE  CellInv' /\ saved' = saved
<1>1. cells' = cells /\ marked' = marked
  BY DEF Send, StoreMove, StoreWrite, StoreWrite2, PrepareRT, GetByDateRange, NothingLeft,
     SendStart, Scan, ScanEnds, PostSucceeds, PostFails, WriteFlag, SendEnds, Reset, stored,
     vars
<1>2. Formatted' = Formatted /\ saved' = saved
  BY <1>1 DEF Formatted, saved
<1>3. CASE UNCHANGED vars
  <2>1. pc' = pc /\ begin' = begin /\ end' = end /\ fmt' = fmt
    BY <1>3 DEF vars
  <2>2. Fresh' = Fresh
    BY <1>1, <2>1 DEF Fresh
  <2>3. Progress' = Progress
    BY <1>1, <1>2, <2>1, <2>2 DEF Progress
  <2> QED
    BY <1>1, <1>2, <2>1, <2>2, <2>3 DEF CellInv
<1>4. CASE Reset
  <2>1. pc' = "boot" /\ fmt' = 0
    BY <1>4 DEF Reset
  <2>2. Fresh => Fresh'
    BY <1>1, <2>1 DEF Fresh, Starting
  <2> QED
    BY <1>1, <1>2, <2>1, <2>2 DEF CellInv, Starting, Formatting
<1>5. CASE StoreMove
  <2>1. pc' = "write" /\ pc = "idle" /\ end' = After(end) /\ begin' = MovedBegin
    BY <1>5 DEF StoreMove
  <2>2. Formatted /\ begin \in Nat /\ end \in Nat
    BY <2>1 DEF CellInv, Starting, Formatting
  <2>3. begin' \in Nat /\ end' \in Nat
    BY <2>1, <2>2, FirstNat DEF MovedBegin, After
  <2> QED
    BY <1>1, <1>2, <2>1, <2>2, <2>3 DEF CellInv, Starting, Formatting
<1>6. CASE StoreWrite \/ StoreWrite2 \/ PrepareRT \/ GetByDateRange \/ Send
  <2>1. pc \notin Starting /\ pc' \notin Starting /\ begin' = begin /\ end' = end
    BY <1>6 DEF StoreWrite, StoreWrite2, Send, PrepareRT, GetByDateRange, NothingLeft,
       SendStart, Scan, ScanEnds, PostSucceeds, PostFails, WriteFlag, SendEnds, Quit, ram,
       Starting, Formatting
  <2> QED
    BY <1>1, <1>2, <2>1 DEF CellInv, Starting
<1> QED
  BY <1>2, <1>3, <1>4, <1>5, <1>6

\* Every step keeps the cells in order, and only SaveBegin and SaveEnd change
\* what they hold.
LEMMA CellStep ==
  ASSUME CellInv, [Next]_vars
  PROVE  CellInv' /\ (saved' = saved \/ SaveBegin \/ SaveEnd)
<1>1. CASE Boot
  BY <1>1, BootKeeps
<1>2. CASE Format
  BY <1>2, FormatCellKeeps DEF Format, Formatting
<1>3. CASE Reformat
  BY <1>3, FormatCellKeeps DEF Reformat, Formatting
<1>4. CASE SaveBegin \/ SaveEnd
  BY <1>4, SaveValueKeeps
<1>5. CASE TagBegin \/ TagEnd
  BY <1>5, SaveTagKeeps
<1>6. CASE \/ UNCHANGED vars
           \/ StoreMove \/ StoreWrite \/ StoreWrite2 \/ PrepareRT \/ GetByDateRange \/ Send
           \/ Reset
  BY <1>6, OtherCellsKept
<1> QED
  BY <1>1, <1>2, <1>3, <1>4, <1>5, <1>6 DEF Next, Start, Store

\* However often the formatting of the chip is cut short, its cells end up in
\* order, and from then on nothing but the two saves after a stored record
\* changes an iterator that a restart recovers (datalogger.c:340, 397, 489).
THEOREM CellsActAsRegisters ==
  SafetySpec => []CellInv /\ [][saved' = saved \/ SaveBegin \/ SaveEnd]_vars
<1>1. Init => CellInv
  BY CellInit
<1>2. CellInv /\ [Next]_vars => CellInv' /\ (saved' = saved \/ SaveBegin \/ SaveEnd)
  BY CellStep
<1> QED
  BY <1>1, <1>2, PTL DEF SafetySpec

(***************************************************************************)
(* Part 2.  What a sent flag in the log means.                             *)
(***************************************************************************)
Storing == {"write", "write2", "save_begin", "tag_begin", "save_end"}

(***************************************************************************)
(* The invariant.                                                          *)
(***************************************************************************)
\* The parts of the state that the argument needs, with their types.
Types ==
  /\ pc \in Points /\ clock \in Nat
  /\ mem \in [Slots -> [Offsets -> Nat]]

\* The saved END is the slot that is written next, or that is being written.
EndSaved ==
  /\ pc \notin Storing \cup Starting => end = saved["end"]
  /\ pc \in Storing => slot = saved["end"]
  /\ pc = "write2" => FirstPart < Item

\* When the record is complete its flag is clear.
FlagCleared ==
  pc \in {"save_begin", "tag_begin", "save_end"} =>
    \A s \in Slots : s = slot => mem[s][FlagByte] = 0

\* What a pass has read of the slots whose flags it will write is in its post,
\* which was accepted.
Queued ==
  /\ pc \in {"scan", "scanned", "post"} =>
       \E S : q \in Seq(S) /\ \A s \in S : Data(Read(s)) \in batch
  /\ pc = "flag" => \E S : q \in Seq(S) /\ \A s \in S \cap Slots : Posted(s)

\* FlagImpliesPosted of every slot but the one at the saved END, in the log or
\* not: a reset in the middle of a record leaves there the flag of an old one.
Flagged ==
  \A s \in Slots : s # saved["end"] /\ mem[s][FlagByte] # 0 => Posted(s)

IInv == CellInv /\ Types /\ EndSaved /\ FlagCleared /\ Queued /\ Flagged

\* A sequence over a set is one over a larger set.
LEMMA SeqGrows ==
  ASSUME NEW S, NEW T, S \subseteq T, NEW s \in Seq(S)
  PROVE  s \in Seq(T)
OBVIOUS

\* The server keeps what it has while the data of the record stay, the flag apart.
LEMMA PostedKept ==
  ASSUME NEW s, Posted(s), server \subseteq server',
         \A o \in DataOffsets : mem'[s][o] = mem[s][o]
  PROVE  Posted(s)'
BY DEF Posted, Own, LSB

\* So flags stay true while the memory and the saved END do.
LEMMA FlaggedKept ==
  ASSUME Flagged, mem' = mem, server \subseteq server', saved'["end"] = saved["end"]
  PROVE  Flagged'
BY PostedKept DEF Flagged

\* What is posted of a record is its own, up to where dl_get_record goes wrong.
LEMMA OwnData ==
  ASSUME NEW s, NEW o \in DataOffsets, o < Own(s)
  PROVE  Data(Read(s))[o] = mem[s][o]
<1>1. o \in Offsets
  BY DEF DataOffsets
<1> QED
  BY <1>1 DEF Data, Restrict, Read

\* The first flag byte is the last byte of a record.
LEMMA FlagOffset == FlagByte \in Offsets /\ FlagByte = Item - 1 /\ Item \in Nat /\ Item >= 2
BY LogAssumption DEF FlagByte, Offsets

\* An empty log.
LEMMA InitInvariant == Init => IInv
<1> SUFFICES ASSUME Init PROVE IInv
  OBVIOUS
<1>1. mem \in [Slots -> [Offsets -> Nat]] /\ \A s \in Slots : mem[s][FlagByte] = 0
  BY FlagOffset DEF Init, Blank
<1>2. Types /\ EndSaved
  BY <1>1 DEF Init, Types, EndSaved, Points, Storing, Starting
<1> QED
  BY <1>1, <1>2, CellInit DEF Init, IInv, FlagCleared, Queued, Flagged

(***************************************************************************)
(* Every step keeps the invariant.                                         *)
(***************************************************************************)
\* A reset may find the slot at the saved END half written, but no other.
LEMMA ResetKeeps ==
  ASSUME IInv, Reset
  PROVE  IInv'
<1>1. /\ mem' = mem /\ saved' = saved /\ server' = server /\ clock' = clock /\ pc' = "boot"
      /\ CellInv'
  BY OtherCellsKept DEF IInv, Reset
<1>3. Types'
  BY <1>1 DEF IInv, Types, Points
<1>4. EndSaved' /\ FlagCleared' /\ Queued' /\ Flagged'
  BY <1>1, FlaggedKept DEF IInv, EndSaved, FlagCleared, Queued, Storing, Starting
<1> QED
  BY <1>1, <1>3, <1>4 DEF IInv

\* The boot takes the iterators from the registers, in a formatted chip or in
\* the one that it formats.
LEMMA StartKeeps ==
  ASSUME IInv, Start
  PROVE  IInv'
<1>1. /\ CellInv' /\ saved' = saved /\ pc' \in Starting \cup {"idle"}
      /\ pc' = "idle" => end' = saved["end"]
  <2>1. CASE Boot
    BY <2>1, BootKeeps DEF IInv, Boot, Starting, Formatting
  <2>2. CASE Format
    BY <2>2, FormatCellKeeps DEF IInv, Format, Starting, Formatting
  <2>3. CASE Reformat
    BY <2>3, FormatCellKeeps DEF IInv, Reformat, Starting, Formatting
  <2> QED
    BY <2>1, <2>2, <2>3 DEF Start
<1>2. mem' = mem /\ server' = server /\ clock' = clock
  BY DEF Start, Boot, Format, Reformat, FormatCell, sent
<1>3. Types'
  BY <1>1, <1>2 DEF IInv, Types, Points, Starting, Formatting
<1>4. EndSaved' /\ FlagCleared' /\ Queued' /\ Flagged'
  BY <1>1, <1>2, FlaggedKept DEF IInv, EndSaved, FlagCleared, Queued, Storing, Starting, Formatting
<1> QED
  BY <1>1, <1>3, <1>4 DEF IInv

\* The new record takes the slot at the saved END.
LEMMA StoreMoveKeeps ==
  ASSUME IInv, StoreMove
  PROVE  IInv'
<1>1. /\ mem' = mem /\ saved' = saved /\ server' = server /\ pc' = "write"
      /\ clock' = clock + 1 /\ slot' = end /\ pc = "idle" /\ CellInv'
  BY OtherCellsKept DEF IInv, StoreMove, stored, sent
<1>2. Types'
  BY <1>1 DEF IInv, Types, Points
<1>3. EndSaved' /\ FlagCleared' /\ Queued' /\ Flagged'
  BY <1>1, FlaggedKept DEF IInv, EndSaved, FlagCleared, Queued, Storing, Starting, Formatting
<1> QED
  BY <1>1, <1>2, <1>3 DEF IInv

\* The first part of a record touches its slot only, and clears the flag if it
\* is the whole record.
LEMMA StoreWriteKeeps ==
  ASSUME IInv, StoreWrite
  PROVE  IInv'
<1>1. /\ saved' = saved /\ server' = server /\ clock' = clock /\ slot' = slot
      /\ pc = "write" /\ pc' = IF FirstPart < Item THEN "write2" ELSE "save_begin"
      /\ FirstPart' = FirstPart /\ slot = saved["end"] /\ CellInv'
  BY OtherCellsKept DEF StoreWrite, ram, sent, IInv, EndSaved, Storing, FirstPart
<1>2. /\ mem' \in [Slots -> [Offsets -> Nat]]
      /\ \A s \in Slots : s # slot => mem'[s] = mem[s]
      /\ FirstPart >= Item => \A s \in Slots : s = slot => mem'[s][FlagByte] = 0
  <2> DEFINE new == [o \in Offsets |-> IF o < FirstPart THEN NewRecord(clock)[o] ELSE mem[slot][o]]
  <2>1. mem' = [mem EXCEPT ![slot] = new]
    BY DEF StoreWrite
  <2>2. slot \in Slots => new \in [Offsets -> Nat]
    BY DEF IInv, Types, NewRecord
  <2>3. FirstPart >= Item => new[FlagByte] = 0
    <3>1. FirstPart \in Int
      BY FlagOffset DEF FirstPart
    <3>2. FirstPart >= Item => FlagByte < FirstPart
      BY <3>1, FlagOffset
    <3> QED
      BY <3>2, FlagOffset DEF NewRecord
  <2> HIDE DEF new
  <2> QED
    BY <2>1, <2>2, <2>3 DEF IInv, Types
<1>3. FirstPart \in Int
  BY FlagOffset DEF FirstPart
<1>4. Types'
  BY <1>1, <1>2 DEF IInv, Types, Points
<1>5. EndSaved' /\ Queued'
  BY <1>1 DEF IInv, EndSaved, Queued, Storing
<1>6. FlagCleared'
  BY <1>1, <1>2, <1>3, FlagOffset DEF FlagCleared
<1>7. Flagged'
  BY <1>1, <1>2, PostedKept DEF IInv, Flagged
<1> QED
  BY <1>1, <1>4, <1>5, <1>6, <1>7 DEF IInv

\* The second part holds the flag, and clears it.
LEMMA StoreWrite2Keeps ==
  ASSUME IInv, StoreWrite2
  PROVE  IInv'
<1>1. /\ saved' = saved /\ server' = server /\ clock' = clock /\ slot' = slot
      /\ pc = "write2" /\ pc' = "save_begin" /\ slot = saved["end"] /\ FirstPart < Item
      /\ CellInv'
  BY OtherCellsKept DEF StoreWrite2, ram, sent, IInv, EndSaved, Storing
<1>2. /\ mem' \in [Slots -> [Offsets -> Nat]]
      /\ \A s \in Slots : s # slot => mem'[s] = mem[s]
      /\ \A s \in Slots : s = slot => mem'[s][FlagByte] = 0
  <2> DEFINE new == [o \in Offsets |-> IF o >= FirstPart THEN NewRecord(clock)[o] ELSE mem[slot][o]]
  <2>1. mem' = [mem EXCEPT ![slot] = new]
    BY DEF StoreWrite2
  <2>2. slot \in Slots => new \in [Offsets -> Nat]
    BY DEF IInv, Types, NewRecord
  <2>3. new[FlagByte] = 0
    <3>1. FirstPart \in Int
      BY FlagOffset DEF FirstPart
    <3>2. FlagByte >= FirstPart
      BY <1>1, <3>1, FlagOffset
    <3> QED
      BY <3>2, FlagOffset DEF NewRecord
  <2> HIDE DEF new
  <2> QED
    BY <2>1, <2>2, <2>3 DEF IInv, Types
<1>3. Types'
  BY <1>1, <1>2 DEF IInv, Types, Points
<1>4. EndSaved' /\ Queued'
  BY <1>1 DEF IInv, EndSaved, Queued, Storing
<1>5. FlagCleared' /\ Flagged'
  BY <1>1, <1>2, PostedKept DEF IInv, FlagCleared, Flagged
<1> QED
  BY <1>1, <1>3, <1>4, <1>5 DEF IInv

\* BEGIN and END are saved when the record's flag is clear.
LEMMA SaveKeeps ==
  ASSUME IInv, SaveBegin \/ SaveEnd
  PROVE  IInv'
<1>1. /\ mem' = mem /\ server' = server /\ clock' = clock /\ slot' = slot /\ end' = end
      /\ CellInv'
  BY SaveValueKeeps DEF IInv, SaveBegin, SaveEnd, SaveValue, ram, sent
<1>2. CASE SaveBegin
  <2>1. /\ pc = "save_begin" /\ pc' \in {"tag_begin", "save_end"}
        /\ saved' = [saved EXCEPT !["begin"] = begin]
    BY <1>2, SaveValueKeeps DEF IInv, SaveBegin, SaveValue
  <2>2. saved'["end"] = saved["end"]
    BY <2>1 DEF saved
  <2>3. Types' /\ EndSaved'
    BY <1>1, <2>1, <2>2 DEF IInv, Types, EndSaved, Points, Storing
  <2> QED
    BY <1>1, <2>1, <2>2, <2>3, FlaggedKept DEF IInv, FlagCleared, Queued
<1>3. CASE SaveEnd
  <2>1. /\ pc = "save_end" /\ pc' \in {"tag_end", "idle"}
        /\ saved' = [saved EXCEPT !["end"] = end]
    BY <1>3, SaveValueKeeps DEF IInv, SaveEnd, SaveValue
  <2>2. saved'["end"] = end /\ slot = saved["end"]
    <3>1. "end" \in DOMAIN saved
      BY DEF saved
    <3> QED
      BY <2>1, <3>1 DEF IInv, EndSaved, Storing
  <2>3. Types' /\ EndSaved'
    BY <1>1, <2>1, <2>2 DEF IInv, Types, EndSaved, Points, Storing
  <2>4. Flagged'
    BY <1>1, <2>1, <2>2, PostedKept DEF IInv, FlagCleared, Flagged
  <2> QED
    BY <1>1, <2>1, <2>3, <2>4 DEF IInv, FlagCleared, Queued
<1> QED
  BY <1>2, <1>3

\* The tags change nothing.
LEMMA TagKeeps ==
  ASSUME IInv, TagBegin \/ TagEnd
  PROVE  IInv'
<1>1. /\ mem' = mem /\ server' = server /\ clock' = clock /\ slot' = slot /\ end' = end
      /\ CellInv' /\ saved' = saved
      /\ \/ pc = "tag_begin" /\ pc' = "save_end"
         \/ pc = "tag_end" /\ pc' = "idle"
  BY SaveTagKeeps DEF IInv, TagBegin, TagEnd, SaveTag, ram, sent
<1>2. Types' /\ EndSaved'
  BY <1>1 DEF IInv, Types, EndSaved, Points, Storing, Starting, Formatting
<1> QED
  BY <1>1, <1>2, FlaggedKept DEF IInv, FlagCleared, Queued

\* The steps of a pass but the writing of a flag leave the memory alone.
LEMMA PassKeeps ==
  ASSUME IInv,
         \/ PrepareRT \/ GetByDateRange \/ (\E p \in Passes : NothingLeft(p) \/ SendStart(p))
         \/ Scan \/ ScanEnds \/ PostSucceeds \/ PostFails \/ SendEnds
  PROVE  IInv'
<1>1. CellInv' /\ saved' = saved
  BY OtherCellsKept DEF IInv, Send
<1>2. mem' = mem /\ clock' = clock /\ end' = end
  BY DEF PrepareRT, GetByDateRange, NothingLeft, SendStart, Scan, ScanEnds, PostSucceeds,
     PostFails, SendEnds, stored, ram, sent
<1>3. /\ pc \notin Storing \cup Starting /\ pc' \notin Storing \cup Starting
      /\ pc' \in Points
  BY DEF IInv, Starting, Formatting, Types, PrepareRT, GetByDateRange, NothingLeft, SendStart, Scan, ScanEnds,
     PostSucceeds, PostFails, SendEnds, Quit, Storing, Points
<1>4. Types' /\ EndSaved' /\ FlagCleared'
  BY <1>1, <1>2, <1>3 DEF IInv, Types, EndSaved, FlagCleared, Storing
<1>5. server \subseteq server'
  BY DEF PrepareRT, GetByDateRange, NothingLeft, SendStart, Scan, ScanEnds, PostSucceeds,
     PostFails, SendEnds, sent
<1>6. Flagged'
  BY <1>1, <1>2, <1>5, FlaggedKept DEF IInv
<1>7. \A s : Read(s)' = Read(s)
  BY <1>2 DEF Read, Own, LSB
<1>8. Queued'
  <2>1. CASE Scan
    <3>1. PICK S : q \in Seq(S) /\ \A s \in S : Data(Read(s)) \in batch
      BY <2>1 DEF IInv, Queued, Scan
    <3>2. /\ batch' \in {batch, batch \cup {Data(ds')}} /\ ds' = Read(it') /\ pc' # "flag"
          /\ q' = q \/ (q' = Append(q, it') /\ batch' = batch \cup {Data(ds')})
      BY <2>1 DEF Scan
    <3>3. \A s \in S : Data(Read(s)) \in batch'
      BY <3>1, <3>2
    <3>4. CASE q' = q
      BY <1>7, <3>1, <3>2, <3>3, <3>4 DEF Queued, Data
    <3>5. CASE q' = Append(q, it') /\ batch' = batch \cup {Data(ds')}
      <4>1. q \in Seq(S \cup {it'})
        BY <3>1, SeqGrows
      <4>2. q' \in Seq(S \cup {it'})
        BY <3>5, <4>1
      <4>3. \A s \in S \cup {it'} : Data(Read(s)) \in batch'
        BY <3>2, <3>3, <3>5
      <4> QED
        BY <1>7, <3>2, <4>2, <4>3 DEF Queued, Data
    <3> QED
      BY <3>2, <3>4, <3>5
  <2>2. CASE PostSucceeds
    <3>1. q' = q /\ server' = server \cup batch /\ pc = "post" /\ pc' = "flag"
      BY <2>2 DEF PostSucceeds, ram
    <3>2. PICK S : q \in Seq(S) /\ \A s \in S : Data(Read(s)) \in batch
      BY <3>1 DEF IInv, Queued
    <3>3. ASSUME NEW s \in S PROVE Posted(s)'
      <4>1. Data(Read(s)) \in server'
        BY <3>1, <3>2
      <4>2. \A o \in DataOffsets : o < Own(s)' => Data(Read(s))[o] = mem'[s][o]
        BY <1>2, OwnData DEF Own, LSB
      <4> QED
        BY <4>1, <4>2 DEF Posted
    <3> QED
      BY <3>1, <3>2, <3>3 DEF Queued
  <2>3. CASE \E p \in Passes : SendStart(p)
    <3>1. q' = << >> /\ pc' = "scan"
      BY <2>3 DEF SendStart
    <3>2. << >> \in Seq({})
      OBVIOUS
    <3> QED
      BY <3>1, <3>2 DEF Queued
  <2>4. CASE PrepareRT \/ GetByDateRange \/ \E p \in Passes : NothingLeft(p)
    BY <2>4 DEF Queued, PrepareRT, GetByDateRange, NothingLeft, Quit
  <2>5. CASE ScanEnds
    <3>1. CASE pc' = "post"
      <4>1. q' = q /\ batch' = batch /\ pc \in {"scan", "scanned", "post"}
        BY <2>5 DEF ScanEnds, sent
      <4> QED
        BY <1>7, <3>1, <4>1 DEF IInv, Queued, Data
    <3> QED
      BY <2>5, <3>1 DEF Queued, ScanEnds, Quit
  <2>6. CASE PostFails \/ SendEnds
    BY <2>6 DEF Queued, PostFails, SendEnds, Quit
  <2> QED
    BY <2>1, <2>2, <2>3, <2>4, <2>5, <2>6
<1> QED
  BY <1>1, <1>4, <1>6, <1>8 DEF IInv

\* A flag is written to a record that the server has.
LEMMA WriteFlagKeeps ==
  ASSUME IInv, WriteFlag
  PROVE  IInv'
<1>1. /\ saved' = saved /\ server' = server /\ clock' = clock /\ pc = "flag" /\ pc' = pc
      /\ end' = end /\ q' = Tail(q) /\ q # << >>
      /\ mem' = [mem EXCEPT ![Head(q)][FlagByte] = 1] /\ CellInv'
  BY OtherCellsKept DEF IInv, Send, WriteFlag, sent
<1>2. PICK S : q \in Seq(S) /\ \A s \in S \cap Slots : Posted(s)
  BY <1>1 DEF IInv, Queued
<1>3. Head(q) \in S /\ q' \in Seq(S)
  BY <1>1, <1>2
<1>4. /\ mem' \in [Slots -> [Offsets -> Nat]] /\ \A s \in Slots : s # Head(q) => mem'[s] = mem[s]
      /\ \A s \in Slots : \A o \in DataOffsets : mem'[s][o] = mem[s][o]
  BY <1>1 DEF IInv, Types, DataOffsets
<1>5. Types' /\ EndSaved' /\ FlagCleared'
  BY <1>1, <1>4 DEF IInv, Types, EndSaved, FlagCleared, Storing, Starting, Formatting
<1>6. \A s \in Slots : Posted(s) => Posted(s)'
  BY <1>1, <1>4, PostedKept
<1>7. Queued' /\ Flagged'
  <2>1. \A s \in S \cap Slots : Posted(s)'
    BY <1>2, <1>6
  <2>2. Queued'
    BY <1>1, <1>3, <2>1 DEF Queued
  <2>3. ASSUME NEW s \in Slots, s # saved'["end"], mem'[s][FlagByte] # 0
        PROVE  Posted(s)'
    <3>1. CASE s = Head(q)
      BY <1>3, <2>1, <3>1
    <3>2. CASE s # Head(q)
      BY <1>1, <1>4, <1>6, <2>3, <3>2 DEF IInv, Flagged
    <3> QED
      BY <3>1, <3>2
  <2> QED
    BY <2>2, <2>3 DEF Flagged
<1> QED
  BY <1>1, <1>5, <1>7 DEF IInv

\* Every step keeps the invariant.
LEMMA NextKeeps == IInv /\ [Next]_vars => IInv'
<1> SUFFICES ASSUME IInv, [Next]_vars PROVE IInv'
  OBVIOUS
<1>1. CASE UNCHANGED vars
  <2>1. CellInv' /\ saved' = saved
    BY <1>1, OtherCellsKept DEF IInv
  <2>2. Queued' /\ Flagged'
    <3>1. UNCHANGED << mem, server, batch, q, pc >>
      BY <1>1 DEF vars
    <3>2. Flagged'
      BY <2>1, <3>1, FlaggedKept DEF IInv
    <3>3. \A s : Data(Read(s))' = Data(Read(s)) /\ (Posted(s) => Posted(s)')
      BY <3>1, PostedKept DEF Data, Read, Own, LSB
    <3> QED
      BY <3>1, <3>2, <3>3 DEF IInv, Queued
  <2> QED
    BY <1>1, <2>1, <2>2 DEF IInv, vars, Types, EndSaved, FlagCleared, FirstPart
<1>2. CASE Store
  BY <1>2, StoreMoveKeeps, StoreWriteKeeps, StoreWrite2Keeps, SaveKeeps, TagKeeps DEF Store
<1>3. CASE PrepareRT \/ GetByDateRange \/ Send
  BY <1>3, PassKeeps, WriteFlagKeeps DEF Send
<1> QED
  BY <1>1, <1>2, <1>3, StartKeeps, ResetKeeps DEF Next

(***************************************************************************)
(* The theorem of the flags.                                               *)
(***************************************************************************)
LEMMA TrueFlags == IInv => FlagImpliesPosted
<1> SUFFICES ASSUME IInv, NEW s \in Between(saved["begin"], saved["end"]),
                    mem[s][FlagByte] # 0
             PROVE  Posted(s)
  BY LogOfRegisters DEF FlagImpliesPosted, InLog, IInv
<1>1. s \in Slots /\ s \in Int
  BY LogAssumption DEF Between, Slots
<1>2. s # saved["end"]
  BY <1>1 DEF Between
<1> QED
  BY <1>1, <1>2 DEF IInv, Flagged

\* A record that a restart recovers with its sent flag set was accepted by the
\* server, so far as it was read rightly: a reset between any two transactions,
\* in the middle of a record too, forges no flag (datalogger.c:733, 775, 925).
THEOREM FlagsAreTrue == SafetySpec => []FlagImpliesPosted
BY InitInvariant, NextKeeps, TrueFlags, PTL DEF SafetySpec

(***************************************************************************)
(* Part 3.  The record log implements the durable log.                     *)
(***************************************************************************)
(***************************************************************************)
(* Arithmetic of the ring.                                                 *)
(***************************************************************************)
N == Cardinality(Slots)

\* The k-th slot.
Nth(k) == First + Item * k

\* The index after N-1 is 0.
Wrap(k) == IF k < N THEN k ELSE k - N

\* Slots from index b to index e.
Distance(b, e) == IF b <= e THEN e - b ELSE e - b + N

\* Multiplication keeps the order.
LEMMA TimesOrder ==
  ASSUME NEW m \in Nat \ {0}, NEW x \in Int, NEW y \in Int
  PROVE  /\ m * x \in Int
         /\ x <= y => m * x <= m * y
         /\ x < y => m * x + m <= m * y
<1>1. m * x \in Int /\ m * y \in Int /\ m * (y - x) = m * y - m * x
  OBVIOUS
<1>2. \A d \in Nat : m * d >= 0 /\ (d >= 1 => m * d >= m)
  OBVIOUS
<1>3. CASE x <= y
  BY <1>1, <1>2, <1>3
<1> QED
  BY <1>1, <1>3

\* There is only one quotient and one remainder.
LEMMA DivUnique ==
  ASSUME NEW m \in Nat \ {0}, NEW c \in Int, NEW s \in 0..(m - 1)
  PROVE  (m * c + s) % m = s /\ (m * c + s) \div m = c
<1> DEFINE a == m * c + s
           p == a \div m
           t == a % m
<1>0. a \in Int /\ p \in Int /\ t \in 0..(m - 1) /\ a = m * p + t
  OBVIOUS
<1>1. /\ a \in Int /\ p \in Int /\ t \in 0..(m - 1) /\ a = m * p + t
      /\ m * c \in Int /\ m * p \in Int
  BY <1>0, TimesOrder
<1>2. m * c + s = m * p + t
  BY <1>1
<1> HIDE DEF a, p, t
<1>3. CASE c < p
  <2>1. m * c + m <= m * p
    BY <1>1, <1>3, TimesOrder
  <2> QED
    BY <2>1, <1>1, <1>2
<1>4. CASE p < c
  <2>1. m * p + m <= m * c
    BY <1>1, <1>4, TimesOrder
  <2> QED
    BY <2>1, <1>1, <1>2
<1>5. CASE p = c
  <2>1. t = s
    BY <1>1, <1>2, <1>5
  <2> QED
    BY <2>1, <1>5 DEF a, p, t
<1> QED
  BY <1>1, <1>3, <1>4, <1>5

\* The constants.
LEMMA Sizes == Item \in Nat \ {0} /\ Item >= 2 /\ First \in Nat /\ Last \in Nat /\ First + 2 * Item <= Last
BY LogAssumption

\* The slots are N, the last of them is the last that fits.
LEMMA Count ==
  /\ N \in Nat /\ N >= 3
  /\ Slots = {Nth(k) : k \in 0..(N - 1)}
  /\ Nth(N - 1) <= Last /\ Last < Nth(N)
<1> USE Sizes
<1> DEFINE z == (Last - First) \div Item
           f == [i \in 1..(z + 1) |-> First + Item * (i - 1)]
<1>1. /\ Last - First \in Int /\ z \in Int
      /\ Item * z <= Last - First /\ Last - First < Item * z + Item
  <2>1. Last - First = Item * z + ((Last - First) % Item) /\ (Last - First) % Item \in 0..(Item - 1)
    OBVIOUS
  <2> QED
    BY <2>1
<1> HIDE DEF z
<1>2. z >= 2
  <2>1. CASE z <= 1
    <3>1. Item * z <= Item * 1
      BY <1>1, <2>1, TimesOrder
    <3> QED
      BY <1>1, <3>1
  <2> QED
    BY <1>1, <2>1
<1>3. Slots = {First + Item * k : k \in 0..z}
  <2>1. ASSUME NEW a \in Slots
        PROVE  \E k \in 0..z : a = First + Item * k
    <3> DEFINE k == (a - First) \div Item
    <3>1. a \in First..Last /\ (a - First) % Item = 0 /\ a - First \in Int
      BY DEF Slots
    <3>2. k \in Int /\ a - First = Item * k
      BY <3>1
    <3> HIDE DEF k
    <3>3. ~(k < 0)
      <4>1. k < 0 => Item * k + Item <= Item * 0
        BY <3>2, TimesOrder
      <4> QED
        BY <3>1, <3>2, <4>1
    <3>4. ~(z < k)
      <4>1. z < k => Item * z + Item <= Item * k
        BY <1>1, <3>2, TimesOrder
      <4> QED
        BY <1>1, <3>1, <3>2, <4>1
    <3> QED
      BY <1>1, <3>1, <3>2, <3>3, <3>4
  <2>2. ASSUME NEW k \in 0..z
        PROVE  First + Item * k \in Slots
    <3>1. Item * 0 <= Item * k /\ Item * k <= Item * z /\ Item * k \in Int
      BY <1>1, TimesOrder
    <3>2. (Item * k + 0) % Item = 0
      BY DivUnique
    <3>3. First + Item * k \in First..Last /\ (First + Item * k) - First = Item * k + 0
      BY <1>1, <3>1
    <3> QED
      BY <3>2, <3>3 DEF Slots
  <2> QED
    BY <2>1, <2>2
<1>4. ExistsBijection(1..(z + 1), Slots)
  <2>1. f \in [1..(z + 1) -> Slots]
    BY <1>1, <1>3
  <2>2. ASSUME NEW i \in 1..(z + 1), NEW j \in 1..(z + 1), f[i] = f[j]
        PROVE  i = j
    <3>1. Item * (i - 1) = Item * (j - 1) /\ Item * (i - 1) \in Int
      BY <1>1, <2>2, TimesOrder
    <3>2. ~(i - 1 < j - 1) /\ ~(j - 1 < i - 1)
      BY <1>1, <3>1, TimesOrder
    <3> QED
      BY <1>1, <3>2
  <2>3. ASSUME NEW a \in Slots
        PROVE  \E i \in 1..(z + 1) : f[i] = a
    <3>1. PICK k \in 0..z : a = First + Item * k
      BY <1>3
    <3>2. k + 1 \in 1..(z + 1) /\ (k + 1) - 1 = k
      BY <1>1
    <3>3. f[k + 1] = First + Item * k
      BY <3>2
    <3> QED
      BY <3>1, <3>2, <3>3
  <2> HIDE DEF f
  <2>4. f \in Bijection(1..(z + 1), Slots)
    BY <2>1, <2>2, <2>3 DEF Bijection, Injection, Surjection, IsInjective
  <2> QED
    BY <2>4 DEF ExistsBijection
<1>5. N = z + 1
  BY <1>1, <1>2, <1>4, FS_CountingElements DEF N
<1>6. N - 1 = z
  BY <1>1, <1>5
<1>7. Item * N = Item * z + Item
  BY <1>1, <1>5
<1> QED
  BY <1>1, <1>2, <1>3, <1>5, <1>6, <1>7 DEF Nth

\* Every slot has one index.
LEMMA OneIndex ==
  ASSUME NEW j \in 0..(N - 1), NEW k \in 0..(N - 1)
  PROVE  Nth(j) \in Slots /\ Nth(j) \in Nat /\ (Nth(j) = Nth(k) => j = k)
<1>1. /\ j \in Int /\ k \in Int /\ Item * j \in Int /\ Item * k \in Int
      /\ j < k => Item * j + Item <= Item * k
      /\ k < j => Item * k + Item <= Item * j
      /\ 0 <= j => Item * 0 <= Item * j
  BY Sizes, Count, TimesOrder
<1>2. Nth(j) \in Nat
  BY <1>1, Sizes, Count DEF Nth
<1>3. Nth(j) = Nth(k) => j = k
  BY <1>1, Sizes DEF Nth
<1> QED
  BY <1>2, <1>3, Count

\* The slot after a slot.
LEMMA AfterNth ==
  ASSUME NEW k \in 0..(N - 1)
  PROVE  Wrap(k + 1) \in 0..(N - 1) /\ After(Nth(k)) = Nth(Wrap(k + 1))
<1>0. N \in Nat /\ k \in Int /\ k + 1 \in Int /\ Item \in Int
  BY Sizes, Count
<1>1. /\ Item * k \in Int /\ Item * (k + 1) = Item * k + Item
      /\ N \in Nat /\ k \in Int /\ k + 1 \in Int
  BY <1>0
<1>2. CASE k = N - 1
  <2>1. Nth(k) + Item = Nth(N) /\ Nth(N) \in Int
    BY <1>1, <1>2, Sizes DEF Nth
  <2>2. Wrap(k + 1) = 0 /\ Nth(0) = First
    BY <1>1, <1>2, Sizes DEF Wrap, Nth
  <2> QED
    BY <1>1, <2>1, <2>2, Sizes, Count DEF After
<1>3. CASE k < N - 1
  <2>1. Nth(k) + Item = Nth(k + 1) /\ Nth(k + 1) \in Int
    BY <1>1, Sizes DEF Nth
  <2>2. Wrap(k + 1) = k + 1
    BY <1>1, <1>3 DEF Wrap
  <2>3. Nth(k + 1) <= Nth(N - 1) /\ Nth(N - 1) \in Int
    <3>1. Item * (k + 1) <= Item * (N - 1) /\ Item * (N - 1) \in Int
      BY <1>1, <1>3, Sizes, TimesOrder
    <3> QED
      BY <1>1, <3>1, Sizes DEF Nth
  <2> QED
    BY <1>1, <1>3, <2>1, <2>2, <2>3, Sizes, Count DEF After
<1> QED
  BY <1>1, <1>2, <1>3, Count

\* Differences of addresses, in the ring and in slots.
LEMMA RingIndex ==
  ASSUME NEW x \in 0..(N - 1), NEW y \in {x, x - N, x + N}
  PROVE  (Item * y) % RingSize = Item * x /\ (Item * x) \div Item = x
<1> USE Sizes
<1>1. RingSize = Item * N /\ N \in Nat \ {0} /\ RingSize \in Nat \ {0}
  <2>1. N \in Nat \ {0}
    BY Count
  <2>2. Item * 1 <= Item * N /\ Item * N \in Int
    BY <2>1, TimesOrder
  <2> QED
    BY <2>1, <2>2 DEF RingSize, N
<1>2. Item * x \in 0..(RingSize - 1)
  <2>1. Item * 0 <= Item * x /\ Item * x + Item <= Item * N /\ Item * x \in Int
    BY <1>1, TimesOrder
  <2> QED
    BY <1>1, <2>1
<1>3. (Item * x) \div Item = x
  <2>1. (Item * x + 0) \div Item = x
    BY DivUnique
  <2>2. Item * x + 0 = Item * x
    BY <1>2
  <2> QED
    BY <2>1, <2>2
<1>4. \E c \in Int : Item * y = RingSize * c + Item * x
  <2>1. CASE y = x
    BY <1>1, <1>2, <2>1
  <2>2. CASE y = x - N
    <3>1. Item * y = RingSize * (-1) + Item * x
      BY <1>1, <2>2
    <3> QED
      BY <3>1
  <2>3. CASE y = x + N
    <3>1. Item * y = RingSize * 1 + Item * x
      BY <1>1, <2>3
    <3> QED
      BY <3>1
  <2> QED
    BY <2>1, <2>2, <2>3
<1> QED
  BY <1>1, <1>2, <1>3, <1>4, DivUnique

(***************************************************************************)
(* The recovered log, by the indices of its ends.                          *)
(***************************************************************************)
Stamped(m, b, n) == [i \in 1..n |-> m[Nth(Wrap(b + (i - 1)))][0]]

\* The log from the b-th slot up to the e-th.
LEMMA LogByIndex ==
  ASSUME NEW b \in 0..(N - 1), NEW e \in 0..(N - 1)
  PROVE  LogFrom(Nth(b), Nth(e)) = Stamped(mem, b, Distance(b, e))
<1> USE Sizes
<1>1. N \in Nat /\ N >= 3 /\ b \in Int /\ e \in Int
  BY Count
<1>2. Item * b \in Int /\ Item * e \in Int /\ Item * (e - b) = Item * e - Item * b
  BY <1>1
<1>3. ((Nth(e) - Nth(b)) % RingSize) \div Item = Distance(b, e)
  <2>1. Nth(e) - Nth(b) = Item * (e - b)
    BY <1>2 DEF Nth
  <2>2. Distance(b, e) \in 0..(N - 1) /\ e - b \in {Distance(b, e), Distance(b, e) - N}
    BY <1>1 DEF Distance
  <2> QED
    BY <2>1, <2>2, RingIndex
<1>4. Distance(b, e) \in 0..(N - 1)
  BY <1>1 DEF Distance
<1>5. ASSUME NEW i \in 1..Distance(b, e)
      PROVE  First + ((Nth(b) - First + (i - 1) * Item) % RingSize)
               = Nth(Wrap(b + (i - 1)))
  <2>1. i \in Int /\ i - 1 \in 0..(N - 2)
    BY <1>1, <1>4
  <2>2. Nth(b) - First + (i - 1) * Item = Item * (b + (i - 1))
    BY <1>1, <1>2, <2>1 DEF Nth
  <2>3. Wrap(b + (i - 1)) \in 0..(N - 1)
        /\ b + (i - 1) \in {Wrap(b + (i - 1)), Wrap(b + (i - 1)) + N}
    BY <1>1, <2>1 DEF Wrap
  <2>4. (Item * (b + (i - 1))) % RingSize = Item * Wrap(b + (i - 1))
    BY <2>3, RingIndex
  <2> QED
    BY <2>2, <2>4 DEF Nth
<1> QED
  BY <1>3, <1>5 DEF Stamped, LogFrom

\* The recovered log is what the registers say; an unformatted chip has both at
\* the first slot.
LEMMA RecoveredLog ==
  ASSUME CellInv, NEW b \in 0..(N - 1), NEW e \in 0..(N - 1),
         saved["begin"] = Nth(b), saved["end"] = Nth(e)
  PROVE  Recovered = Stamped(mem, b, Distance(b, e))
<1>1. CASE ~Unset
  BY <1>1, LogOfRegisters, LogByIndex DEF Recovered
<1>2. CASE Unset
  <2>1. Nth(b) = First /\ Nth(e) = First /\ Recovered = << >>
    BY <1>2, LogOfRegisters DEF Recovered
  <2>2. b = e
    BY <2>1, OneIndex
  <2>3. Distance(b, e) = 0
    BY <2>2, Count DEF Distance
  <2> QED
    BY <2>1, <2>3 DEF Stamped
<1> QED
  BY <1>1, <1>2

\* The same after a step.
LEMMA RecoveredNext ==
  ASSUME NEW b \in 0..(N - 1), NEW e \in 0..(N - 1)
  PROVE  (CellInv /\ saved["begin"] = Nth(b) /\ saved["end"] = Nth(e)
           => Recovered = Stamped(mem, b, Distance(b, e)))'
<1>1. CellInv /\ saved["begin"] = Nth(b) /\ saved["end"] = Nth(e)
        => Recovered = Stamped(mem, b, Distance(b, e))
  BY RecoveredLog
<1> QED
  BY <1>1, PTL

\* A memory that differs at the saved END only, or in other bytes, holds the
\* same log.
LEMMA SameLog ==
  ASSUME NEW b \in 0..(N - 1), NEW e \in 0..(N - 1), NEW m, NEW n,
         \A s \in Slots : s # Nth(e) => n[s][0] = m[s][0]
  PROVE  Stamped(n, b, Distance(b, e)) = Stamped(m, b, Distance(b, e))
<1>1. N \in Nat /\ N >= 3 /\ b \in Int /\ e \in Int
  BY Count
<1>2. ASSUME NEW i \in 1..Distance(b, e)
      PROVE  n[Nth(Wrap(b + (i - 1)))][0] = m[Nth(Wrap(b + (i - 1)))][0]
  <2>1. Wrap(b + (i - 1)) \in 0..(N - 1) /\ Wrap(b + (i - 1)) # e
    BY <1>1 DEF Wrap, Distance
  <2>2. Nth(Wrap(b + (i - 1))) \in Slots /\ Nth(Wrap(b + (i - 1))) # Nth(e)
    BY <2>1, OneIndex
  <2> QED
    BY <2>2
<1> QED
  BY <1>2 DEF Stamped

\* A function on 1..n is a sequence of length n.
LEMMA FunctionIsSeq ==
  ASSUME NEW S, NEW n \in Nat, NEW f \in [1..n -> S]
  PROVE  f \in Seq(S) /\ Len(f) = n /\ (n > 0 => f # << >>)
OBVIOUS

\* A function that is the tail of another.
LEMMA IsTail ==
  ASSUME NEW S, NEW n \in Nat \ {0}, NEW f \in [1..n -> S], NEW g \in [1..(n - 1) -> S],
         \A i \in 1..(n - 1) : g[i] = f[i + 1]
  PROVE  g = Tail(f)
<1>1. n - 1 \in Nat /\ f \in Seq(S) /\ Len(f) = n /\ f # << >>
  BY FunctionIsSeq
<1>2. /\ Tail(f) \in Seq(S) /\ Len(Tail(f)) = n - 1
      /\ \A i \in 1..(n - 1) : Tail(f)[i] = f[i + 1]
  BY <1>1, HeadTailProperties
<1>3. Tail(f) \in [1..(n - 1) -> S]
  BY <1>2, LenProperties
<1> QED
  BY <1>2, <1>3

\* A function that is another one with one more value.
LEMMA IsAppend ==
  ASSUME NEW S, NEW n \in Nat, NEW f \in [1..n -> S], NEW g \in [1..(n + 1) -> S],
         NEW r \in S, \A i \in 1..n : g[i] = f[i], g[n + 1] = r
  PROVE  g = Append(f, r)
<1>1. f \in Seq(S) /\ Len(f) = n
  BY FunctionIsSeq
<1> DEFINE a == Append(f, r)
<1>2. /\ a \in Seq(S) /\ Len(a) = n + 1
      /\ (\A i \in 1..n : a[i] = f[i]) /\ a[n + 1] = r
  BY <1>1, AppendProperties
<1> HIDE DEF a
<1>3. a \in [1..(n + 1) -> S]
  BY <1>2, LenProperties
<1>4. \A i \in 1..(n + 1) : i \in 1..n \/ i = n + 1
  OBVIOUS
<1>5. g = a
  BY <1>2, <1>3, <1>4
<1> QED
  BY <1>5 DEF a

\* The values a memory has in the ring.
Values(m) == {m[Nth(k)][0] : k \in Int}

\* The log is a function to these values.
LEMMA LogType ==
  ASSUME NEW m, NEW b \in Int, NEW n \in Nat
  PROVE  Stamped(m, b, n) \in [1..n -> Values(m)]
<1>1. \A i \in 1..n : Wrap(b + (i - 1)) \in Int
  BY Count DEF Wrap
<1> QED
  BY <1>1 DEF Stamped, Values

\* The log without its oldest record.
LEMMA LogTail ==
  ASSUME NEW b \in 0..(N - 1), NEW e \in 0..(N - 1), Wrap(e + 1) = b, NEW m
  PROVE  /\ Len(Stamped(m, b, Distance(b, e))) = N - 1
         /\ Stamped(m, Wrap(b + 1), Distance(Wrap(b + 1), e)) = Tail(Stamped(m, b, Distance(b, e)))
<1> DEFINE c == Wrap(b + 1)
           old == Stamped(m, b, N - 1)
           new == Stamped(m, c, (N - 1) - 1)
<1>1. N \in Nat /\ N >= 3 /\ b \in Int /\ e \in Int /\ c \in Int
  BY Count DEF Wrap
<1>2. Distance(b, e) = N - 1 /\ Distance(c, e) = (N - 1) - 1
  BY <1>1 DEF Wrap, Distance
<1>3. N - 1 \in Nat \ {0} /\ (N - 1) - 1 \in Nat
  BY <1>1
<1>4. old \in [1..(N - 1) -> Values(m)] /\ new \in [1..((N - 1) - 1) -> Values(m)]
  BY <1>1, <1>3, LogType
<1>5. ASSUME NEW i \in 1..((N - 1) - 1)
      PROVE  new[i] = old[i + 1]
  <2>1. Wrap(c + (i - 1)) = Wrap(b + ((i + 1) - 1))
    BY <1>1 DEF Wrap
  <2>2. i + 1 \in 1..(N - 1)
    BY <1>1
  <2> QED
    BY <2>1, <2>2 DEF Stamped
<1> HIDE DEF old, new, c
<1>6. Len(old) = N - 1
  BY <1>3, <1>4, FunctionIsSeq
<1>7. new = Tail(old)
  BY <1>3, <1>4, <1>5, IsTail
<1> QED
  BY <1>2, <1>6, <1>7 DEF old, new, c

\* The log with one more record.
LEMMA LogAppend ==
  ASSUME NEW b \in 0..(N - 1), NEW e \in 0..(N - 1), Wrap(e + 1) # b, NEW m
  PROVE  /\ Len(Stamped(m, b, Distance(b, e))) < N - 1
         /\ Stamped(m, b, Distance(b, Wrap(e + 1))) = Append(Stamped(m, b, Distance(b, e)), m[Nth(e)][0])
<1> DEFINE n == Distance(b, e)
           old == Stamped(m, b, n)
           new == Stamped(m, b, n + 1)
           r == m[Nth(e)][0]
<1>1. N \in Nat /\ N >= 3 /\ b \in Int /\ e \in Int
  BY Count
<1>2. /\ n \in Nat /\ n < N - 1 /\ Distance(b, Wrap(e + 1)) = n + 1
      /\ Wrap(b + ((n + 1) - 1)) = e
  BY <1>1 DEF Wrap, Distance
<1> HIDE DEF n
<1>3. /\ old \in [1..n -> Values(m)] /\ new \in [1..(n + 1) -> Values(m)]
      /\ r \in Values(m)
  <2>1. n + 1 \in Nat
    BY <1>2
  <2>2. r \in Values(m)
    BY <1>1 DEF Values
  <2> QED
    BY <1>1, <1>2, <2>1, <2>2, LogType
<1>4. \A i \in 1..n : new[i] = old[i]
  BY <1>2 DEF Stamped
<1>5. new[n + 1] = r
  <2>1. n + 1 \in 1..(n + 1)
    BY <1>2
  <2> QED
    BY <1>2, <2>1 DEF Stamped
<1> HIDE DEF old, new, r
<1>6. Len(old) = n
  BY <1>2, <1>3, FunctionIsSeq
<1>7. new = Append(old, r)
  BY <1>2, <1>3, <1>4, <1>5, IsAppend
<1> QED
  BY <1>2, <1>6, <1>7 DEF old, new, r, n

(***************************************************************************)
(* The invariant of the ring.                                              *)
(***************************************************************************)
\* The iterators in RAM are the saved ones, or one record ahead of them with
\* BEGIN pushed out of the way; when END is saved it is not BEGIN.
RingInv ==
  /\ clock \in Stamps /\ \A s \in Slots : mem[s][0] \in Stamps
  /\ saved["begin"] \in Slots /\ saved["end"] \in Slots
  /\ pc \notin Storing \cup Starting => begin = saved["begin"]
  /\ pc \in Storing => end = After(saved["end"])
  /\ pc \in {"write", "write2", "save_begin"} =>
       begin = IF end = saved["begin"] THEN After(end) ELSE saved["begin"]
  /\ pc \in {"tag_begin", "save_end"} => begin = saved["begin"] /\ end # begin

\* The slot after a slot is another slot.
LEMMA AfterSlot ==
  ASSUME NEW a \in Slots
  PROVE  After(a) \in Slots /\ After(a) # a
<1>1. PICK k \in 0..(N - 1) : a = Nth(k)
  BY Count
<1>2. Wrap(k + 1) \in 0..(N - 1) /\ After(a) = Nth(Wrap(k + 1))
  BY <1>1, AfterNth
<1>3. Wrap(k + 1) # k
  BY Count DEF Wrap
<1> QED
  BY <1>1, <1>2, <1>3, OneIndex

\* The first byte is the time stamp, not the flag.
LEMMA StampOffset == 0 \in Offsets /\ FlagByte # 0 /\ FlagByte \in Offsets
BY LogAssumption DEF FlagByte, Offsets

\* An empty ring.
LEMMA RingInit == Init => RingInv
<1> SUFFICES ASSUME Init PROVE RingInv
  OBVIOUS
<1>1. First \in Slots
  BY Sizes, Count, OneIndex DEF Nth
<1>2. clock \in Stamps /\ 0 \in Stamps
  BY LogAssumption DEF Init, Stamps
<1>3. \A s \in Slots : mem[s][0] \in Stamps
  BY <1>2, StampOffset DEF Init, Blank
<1>4. saved["begin"] = First /\ saved["end"] = First /\ pc = "boot"
  BY CellInit, LogOfRegisters DEF Init
<1> QED
  BY <1>1, <1>2, <1>3, <1>4 DEF RingInv, Storing, Starting

\* What a step does to the time stamps: it writes the one at the saved END, or
\* none.
LEMMA StampsKept ==
  ASSUME IInv, RingInv, Next
  PROVE  /\ \A s \in Slots : s # saved["end"] => mem'[s][0] = mem[s][0]
         /\ \A s \in Slots : mem'[s][0] \in Stamps
<1>1. CASE mem' = mem
  BY <1>1 DEF RingInv
<1>2. CASE WriteFlag
  <2>1. mem' = [mem EXCEPT ![Head(q)][FlagByte] = 1]
    BY <1>2 DEF WriteFlag
  <2>2. \A s \in Slots : mem'[s][0] = mem[s][0]
    BY <2>1, StampOffset DEF IInv, Types
  <2> QED
    BY <2>2 DEF RingInv
<1>3. CASE StoreWrite \/ StoreWrite2
  <2>1. slot = saved["end"]
    BY <1>3 DEF StoreWrite, StoreWrite2, IInv, EndSaved, Storing
  <2>2. \A s \in Slots : s # slot => mem'[s] = mem[s]
    BY <1>3 DEF StoreWrite, StoreWrite2, IInv, Types
  <2>3. NewRecord(clock)[0] \in Stamps
    BY StampOffset DEF NewRecord, RingInv
  <2>4. ASSUME slot \in Slots
        PROVE  mem'[slot][0] \in {mem[slot][0], NewRecord(clock)[0]}
    <3>1. CASE StoreWrite
      BY <3>1, <2>4, StampOffset DEF StoreWrite, IInv, Types
    <3>2. CASE StoreWrite2
      BY <3>2, <2>4, StampOffset DEF StoreWrite2, IInv, Types
    <3> QED
      BY <1>3, <3>1, <3>2
  <2> QED
    BY <2>1, <2>2, <2>3, <2>4 DEF RingInv
<1> QED
  BY <1>1, <1>2, <1>3 DEF Next, Start, Boot, Format, Reformat, FormatCell, Store, Send,
     StoreMove, SaveBegin, TagBegin, SaveEnd, TagEnd, SaveValue, SaveTag, PrepareRT,
     GetByDateRange, NothingLeft, SendStart, Scan, ScanEnds, PostSucceeds, PostFails,
     SendEnds, Reset, stored

\* A step that leaves the saved iterators alone leaves the recovered log alone.
LEMMA SavedSame ==
  ASSUME CellInv, CellInv', RingInv,
         saved'["begin"] = saved["begin"], saved'["end"] = saved["end"],
         \A s \in Slots : s # saved["end"] => mem'[s][0] = mem[s][0]
  PROVE  Recovered' = Recovered
<1>1. PICK b \in 0..(N - 1), e \in 0..(N - 1) : saved["begin"] = Nth(b) /\ saved["end"] = Nth(e)
  BY Count DEF RingInv
<1>2. Recovered = Stamped(mem, b, Distance(b, e))
  BY <1>1, RecoveredLog
<1>3. saved'["begin"] = Nth(b) /\ saved'["end"] = Nth(e)
  BY <1>1
<1>4. Recovered' = Stamped(mem', b, Distance(b, e))
  BY <1>3, RecoveredNext
<1>5. Stamped(mem', b, Distance(b, e)) = Stamped(mem, b, Distance(b, e))
  BY <1>1, SameLog
<1> QED
  BY <1>2, <1>4, <1>5

\* Saving BEGIN drops the oldest record of a full log, or nothing.
LEMMA SaveBeginEvicts ==
  ASSUME IInv, RingInv, SaveBegin
  PROVE  RingInv' /\ (Recovered' = Recovered \/ Durable!Evict)
<1>1. /\ pc = "save_begin" /\ pc' \in {"tag_begin", "save_end"}
      /\ mem' = mem /\ clock' = clock
      /\ begin' = begin /\ end' = end /\ saved' = [saved EXCEPT !["begin"] = begin]
      /\ CellInv /\ CellInv'
  BY SaveValueKeeps DEF IInv, SaveBegin, SaveValue, ram, sent
<1>2. saved'["begin"] = begin /\ saved'["end"] = saved["end"]
  BY <1>1 DEF saved
<1>3. /\ end = After(saved["end"])
      /\ begin = IF end = saved["begin"] THEN After(end) ELSE saved["begin"]
      /\ end \in Slots
  BY <1>1, AfterSlot DEF RingInv, Storing
<1>4. begin \in Slots /\ begin # end
  BY <1>3, AfterSlot DEF RingInv
<1>5. RingInv'
  BY <1>1, <1>2, <1>3, <1>4 DEF RingInv, Storing, Starting, Formatting
<1>6. CASE end # saved["begin"]
  <2>1. saved'["begin"] = saved["begin"] /\ saved'["end"] = saved["end"]
    BY <1>2, <1>3, <1>6
  <2> QED
    BY <1>1, <1>5, <2>1, SavedSame
<1>7. CASE end = saved["begin"]
  <2>1. PICK b \in 0..(N - 1), e \in 0..(N - 1) : saved["begin"] = Nth(b) /\ saved["end"] = Nth(e)
    BY Count DEF RingInv
  <2>2. Wrap(e + 1) \in 0..(N - 1) /\ Nth(b) = Nth(Wrap(e + 1))
    BY <1>3, <1>7, <2>1, AfterNth
  <2>3. Wrap(e + 1) = b
    BY <2>2, OneIndex
  <2>4. Wrap(b + 1) \in 0..(N - 1) /\ begin = Nth(Wrap(b + 1))
    BY <1>3, <1>7, <2>1, AfterNth
  <2>5. Recovered = Stamped(mem, b, Distance(b, e))
    BY <1>1, <2>1, RecoveredLog
  <2>6. saved'["begin"] = Nth(Wrap(b + 1)) /\ saved'["end"] = Nth(e)
    BY <1>2, <2>1, <2>4
  <2>7. Recovered' = Stamped(mem', Wrap(b + 1), Distance(Wrap(b + 1), e))
    BY <1>1, <2>4, <2>6, RecoveredNext
  <2>8. Recovered' = Stamped(mem, Wrap(b + 1), Distance(Wrap(b + 1), e))
    BY <1>1, <2>7
  <2>9. Len(Recovered) = N - 1 /\ Recovered' = Tail(Recovered)
    BY <2>3, <2>5, <2>8, LogTail
  <2> QED
    BY <1>5, <2>9 DEF Durable!Evict, N
<1> QED
  BY <1>6, <1>7

\* Saving END appends the new record.
LEMMA SaveEndStores ==
  ASSUME IInv, RingInv, SaveEnd
  PROVE  RingInv' /\ \E r \in Stamps : Durable!Store(r)
<1>1. /\ pc = "save_end" /\ pc' \in {"tag_end", "idle"} /\ mem' = mem /\ clock' = clock
      /\ begin' = begin /\ end' = end /\ saved' = [saved EXCEPT !["end"] = end]
      /\ CellInv /\ CellInv'
  BY SaveValueKeeps DEF IInv, SaveEnd, SaveValue, ram, sent
<1>2. saved'["begin"] = saved["begin"] /\ saved'["end"] = end
  BY <1>1 DEF saved
<1>3. end = After(saved["end"]) /\ begin = saved["begin"] /\ end # begin /\ end \in Slots
  BY <1>1, AfterSlot DEF RingInv, Storing
<1>4. RingInv'
  BY <1>1, <1>2, <1>3 DEF RingInv, Storing
<1>5. PICK b \in 0..(N - 1), e \in 0..(N - 1) : saved["begin"] = Nth(b) /\ saved["end"] = Nth(e)
  BY Count DEF RingInv
<1>6. Wrap(e + 1) \in 0..(N - 1) /\ end = Nth(Wrap(e + 1))
  BY <1>3, <1>5, AfterNth
<1>7. Wrap(e + 1) # b
  BY <1>3, <1>5, <1>6
<1>8. Recovered = Stamped(mem, b, Distance(b, e))
  BY <1>1, <1>5, RecoveredLog
<1>9. saved'["begin"] = Nth(b) /\ saved'["end"] = Nth(Wrap(e + 1))
  BY <1>2, <1>5, <1>6
<1>10. Recovered' = Stamped(mem', b, Distance(b, Wrap(e + 1)))
  BY <1>1, <1>6, <1>9, RecoveredNext
<1>11. Recovered' = Stamped(mem, b, Distance(b, Wrap(e + 1)))
  BY <1>1, <1>10
<1>12. Len(Recovered) < N - 1 /\ Recovered' = Append(Recovered, mem[Nth(e)][0])
  BY <1>7, <1>8, <1>11, LogAppend
<1>13. mem[Nth(e)][0] \in Stamps
  BY <1>5 DEF RingInv
<1> QED
  BY <1>4, <1>12, <1>13 DEF Durable!Store, N

\* The other steps.
LEMMA OthersKeep ==
  ASSUME IInv, RingInv, Next, ~SaveBegin, ~SaveEnd
  PROVE  RingInv' /\ saved' = saved
<1>1. saved' = saved /\ CellInv
  BY CellStep DEF IInv
<1>2. \A s \in Slots : mem'[s][0] \in Stamps
  BY StampsKept
<1>3. CASE StoreMove
  <2>1. /\ pc = "idle" /\ pc' = "write" /\ clock' = clock + 1 /\ clock < MaxStamp
        /\ end' = After(end) /\ begin' = MovedBegin /\ end = saved["end"]
        /\ begin = saved["begin"]
    BY <1>3 DEF StoreMove, IInv, EndSaved, RingInv, Storing, Starting, Formatting
  <2>2. clock' \in Stamps
    BY <2>1, LogAssumption DEF RingInv, Stamps
  <2> QED
    BY <1>1, <1>2, <2>1, <2>2 DEF RingInv, Storing, MovedBegin
<1>4. CASE StoreWrite \/ StoreWrite2
  <2>1. /\ pc \in {"write", "write2"} /\ pc' \in {"write2", "save_begin"}
        /\ clock' = clock /\ end' = end /\ begin' = begin
    BY <1>4 DEF StoreWrite, StoreWrite2, ram
  <2> QED
    BY <1>1, <1>2, <2>1 DEF RingInv, Storing
<1>5. CASE Reset
  <2>1. pc' = "boot" /\ clock' = clock
    BY <1>5 DEF Reset
  <2> QED
    BY <1>1, <1>2, <2>1 DEF RingInv, Storing, Starting
<1>6. CASE Start
  <2>1. /\ pc' \in Starting \cup {"idle"} /\ clock' = clock
        /\ pc' = "idle" => begin' = saved["begin"]
    <3>1. CASE Boot
      BY <1>1, <3>1, BootKeeps DEF Boot, Starting, Formatting
    <3>2. CASE Format
      BY <1>1, <3>2, FormatCellKeeps DEF Format, FormatCell, Starting, Formatting
    <3>3. CASE Reformat
      BY <1>1, <3>3, FormatCellKeeps DEF Reformat, FormatCell, Starting, Formatting
    <3> QED
      BY <1>6, <3>1, <3>2, <3>3 DEF Start
  <2> QED
    BY <1>1, <1>2, <2>1 DEF RingInv, Storing, Starting, Formatting
<1>7. CASE TagBegin \/ TagEnd
  <2>1. /\ clock' = clock /\ begin' = begin /\ end' = end
        /\ \/ pc = "tag_begin" /\ pc' = "save_end"
           \/ pc = "tag_end" /\ pc' = "idle"
    BY <1>7 DEF TagBegin, TagEnd, SaveTag, ram
  <2> QED
    BY <1>1, <1>2, <2>1 DEF RingInv, Storing, Starting, Formatting
<1>8. CASE PrepareRT \/ GetByDateRange \/ Send
  <2>1. clock' = clock /\ begin' = begin
    BY <1>8 DEF Send, PrepareRT, GetByDateRange, NothingLeft, SendStart, Scan, ScanEnds,
       PostSucceeds, PostFails, WriteFlag, SendEnds, ram
  <2>2. pc \notin Storing \cup Starting /\ pc' \notin Storing \cup Starting
    BY <1>8 DEF Send, PrepareRT, GetByDateRange, NothingLeft, SendStart, Scan, ScanEnds,
       PostSucceeds, PostFails, WriteFlag, SendEnds, Quit, Storing, Starting, Formatting
  <2> QED
    BY <1>1, <1>2, <2>1, <2>2 DEF RingInv, Storing
<1> QED
  BY <1>1, <1>3, <1>4, <1>5, <1>6, <1>7, <1>8 DEF Next, Store

\* Every step keeps the ring and is a step of the durable log, or none.
LEMMA StepImplements ==
  ASSUME IInv, RingInv, [Next]_vars
  PROVE  RingInv' /\ [Durable!Next]_Recovered
<1>0. CellInv /\ CellInv'
  BY CellStep DEF IInv
<1>1. CASE UNCHANGED vars
  <2>1. saved' = saved /\ mem' = mem
    BY <1>0, <1>1, OtherCellsKept DEF vars
  <2>2. RingInv'
    BY <1>1, <2>1 DEF vars, RingInv
  <2> QED
    BY <1>0, <2>1, <2>2, SavedSame
<1>2. CASE SaveBegin
  BY <1>2, SaveBeginEvicts DEF Durable!Next
<1>3. CASE SaveEnd
  BY <1>3, SaveEndStores DEF Durable!Next
<1>4. CASE Next /\ ~SaveBegin /\ ~SaveEnd
  <2>1. RingInv' /\ saved' = saved
    BY <1>4, OthersKeep
  <2>2. \A s \in Slots : s # saved["end"] => mem'[s][0] = mem[s][0]
    BY <1>4, StampsKept
  <2> QED
    BY <1>0, <2>1, <2>2, SavedSame
<1> QED
  BY <1>1, <1>2, <1>3, <1>4

\* An empty chip has no log.
LEMMA EmptyAtFirst ==
  ASSUME Init
  PROVE  Recovered = << >>
BY CellInit, LogOfRegisters DEF Recovered

(***************************************************************************)
(* The theorem of the refinement.                                          *)
(***************************************************************************)
\* Whatever store, transmission or reset comes at whatever point, the log that
\* a restart recovers only grows at its end, one record at a time, and loses
\* only its oldest record, when it is full (datalogger.c:1437-1490).
THEOREM ImplementsDurableLog == SafetySpec => DurableSpec
<1>1. Init => IInv /\ RingInv
  BY InitInvariant, RingInit
<1>2. IInv /\ RingInv /\ [Next]_vars => (IInv /\ RingInv)'
  BY NextKeeps, StepImplements
<1>3. Init => Durable!Init
  BY EmptyAtFirst DEF Durable!Init
<1>4. IInv /\ RingInv /\ [Next]_vars => [Durable!Next]_Recovered
  BY StepImplements
<1> QED
  BY <1>1, <1>2, <1>3, <1>4, PTL DEF SafetySpec, DurableSpec, Durable!Spec
-----------------------------------------------------------------------------
(***************************************************************************)
(* Part 4.  Where a pass goes: down the log, from its end or a record of   *)
(* it, whatever is stored, and evicted, between its iterations.            *)
(***************************************************************************)
Scanning == {"scan", "scanned"}

PassInv ==
  /\ saved["begin"] = saved["end"] => saved["end"] = First
  /\ iter_send \in [Passes -> Slots \cup {0}] /\ pass \in Passes
  /\ \A p \in ready : iter_send[p] \in Slots
  /\ pc \in Starting => \A p \in Passes : iter_send[p] = 0
  /\ pc \notin Starting /\ begin <= end => \A p \in Passes : iter_send[p] <= end
  /\ pc \in Scanning => it \in Slots /\ iter \in Nat /\ (begin <= end => it <= end)

\* Slots are numbers, at least an Item apart.
LEMMA SlotGap ==
  ASSUME NEW a \in Slots, NEW s \in Slots
  PROVE  /\ a \in Nat /\ First <= a /\ a <= Last
         /\ a < s => a + Item <= s
         /\ a # First => a - Item \in Slots
<1>1. PICK j \in 0..(N - 1), k \in 0..(N - 1) : a = Nth(j) /\ s = Nth(k)
  BY Count
<1>2. a \in Nat /\ s \in Nat /\ First <= a /\ a <= Last
  BY <1>1, OneIndex, Sizes DEF Slots
<1>3. j \in Int /\ k \in Int /\ Item * j \in Int /\ Item * k \in Int
  BY <1>1, Count, Sizes, TimesOrder
<1>4. a < s => a + Item <= s
  <2>1. CASE j < k
    <3>1. Item * j + Item <= Item * k
      BY <1>3, <2>1, Sizes, TimesOrder
    <3> QED
      BY <1>1, <1>3, <3>1, Sizes DEF Nth
  <2>2. CASE k <= j
    <3>1. Item * k <= Item * j
      BY <1>3, <2>2, Sizes, TimesOrder
    <3> QED
      BY <1>1, <1>3, <3>1, Sizes DEF Nth
  <2> QED
    BY <1>3, <2>1, <2>2
<1>5. a # First => a - Item \in Slots
  <2>1. SUFFICES ASSUME a # First PROVE a - Item \in Slots
    OBVIOUS
  <2>2. j # 0
    BY <1>1, <2>1, Sizes DEF Nth
  <2>3. j - 1 \in 0..(N - 1) /\ Item * (j - 1) = Item * j - Item
    BY <1>3, <2>2, Count, Sizes
  <2>4. Nth(j - 1) = a - Item
    BY <1>1, <1>3, <2>3, Sizes DEF Nth
  <2> QED
    BY <2>3, <2>4, OneIndex
<1> QED
  BY <1>2, <1>4, <1>5

LEMMA FirstSlot == First \in Slots
<1>1. Nth(0) = First
  BY Sizes DEF Nth
<1> QED
  BY <1>1, Count, OneIndex

\* One record back from a place of a pass is in the log.
LEMMA BackInLog ==
  ASSUME NEW a \in Slots, begin \in Slots, end \in Slots, a # begin,
         begin = end => end = First, begin <= end => a <= end
  PROVE  MoveBack(a, 1) \in Between(begin, end) /\ MoveBack(a, 1) \in Slots
<1> DEFINE b == MoveBack(a, 1)
<1>1. /\ a \in Nat /\ begin \in Nat /\ end \in Nat /\ First <= a /\ First <= begin
      /\ begin < a => begin + Item <= a
      /\ a # First => a - Item \in Slots
  BY SlotGap
<1>2. CASE a < begin
  <2>1. b = begin
    BY <1>1, <1>2, Sizes DEF MoveBack
  <2>2. begin # end
    BY <1>1, <1>2, Sizes
  <2> QED
    BY <1>1, <2>1, <2>2 DEF Between
<1>3. CASE begin < a
  <2>1. b = a - Item
    BY <1>1, <1>3, Sizes DEF MoveBack
  <2>2. a - Item \in Slots /\ begin <= a - Item /\ (begin <= end => a - Item < end)
    BY <1>1, <1>3, Sizes
  <2> QED
    BY <1>1, <2>1, <2>2 DEF Between
<1> QED
  BY <1>1, <1>2, <1>3

\* Between two iterations of a pass BEGIN goes past the place of the pass only
\* when it wraps to the first slot, and then that place is not beyond END.
LEMMA StoreKeepsPlace ==
  ASSUME NEW a \in Slots \cup {0}, begin \in Slots, end \in Slots,
         begin <= end => a <= end, MovedBegin <= After(end)
  PROVE  a <= After(end)
<1>1. After(end) \in Slots /\ After(After(end)) \in Slots
  BY AfterSlot
<1>2. /\ a \in Nat /\ begin \in Nat /\ end \in Nat /\ After(end) \in Nat
      /\ First <= begin /\ a <= Last /\ Item \in Nat \ {0}
  BY <1>1, SlotGap, Sizes
<1>3. CASE end + Item > Last
  <2>1. After(end) = First
    BY <1>3 DEF After
  <2>2. First + Item <= Last /\ First + Item \in Nat
    BY Sizes
  <2>3. After(First) = First + Item
    BY <2>2, Sizes DEF After
  <2>4. MovedBegin # First /\ MovedBegin \in Slots
    BY <1>1, <2>1, <2>3, Sizes DEF MovedBegin
  <2>5. First < MovedBegin
    BY <2>4, SlotGap, FirstSlot, Sizes
  <2> QED
    BY <1>1, <1>2, <2>1, <2>4, <2>5, SlotGap
<1>4. CASE ~(end + Item > Last)
  <2>1. After(end) = end + Item
    BY <1>4 DEF After
  <2>2. CASE After(end) = begin
    <3>1. MovedBegin = After(begin)
      BY <2>2 DEF MovedBegin
    <3>2. begin + Item > Last
      BY <1>1, <1>2, <2>2, <3>1 DEF After
    <3>3. ASSUME a \in Slots, begin < a PROVE FALSE
      <4>1. begin + Item <= a
        BY <3>3, SlotGap
      <4> QED
        BY <1>2, <3>2, <4>1, Sizes
    <3> QED
      BY <1>2, <2>2, <3>3, Sizes
  <2>3. CASE After(end) # begin
    <3>1. begin < After(end)
      BY <1>2, <2>3 DEF MovedBegin
    <3>2. ~(end < begin)
      BY <1>2, <2>1, <3>1, SlotGap
    <3> QED
      BY <1>2, <2>1, <3>2
  <2> QED
    BY <2>2, <2>3
<1> QED
  BY <1>2, <1>3, <1>4

(***************************************************************************)
(* Every step keeps it.                                                    *)
(***************************************************************************)
LEMMA PassInit == Init => PassInv
<1> SUFFICES ASSUME Init PROVE PassInv
  OBVIOUS
<1>1. saved["begin"] = First /\ saved["end"] = First
  BY CellInit, LogOfRegisters DEF Init
<1> QED
  BY <1>1 DEF Init, PassInv, Scanning, Starting, Passes

\* Two slots on is a third slot: the ring has three at least.
LEMMA AfterTwice ==
  ASSUME NEW a \in Slots
  PROVE  After(After(a)) # a
<1>1. PICK k \in 0..(N - 1) : a = Nth(k)
  BY Count
<1>2. Wrap(k + 1) \in 0..(N - 1) /\ After(a) = Nth(Wrap(k + 1))
  BY <1>1, AfterNth
<1>3. /\ Wrap(Wrap(k + 1) + 1) \in 0..(N - 1)
      /\ After(After(a)) = Nth(Wrap(Wrap(k + 1) + 1))
  BY <1>2, AfterNth
<1>4. Wrap(Wrap(k + 1) + 1) # k
  BY Count DEF Wrap
<1> QED
  BY <1>1, <1>3, <1>4, OneIndex

\* The iterators in RAM are slots, and differ once there is a record.
LEMMA RamIterators ==
  ASSUME IInv, RingInv, PassInv, pc \notin Starting
  PROVE  begin \in Slots /\ end \in Slots /\ (begin = end => end = First)
<1>1. CASE pc \notin Storing
  BY <1>1 DEF IInv, EndSaved, RingInv, PassInv
<1>2. CASE pc \in Storing
  <2>1. end \in Slots /\ After(end) \in Slots /\ After(end) # end
    BY <1>2, AfterSlot DEF RingInv
  <2> QED
    BY <1>2, <2>1 DEF RingInv, Storing
<1> QED
  BY <1>1, <1>2

\* A reset forgets the passes, and the start after it takes the iterators from
\* the registers.
LEMMA StartPasses ==
  ASSUME IInv, RingInv, PassInv, Start \/ Reset
  PROVE  PassInv'
<1>1. saved' = saved /\ pc' \notin Scanning
  <2>1. CASE Boot
    BY <2>1, BootKeeps DEF IInv, Boot, Scanning
  <2>2. CASE Format
    BY <2>2, FormatCellKeeps DEF IInv, Format, Formatting, Scanning
  <2>3. CASE Reformat
    BY <2>3, FormatCellKeeps DEF IInv, Reformat, Formatting, Scanning
  <2>4. CASE Reset
    BY <2>4, OtherCellsKept DEF IInv, Reset, Scanning
  <2> QED
    BY <2>1, <2>2, <2>3, <2>4 DEF Start
<1>2. \/ pc \in Starting /\ iter_send' = iter_send /\ pass' = pass /\ ready' = ready
      \/ iter_send' = [p \in Passes |-> 0] /\ pass' = "send_RT" /\ ready' = {}
  BY DEF Start, Boot, Format, Reformat, FormatCell, ram, Reset, Starting, Formatting
<1>3. \A p \in Passes : iter_send'[p] = 0
  BY <1>2 DEF PassInv
<1>4. pc' \notin Starting => end' \in Slots
  <2>1. CASE Boot
    BY <2>1, BootKeeps DEF IInv, RingInv, Boot, Starting, Formatting
  <2>2. CASE Format
    BY <2>2 DEF Format, FormatCell, Starting, Formatting
  <2>3. CASE Reformat
    BY <2>3, FormatCellKeeps DEF IInv, RingInv, Reformat, FormatCell, Starting, Formatting
  <2>4. CASE Reset
    BY <2>4 DEF Reset, Starting
  <2> QED
    BY <2>1, <2>2, <2>3, <2>4 DEF Start
<1>5. pc' \notin Starting => 0 <= end'
  BY <1>4, SlotGap
<1>6. iter_send' \in [Passes -> Slots \cup {0}] /\ pass' \in Passes /\ \A p \in ready' : iter_send'[p] \in Slots
  BY <1>2 DEF PassInv, Passes
<1> QED
  BY <1>1, <1>3, <1>5, <1>6 DEF PassInv

\* The saves put into the registers what is in RAM.
LEMMA SavePasses ==
  ASSUME IInv, RingInv, PassInv, Store
  PROVE  PassInv'
<1>1. pc \notin Starting /\ pc' \notin Starting \cup Scanning
      /\ iter_send' = iter_send /\ pass' = pass /\ ready' = ready
  BY DEF Store, StoreMove, StoreWrite, StoreWrite2, SaveBegin, TagBegin, SaveEnd, TagEnd,
     SaveValue, SaveTag, ram, Starting, Formatting, Scanning
<1>2. begin \in Slots /\ end \in Slots
  BY <1>1, RamIterators
<1>3. ASSUME NEW p \in Passes, begin' <= end'
      PROVE  iter_send[p] <= end'
  <2>1. CASE StoreMove
    <3>1. iter_send[p] \in Slots \cup {0} /\ (begin <= end => iter_send[p] <= end)
      BY <1>1 DEF PassInv
    <3>2. end' = After(end) /\ begin' = MovedBegin
      BY <2>1 DEF StoreMove
    <3> QED
      BY <1>2, <1>3, <3>1, <3>2, StoreKeepsPlace
  <2>2. CASE ~StoreMove
    <3>1. begin' = begin /\ end' = end
      BY <2>2 DEF Store, StoreWrite, StoreWrite2, SaveBegin, TagBegin, SaveEnd, TagEnd,
         SaveValue, SaveTag, ram
    <3> QED
      BY <1>1, <1>3, <3>1 DEF PassInv
  <2> QED
    BY <2>1, <2>2
<1>4. saved'["begin"] = saved'["end"] => saved'["end"] = First
  <2>0. "begin" \in DOMAIN saved /\ "end" \in DOMAIN saved
    BY DEF saved
  <2>1. CASE SaveBegin
    <3>1. pc = "save_begin" /\ (saved' = saved \/ saved' = [saved EXCEPT !["begin"] = begin])
      BY <2>1, SaveValueKeeps DEF IInv, SaveBegin, SaveValue
    <3>2. /\ end = After(saved["end"]) /\ saved["end"] \in Slots
          /\ begin = IF end = saved["begin"] THEN After(end) ELSE saved["begin"]
      BY <3>1 DEF RingInv, Storing
    <3>3. After(After(saved["end"])) # saved["end"]
      BY <3>2, AfterTwice
    <3> QED
      BY <2>0, <3>1, <3>2, <3>3 DEF PassInv
  <2>2. CASE SaveEnd
    <3>1. pc = "save_end" /\ (saved' = saved \/ saved' = [saved EXCEPT !["end"] = end])
      BY <2>2, SaveValueKeeps DEF IInv, SaveEnd, SaveValue
    <3>2. begin = saved["begin"] /\ end # begin
      BY <3>1 DEF RingInv
    <3> QED
      BY <2>0, <3>1, <3>2 DEF PassInv
  <2>3. CASE StoreMove \/ StoreWrite \/ StoreWrite2
    BY <2>3, OtherCellsKept DEF IInv, PassInv
  <2>4. CASE TagBegin \/ TagEnd
    BY <2>4, SaveTagKeeps DEF IInv, PassInv
  <2> QED
    BY <2>1, <2>2, <2>3, <2>4 DEF Store
<1> QED
  BY <1>1, <1>3, <1>4 DEF PassInv

\* A pass starts in the log, goes down in it and leaves its place behind.
LEMMA SendPasses ==
  ASSUME IInv, RingInv, PassInv, PrepareRT \/ GetByDateRange \/ Send
  PROVE  PassInv'
<1>1. /\ saved' = saved /\ begin' = begin /\ end' = end
      /\ pc \notin Starting /\ pc' \notin Starting
  BY OtherCellsKept DEF IInv, Send, PrepareRT, GetByDateRange, NothingLeft, SendStart, Scan,
     ScanEnds, PostSucceeds, PostFails, WriteFlag, SendEnds, Quit, ram, Starting, Formatting
<1>2. begin \in Slots /\ end \in Slots /\ (begin = end => end = First) /\ 0 <= end
  BY <1>1, RamIterators, SlotGap
<1>3. SUFFICES /\ iter_send' \in [Passes -> Slots \cup {0}] /\ pass' \in Passes
               /\ \A p \in ready' : iter_send'[p] \in Slots
               /\ begin <= end => \A p \in Passes : iter_send'[p] <= end
               /\ pc' \in Scanning => it' \in Slots /\ iter' \in Nat /\ (begin <= end => it' <= end)
  BY <1>1 DEF PassInv
<1>4. /\ iter_send \in [Passes -> Slots \cup {0}] /\ pass \in Passes
      /\ \A p \in ready : iter_send[p] \in Slots
      /\ begin <= end => \A p \in Passes : iter_send[p] <= end
      /\ pc \in Scanning => it \in Slots /\ iter \in Nat /\ (begin <= end => it <= end)
  BY <1>1 DEF PassInv
<1>5. ASSUME NEW p \in Passes, NEW a \in Slots, begin <= end => a <= end,
             iter_send' = [iter_send EXCEPT ![p] = a],
             ready' \in {ready, ready \cup {p}}
      PROVE  /\ iter_send' \in [Passes -> Slots \cup {0}]
             /\ \A r \in ready' : iter_send'[r] \in Slots
             /\ begin <= end => \A r \in Passes : iter_send'[r] <= end
  <2>1. /\ iter_send' \in [Passes -> Slots \cup {0}] /\ iter_send'[p] = a
        /\ \A r : r # p => iter_send'[r] = iter_send[r]
    BY <1>4, <1>5
  <2>2. ASSUME NEW r \in ready', r # p PROVE iter_send'[r] \in Slots
    BY <1>4, <1>5, <2>1, <2>2
  <2>3. ASSUME NEW r \in Passes, begin <= end PROVE iter_send'[r] <= end
    BY <1>4, <1>5, <2>1, <2>3
  <2> QED
    BY <1>5, <2>1, <2>2, <2>3
<1>6. ASSUME NEW p \in Passes, Quit(p)
      PROVE  /\ iter_send' \in [Passes -> Slots \cup {0}]
             /\ \A r \in ready' : iter_send'[r] \in Slots
             /\ begin <= end => \A r \in Passes : iter_send'[r] <= end
             /\ pc' \notin Scanning
  <2>1. /\ iter_send' = [iter_send EXCEPT ![p] = 0] /\ ready' = ready \ {p} /\ pc' = "idle"
    BY <1>6 DEF Quit
  <2>2. /\ iter_send' \in [Passes -> Slots \cup {0}] /\ iter_send'[p] = 0
        /\ \A r : r # p => iter_send'[r] = iter_send[r]
    BY <1>4, <2>1
  <2>3. ASSUME NEW r \in ready' PROVE iter_send'[r] \in Slots
    BY <1>4, <2>1, <2>2
  <2>4. ASSUME NEW r \in Passes, begin <= end PROVE iter_send'[r] <= end
    BY <1>2, <1>4, <2>2, <2>4
  <2> QED
    BY <2>1, <2>2, <2>3, <2>4 DEF Scanning
<1>7. CASE PrepareRT
  <2>1. /\ iter_send' = [iter_send EXCEPT !["send_RT"] = end] /\ pass' = pass
        /\ ready' = ready \cup {"send_RT"} /\ pc' \notin Scanning
    BY <1>7 DEF PrepareRT, Scanning
  <2>2. "send_RT" \in Passes /\ end <= end
    BY <1>2, SlotGap DEF Passes
  <2> QED
    BY <1>2, <1>4, <1>5, <2>1, <2>2
<1>8. CASE GetByDateRange
  <2>1. PICK found \in Between(begin, end) \cup {end} :
          iter_send' = [iter_send EXCEPT !["send_data"] = found]
    BY <1>8 DEF GetByDateRange
  <2>2. found \in Slots
    BY <1>2 DEF Between
  <2>3. begin <= end => found <= end
    <3>1. found \in Nat /\ end \in Nat
      BY <1>2, <2>2, SlotGap
    <3> QED
      BY <2>1, <3>1 DEF Between
  <2>4. pass' = pass /\ ready' = ready \cup {"send_data"} /\ pc' \notin Scanning
    BY <1>8 DEF GetByDateRange, Scanning
  <2>5. "send_data" \in Passes
    BY DEF Passes
  <2> QED
    BY <1>4, <1>5, <2>1, <2>2, <2>3, <2>4, <2>5
<1>9. ASSUME NEW p \in Passes, NothingLeft(p)
      PROVE  Quit(p) /\ pass' = pass
  BY <1>9 DEF NothingLeft
<1>10. ASSUME NEW p \in Passes, SendStart(p)
       PROVE  /\ iter_send' = iter_send /\ pass' = p /\ ready' = ready
              /\ it' = iter_send[p] /\ it' \in Slots /\ iter' = 0
  BY <1>4, <1>10 DEF SendStart
<1>11. CASE Scan
  <2>1. /\ pc \in Scanning /\ it # begin /\ it' = MoveBack(it, 1) /\ iter_send' = iter_send
        /\ pass' = pass /\ ready' = ready /\ iter' \in {iter, iter + 1}
    BY <1>11 DEF Scan, Scanning
  <2>2. it' \in Slots /\ it' \in Between(begin, end)
    BY <1>2, <1>4, <2>1, BackInLog
  <2>3. begin <= end => it' <= end
    BY <1>2, <2>2, SlotGap DEF Between
  <2> QED
    BY <1>4, <2>1, <2>2, <2>3
<1>12. CASE ScanEnds
  <2>1. pc \in Scanning /\ pass' = pass
    BY <1>12 DEF ScanEnds, Scanning
  <2>2. CASE iter = 0
    BY <1>4, <1>6, <1>12, <2>1, <2>2 DEF ScanEnds
  <2>3. CASE iter # 0
    <3>1. pc' \notin Scanning /\ iter_send' = [iter_send EXCEPT ![pass] = it] /\ ready' = ready
      BY <1>12, <2>3 DEF ScanEnds, Scanning
    <3> QED
      BY <1>4, <1>5, <2>1, <3>1
  <2> QED
    BY <2>2, <2>3
<1>13. CASE PostSucceeds \/ WriteFlag
  BY <1>4, <1>13 DEF PostSucceeds, WriteFlag, ram, Scanning
<1>14. CASE PostFails
  BY <1>4, <1>6, <1>14 DEF PostFails
<1>15. CASE SendEnds
  <2>1. /\ pass' = pass
        /\ Quit(pass) \/ (pc' \notin Scanning /\ iter_send' = iter_send /\ ready' = ready)
    BY <1>15 DEF SendEnds, Scanning
  <2> QED
    BY <1>4, <1>6, <2>1
<1> QED
  BY <1>4, <1>6, <1>7, <1>8, <1>9, <1>10, <1>11, <1>12, <1>13, <1>14, <1>15 DEF Send

LEMMA PassStep ==
  ASSUME IInv, RingInv, PassInv, [Next]_vars
  PROVE  PassInv'
<1>1. CASE UNCHANGED vars
  <2>1. saved' = saved
    BY <1>1, OtherCellsKept DEF IInv
  <2> QED
    BY <1>1, <2>1 DEF vars, PassInv
<1> QED
  BY <1>1, StartPasses, SavePasses, SendPasses DEF Next

\* What is passed over is in the log and was read as sent.
LEMMA SkipsSent ==
  ASSUME IInv, RingInv, PassInv, [Next]_vars,
         pc = "scan", pc' = "scan", iter' = iter, vars' # vars
  PROVE  InLog(it') /\ mem[FlagSeen(it')][FlagByte] # 0
<1>1. Scan
  BY DEF Next, Start, Boot, Format, Reformat, FormatCell, Store, StoreMove, StoreWrite,
     StoreWrite2, SaveBegin, TagBegin, SaveEnd, TagEnd, SaveValue, SaveTag, PrepareRT,
     GetByDateRange, Send, NothingLeft, SendStart, ScanEnds, PostSucceeds, PostFails,
     WriteFlag, SendEnds, Reset, Quit
<1>2. /\ pc \notin Storing \cup Starting /\ pc \in Scanning
      /\ begin = saved["begin"] /\ end = saved["end"] /\ CellInv /\ it' = MoveBack(it, 1)
      /\ it \in Slots /\ iter \in Nat /\ (begin <= end => it <= end) /\ it # begin
  BY <1>1 DEF Scan, Scanning, Storing, Starting, Formatting, PassInv, RingInv, IInv, EndSaved
<1>3. it' \in Slots /\ it' \in Between(begin, end)
  BY <1>2, RamIterators, BackInLog
<1>4. InLog(it')
  <2>1. ~Fresh
    BY <1>2 DEF Fresh
  <2> QED
    BY <1>2, <1>3, <2>1, LogOfRegisters DEF InLog
<1>5. Read(it')[FlagByte] # 0
  <2>1. iter + 1 # iter
    BY <1>2
  <2> QED
    BY <1>1, <2>1 DEF Scan, Sent
<1>6. it' \in Int /\ LSB(it') \in Int
  BY <1>3, SlotGap, LogAssumption DEF LSB
<1>7. FlagByte < Own(it') <=> ~(Own(it') < Item)
  BY <1>6, FlagOffset DEF Own
<1> QED
  BY <1>4, <1>5, <1>7, FlagOffset DEF Read, FlagSeen

\* A pass stays in the log, and what it skips the server has, or, of a record
\* that begins in the first bytes of a page, the record before (datalogger.c:
\* 733, 751, 1126), for every size of record, page and memory, full logs and
\* resets included.
THEOREM SkipsWhatIsPosted == SafetySpec => SkipsOnlyPosted
<1>1. Init => IInv /\ RingInv /\ PassInv
  BY InitInvariant, RingInit, PassInit
<1>2. IInv /\ RingInv /\ PassInv /\ [Next]_vars => (IInv /\ RingInv /\ PassInv)'
  BY NextKeeps, StepImplements, PassStep
<1>3. ASSUME IInv, RingInv, PassInv, [Next]_vars
      PROVE  [pc = "scan" /\ pc' = "scan" /\ iter' = iter =>
                InLog(it') /\ (InLog(FlagSeen(it')) => Posted(FlagSeen(it')))]_vars
  <2>1. SUFFICES ASSUME pc = "scan", pc' = "scan", iter' = iter, vars' # vars
                 PROVE  InLog(it') /\ (InLog(FlagSeen(it')) => Posted(FlagSeen(it')))
    OBVIOUS
  <2>2. InLog(it') /\ mem[FlagSeen(it')][FlagByte] # 0
    BY <1>3, <2>1, SkipsSent
  <2>3. InLog(FlagSeen(it')) => FlagSeen(it') \in Slots
    BY DEF InLog, Between
  <2> QED
    BY <1>3, <2>2, <2>3, TrueFlags DEF FlagImpliesPosted
<1> QED
  BY <1>1, <1>2, <1>3, PTL DEF SafetySpec, SkipsOnlyPosted
-----------------------------------------------------------------------------
(***************************************************************************)
(* Part 5.  The search by date, module RecordSearch.  No theorem is about  *)
(* both modules.                                                           *)
(***************************************************************************)
\* A set of naturals has a least element: induction, without an operator.
LEMMA Least ==
  ASSUME NEW T \in SUBSET Nat, T # {}
  PROVE  \E x \in T : \A y \in T : x <= y
<1> DEFINE R == { p \in Nat \X Nat : p[1] < p[2] }
<1>1. IsWellFoundedOn(R, Nat)
  BY NatLessThanWellFounded DEF OpToRel
<1>2. \A x, y \in Nat : x < y => << x, y >> \in R
  OBVIOUS
<1> HIDE DEF R
<1>3. PICK x \in T : \A y \in T : << y, x >> \notin R
  BY <1>1, WFMin
<1>4. ASSUME NEW y \in T PROVE x <= y
  <2>1. x \in Nat /\ y \in Nat
    OBVIOUS
  <2>2. ~(y < x)
    BY <1>2, <1>3, <2>1
  <2> QED
    BY <2>1, <2>2
<1> QED
  BY <1>4

\* What increases from each element to the next increases.
LEMMA Ascending ==
  ASSUME NEW n \in Nat, NEW f, \A i \in 0..(n - 1) : f[i] \in Int,
         \A i \in 1..(n - 1) : f[i - 1] < f[i]
  PROVE  \A i, j \in 0..(n - 1) : i < j => f[i] < f[j]
<1> SUFFICES ASSUME NEW i \in 0..(n - 1), NEW j \in 0..(n - 1), i < j, ~(f[i] < f[j])
             PROVE  FALSE
  OBVIOUS
<1> DEFINE T == { d \in Nat : d >= 1 /\ i + d <= n - 1 /\ ~(f[i] < f[i + d]) }
<1>1. j - i \in T
  <2>1. j - i \in Nat /\ j - i >= 1 /\ i + (j - i) = j
    OBVIOUS
  <2> QED
    BY <2>1
<1>2. PICK d \in T : \A y \in T : d <= y
  <2>1. T \in SUBSET Nat /\ T # {}
    BY <1>1
  <2> HIDE DEF T
  <2> QED
    BY <2>1, Least
<1>3. d \in Nat /\ d >= 1 /\ i + d \in 1..(n - 1) /\ i + d - 1 = i + (d - 1)
  BY <1>2
<1>4. f[i + (d - 1)] < f[i + d]
  BY <1>3
<1>5. CASE d = 1
  <2>1. i + (d - 1) = i
    BY <1>5
  <2> QED
    BY <1>2, <1>4, <2>1
<1>6. CASE d # 1
  <2>1. d - 1 \in Nat /\ d - 1 >= 1 /\ i + (d - 1) <= n - 1 /\ d - 1 < d
    BY <1>3, <1>6
  <2>2. d - 1 \notin T
    <3> HIDE DEF T
    <3> QED
      BY <1>2, <1>3, <2>1
  <2>3. f[i] < f[i + (d - 1)]
    BY <2>1, <2>2
  <2>4. i + (d - 1) \in 0..(n - 1) /\ i + d \in 0..(n - 1)
    BY <1>3
  <2> QED
    BY <1>2, <1>4, <2>3, <2>4
<1> QED
  BY <1>5, <1>6

\* The log: D(k) is the date in the k-th slot, and the Size records that come
\* first have dates that increase.
Size == (end - First) \div Item
D(k) == date[Nth(k)]
Dated ==
  /\ begin = First /\ Size \in 1..(N - 1) /\ end = Nth(Size)
  /\ \A k \in 0..Size : D(k) \in Int
  /\ \A i, j \in 0..(Size - 1) : i < j => D(i) < D(j)

\* Behind them the memory is erased, which reads as a date above all others, or
\* the free slot holds the record that was evicted last.
Outdated == Last \notin Slots /\ \A j \in 0..(Size - 1) : D(Size) < D(j)
Beyond == Outdated \/ (dt <= D(Size) /\ \A j \in 0..(Size - 1) : D(j) < D(Size))

\* A search that comes to an evicted record goes on for ever, and stays there.
Aground(k) == k = Size /\ Outdated => state = "search" /\ reg_dir = "forward" /\ D(k) < dt

\* What the search has passed: going back, all records a stride further on are
\* younger than the date; going forward, all a stride back are older.
Passed(k) ==
  \A j \in 0..(Size - 1) :
    /\ reg_dir = "back" /\ j >= k + reg_skip => D(j) > dt
    /\ reg_dir = "forward" /\ j <= k - reg_skip => D(j) < dt

\* What the search ends with: the date, or the record next to it.
Nearest(k) ==
  \/ D(k) = dt /\ state = "found"
  \/ D(k) < dt /\ \A j \in 0..(Size - 1) : j > k => D(j) > dt
  \/ D(k) > dt /\ \A j \in 0..(Size - 1) : j < k => D(j) < dt

SearchInv ==
  /\ Dated /\ Beyond /\ dt \in Int /\ state \in {"search", "found", "not_found"}
  /\ \E k \in 0..Size :
       /\ it = Nth(k) /\ Aground(k)
       /\ state = "search" => reg_skip \in Nat \ {0} /\ reg_dir \in {"back", "forward"} /\ Passed(k)
       /\ state # "search" => Nearest(k) /\ (state = "found" => Accepts(D(k)))

\* Where the iterator is moved to.
LEMMA Moves ==
  ASSUME Dated, NEW k \in 0..Size, NEW n \in Nat
  PROVE  /\ MoveBack(Nth(k), n) = Nth(IF n > k THEN 0 ELSE k - n)
         /\ MoveForward(Nth(k), n) = Nth(IF n > Size - k THEN Size ELSE k + n)
<1>1. /\ N \in Nat /\ Size \in 1..(N - 1) /\ k \in Int /\ n \in Int /\ Size \in Int
      /\ begin = First /\ end = Nth(Size) /\ n * Item = Item * n
  BY Count, Sizes DEF Dated
<1>2. Item * k \in Int /\ Item * n \in Int /\ Item * Size \in Int /\ Item * (N - 1) \in Int
  BY <1>1, Sizes, TimesOrder
<1>3. /\ Item * (k - n) = Item * k - Item * n /\ Item * (k + n) = Item * k + Item * n
      /\ Item * (Size - k) = Item * Size - Item * k
  BY <1>1, Sizes
<1>4. /\ Nth(k) = First + Item * k /\ Nth(Size) = First + Item * Size /\ Nth(0) = First
      /\ Nth(k - n) = First + Item * k - Item * n /\ Nth(k + n) = First + Item * k + Item * n
      /\ Nth(Size) <= Last
  <2>1. Nth(N - 1) <= Last
    BY Count
  <2>2. Item * Size <= Item * (N - 1)
    BY <1>1, Sizes, TimesOrder
  <2> QED
    BY <1>1, <1>2, <1>3, <2>1, <2>2, Sizes DEF Nth
<1>5. MoveBack(Nth(k), n) = Nth(IF n > k THEN 0 ELSE k - n)
  <2>1. CASE n > k
    <3>1. Item * k + Item <= Item * n
      BY <1>1, <2>1, Sizes, TimesOrder
    <3>2. n * Item > Nth(k) - begin
      BY <1>1, <1>2, <1>4, <3>1, Sizes
    <3> QED
      BY <1>1, <1>4, <2>1, <3>2 DEF MoveBack
  <2>2. CASE ~(n > k)
    <3>1. Item * n <= Item * k
      BY <1>1, <2>2, Sizes, TimesOrder
    <3>2. ~(n * Item > Nth(k) - begin) /\ ~(Nth(k) < First + n * Item)
      BY <1>1, <1>2, <1>4, <3>1, Sizes
    <3>3. Nth(k) - n * Item = Nth(k - n)
      BY <1>1, <1>2, <1>4, Sizes
    <3> QED
      BY <2>2, <3>2, <3>3 DEF MoveBack
  <2> QED
    BY <2>1, <2>2
<1>6. MoveForward(Nth(k), n) = Nth(IF n > Size - k THEN Size ELSE k + n)
  <2>1. CASE n > Size - k
    <3>1. Item * (Size - k) + Item <= Item * n
      BY <1>1, <2>1, Sizes, TimesOrder
    <3>2. n * Item > end - Nth(k)
      BY <1>1, <1>2, <1>3, <1>4, <3>1, Sizes
    <3> QED
      BY <1>1, <2>1, <3>2 DEF MoveForward
  <2>2. CASE ~(n > Size - k)
    <3>1. Item * n <= Item * (Size - k)
      BY <1>1, <2>2, Sizes, TimesOrder
    <3>2. ~(n * Item > end - Nth(k)) /\ ~(Nth(k) > Last - n * Item)
      BY <1>1, <1>2, <1>3, <1>4, <3>1, Sizes
    <3>3. Nth(k) + n * Item = Nth(k + n)
      BY <1>1, <1>2, <1>4, Sizes
    <3> QED
      BY <2>2, <3>2, <3>3 DEF MoveForward
  <2> QED
    BY <2>1, <2>2
<1> QED
  BY <1>5, <1>6

\* Dates that increase from record to record increase.
LEMMA DatesAscend ==
  ASSUME Size \in Nat, \A i \in 0..(Size - 1) : D(i) \in Int,
         \A i \in 1..(Size - 1) : D(i - 1) < D(i)
  PROVE  \A i, j \in 0..(Size - 1) : i < j => D(i) < D(j)
<1> DEFINE f == [k \in 0..(Size - 1) |-> D(k)]
<1>1. \A i \in 0..(Size - 1) : f[i] = D(i) /\ f[i] \in Int
  OBVIOUS
<1>2. \A i \in 1..(Size - 1) : f[i - 1] < f[i]
  <2>1. \A i \in 1..(Size - 1) : i - 1 \in 0..(Size - 1) /\ i \in 0..(Size - 1)
    OBVIOUS
  <2> QED
    BY <1>1, <2>1
<1> HIDE DEF f
<1>3. \A i, j \in 0..(Size - 1) : i < j => f[i] < f[j]
  BY <1>1, <1>2, Ascending
<1> QED
  BY <1>1, <1>3

\* The log of a search that begins in a log that was never full.
LEMMA StartFresh ==
  ASSUME SearchInit, begin = First,
         \A s \in Slots : date[s] = ErasedDate <=> s \notin Between(begin, end),
         Increasing(date, begin, (end - begin) \div Item)
  PROVE  Dated /\ dt \in Int /\ dt <= D(Size) /\ \A j \in 0..(Size - 1) : D(j) < D(Size)
<1>1. N = Cardinality(Slots)
  BY DEF N
<1>2. MaxDate \in Nat /\ ErasedDate \in Nat /\ dt \in Int /\ dt <= ErasedDate
  BY SearchAssumption DEF SearchInit, ErasedDate
<1>3. /\ begin = First /\ end \in Slots /\ begin # end
      /\ date \in [Slots -> 1..ErasedDate]
      /\ \A a \in Slots : date[a] = ErasedDate <=> a \notin Between(First, end)
      /\ Increasing(date, First, (end - First) \div Item)
  BY DEF SearchInit
<1>4. PICK n \in 0..(N - 1) : end = Nth(n)
  BY <1>3, Count
<1>5. /\ n # 0 /\ N \in Nat /\ n \in Int
      /\ Item * n \in Int /\ Nth(n) - First = Item * n
  <2>1. Item * n \in Int /\ Nth(0) = First
    BY Count, Sizes, TimesOrder DEF Nth
  <2> QED
    BY <1>3, <1>4, <2>1, Count, Sizes DEF Nth
<1>6. Size = n /\ Size \in 1..(N - 1) /\ end = Nth(Size)
  BY <1>4, <1>5, RingIndex DEF Size
<1>7. ASSUME NEW k \in 0..(N - 1)
      PROVE  Nth(k) \in Slots /\ D(k) \in 1..ErasedDate
  BY <1>3, <1>7, Count DEF D
<1>8. D(Size) = ErasedDate
  <2>1. end \notin Between(First, end)
    BY <1>4, <1>5, Sizes DEF Between, Nth
  <2> QED
    BY <1>3, <1>6, <2>1 DEF D
<1>9. ASSUME NEW k \in 0..(Size - 1) PROVE D(k) < ErasedDate
  <2>1. k \in 0..(N - 1) /\ k \in Int /\ k < n
    BY <1>5, <1>6
  <2>2. Item * 0 <= Item * k /\ Item * k + Item <= Item * n /\ Item * k \in Int
    BY <1>5, <2>1, Sizes, TimesOrder
  <2>3. Nth(k) \in Between(First, end)
    BY <1>1, <1>4, <1>5, <1>7, <2>1, <2>2, Sizes DEF Between, Nth
  <2> QED
    BY <1>2, <1>3, <1>7, <2>1, <2>3 DEF D
<1>10. ASSUME NEW i \in 1..(Size - 1) PROVE D(i - 1) < D(i)
  <2>1. ASSUME NEW k \in 0..(N - 1) PROVE At(First, k) = Nth(k)
    <3>1. (Item * k) % RingSize = Item * k
      BY RingIndex
    <3>2. k \in Int
      BY <1>5
    <3>3. First - First + k * Item = Item * k
      BY <3>2, Sizes
    <3>4. Item * Cardinality(Slots) = RingSize
      BY <1>1 DEF RingSize, N
    <3>5. At(First, k)
            = First + ((First - First + k * Item) % (Item * Cardinality(Slots)))
      BY DEF At
    <3> QED
      BY <3>1, <3>3, <3>4, <3>5 DEF Nth
  <2>2. i - 1 \in 0..(N - 1) /\ i \in 0..(N - 1)
    BY <1>5, <1>6
  <2>3. date[At(First, i - 1)] < date[At(First, i)]
    BY <1>3, <1>6, <1>10 DEF Increasing, Size
  <2> QED
    BY <2>1, <2>2, <2>3 DEF D
<1>11. \A i, j \in 0..(Size - 1) : i < j => D(i) < D(j)
  <2>1. Size \in Nat /\ \A i \in 0..(Size - 1) : D(i) \in Int
    BY <1>2, <1>5, <1>6, <1>7
  <2> QED
    BY <1>10, <2>1, DatesAscend
<1>12. \A k \in 0..Size : D(k) \in Int
  <2>1. \A k \in 0..Size : k \in 0..(N - 1)
    BY <1>5, <1>6
  <2>2. 1..ErasedDate \subseteq Int
    BY <1>2
  <2> QED
    BY <1>7, <2>1, <2>2
<1> QED
  BY <1>2, <1>3, <1>6, <1>8, <1>9, <1>11, <1>12 DEF Dated

\* The slots of a log that has been full, from the free one on.
LEMMA AtNth ==
  ASSUME NEW n \in 0..(N - 1), NEW i \in 0..(N - 1)
  PROVE  Wrap(n + i) \in 0..(N - 1) /\ At(Nth(n), i) = Nth(Wrap(n + i))
<1>1. /\ N \in Nat /\ n \in Int /\ i \in Int /\ n + i \in Int
      /\ Nth(n) - First + i * Item = Item * (n + i)
      /\ Item * Cardinality(Slots) = RingSize
  BY Count, Sizes DEF Nth, RingSize, N
<1>2. Wrap(n + i) \in 0..(N - 1) /\ n + i \in {Wrap(n + i), Wrap(n + i) - N, Wrap(n + i) + N}
  BY <1>1 DEF Wrap
<1>3. (Item * (n + i)) % RingSize = Item * Wrap(n + i)
  BY <1>2, RingIndex
<1> QED
  BY <1>1, <1>2, <1>3 DEF At, Nth

\* In most of them BEGIN is behind END, and moving back or forward leads to the
\* oldest record or to the free slot: the search finds the oldest record or
\* goes on for ever.
Stranded ==
  /\ end < begin /\ {begin, end} \subseteq Slots /\ Last \notin Slots
  /\ dt \in Int /\ (\A a \in Slots : date[a] \in Int) /\ date[end] < date[begin]
  /\ \/ state = "search" /\ it = begin /\ reg_dir = "back" /\ reg_skip \in Nat /\ reg_skip > 1
     \/ state = "search" /\ it = end /\ reg_dir = "forward" /\ reg_skip \in Nat \ {0} /\ date[end] < dt
     \/ state = "found" /\ it = begin /\ date[begin] = dt

LEMMA StartFull ==
  ASSUME SearchInit, begin = At(end, 1), Increasing(date, end, Cardinality(Slots)),
         Last \notin Slots, Skip > 1
  PROVE  (Dated /\ dt \in Int /\ Outdated) \/ Stranded
<1>1. PICK n \in 0..(N - 1) : end = Nth(n)
  BY Count DEF SearchInit
<1>2. N \in Nat /\ N >= 3 /\ n \in Int /\ 0 \in 0..(N - 1) /\ 1 \in 0..(N - 1) /\ N = Cardinality(Slots)
  BY Count DEF N
<1>3. /\ \A i \in 0..(N - 1) : Wrap(n + i) \in 0..(N - 1) /\ At(end, i) = Nth(Wrap(n + i))
      /\ At(end, 0) = end /\ begin = Nth(Wrap(n + 1))
  <2>1. Wrap(n + 0) = n
    BY <1>2 DEF Wrap
  <2> QED
    BY <1>1, <1>2, <2>1, AtNth
<1>4. \A i \in 1..(N - 1) : date[At(end, i - 1)] < date[At(end, i)]
  BY <1>2 DEF Increasing
<1>5. /\ ErasedDate \in Nat /\ dt \in Int /\ begin \in Slots /\ end \in Slots
      /\ \A k \in 0..(N - 1) : date[Nth(k)] \in Int
  BY SearchAssumption, Count DEF SearchInit, ErasedDate
<1>6. date[end] < date[begin]
  <2>1. 1 \in 1..(N - 1) /\ 1 - 1 = 0
    BY <1>2
  <2>2. date[At(end, 0)] < date[At(end, 1)]
    BY <1>4, <2>1
  <2> QED
    BY <1>3, <2>2
<1>7. CASE n < N - 1
  <2>1. begin = Nth(n + 1) /\ Item * (n + 1) = Item * n + Item /\ Item * n \in Int
    BY <1>2, <1>3, <1>7, Sizes DEF Wrap
  <2>2. end < begin
    BY <1>1, <2>1, Sizes DEF Nth
  <2>3. it = begin
    <3>1. 1 * Item > end - begin
      BY <1>1, <2>1, <2>2, Sizes DEF Nth
    <3> QED
      BY <3>1 DEF SearchInit, MoveBack
  <2>4. \A a \in Slots : date[a] \in Int
    BY <1>5, Count
  <2> QED
    BY <1>5, <1>6, <2>2, <2>3, <2>4, SearchAssumption DEF SearchInit, Stranded
<1>8. CASE n = N - 1
  <2>1. begin = First /\ Wrap(n + 1) = 0
    BY <1>2, <1>3, <1>8, Sizes DEF Wrap, Nth
  <2>2. Item * (N - 1) \in Int /\ end - First = Item * (N - 1)
    BY <1>1, <1>2, <1>8, Sizes DEF Nth
  <2>3. N - 1 \in 0..(N - 1) /\ Size = N - 1
    <3>1. N - 1 \in 0..(N - 1)
      BY <1>2
    <3> QED
      BY <2>2, <3>1, RingIndex DEF Size
  <2>4. Size \in 1..(N - 1) /\ end = Nth(Size) /\ \A k \in 0..Size : D(k) \in Int
    BY <1>1, <1>2, <1>5, <1>8, <2>3 DEF D
  <2>5. ASSUME NEW i \in 1..Size PROVE At(end, i) = Nth(i - 1)
    <3>1. i \in 0..(N - 1) /\ n + i = (i - 1) + N /\ i \in Int
      BY <1>2, <1>8, <2>3
    <3>2. Wrap(n + i) = i - 1
      BY <1>2, <3>1 DEF Wrap
    <3> QED
      BY <1>3, <3>1, <3>2
  <2>6. ASSUME NEW i \in 1..(Size - 1) PROVE D(i - 1) < D(i)
    <3>1. i + 1 \in 1..(N - 1) /\ (i + 1) - 1 = i /\ i \in 1..Size /\ i + 1 \in 1..Size
      BY <1>2, <2>3
    <3>2. date[At(end, i)] < date[At(end, i + 1)]
      BY <1>4, <3>1
    <3> QED
      BY <2>5, <3>1, <3>2 DEF D
  <2>7. \A i, j \in 0..(Size - 1) : i < j => D(i) < D(j)
    BY <1>2, <2>3, <2>4, <2>6, DatesAscend
  <2>8. \A j \in 0..(Size - 1) : D(Size) < D(j)
    <3> TAKE j \in 0..(Size - 1)
    <3>1. D(Size) < D(0) /\ D(Size) \in Int /\ D(0) \in Int /\ D(j) \in Int /\ 0 \in 0..(Size - 1)
      BY <1>2, <1>6, <2>1, <2>3, <2>4, Sizes DEF D, Nth
    <3>2. j = 0 \/ D(0) < D(j)
      BY <2>7, <3>1
    <3> QED
      BY <3>1, <3>2
  <2> QED
    BY <1>5, <2>1, <2>4, <2>7, <2>8 DEF Dated, Outdated
<1> QED
  BY <1>2, <1>7, <1>8

\* The records by their index, and by their date.
LEMMA RecordIndex ==
  ASSUME Dated, NEW a \in Records
  PROVE  \E j \in 0..(Size - 1) : a = Nth(j)
<1>1. a \in Slots /\ N \in Nat /\ Size \in 1..(N - 1) /\ First <= a /\ a < Nth(Size)
  <2>1. First <= Nth(Size)
    <3>1. Size \in Nat /\ Item * Size \in Nat
      BY Count, Sizes DEF Dated
    <3> QED
      BY <3>1, Sizes DEF Nth
  <2> QED
    BY <2>1, Count DEF Records, Between, Dated
<1>2. PICK j \in 0..(N - 1) : a = Nth(j)
  BY <1>1, Count
<1>3. j < Size
  <2>1. CASE Size <= j
    <3>1. Item * Size <= Item * j /\ Item * Size \in Int /\ Item * j \in Int
      BY <1>1, <2>1, Sizes, TimesOrder
    <3> QED
      BY <1>1, <1>2, <3>1, Sizes DEF Nth
  <2> QED
    BY <1>1, <2>1
<1> QED
  BY <1>1, <1>2, <1>3

LEMMA ByDate ==
  ASSUME Dated, Beyond, dt \in Int, NEW k \in 0..Size, k = Size => ~Outdated,
         NEW j \in 0..(Size - 1)
  PROVE  /\ D(j) \in Int /\ D(k) \in Int
         /\ D(k) < dt /\ j <= k => D(j) < dt
         /\ D(k) > dt /\ j >= k => D(j) > dt
         /\ j <= k => D(j) <= D(k)
<1>1. j \in 0..Size /\ k \in Int /\ j \in Int /\ Size \in Int
  BY Count DEF Dated
<1>2. D(j) \in Int /\ D(k) \in Int /\ (j < k => D(j) < D(k)) /\ (k < j => D(k) < D(j))
  <2>1. CASE k = Size
    BY <1>1, <2>1 DEF Dated, Beyond
  <2>2. CASE k # Size
    <3>1. k \in 0..(Size - 1)
      BY <1>1, <2>2
    <3> QED
      BY <1>1, <3>1 DEF Dated
  <2> QED
    BY <2>1, <2>2
<1> QED
  BY <1>1, <1>2

LEMMA JumpKeeps ==
  ASSUME SearchInv, Jump
  PROVE  SearchInv'
<1>1. PICK k \in 0..Size :
        /\ it = Nth(k) /\ reg_skip \in Nat \ {0} /\ reg_dir \in {"back", "forward"}
        /\ Passed(k) /\ Aground(k)
  BY DEF SearchInv, Jump
<1>2. /\ Dated /\ Beyond /\ dt \in Int /\ dt' = dt /\ state = "search" /\ state' = "search"
      /\ UNCHANGED << begin, end, date >> /\ Size' = Size
  BY DEF SearchInv, Jump, log, Size
<1>3. Dated' /\ Beyond' /\ (Outdated' <=> Outdated) /\ \A j : D(j)' = D(j)
  <2>1. \A j : D(j)' = D(j)
    BY <1>2 DEF D
  <2> QED
    BY <1>2, <2>1 DEF Dated, Beyond, Outdated
<1> DEFINE n == NewSkip(D(k))
<1>4. /\ D(k) # dt /\ n # 0 /\ reg_skip' = n /\ reg_dir' = NewDir(D(k))
      /\ it' = IF reg_dir' = "back" THEN MoveBack(it, n) ELSE MoveForward(it, n)
  BY <1>1 DEF Jump, Breaks, D
<1>5. /\ n \in Nat \ {0} /\ k \in Int /\ Size \in Nat /\ D(k) \in Int
  BY <1>1, <1>2, <1>4, Count DEF NewSkip, Dated
<1>6. /\ reg_dir' \in {"back", "forward"}
      /\ reg_dir' = "back" => D(k) > dt
      /\ reg_dir' = "forward" => D(k) < dt
  BY <1>1, <1>2, <1>4, <1>5 DEF NewDir, Turns
<1> HIDE DEF n
<1>7. PICK m \in 0..Size :
        /\ it' = Nth(m)
        /\ m = IF reg_dir' = "back" THEN IF n > k THEN 0 ELSE k - n
               ELSE IF n > Size - k THEN Size ELSE k + n
  BY <1>1, <1>2, <1>4, <1>5, <1>6, Moves
<1>8. /\ \A j \in 0..(Size - 1) :
           /\ reg_dir' = "back" /\ j >= m + n => D(j) > dt
           /\ reg_dir' = "forward" /\ j <= m - n => D(j) < dt
      /\ m = Size /\ Outdated => reg_dir' = "forward" /\ D(m) < dt
  <2>1. CASE k = Size /\ Outdated
    <3>1. reg_dir = "forward" /\ ~Turns(D(k)) /\ D(k) < dt
      BY <1>1, <1>2, <1>5, <2>1 DEF Aground, Turns
    <3>2. n = reg_skip /\ reg_dir' = "forward"
      BY <1>4, <3>1 DEF NewSkip, NewDir, n
    <3> QED
      BY <1>1, <1>5, <1>7, <2>1, <3>1, <3>2 DEF Passed
  <2>2. CASE ~(k = Size /\ Outdated)
    <3>1. ASSUME NEW j \in 0..(Size - 1)
          PROVE  /\ reg_dir' = "back" /\ j >= m + n => D(j) > dt
                 /\ reg_dir' = "forward" /\ j <= m - n => D(j) < dt
      <4>1. reg_dir' = "back" /\ j >= m + n => j >= k
        BY <1>5, <1>7
      <4>2. reg_dir' = "forward" /\ j <= m - n => j <= k
        BY <1>5, <1>7
      <4> QED
        BY <1>2, <1>6, <2>2, <4>1, <4>2, ByDate
    <3>2. m = Size /\ Outdated => reg_dir' = "forward" /\ D(m) < dt
      <4> HAVE m = Size /\ Outdated
      <4>1. reg_dir' = "forward" /\ k \in 0..(Size - 1) /\ D(Size) < D(k)
        BY <1>2, <1>5, <1>6, <1>7, <2>2 DEF Outdated, Dated
      <4> QED
        BY <1>2, <1>5, <1>6, <4>1 DEF Dated
    <3> QED
      BY <3>1, <3>2
  <2> QED
    BY <2>1, <2>2
<1>9. Passed(m)' /\ Aground(m)'
  <2>1. ASSUME NEW j \in 0..(Size' - 1)
        PROVE  /\ reg_dir' = "back" /\ j >= m + reg_skip' => D(j)' > dt'
               /\ reg_dir' = "forward" /\ j <= m - reg_skip' => D(j)' < dt'
    BY <1>2, <1>3, <1>4, <1>8
  <2>2. m = Size /\ Outdated => reg_dir' = "forward" /\ D(m) < dt
    BY <1>8
  <2>3. Aground(m)'
    BY <1>2, <1>3, <2>2 DEF Aground
  <2> QED
    BY <2>1, <2>3 DEF Passed
<1> QED
  BY <1>2, <1>3, <1>4, <1>5, <1>6, <1>7, <1>9 DEF SearchInv

LEMMA FinishKeeps ==
  ASSUME SearchInv, Finish
  PROVE  SearchInv'
<1>1. PICK k \in 0..Size :
        /\ it = Nth(k) /\ reg_skip \in Nat \ {0} /\ reg_dir \in {"back", "forward"}
        /\ Passed(k) /\ Aground(k)
  BY DEF SearchInv, Finish
<1>2. /\ Dated /\ Beyond /\ dt \in Int /\ UNCHANGED << dt, mode, it >> /\ state = "search"
      /\ UNCHANGED << begin, end, date >> /\ Size' = Size
  BY DEF SearchInv, Finish, log, Size
<1>3. Dated' /\ Beyond' /\ (Outdated' <=> Outdated) /\ \A j : D(j)' = D(j)
  <2>1. \A j : D(j)' = D(j)
    BY <1>2 DEF D
  <2> QED
    BY <1>2, <2>1 DEF Dated, Beyond, Outdated
<1>4. /\ Breaks(D(k))
      /\ state' = IF Accepts(D(k)) THEN "found" ELSE "not_found"
  BY <1>1 DEF Finish, D
<1>5. k \in Int /\ Size \in Nat /\ D(k) \in Int /\ N \in Nat /\ Size \in 1..(N - 1)
  BY <1>1, <1>2, Count DEF Dated
<1>6. ~(k = Size /\ Outdated)
  <2> SUFFICES ASSUME k = Size, Outdated PROVE FALSE
    OBVIOUS
  <2>1. NewDir(D(k)) = "forward" /\ NewSkip(D(k)) = reg_skip /\ D(k) # dt
    BY <1>1, <1>2, <1>5 DEF Aground, NewDir, NewSkip, Turns
  <2>2. Nth(k) = Last
    BY <1>1, <1>4, <2>1 DEF Breaks, AtLimit
  <2>3. k \in 0..(N - 1)
    BY <1>5
  <2> QED
    BY <2>2, <2>3, Count DEF Outdated
<1>7. Aground(k)'
  BY <1>2, <1>3, <1>6 DEF Aground
<1>8. CASE D(k) = dt
  <2>1. state' = "found"
    BY <1>4, <1>8 DEF Accepts
  <2> QED
    BY <1>1, <1>2, <1>3, <1>4, <1>8, <1>7, <2>1 DEF SearchInv, Nearest, Accepts
<1>9. CASE D(k) # dt
  <2>1. \/ D(k) < dt /\ \A j \in 0..(Size - 1) : j > k => D(j) > dt
        \/ D(k) > dt /\ \A j \in 0..(Size - 1) : j < k => D(j) < dt
    <3>1. CASE NewSkip(D(k)) = 0
      <4>1. reg_skip = 1 /\ Turns(D(k))
        BY <1>1, <3>1 DEF NewSkip
      <4>2. CASE reg_dir = "back"
        BY <1>1, <1>5, <4>1, <4>2 DEF Turns, Passed
      <4>3. CASE reg_dir = "forward"
        BY <1>1, <1>5, <4>1, <4>3 DEF Turns, Passed
      <4> QED
        BY <1>1, <4>2, <4>3
    <3>2. CASE AtLimit(NewDir(D(k)))
      <4>1. CASE NewDir(D(k)) = "back"
        <5>1. D(k) > dt /\ Nth(k) = First
          BY <1>1, <1>2, <1>5, <1>9, <3>2, <4>1 DEF NewDir, Turns, AtLimit
        <5>2. k = 0
          <6>1. k > 0 => Item * 0 + Item <= Item * k /\ Item * k \in Int
            BY <1>5, Sizes, TimesOrder
          <6> QED
            BY <1>1, <1>5, <5>1, <6>1, Sizes DEF Nth
        <5> QED
          BY <5>1, <5>2
      <4>2. CASE NewDir(D(k)) = "forward"
        <5>1. D(k) < dt /\ Nth(k) = Last
          BY <1>1, <1>2, <1>5, <1>9, <3>2, <4>2 DEF NewDir, Turns, AtLimit
        <5>2. ASSUME NEW j \in 0..(Size - 1), j > k PROVE FALSE
          <6>1. j \in Int /\ j <= N - 1
            BY <1>5
          <6>2. Item * k + Item <= Item * j /\ Item * j <= Item * (N - 1)
            BY <1>5, <5>2, <6>1, Sizes, TimesOrder
          <6>3. Item * k \in Int /\ Item * j \in Int /\ Item * (N - 1) \in Int
            BY <1>5, <6>1, Sizes
          <6> QED
            BY <5>1, <6>2, <6>3, Sizes, Count DEF Nth
        <5> QED
          BY <5>1, <5>2
      <4> QED
        BY <1>1, <4>1, <4>2 DEF NewDir
    <3> QED
      BY <1>4, <1>9, <3>1, <3>2 DEF Breaks
  <2>2. Nearest(k)'
    BY <1>2, <1>3, <2>1 DEF Nearest
  <2> QED
    BY <1>1, <1>2, <1>3, <1>4, <1>7, <2>2 DEF SearchInv, Accepts
<1> QED
  BY <1>8, <1>9

\* The search begins at the last record.
LEMMA SearchStarts ==
  ASSUME SearchInit, Dated, Beyond, dt \in Int
  PROVE  SearchInv
<1>1. /\ it = MoveBack(end, 1) /\ state = "search" /\ reg_dir = "back"
      /\ reg_skip \in Nat \ {0}
  BY SearchAssumption DEF SearchInit
<1>2. Size \in Nat \ {0} /\ end = Nth(Size) /\ Size \in 0..Size /\ 1 \in Nat /\ ~(1 > Size)
  BY Count DEF Dated
<1>3. it = Nth(Size - 1) /\ Size - 1 \in 0..Size
  BY <1>1, <1>2, Moves
<1>4. Passed(Size - 1) /\ Aground(Size - 1)
  BY <1>1, <1>2 DEF Passed, Aground
<1> QED
  BY <1>1, <1>3, <1>4 DEF SearchInv

\* Behind the records the memory is erased, and its date is not below any.
Above == dt <= D(Size)

LEMMA FreshStarts ==
  ASSUME ~Full, SearchInit
  PROVE  SearchInv /\ Above
<1>1. /\ begin = First /\ Increasing(date, begin, (end - begin) \div Item)
      /\ \A s \in Slots : date[s] = ErasedDate <=> s \notin Between(begin, end)
  BY DEF SearchInit, Log
<1>2. Dated /\ dt \in Int /\ dt <= D(Size) /\ \A j \in 0..(Size - 1) : D(j) < D(Size)
  BY <1>1, StartFresh
<1> QED
  BY <1>2, SearchStarts DEF Above, Beyond

LEMMA AnyStarts ==
  ASSUME Full => Last \notin Slots /\ Skip > 1, SearchInit
  PROVE  SearchInv \/ Stranded
<1>1. CASE /\ begin = First /\ Increasing(date, begin, (end - begin) \div Item)
           /\ \A s \in Slots : date[s] = ErasedDate <=> s \notin Between(begin, end)
  <2>1. Dated /\ dt \in Int /\ dt <= D(Size) /\ \A j \in 0..(Size - 1) : D(j) < D(Size)
    BY <1>1, StartFresh
  <2> QED
    BY <2>1, SearchStarts DEF Beyond
<1>2. CASE Full /\ begin = At(end, 1) /\ Increasing(date, end, Cardinality(Slots))
  <2>1. (Dated /\ dt \in Int /\ Outdated) \/ Stranded
    BY <1>2, StartFull
  <2> QED
    BY <2>1, SearchStarts DEF Beyond
<1> QED
  BY <1>1, <1>2 DEF SearchInit, Log

\* The iterator stays on the ring.
LEMMA IteratorInSlots ==
  ASSUME SearchInv
  PROVE  it \in Slots
<1>1. PICK k \in 0..Size : it = Nth(k) /\ Size \in 1..(N - 1) /\ N \in Nat
  BY Count DEF SearchInv, Dated
<1>2. k \in 0..(N - 1)
  BY <1>1
<1> QED
  BY <1>1, <1>2, Count

LEMMA SearchKept ==
  ASSUME SearchInv, [SearchNext]_searchVars
  PROVE  SearchInv'
<1>1. CASE UNCHANGED searchVars
  <2>1. UNCHANGED << begin, end, date, dt, mode, it, reg_skip, reg_dir, state >>
    BY <1>1 DEF searchVars, log
  <2> QED
    BY <2>1 DEF SearchInv, Dated, Beyond, Outdated, Aground, Size, D, Passed, Nearest, Accepts
<1> QED
  BY <1>1, JumpKeeps, FinishKeeps DEF SearchNext

LEMMA StrandedKept ==
  ASSUME Stranded, [SearchNext]_searchVars
  PROVE  Stranded'
<1>1. CASE UNCHANGED searchVars
  BY <1>1 DEF searchVars, log, Stranded
<1>2. CASE SearchNext
  <2>1. /\ UNCHANGED << begin, end, date, dt >> /\ state = "search"
        /\ end < begin /\ First <= end /\ begin # Last /\ end # Last /\ begin # First
        /\ date[begin] \in Int /\ date[end] \in Int /\ dt \in Int /\ date[end] < date[begin]
    <3>1. /\ UNCHANGED << begin, end, date, dt >> /\ state = "search"
      BY <1>2 DEF SearchNext, Jump, Finish, log
    <3>2. begin \in First..Last /\ end \in First..Last /\ First \in Int /\ Last \in Int
      BY SearchAssumption DEF Stranded, Slots
    <3>3. end < begin /\ begin # Last /\ end # Last
      BY DEF Stranded
    <3>4. date[begin] \in Int /\ date[end] \in Int /\ dt \in Int /\ date[end] < date[begin]
      BY DEF Stranded
    <3> QED
      BY <3>1, <3>2, <3>3, <3>4
  <2>2. First \in Int /\ begin \in Int /\ end \in Int /\ Item \in Nat \ {0}
    BY SearchAssumption DEF Stranded, Slots
  <2>3. ASSUME NEW n \in Nat \ {0}
        PROVE  /\ MoveBack(begin, n) = begin
               /\ MoveForward(begin, n) = end /\ MoveForward(end, n) = end
    <3>1. n * Item \in Nat /\ n * Item > 0
      BY <2>2, TimesOrder
    <3> QED
      BY <2>1, <2>2, <3>1 DEF MoveBack, MoveForward
  <2>4. CASE it = begin /\ reg_dir = "back" /\ reg_skip \in Nat /\ reg_skip > 1
    <3>1. CASE date[begin] = dt
      <4>1. Finish /\ state' = "found" /\ it' = begin
        BY <1>2, <2>4, <3>1 DEF SearchNext, Jump, Finish, Breaks, Accepts
      <4> QED
        BY <2>1, <3>1, <4>1 DEF Stranded
    <3>2. CASE date[begin] < dt
      <4>1. /\ NewDir(date[it]) = "forward" /\ NewSkip(date[it]) = reg_skip \div 2
            /\ reg_skip \div 2 \in Nat \ {0} /\ ~Breaks(date[it])
        BY <2>1, <2>4, <3>2 DEF NewDir, NewSkip, Turns, Breaks, AtLimit
      <4>2. /\ reg_dir' = "forward" /\ reg_skip' \in Nat \ {0} /\ state' = "search"
            /\ it' = MoveForward(begin, reg_skip')
        BY <1>2, <2>1, <2>4, <4>1 DEF SearchNext, Jump, Finish
      <4>3. it' = end
        BY <2>3, <4>2
      <4> QED
        BY <2>1, <3>2, <4>2, <4>3 DEF Stranded
    <3>3. CASE date[begin] > dt
      <4>1. /\ NewDir(date[it]) = "back" /\ NewSkip(date[it]) = reg_skip
            /\ ~Breaks(date[it])
        BY <2>1, <2>4, <3>3 DEF NewDir, NewSkip, Turns, Breaks, AtLimit
      <4>2. /\ reg_dir' = "back" /\ reg_skip' = reg_skip /\ state' = "search"
            /\ it' = MoveBack(begin, reg_skip)
        BY <1>2, <2>1, <2>4, <4>1 DEF SearchNext, Jump, Finish
      <4>3. it' = begin
        BY <2>3, <2>4, <4>2
      <4> QED
        BY <2>1, <2>4, <4>2, <4>3 DEF Stranded
    <3> QED
      BY <2>1, <3>1, <3>2, <3>3
  <2>5. CASE it = end /\ reg_dir = "forward" /\ reg_skip \in Nat \ {0} /\ date[end] < dt
    <3>1. /\ NewDir(date[it]) = "forward" /\ NewSkip(date[it]) = reg_skip
          /\ ~Breaks(date[it])
      BY <2>1, <2>5 DEF NewDir, NewSkip, Turns, Breaks, AtLimit
    <3>2. /\ reg_dir' = "forward" /\ reg_skip' = reg_skip /\ state' = "search"
          /\ it' = MoveForward(end, reg_skip)
      BY <1>2, <2>1, <2>5, <3>1 DEF SearchNext, Jump, Finish
    <3>3. it' = end
      BY <2>3, <2>5, <3>2
    <3> QED
      BY <2>1, <2>5, <3>2, <3>3 DEF Stranded
  <2> QED
    BY <2>1, <2>4, <2>5 DEF Stranded
<1> QED
  BY <1>1, <1>2

LEMMA SearchInvariant ==
  ASSUME Full => Last \notin Slots /\ Skip > 1
  PROVE  SearchSpec => [](SearchInv \/ Stranded)
<1>1. SearchInit => SearchInv \/ Stranded
  BY AnyStarts
<1>2. (SearchInv \/ Stranded) /\ [SearchNext]_searchVars => (SearchInv \/ Stranded)'
  BY SearchKept, StrandedKept
<1> QED
  BY <1>1, <1>2, PTL DEF SearchSpec

\* For every memory, record, stride and date: a search that ends has found the
\* record with the very date if there is one, in every mode (datalogger.c:823).
\* In a log that has been full this takes a memory whose last address is no
\* slot, as the device's is, and a stride above 1.
THEOREM ExactIsFound ==
  ASSUME Full => Last \notin Slots /\ Skip > 1
  PROVE  SearchSpec => []ExactFound
<1>1. SearchInv => ExactFound
  <2> SUFFICES ASSUME SearchInv, state # "search", NEW a \in Records, date[a] = dt
               PROVE  state = "found" /\ date[it] = dt
    BY DEF ExactFound
  <2>1. PICK k \in 0..Size : it = Nth(k) /\ Nearest(k) /\ Aground(k)
    BY DEF SearchInv
  <2>2. PICK j \in 0..(Size - 1) : a = Nth(j)
    BY RecordIndex DEF SearchInv
  <2>3. /\ D(j) = dt /\ j \in Int /\ k \in Int /\ dt \in Int
        /\ ~(D(k) < dt /\ j <= k) /\ ~(D(k) > dt /\ j >= k)
    <3>1. /\ D(j) = dt /\ dt \in Int /\ Dated /\ Beyond
          /\ k = Size => ~Outdated
      BY <2>1, <2>2 DEF D, SearchInv, Aground
    <3>2. j \in Int /\ k \in Int
      BY <3>1, Count DEF Dated
    <3> QED
      BY <3>1, <3>2, ByDate
  <2> QED
    BY <2>1, <2>3 DEF Nearest, D
<1>2. Stranded => ExactFound
  BY DEF Stranded, ExactFound
<1> QED
  BY <1>1, <1>2, SearchInvariant, PTL

\* There, what a bound mode finds is the nearest record on its side of the date
\* (datalogger.c:882).
THEOREM BoundIsNearest ==
  ASSUME Full => Last \notin Slots /\ Skip > 1
  PROVE  SearchSpec => []NearestFound
<1>1. SearchInv => NearestFound
  <2> SUFFICES ASSUME SearchInv, state = "found", NEW a \in Records
               PROVE  /\ mode = "RIGHT_BOUND" => date[a] <= date[it] \/ dt < date[a]
                      /\ mode = "LEFT_BOUND" => date[a] >= date[it] \/ dt > date[a]
    BY DEF NearestFound
  <2>1. PICK k \in 0..Size : it = Nth(k) /\ Nearest(k) /\ Accepts(D(k)) /\ Aground(k)
    BY DEF SearchInv
  <2>2. PICK j \in 0..(Size - 1) : a = Nth(j)
    BY RecordIndex DEF SearchInv
  <2>3. /\ j \in Int /\ k \in Int /\ dt \in Int /\ D(j) \in Int /\ D(k) \in Int
        /\ j <= k => D(j) <= D(k)
        /\ j >= k => D(j) >= D(k)
    <3>1. dt \in Int /\ Dated /\ Beyond /\ (k = Size => ~Outdated)
      BY <2>1 DEF SearchInv, Aground
    <3>2. j \in Int /\ k \in Int /\ Size \in Int
      BY <3>1, Count DEF Dated
    <3>3. D(j) \in Int /\ D(k) \in Int /\ (j <= k => D(j) <= D(k))
      BY <3>1, ByDate
    <3>4. j > k => D(j) > D(k)
      BY <3>1, <3>2 DEF Dated
    <3> QED
      BY <3>1, <3>2, <3>3, <3>4
  <2>4. date[a] = D(j) /\ date[it] = D(k)
    BY <2>1, <2>2 DEF D
  <2>5. CASE D(k) = dt
    BY <2>3, <2>4, <2>5
  <2>6. CASE D(k) < dt /\ \A i \in 0..(Size - 1) : i > k => D(i) > dt
    BY <2>1, <2>3, <2>4, <2>6 DEF Accepts
  <2>7. CASE D(k) > dt /\ \A i \in 0..(Size - 1) : i < k => D(i) < dt
    BY <2>1, <2>3, <2>4, <2>7 DEF Accepts
  <2> QED
    BY <2>1, <2>5, <2>6, <2>7 DEF Nearest
<1>2. Stranded => NearestFound
  <2> SUFFICES ASSUME Stranded, state = "found", NEW a \in Records
               PROVE  /\ mode = "RIGHT_BOUND" => date[a] <= date[it] \/ dt < date[a]
                      /\ mode = "LEFT_BOUND" => date[a] >= date[it] \/ dt > date[a]
    BY DEF NearestFound
  <2>1. date[a] \in Int /\ date[it] = dt /\ dt \in Int
    BY DEF Records, Between, Stranded
  <2> QED
    BY <2>1
<1> QED
  BY <1>1, <1>2, SearchInvariant, PTL

LEMMA AboveInvariant ==
  ASSUME ~Full
  PROVE  SearchSpec => [](SearchInv /\ Above)
<1>1. SearchInit => SearchInv /\ Above
  BY FreshStarts
<1>2. SearchInv /\ Above /\ [SearchNext]_searchVars => (SearchInv /\ Above)'
  <2>1. Above /\ [SearchNext]_searchVars => Above'
    BY DEF SearchNext, Jump, Finish, searchVars, log, Above, D, Size
  <2> QED
    BY <2>1, SearchKept
<1> QED
  BY <1>1, <1>2, PTL DEF SearchSpec

\* Types of the variables hold there too: the iterator never leaves the slots,
\* even where the search goes on for ever (datalogger.c:866).
THEOREM SearchTypesHold ==
  ASSUME Full => Last \notin Slots /\ Skip > 1
  PROVE  SearchSpec => []SearchTypeOK
<1>1. SearchInit /\ (SearchInv \/ Stranded) => SearchTypeOK
  <2> SUFFICES ASSUME SearchInit, SearchInv \/ Stranded PROVE SearchTypeOK
    OBVIOUS
  <2>1. it \in Slots
    BY IteratorInSlots DEF Stranded
  <2>2. Skip \in 0..Skip /\ 0 \in 0..ErasedDate
    BY SearchAssumption DEF ErasedDate
  <2> QED
    BY <2>1, <2>2 DEF SearchInit, SearchTypeOK
<1>2. SearchTypeOK /\ (SearchInv \/ Stranded)' /\ [SearchNext]_searchVars => SearchTypeOK'
  <2> SUFFICES ASSUME SearchTypeOK, (SearchInv \/ Stranded)', [SearchNext]_searchVars
               PROVE  SearchTypeOK'
    OBVIOUS
  <2>1. /\ UNCHANGED << begin, end, date, dt, mode >> /\ it \in Slots
        /\ reg_skip \in 0..Skip /\ reg_dir \in {"back", "forward"} /\ Skip \in Nat
    BY SearchAssumption DEF SearchTypeOK, SearchNext, Jump, Finish, searchVars, log
  <2>2. it' \in Slots
    <3>1. CASE SearchInv'
      <4>1. Size' = Size /\ Size \in 1..(N - 1) /\ N \in Nat
        BY <2>1, <3>1, Count DEF Size, SearchInv, Dated
      <4>2. PICK k \in 0..Size : it' = Nth(k)
        BY <3>1, <4>1 DEF SearchInv
      <4>3. k \in 0..(N - 1)
        BY <4>1
      <4> QED
        BY <4>2, <4>3, Count
    <3>2. CASE Stranded'
      BY <3>2 DEF Stranded
    <3> QED
      BY <3>1, <3>2
  <2>3. date[it] \in 0..ErasedDate /\ ErasedDate \in Nat
    BY <2>1, SearchAssumption DEF SearchTypeOK, ErasedDate
  <2>4. ds' \in 0..ErasedDate
    BY <2>3 DEF SearchTypeOK, SearchNext, Jump, Finish, searchVars
  <2>5. \A d : NewSkip(d) \in 0..Skip /\ NewDir(d) \in {"back", "forward"}
    BY <2>1 DEF NewSkip, NewDir
  <2>6. reg_skip' \in 0..Skip /\ reg_dir' \in {"back", "forward"}
    BY <2>1, <2>5 DEF SearchNext, Jump, Finish, searchVars
  <2>7. state' \in {"search", "found", "not_found"}
    BY DEF SearchInv, Stranded
  <2> QED
    BY <2>1, <2>2, <2>4, <2>6, <2>7 DEF SearchTypeOK
<1>3. SearchInit => SearchInv \/ Stranded
  BY AnyStarts
<1> QED
  BY <1>1, <1>2, <1>3, SearchInvariant, PTL DEF SearchSpec

\* What is left to search: the strides that are still to come, each over all
\* the records at most, and the way ahead with the present one.
Left == (end - First + 1) * reg_skip + IF reg_dir = "back" THEN it - First ELSE end - it

\* In a log that was never full each turn of the loop leaves less to search, so
\* that the loop ends whatever the date, the mode and the stride (Terminates but
\* for the fairness that makes turns; datalogger.c:828).
THEOREM SearchRunsDown ==
  ASSUME ~Full
  PROVE  SearchSpec => [][Jump => Left \in Nat /\ Left' \in Nat /\ Left' < Left]_searchVars
<1>1. ASSUME SearchInv, SearchInv', Above, Jump
      PROVE  Left \in Nat /\ Left' \in Nat /\ Left' < Left
  <2>1. PICK k \in 0..Size : it = Nth(k) /\ reg_skip \in Nat \ {0} /\ reg_dir \in {"back", "forward"}
    BY <1>1 DEF SearchInv, Jump
  <2>2. /\ Dated /\ dt \in Int /\ end' = end /\ Size \in 1..(N - 1) /\ end = Nth(Size) /\ begin = First
        /\ state = "search" /\ state' = "search" /\ N \in Nat
    BY <1>1, Count DEF SearchInv, Jump, log, Dated
  <2> DEFINE n == NewSkip(D(k))
  <2>3. /\ D(k) # dt /\ n # 0 /\ reg_skip' = n /\ reg_dir' = NewDir(D(k))
        /\ ~AtLimit(NewDir(D(k)))
        /\ it' = IF reg_dir' = "back" THEN MoveBack(it, n) ELSE MoveForward(it, n)
    BY <1>1, <2>1 DEF Jump, Breaks, D
  <2>4. n \in Nat \ {0} /\ D(k) \in Int /\ k \in Int /\ Size \in Int
    BY <2>1, <2>2, <2>3 DEF NewSkip, Dated
  <2>5. PICK m \in 0..Size :
          /\ it' = Nth(m)
          /\ m = IF reg_dir' = "back" THEN IF n > k THEN 0 ELSE k - n
                 ELSE IF n > Size - k THEN Size ELSE k + n
    <3> HIDE DEF n
    <3> QED
      BY <2>1, <2>2, <2>3, <2>4, Moves DEF NewDir
  <2>6. /\ Turns(D(k)) => n <= reg_skip - 1
        /\ ~Turns(D(k)) => n = reg_skip /\ reg_dir' = reg_dir
    BY <2>1, <2>3, <2>4 DEF NewSkip, NewDir
  <2> HIDE DEF n
  <2>7. /\ Item * k \in Int /\ Item * m \in Int /\ Item * Size \in Int /\ Item \in Nat
        /\ 0 <= Item * k /\ Item * k <= Item * Size /\ 0 <= Item * m /\ Item * m <= Item * Size
        /\ m < k => Item * m < Item * k
        /\ m > k => Item * m > Item * k
    <3>1. m \in Int /\ 0 \in Int /\ 0 <= k /\ k <= Size /\ 0 <= m /\ m <= Size /\ Item * 0 = 0
      BY <2>4, Sizes
    <3> QED
      BY <2>4, <3>1, Sizes, TimesOrder
  <2>8. /\ it = First + Item * k /\ it' = First + Item * m /\ end = First + Item * Size
        /\ First \in Int
    BY <2>1, <2>2, <2>5, Sizes DEF Nth
  <2>9. ASSUME ~Turns(D(k)) PROVE IF reg_dir = "back" THEN m < k ELSE m > k
    <3>1. CASE reg_dir = "back"
      <4>1. k # 0
        BY <2>3, <2>6, <2>8, <2>9, <3>1, Sizes DEF AtLimit
      <4> QED
        BY <2>3, <2>4, <2>5, <2>6, <2>9, <3>1, <4>1
    <3>2. CASE reg_dir = "forward"
      <4>1. D(k) < dt
        BY <2>2, <2>3, <2>4, <2>9, <3>2 DEF Turns
      <4>2. D(Size) \in Int
        BY <2>2 DEF Dated
      <4>3. k # Size
        BY <1>1, <2>2, <2>4, <4>1, <4>2 DEF Above
      <4> QED
        BY <2>3, <2>4, <2>5, <2>6, <2>9, <3>2, <4>3
    <3> QED
      BY <2>1, <3>1, <3>2
  <2> DEFINE W == end - First + 1
             way == IF reg_dir = "back" THEN it - First ELSE end - it
             way1 == IF reg_dir' = "back" THEN it' - First ELSE end - it'
  <2>10. W \in Nat \ {0} /\ way \in 0..(W - 1) /\ way1 \in 0..(W - 1)
    BY <2>7, <2>8
  <2>11. ~Turns(D(k)) => way1 < way
    BY <2>1, <2>6, <2>7, <2>8, <2>9
  <2>12. Left = W * reg_skip + way /\ Left' = W * n + way1
    BY <2>2, <2>3 DEF Left
  <2> HIDE DEF W, way, way1
  <2>13. /\ W * reg_skip \in Nat /\ W * n \in Nat
         /\ n <= reg_skip - 1 => W * n + W <= W * reg_skip
         /\ n = reg_skip => W * n = W * reg_skip
    <3>1. reg_skip \in Int /\ n \in Int /\ 0 \in Int /\ 0 <= n /\ 0 <= reg_skip /\ W * 0 = 0
      BY <2>1, <2>4, <2>10
    <3> QED
      BY <2>10, <3>1, TimesOrder
  <2> QED
    BY <2>6, <2>10, <2>11, <2>12, <2>13
<1>2. SearchInv /\ Above /\ SearchInv' => (Jump => Left \in Nat /\ Left' \in Nat /\ Left' < Left)
  BY <1>1
<1> QED
  BY <1>2, AboveInvariant, PTL DEF SearchSpec

\* With the stride of the code, 2^7, the search turns round for the last time
\* going forward, so that it stops at the date or at the record after it.
Strides ==
  state = "search" =>
    /\ reg_dir = "back" => reg_skip \in {128, 32, 8, 2}
    /\ reg_dir = "forward" => reg_skip \in {64, 16, 4, 1}
LaterInv ==
  /\ Strides
  /\ state # "search" => dt <= date[it]

LEMMA JumpStrides ==
  ASSUME SearchInv, LaterInv, Jump
  PROVE  LaterInv'
<1>1. /\ state = "search" /\ state' = "search" /\ UNCHANGED << begin, end, date, dt >>
      /\ reg_skip' = NewSkip(date[it]) /\ reg_dir' = NewDir(date[it])
      /\ NewSkip(date[it]) # 0
  BY DEF Jump, log, Breaks
<1>2. reg_dir \in {"back", "forward"} /\ Strides
  BY <1>1 DEF SearchInv, LaterInv
<1>3. CASE Turns(date[it])
  <2>1. reg_dir = "back" => reg_skip' \in {64, 16, 4, 1} /\ reg_dir' = "forward"
    BY <1>1, <1>2, <1>3 DEF Strides, NewSkip, NewDir
  <2>2. reg_dir = "forward" => reg_skip' \in {32, 8, 2} /\ reg_dir' = "back"
    BY <1>1, <1>2, <1>3 DEF Strides, NewSkip, NewDir
  <2> QED
    BY <1>1, <1>2, <2>1, <2>2 DEF LaterInv, Strides
<1>4. CASE ~Turns(date[it])
  BY <1>1, <1>2, <1>4 DEF LaterInv, Strides, NewSkip, NewDir
<1> QED
  BY <1>3, <1>4

LEMMA FinishLater ==
  ASSUME SearchInv, LaterInv, Finish
  PROVE  LaterInv'
<1>1. PICK k \in 0..Size : it = Nth(k) /\ reg_dir \in {"back", "forward"}
  BY DEF SearchInv, Finish
<1>2. /\ state = "search" /\ state' # "search" /\ Breaks(D(k)) /\ D(k) = date[it]
      /\ UNCHANGED << begin, end, date, dt, it >>
  BY <1>1 DEF Finish, log, D
<1>3. /\ Dated /\ Beyond /\ dt \in Int /\ Strides /\ D(k) \in Int
      /\ k \in Int /\ Size \in 1..(N - 1) /\ N \in Nat
  BY <1>2, Count DEF SearchInv, LaterInv, Dated
<1>4. dt <= D(k)
  <2>1. CASE NewSkip(D(k)) = 0
    BY <1>1, <1>2, <1>3, <2>1 DEF NewSkip, Turns, Strides
  <2>2. CASE AtLimit(NewDir(D(k))) /\ NewDir(D(k)) = "back"
    BY <1>1, <1>3, <2>2 DEF NewDir, Turns
  <2>3. CASE AtLimit(NewDir(D(k))) /\ NewDir(D(k)) = "forward"
    <3>1. Nth(k) = Last
      BY <1>1, <2>3 DEF AtLimit
    <3>2. k = Size
      <4>1. SUFFICES ASSUME k < Size PROVE FALSE
        BY <1>3
      <4>2. Item * k + Item <= Item * Size /\ Item * Size <= Item * (N - 1)
        BY <1>3, <4>1, Sizes, TimesOrder
      <4>3. Item * k \in Int /\ Item * Size \in Int /\ Item * (N - 1) \in Int
        BY <1>3, Sizes
      <4> QED
        BY <3>1, <4>2, <4>3, Sizes, Count DEF Nth
    <3>3. Last \in Slots
      BY <1>3, <3>1, Count
    <3> QED
      BY <1>3, <3>2, <3>3 DEF Beyond, Outdated
  <2>4. CASE D(k) = dt
    BY <1>3, <2>4
  <2>5. NewDir(D(k)) \in {"back", "forward"}
    BY <1>1 DEF NewDir
  <2> QED
    BY <1>2, <2>1, <2>2, <2>3, <2>4, <2>5 DEF Breaks
<1> QED
  BY <1>2, <1>3, <1>4 DEF LaterInv, Strides

\* There, and in a log that has been full, the search never stops at an older
\* record: RIGHT_BOUND finds nothing but the date itself, and the match that the
\* code gives it for an older record (datalogger.c:882) is never reached.
THEOREM RightBoundIsExact ==
  ASSUME Full => Last \notin Slots, Skip = 128
  PROVE  SearchSpec => [](state = "found" /\ mode = "RIGHT_BOUND" => date[it] = dt)
<1> DEFINE Later == (SearchInv /\ LaterInv) \/ Stranded
<1>1. SearchInit => Later
  BY AnyStarts DEF SearchInit, LaterInv, Strides
<1>2. Later /\ [SearchNext]_searchVars => Later'
  <2>1. ASSUME SearchInv, LaterInv, [SearchNext]_searchVars PROVE LaterInv'
    <3>1. CASE UNCHANGED searchVars
      BY <2>1, <3>1 DEF searchVars, log, LaterInv, Strides
    <3> QED
      BY <2>1, <3>1, JumpStrides, FinishLater DEF SearchNext
  <2> QED
    BY <2>1, SearchKept, StrandedKept
<1>3. SearchInv /\ LaterInv => (state = "found" /\ mode = "RIGHT_BOUND" => date[it] = dt)
  <2> SUFFICES ASSUME SearchInv, LaterInv, state = "found", mode = "RIGHT_BOUND"
               PROVE  date[it] = dt
    OBVIOUS
  <2>1. PICK k \in 0..Size : it = Nth(k) /\ Accepts(D(k)) /\ Dated /\ dt \in Int
    BY DEF SearchInv
  <2>2. D(k) \in Int /\ D(k) = date[it] /\ (D(k) = dt \/ D(k) < dt) /\ dt <= date[it]
    BY <2>1 DEF Dated, Accepts, D, LaterInv
  <2> QED
    BY <2>1, <2>2
<1>4. Stranded => (state = "found" => date[it] = dt)
  BY DEF Stranded
<1> QED
  BY <1>1, <1>2, <1>3, <1>4, PTL DEF SearchSpec
=============================================================================
