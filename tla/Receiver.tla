------------------------------ MODULE Receiver ------------------------------
(***************************************************************************)
(* The receive ring between the modem's USART and the driver               *)
(* (drivers/usart_interrupt): the interrupt that fills it and never fails, *)
(* because it drops the oldest byte of a full ring, and the driver, which  *)
(* flushes it before each wait and then takes one byte at a time, without  *)
(* a critical section.                                                     *)
(*                                                                         *)
(* A step of the driver is a load or a store of one byte; the interrupt    *)
(* comes between any two.  A byte is the number at which it was sent.      *)
(***************************************************************************)
EXTENDS Integers, SequencesExt

CONSTANTS
  Size,     \* USART_RX_BUFFER_SIZE (8)
  Fifo,     \* bytes that the USART holds while its interrupt waits (3)
  MaxBytes  \* bound: bytes the modem sends

ASSUME ReceiverAssumption ==
  /\ Size \in Nat /\ Fifo \in Nat \ {0} /\ MaxBytes \in Nat
  /\ 2 * Fifo < Size

VARIABLES
  sent,      \* bytes the modem has sent
  fifo,      \* bytes in the USART
  busy,      \* another interrupt of the same level runs
  rx, head, tail,  \* RX, RX_Head, RX_Tail
  pc,        \* the driver
  reg, ans   \* RX_Tail and RX[RX_Tail] as it has loaded them

\* Auxiliary variables, since the last flush.
VARIABLES
  came,      \* bytes that the interrupt has put into the ring
  got,       \* bytes that the driver has taken
  torn       \* the interrupt found the last slot between the stores of the flush

main == << pc, reg, ans >>
ring == << rx, head, tail >>
vars == << sent, fifo, busy, ring, main, came, got, torn >>

Slots == 0..(Size - 1)
Bytes == 0..MaxBytes
Reading == {"poll", "load", "fetch", "reload", "store"}

TypeOK ==
  /\ sent \in Bytes /\ fifo \in Seq(Bytes) /\ Len(fifo) <= Fifo
  /\ busy \in BOOLEAN /\ torn \in BOOLEAN
  /\ rx \in [Slots -> Bytes] /\ head \in Slots /\ tail \in Slots
  /\ pc \in Reading \cup {"work", "flush"}
  /\ reg \in Slots /\ ans \in Bytes
  /\ came \in Seq(Bytes) /\ got \in Seq(Bytes)

Init ==
  /\ sent = 0 /\ fifo = << >> /\ busy = FALSE
  /\ rx = [i \in Slots |-> 0] /\ head = 0 /\ tail = 0
  /\ pc = "work" /\ reg = 0 /\ ans = 0
  /\ came = << >> /\ got = << >> /\ torn = FALSE

Next1(i) == (i + 1) % Size
Count == (head - tail + Size) % Size
Contents == [i \in 1..Count |-> rx[(tail + i - 1) % Size]]

(***************************************************************************)
(* The line and the interrupts.                                            *)
(***************************************************************************)
\* A byte takes a millisecond: a driver that reads falls behind only while an
\* interrupt holds it, and then by what the USART can keep.
KeepsPace == pc \in Reading => Count + Len(fifo) < Fifo

Arrive ==
  /\ sent < MaxBytes /\ (busy \/ KeepsPace)
  /\ sent' = sent + 1
  /\ fifo' = IF Len(fifo) < Fifo THEN Append(fifo, sent + 1) ELSE fifo
  /\ UNCHANGED << busy, ring, main, came, got, torn >>

\* mutant: a full ring is not told from an empty one.
RxInterruptNoOverflow ==
  /\ ~busy /\ fifo # << >>
  /\ fifo' = Tail(fifo)
  /\ rx' = [rx EXCEPT ![head] = Head(fifo)] /\ head' = Next1(head)
  /\ came' = Append(came, Head(fifo))
  /\ UNCHANGED << sent, busy, main, got, tail, torn >>

\* USARTE0_RXC and USART_RX_CBuffer_Complete.
RxInterrupt ==
  /\ ~busy /\ fifo # << >>
  /\ fifo' = Tail(fifo)
  /\ tail' = IF Next1(head) = tail THEN Next1(Next1(head)) ELSE tail
  /\ rx' = [rx EXCEPT ![head] = Head(fifo)]
  /\ head' = Next1(head)
  /\ came' = Append(came, Head(fifo))
  /\ torn' = (torn \/ (pc = "flush" /\ Next1(head) = tail))
  /\ UNCHANGED << sent, busy, main, got >>

OtherInterrupt ==
  /\ busy' = ~busy /\ (busy \/ KeepsPace)
  /\ UNCHANGED << sent, fifo, ring, main, came, got, torn >>

(***************************************************************************)
(* The driver.                                                             *)
(***************************************************************************)
Goto(here, next) ==
  /\ ~busy /\ pc = here /\ pc' = next
  /\ UNCHANGED << sent, fifo, busy, rx >>

\* The first two stores of usart_buffer_flush.
FlushTail ==
  /\ Goto("work", "flush")
  /\ tail' = 0
  /\ torn' = FALSE /\ came' = << >> /\ got' = << >>
  /\ UNCHANGED << head, reg, ans >>

\* mutant: the head stays where it is.
FlushHeadKeeps ==
  /\ Goto("flush", "poll") /\ came' = << >>
  /\ UNCHANGED << head, tail, reg, ans, got, torn >>

FlushHead ==
  /\ Goto("flush", "poll")
  /\ head' = 0
  /\ came' = << >>
  /\ UNCHANGED << tail, reg, ans, got, torn >>

\* sim900_wait_data_on_usart.
Available ==
  /\ head # tail /\ Goto("poll", "load")
  /\ UNCHANGED << head, tail, reg, ans, came, got, torn >>

\* The word or the line is complete, or the time is up.
Leave ==
  /\ Goto("poll", "work")
  /\ UNCHANGED << head, tail, reg, ans, came, got, torn >>

\* USART_RX_CBuffer_GetByte, in four accesses to memory.
LoadTail(here, next) ==
  /\ Goto(here, next)
  /\ reg' = tail
  /\ UNCHANGED << head, tail, ans, came, got, torn >>
Load == LoadTail("load", "fetch")
Reload == LoadTail("reload", "store")
Fetch ==
  /\ Goto("fetch", "reload")
  /\ ans' = rx[reg]
  /\ UNCHANGED << head, tail, reg, came, got, torn >>
Store ==
  /\ Goto("store", "poll")
  /\ tail' = Next1(reg)
  /\ got' = Append(got, ans)
  /\ UNCHANGED << head, reg, ans, came, torn >>

Driver == FlushTail \/ FlushHead \/ Available \/ Leave \/ Load \/ Fetch \/ Reload \/ Store

Next == Arrive \/ RxInterrupt \/ OtherInterrupt \/ Driver

Spec == Init /\ [][Next]_vars

(***************************************************************************)
(* Properties.                                                             *)
(***************************************************************************)
\* What the driver takes after a flush is what came after it, in order, nothing
\* twice and nothing left out, wherever the interrupt falls (cbuffer_usart.h:54):
\* unless it fell between the two stores of the flush with the head at the last
\* slot, and the ring was left full of what it had held before.
ReadsWhatCame == torn \/ IsPrefix(got, came)

\* A ring that overflows between two waits keeps the bytes that came last
\* (cbuffer_usart.c:26); one that is read loses none.
KeepsNewest ==
  pc \in {"work", "poll"} /\ ~torn =>
    LET left == Len(came) - Len(got)
        kept == IF left < Size THEN left ELSE Size - 1
    IN  (pc = "poll" => left < Size) /\ Contents = SubSeq(came, Len(came) - kept + 1, Len(came))
=============================================================================
