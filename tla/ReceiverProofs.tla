--------------------------- MODULE ReceiverProofs ---------------------------
(***************************************************************************)
(* Theorems about Receiver for every size of the ring and of the USART and *)
(* any number of bytes: what the driver reads, and what the ring keeps.    *)
(***************************************************************************)
EXTENDS Receiver, TLAPS

(***************************************************************************)
(* The arithmetic of the ring.                                             *)
(***************************************************************************)
\* A position one turn ahead at most, taken back to the ring.
At(k) == IF k < Size THEN k ELSE k - Size

\* Bytes in the ring.
Used == IF head < tail THEN head - tail + Size ELSE head - tail

LEMMA Sizes == Size \in Nat /\ Size >= 3 /\ Fifo \in Nat /\ Fifo >= 1 /\ 2 * Fifo < Size
BY ReceiverAssumption

\* The remainder of a number of less than two turns.
LEMMA Remainder ==
  ASSUME NEW x \in 0..(2 * Size - 1)
  PROVE  x % Size = At(x)
<1> DEFINE p == x \div Size
           t == x % Size
<1>1. x \in Int /\ p \in Int /\ t \in 0..(Size - 1) /\ x = Size * p + t
  BY Sizes
<1> HIDE DEF p
<1>2. p >= 0
  <2>1. ASSUME p <= -1 PROVE FALSE
    <3>1. Size * p + Size <= 0
      <4>1. \E k \in Nat : p = -1 - k
        BY <1>1, <2>1
      <4>2. PICK k \in Nat : p = -1 - k
        BY <4>1
      <4>3. Size * k >= 0 /\ Size * k \in Int /\ Size * p = -Size - Size * k
        BY <4>2, Sizes
      <4> QED
        BY <4>3, Sizes
    <3>2. Size * p \in Int
      BY <1>1, Sizes
    <3> QED
      BY <1>1, <3>1, <3>2, Sizes
  <2> QED
    BY <1>1, <2>1
<1>3. p <= 1
  <2>1. ASSUME p >= 2 PROVE FALSE
    <3>1. Size * p >= 2 * Size
      <4>1. PICK k \in Nat : p = 2 + k
        <5>1. p - 2 \in Nat /\ p = 2 + (p - 2)
          BY <1>1, <2>1
        <5> QED
          BY <5>1
      <4>2. Size * k >= 0 /\ Size * k \in Int /\ Size * p = 2 * Size + Size * k
        BY <4>1, Sizes
      <4> QED
        BY <4>2, Sizes
    <3>2. Size * p \in Int
      BY <1>1, Sizes
    <3> QED
      BY <1>1, <3>1, <3>2, Sizes
  <2> QED
    BY <1>1, <2>1
<1>4. p = 0 \/ p = 1
  BY <1>1, <1>2, <1>3
<1>5. x = t \/ x = Size + t
  BY <1>1, <1>4, Sizes
<1>6. t = At(x)
  BY <1>1, <1>5, Sizes DEF At
<1> QED
  BY <1>6

\* The next slot, the number of bytes, and the slot of each.
LEMMA RingFacts ==
  ASSUME head \in Slots, tail \in Slots
  PROVE  /\ \A i \in Slots : Next1(i) = At(i + 1) /\ Next1(i) \in Slots
         /\ Count = Used /\ Used \in 0..(Size - 1)
         /\ \A i \in 1..Used : (tail + i - 1) % Size = At(tail + i - 1)
<1> USE Sizes
<1>1. ASSUME NEW i \in Slots
      PROVE  Next1(i) = At(i + 1) /\ Next1(i) \in Slots
  <2>1. i \in Int /\ i + 1 \in 0..(2 * Size - 1)
    BY DEF Slots
  <2>2. Next1(i) = At(i + 1)
    BY <2>1, Remainder DEF Next1
  <2> QED
    BY <2>2 DEF At, Slots
<1>2. Used \in 0..(Size - 1)
  BY DEF Used, Slots
<1>3. Count = Used
  <2>1. head - tail + Size \in 0..(2 * Size - 1)
    BY DEF Slots
  <2>2. Count = At(head - tail + Size)
    BY <2>1, Remainder DEF Count
  <2> QED
    BY <2>2 DEF At, Used, Slots
<1>4. ASSUME NEW i \in 1..Used
      PROVE  (tail + i - 1) % Size = At(tail + i - 1)
  <2>1. tail + i - 1 \in 0..(2 * Size - 1)
    BY <1>2 DEF Slots
  <2> QED
    BY <2>1, Remainder
<1> QED
  BY <1>1, <1>2, <1>3, <1>4

(***************************************************************************)
(* Types.                                                                  *)
(***************************************************************************)
LEMMA InitTypes == Init => TypeOK
<1> SUFFICES ASSUME Init PROVE TypeOK
  OBVIOUS
<1>1. 0 \in Slots /\ 0 \in Bytes
  BY Sizes, ReceiverAssumption DEF Slots, Bytes
<1>2. fifo = << >> /\ came = << >> /\ got = << >> /\ rx = [i \in Slots |-> 0]
  BY DEF Init
<1>3. fifo \in Seq(Bytes) /\ Len(fifo) = 0 /\ came \in Seq(Bytes) /\ got \in Seq(Bytes)
  BY <1>2
<1>4. rx \in [Slots -> Bytes]
  BY <1>1, <1>2
<1> QED
  BY <1>1, <1>3, <1>4, Sizes DEF Init, TypeOK

LEMMA StepTypes == TypeOK /\ [Next]_vars => TypeOK'
<1> SUFFICES ASSUME TypeOK, [Next]_vars PROVE TypeOK'
  OBVIOUS
<1> USE Sizes, ReceiverAssumption
<1>1. /\ head \in Slots /\ tail \in Slots /\ 0 \in Slots
      /\ \A i \in Slots : Next1(i) \in Slots
  BY RingFacts DEF TypeOK, Slots
<1>2. CASE UNCHANGED vars
  BY <1>2 DEF vars, ring, main, TypeOK
<1>3. CASE Arrive
  <2>1. sent' \in Bytes /\ sent + 1 \in Bytes
    BY <1>3 DEF Arrive, TypeOK, Bytes
  <2>2. fifo' \in Seq(Bytes) /\ Len(fifo') <= Fifo
    BY <1>3, <2>1 DEF Arrive, TypeOK
  <2> QED
    BY <1>3, <2>1, <2>2 DEF Arrive, ring, main, TypeOK
<1>4. CASE RxInterrupt
  <2>1. Head(fifo) \in Bytes /\ fifo' \in Seq(Bytes) /\ Len(fifo') <= Fifo
    BY <1>4 DEF RxInterrupt, TypeOK
  <2>2. rx' \in [Slots -> Bytes] /\ came' \in Seq(Bytes) /\ head' \in Slots /\ tail' \in Slots
    BY <1>1, <1>4, <2>1 DEF RxInterrupt, TypeOK
  <2>3. torn' \in BOOLEAN
    BY <1>4 DEF RxInterrupt, TypeOK
  <2> QED
    BY <1>4, <2>1, <2>2, <2>3 DEF RxInterrupt, main, TypeOK
<1>5. CASE OtherInterrupt
  BY <1>5 DEF OtherInterrupt, ring, main, TypeOK
<1>6. CASE FlushTail \/ FlushHead \/ Available \/ Leave \/ Load \/ Reload
  BY <1>1, <1>6 DEF FlushTail, FlushHead, Available, Leave, Load, Reload, LoadTail, Goto,
     TypeOK, Reading
<1>7. CASE Fetch
  BY <1>7 DEF Fetch, Goto, TypeOK, Reading
<1>8. CASE Store
  <2>1. tail' \in Slots /\ got' \in Seq(Bytes)
    BY <1>1, <1>8 DEF Store, TypeOK
  <2> QED
    BY <1>8, <2>1 DEF Store, Goto, TypeOK, Reading
<1> QED
  BY <1>2, <1>3, <1>4, <1>5, <1>6, <1>7, <1>8 DEF Next, Driver

(***************************************************************************)
(* The invariant, of a ring whose flush was not torn.                      *)
(***************************************************************************)
\* Bytes that came and were not taken.
Left == Len(came) - Len(got)

\* The flush starts at an empty ring.
Flushing == pc = "flush" => got = << >> /\ tail = 0

\* What was taken came first.
Taken == Len(got) <= Len(came) /\ \A i \in 1..Len(got) : got[i] = came[i]

\* The ring holds the last of what came: all that is left, or a ring full.
Holds ==
  pc # "flush" =>
    /\ Used = IF Left < Size THEN Left ELSE Size - 1
    /\ \A i \in 0..(Used - 1) : rx[At(tail + i)] = came[Len(came) - Used + 1 + i]

\* While the driver reads, the ring is far from full.
Paced ==
  pc \in Reading => IF busy THEN Used < Fifo ELSE Used + Len(fifo) <= 2 * Fifo - 1

\* What the driver has loaded is true, for no interrupt moves the tail of a ring
\* that is not full.
Registers ==
  /\ pc \in {"load", "fetch", "reload", "store"} => Used >= 1
  /\ pc \in {"fetch", "store"} => reg = tail
  /\ pc \in {"reload", "store"} => ans = came[Len(got) + 1]

Whole == Flushing /\ Taken /\ Holds /\ Paced /\ Registers

Inv == TypeOK /\ (torn \/ Whole)

\* While the driver reads, the ring holds exactly what is left.
LEMMA ReadingHoldsAll ==
  ASSUME TypeOK, Whole, pc \in Reading
  PROVE  Used = Left /\ Left >= 0 /\ Used <= 2 * Fifo - 1
<1>1. Len(fifo) \in Nat /\ Len(came) \in Nat /\ Len(got) \in Nat /\ Used \in Int
  BY Sizes DEF TypeOK, Used, Slots
<1>2. pc # "flush" /\ Used <= 2 * Fifo - 1
  BY <1>1, Sizes DEF Whole, Paced, Reading
<1> QED
  BY <1>1, <1>2, Sizes DEF Whole, Holds, Taken, Left

LEMMA InitWhole == Init => Whole
<1> SUFFICES ASSUME Init PROVE Whole
  OBVIOUS
<1>1. Used = 0 /\ Left = 0 /\ Len(got) = 0 /\ Len(came) = 0 /\ pc = "work"
  BY Sizes DEF Init, Used, Left
<1> QED
  BY <1>1, Sizes DEF Init, Whole, Flushing, Taken, Holds, Paced, Registers, Reading

\* A byte comes to the USART, or another interrupt begins or ends.
LEMMA LineKeeps ==
  ASSUME TypeOK, Whole, Arrive \/ OtherInterrupt
  PROVE  Whole'
<1> USE Sizes
<1>1. /\ pc' = pc /\ rx' = rx /\ head' = head /\ tail' = tail /\ reg' = reg /\ ans' = ans
      /\ came' = came /\ got' = got
  BY DEF Arrive, OtherInterrupt, ring, main
<1>2. Used' = Used /\ Left' = Left
  BY <1>1 DEF Used, Left
<1>3. Flushing' /\ Taken' /\ Holds' /\ Registers'
  BY <1>1, <1>2 DEF Whole, Flushing, Taken, Holds, Registers
<1>4. Paced'
  <2>1. Count = Used /\ Used \in 0..(Size - 1)
    BY RingFacts DEF TypeOK
  <2>2. Len(fifo) \in Nat /\ Len(fifo) <= Fifo
    BY DEF TypeOK
  <2>3. CASE Arrive
    <3>1. Len(fifo') <= Len(fifo) + 1 /\ Len(fifo') \in Nat
      BY <2>3 DEF Arrive, TypeOK
    <3> QED
      BY <1>1, <1>2, <2>1, <2>2, <2>3, <3>1 DEF Arrive, KeepsPace, Whole, Paced
  <2>4. CASE OtherInterrupt
    BY <1>1, <1>2, <2>1, <2>2, <2>4 DEF OtherInterrupt, KeepsPace, Whole, Paced, TypeOK
  <2> QED
    BY <2>3, <2>4
<1> QED
  BY <1>3, <1>4 DEF Whole

\* The interrupt appends a byte, or replaces the oldest one of a full ring.
LEMMA RxKeeps ==
  ASSUME TypeOK, Whole, RxInterrupt, ~torn'
  PROVE  Whole'
<1> USE Sizes
<1> DEFINE b == Head(fifo)
           n == Len(came)
<1>1. /\ pc' = pc /\ reg' = reg /\ ans' = ans /\ got' = got /\ busy' = busy /\ ~busy
      /\ fifo' = Tail(fifo) /\ fifo # << >>
      /\ rx' = [rx EXCEPT ![head] = b] /\ head' = Next1(head) /\ came' = Append(came, b)
      /\ tail' = IF Next1(head) = tail THEN Next1(Next1(head)) ELSE tail
      /\ ~(pc = "flush" /\ Next1(head) = tail)
  BY DEF RxInterrupt, main
<1>2. /\ head \in Slots /\ tail \in Slots /\ Used \in 0..(Size - 1) /\ Count = Used
      /\ \A i \in Slots : Next1(i) = At(i + 1) /\ Next1(i) \in Slots
  BY RingFacts DEF TypeOK
<1>3. /\ n \in Nat /\ Len(got) \in Nat /\ Len(came') = n + 1 /\ came'[n + 1] = b
      /\ \A i \in 1..n : came'[i] = came[i]
      /\ Len(fifo') = Len(fifo) - 1 /\ Len(fifo) \in Nat /\ Len(fifo) >= 1
      /\ Len(fifo) <= Fifo
  BY <1>1 DEF TypeOK
<1>4. /\ \A s \in Slots : s # head => rx'[s] = rx[s]
      /\ rx'[head] = b
  BY <1>1, <1>2 DEF TypeOK
<1> HIDE DEF b, n
<1>5. Flushing'
  BY <1>1 DEF Whole, Flushing
<1>6. Taken'
  BY <1>1, <1>3 DEF Whole, Taken, n
<1>7. Left' = Left + 1 /\ Left \in Nat
  BY <1>1, <1>3 DEF Left, Whole, Taken, n
<1>8. /\ Next1(head) = tail <=> Used = Size - 1
      /\ Used' = IF Used = Size - 1 THEN Used ELSE Used + 1
      /\ tail' = IF Used = Size - 1 THEN At(tail + 1) ELSE tail
      /\ head = At(tail + Used)
      /\ \A i \in 0..(Used - 1) : At(tail + i) # head /\ At(tail + i) \in Slots
  <2>1. Next1(head) = At(head + 1)
    BY <1>2
  <2>2. Next1(head) = tail <=> Used = Size - 1
    BY <1>2, <2>1 DEF At, Used, Slots
  <2>3. head' = At(head + 1) /\ tail' = IF Used = Size - 1 THEN At(tail + 1) ELSE tail
    BY <1>1, <1>2, <2>1, <2>2
  <2>4. Used' = IF Used = Size - 1 THEN Used ELSE Used + 1
    BY <1>2, <2>3 DEF At, Used, Slots
  <2>5. /\ head = At(tail + Used)
        /\ \A i \in 0..(Used - 1) : At(tail + i) # head /\ At(tail + i) \in Slots
    BY <1>2 DEF At, Used, Slots
  <2> QED
    BY <2>2, <2>3, <2>4, <2>5
<1>9. Holds'
  <2>1. SUFFICES ASSUME pc # "flush"
                 PROVE  Holds'
    BY <1>1 DEF Holds
  <2>2. /\ Used = IF Left < Size THEN Left ELSE Size - 1
        /\ \A i \in 0..(Used - 1) : rx[At(tail + i)] = came[n - Used + 1 + i]
    BY <2>1 DEF Whole, Holds, n
  <2>3. Used' = IF Left' < Size THEN Left' ELSE Size - 1
    BY <1>2, <1>7, <1>8, <2>2
  <2>4. Used <= n
    BY <1>2, <1>3, <1>7, <2>2 DEF Left, n
  <2>5. ASSUME NEW i \in 0..(Used - 1)
        PROVE  rx'[At(tail + i)] = came'[n - Used + 1 + i]
    <3>1. rx'[At(tail + i)] = rx[At(tail + i)]
      BY <1>4, <1>8
    <3>2. n - Used + 1 + i \in 1..n
      BY <1>2, <1>3, <2>4
    <3> QED
      BY <1>3, <2>2, <3>1, <3>2
  <2>6. rx'[At(tail + Used)] = came'[n + 1]
    BY <1>3, <1>4, <1>8
  <2>7. \A i \in 0..Used : rx'[At(tail + i)] = came'[n - Used + 1 + i]
    <3>1. n - Used + 1 + Used = n + 1
      BY <1>2, <1>3
    <3>2. \A i \in 0..Used : i \in 0..(Used - 1) \/ i = Used
      BY <1>2
    <3> QED
      BY <2>5, <2>6, <3>1, <3>2
  <2>8. CASE Used = Size - 1
    <3>1. ASSUME NEW i \in 0..(Used - 1)
          PROVE  rx'[At(tail' + i)] = came'[n + 1 - Used + 1 + i]
      <4>1. At(tail' + i) = At(tail + (i + 1))
        BY <1>2, <1>8, <2>8 DEF At, Slots
      <4>2. n \in Int /\ Used \in Int /\ i \in Int
        BY <1>2, <1>3
      <4>3. i + 1 \in 0..Used /\ n - Used + 1 + (i + 1) = n + 1 - Used + 1 + i
        BY <4>2
      <4> QED
        BY <2>7, <4>1, <4>3
    <3> QED
      BY <1>3, <1>8, <2>3, <2>8, <3>1 DEF Holds
  <2>9. CASE Used # Size - 1
    <3>1. tail' = tail /\ Used' = Used + 1
      BY <1>8, <2>9
    <3>2. \A i \in 0..(Used' - 1) : rx'[At(tail' + i)] = came'[Len(came') - Used' + 1 + i]
      <4>1. Used' - 1 = Used /\ Len(came') - Used' + 1 = n - Used + 1
        BY <1>2, <1>3, <3>1
      <4> QED
        BY <2>7, <3>1, <4>1
    <3> QED
      BY <2>3, <3>2 DEF Holds
  <2> QED
    BY <2>8, <2>9
<1>10. Paced' /\ Registers'
  <2>1. CASE pc \in Reading
    <3>1. Used = Left /\ Used <= 2 * Fifo - 1 /\ Used + Len(fifo) <= 2 * Fifo - 1
      BY <1>1, <2>1, ReadingHoldsAll DEF Whole, Paced
    <3>2. Used # Size - 1
      BY <1>2, <3>1
    <3>3. tail' = tail /\ Used' = Used + 1
      BY <1>8, <3>2
    <3>4. Paced'
      BY <1>1, <1>2, <1>3, <3>1, <3>3 DEF Paced
    <3>5. Used >= 1 => came'[Len(got) + 1] = came[Len(got) + 1]
      <4>1. Used >= 1 => Len(got) + 1 \in 1..n
        BY <1>3, <3>1 DEF Left, n
      <4> QED
        BY <1>3, <4>1
    <3>6. Used \in Nat
      BY <1>2
    <3>7. Registers'
      <4>1. pc' = pc /\ reg' = reg /\ ans' = ans /\ got' = got
        BY <1>1
      <4>2. Registers /\ Used' >= 1
        BY <3>3, <3>6 DEF Whole
      <4> QED
        BY <3>3, <3>5, <4>1, <4>2 DEF Registers
    <3> QED
      BY <3>4, <3>7
  <2>2. CASE pc \notin Reading
    BY <1>1, <2>2 DEF Paced, Registers, Reading
  <2> QED
    BY <2>1, <2>2
<1> QED
  BY <1>5, <1>6, <1>9, <1>10 DEF Whole

\* The flush makes any ring whole.
LEMMA FlushKeeps ==
  ASSUME TypeOK, \/ FlushTail
                 \/ FlushHead /\ Whole
  PROVE  Whole'
<1> USE Sizes
<1>1. CASE FlushTail
  <2>1. pc' = "flush" /\ tail' = 0 /\ came' = << >> /\ got' = << >>
    BY <1>1 DEF FlushTail, Goto
  <2>2. Len(came') = 0 /\ Len(got') = 0
    BY <2>1
  <2> QED
    BY <2>1, <2>2 DEF Whole, Flushing, Taken, Holds, Paced, Registers, Reading
<1>2. CASE FlushHead /\ Whole
  <2>1. /\ pc = "flush" /\ pc' = "poll" /\ head' = 0 /\ tail' = 0 /\ came' = << >>
        /\ got' = << >> /\ busy' = FALSE /\ fifo' = fifo
    BY <1>2 DEF FlushHead, Goto, Whole, Flushing, TypeOK
  <2>2. Len(came') = 0 /\ Len(got') = 0 /\ Used' = 0 /\ Left' = 0
    BY <2>1 DEF Used, Left
  <2>3. Len(fifo') \in Nat /\ Len(fifo') <= Fifo
    BY <2>1 DEF TypeOK
  <2>4. Paced'
    BY <2>1, <2>2, <2>3 DEF Paced
  <2> QED
    BY <2>1, <2>2, <2>4 DEF Whole, Flushing, Taken, Holds, Registers
<1> QED
  BY <1>1, <1>2

\* A load finds the byte that is next.
LEMMA LoadKeeps ==
  ASSUME TypeOK, Whole, Available \/ Leave \/ Load \/ Fetch \/ Reload
  PROVE  Whole'
<1> USE Sizes
<1>1. /\ rx' = rx /\ head' = head /\ tail' = tail /\ came' = came /\ got' = got
      /\ fifo' = fifo /\ busy' = busy /\ pc \in Reading
      /\ pc' \in Reading \cup {"work"}
  BY DEF Available, Leave, Load, Fetch, Reload, LoadTail, Goto, Reading
<1>2. Used' = Used /\ Left' = Left
  BY <1>1 DEF Used, Left
<1>3. Flushing' /\ Taken' /\ Holds' /\ Paced'
  BY <1>1, <1>2 DEF Whole, Flushing, Taken, Holds, Paced, Reading
<1>4. Used \in 0..(Size - 1)
  BY RingFacts DEF TypeOK
<1>5. Registers'
  <2>1. CASE Available
    <3>1. pc' = "load" /\ head # tail
      BY <2>1 DEF Available, Goto
    <3>2. Used >= 1
      BY <1>4, <3>1 DEF Used, TypeOK, Slots
    <3> QED
      BY <1>2, <3>1, <3>2 DEF Registers
  <2>2. CASE Leave
    BY <2>2 DEF Leave, Goto, Registers
  <2>3. CASE Load
    BY <1>2, <2>3 DEF Load, LoadTail, Goto, Whole, Registers
  <2>4. CASE Fetch
    <3>1. pc = "fetch" /\ pc' = "reload" /\ ans' = rx[tail] /\ Used >= 1
      BY <2>4 DEF Fetch, Goto, Whole, Registers
    <3>2. Used = Left /\ Len(came) \in Int /\ Len(got) \in Int
      BY <1>1, ReadingHoldsAll DEF TypeOK
    <3>3. rx[At(tail + 0)] = came[Len(came) - Used + 1 + 0]
      BY <1>4, <3>1 DEF Whole, Holds
    <3>4. At(tail + 0) = tail /\ Len(came) - Used + 1 + 0 = Len(got) + 1
      BY <3>2 DEF At, TypeOK, Slots, Left
    <3> QED
      BY <1>1, <1>2, <3>1, <3>3, <3>4 DEF Registers
  <2>5. CASE Reload
    BY <1>1, <1>2, <2>5 DEF Reload, LoadTail, Goto, Whole, Registers
  <2> QED
    BY <2>1, <2>2, <2>3, <2>4, <2>5
<1> QED
  BY <1>3, <1>5 DEF Whole

\* The byte is taken out of the ring.
LEMMA StoreKeeps ==
  ASSUME TypeOK, Whole, Store
  PROVE  Whole'
<1> USE Sizes
<1> DEFINE n == Len(got)
<1>1. /\ rx' = rx /\ head' = head /\ came' = came /\ fifo' = fifo /\ busy' = busy
      /\ pc = "store" /\ pc' = "poll" /\ tail' = Next1(tail) /\ got' = Append(got, ans)
      /\ Used >= 1 /\ ans = came[n + 1]
  BY DEF Store, Goto, Whole, Registers
<1>2. /\ head \in Slots /\ tail \in Slots /\ Used \in 0..(Size - 1)
      /\ Next1(tail) = At(tail + 1)
  BY RingFacts DEF TypeOK
<1>3. /\ n \in Nat /\ Len(came) \in Nat /\ Len(got') = n + 1 /\ got'[n + 1] = ans
      /\ \A i \in 1..n : got'[i] = got[i]
  BY <1>1 DEF TypeOK
<1>4. Used = Left /\ Used <= 2 * Fifo - 1 /\ Left = Len(came) - n
  BY <1>1, ReadingHoldsAll DEF Reading, Left
<1>5. Used' = Used - 1 /\ Left' = Left - 1
  <2>1. Used' = Used - 1
    BY <1>1, <1>2 DEF Used, At, Slots
  <2> QED
    BY <2>1, <1>1, <1>3, <1>4 DEF Left
<1>6. \A i \in 1..n : got[i] = came[i]
  BY DEF Whole, Taken
<1> HIDE DEF n
<1>7. Taken'
  <2>1. n + 1 <= Len(came)
    BY <1>1, <1>2, <1>3, <1>4
  <2>2. \A i \in 1..(n + 1) : got'[i] = came[i]
    <3>1. \A i \in 1..(n + 1) : i \in 1..n \/ i = n + 1
      BY <1>3
    <3> QED
      BY <1>1, <1>3, <1>6, <3>1
  <2> QED
    BY <1>1, <1>3, <2>1, <2>2 DEF Taken
<1>8. Holds'
  <2>1. Used' = IF Left' < Size THEN Left' ELSE Size - 1
    BY <1>2, <1>4, <1>5
  <2>2. ASSUME NEW i \in 0..(Used - 2)
        PROVE  rx[At(tail' + i)] = came[Len(came) - (Used - 1) + 1 + i]
    <3>1. i \in Int /\ Used \in Int /\ Len(came) \in Int
      BY <1>2, <1>3
    <3>2. At(tail' + i) = At(tail + (i + 1))
      BY <1>1, <1>2, <3>1 DEF At, Slots
    <3>3. /\ i + 1 \in 0..(Used - 1)
          /\ Len(came) - (Used - 1) + 1 + i = Len(came) - Used + 1 + (i + 1)
      BY <3>1
    <3>4. rx[At(tail + (i + 1))] = came[Len(came) - Used + 1 + (i + 1)]
      BY <1>1, <3>3 DEF Whole, Holds
    <3> QED
      BY <3>2, <3>3, <3>4
  <2>3. Used' - 1 = Used - 2
    BY <1>2, <1>5
  <2> QED
    BY <1>1, <1>5, <2>1, <2>2, <2>3 DEF Holds
<1>9. Paced'
  <2>1. Len(fifo) \in Nat
    BY DEF TypeOK
  <2> QED
    BY <1>1, <1>2, <1>5, <2>1 DEF Whole, Paced, Reading
<1>10. Flushing' /\ Registers'
  BY <1>1 DEF Flushing, Registers
<1> QED
  BY <1>7, <1>8, <1>9, <1>10 DEF Whole

\* Every step keeps the invariant; only the flush mends a torn ring.
LEMMA NextKeeps == Inv /\ [Next]_vars => Inv'
<1> SUFFICES ASSUME Inv, [Next]_vars PROVE Inv'
  OBVIOUS
<1>1. TypeOK /\ TypeOK'
  BY StepTypes DEF Inv
<1>2. CASE FlushTail
  BY <1>1, <1>2, FlushKeeps DEF Inv
<1>3. CASE RxInterrupt
  <2>1. torn => torn'
    BY <1>3 DEF RxInterrupt
  <2> QED
    BY <1>1, <1>3, <2>1, RxKeeps DEF Inv
<1>4. CASE UNCHANGED vars
  <2>1. Whole' = Whole
    BY <1>4 DEF vars, ring, main, Whole, Flushing, Taken, Holds, Paced, Registers, Used, Left
  <2>2. torn' = torn
    BY <1>4 DEF vars
  <2> QED
    BY <1>1, <2>1, <2>2 DEF Inv
<1>5. CASE Arrive \/ OtherInterrupt
  <2>1. torn' = torn
    BY <1>5 DEF Arrive, OtherInterrupt
  <2> QED
    BY <1>1, <1>5, <2>1, LineKeeps DEF Inv
<1>6. CASE FlushHead \/ Available \/ Leave \/ Load \/ Fetch \/ Reload \/ Store
  <2>1. torn' = torn
    BY <1>6 DEF FlushHead, Available, Leave, Load, Fetch, Reload, LoadTail, Store
  <2> QED
    BY <1>1, <1>6, <2>1, FlushKeeps, LoadKeeps, StoreKeeps DEF Inv
<1> QED
  BY <1>2, <1>3, <1>4, <1>5, <1>6 DEF Next, Driver

LEMMA InvHolds == Spec => []Inv
<1>1. Init => Inv
  BY InitTypes, InitWhole DEF Inv
<1> QED
  BY <1>1, NextKeeps, PTL DEF Spec

(***************************************************************************)
(* The theorems.                                                           *)
(***************************************************************************)
\* Types of the variables hold: head and tail stay in the ring, and what came
\* while the level was busy fits the registers of the USART.
THEOREM TypesHold == Spec => []TypeOK
<1>1. Inv => TypeOK
  BY DEF Inv
<1> QED
  BY <1>1, InvHolds, PTL

\* Wherever the interrupt falls between two accesses of the driver, what the
\* driver reads after a flush is what came, in order and without a gap, unless
\* the flush itself was torn (cbuffer_usart.h:54, buffer_usart.h:98).
THEOREM ReadsInOrder == Spec => []ReadsWhatCame
<1>1. Inv => ReadsWhatCame
  <2> SUFFICES ASSUME Inv, ~torn PROVE IsPrefix(got, came)
    BY DEF ReadsWhatCame
  <2>1. /\ got \in Seq(Bytes) /\ came \in Seq(Bytes) /\ Len(got) <= Len(came)
        /\ \A i \in 1..Len(got) : got[i] = came[i]
    BY DEF Inv, TypeOK, Whole, Taken
  <2>2. SubSeq(got, 1, Len(got)) = SubSeq(came, 1, Len(got))
    BY <2>1
  <2> QED
    BY <2>1, <2>2 DEF IsPrefix
<1> QED
  BY <1>1, InvHolds, PTL

\* A ring that overflows while nobody reads keeps the bytes that came last, and
\* one that is being read loses none (cbuffer_usart.c:26).
THEOREM RingKeepsNewest == Spec => []KeepsNewest
<1>1. Inv => KeepsNewest
  <2> USE Sizes
  <2> DEFINE kept == IF Left < Size THEN Left ELSE Size - 1
             n == Len(came)
  <2> SUFFICES ASSUME Inv, pc \in {"work", "poll"}, ~torn
               PROVE  /\ pc = "poll" => Left < Size
                      /\ Contents = SubSeq(came, n - kept + 1, n)
    BY DEF KeepsNewest, Left
  <2>1. TypeOK /\ Whole /\ head \in Slots /\ tail \in Slots
    BY DEF Inv, TypeOK
  <2>2. /\ Count = Used /\ Used \in 0..(Size - 1)
        /\ \A i \in 1..Used : (tail + i - 1) % Size = At(tail + i - 1)
    BY <2>1, RingFacts
  <2>3. /\ n \in Nat /\ Len(got) \in Nat /\ Len(got) <= n /\ Left = n - Len(got)
        /\ came \in Seq(Bytes)
    BY <2>1 DEF TypeOK, Whole, Taken, Left
  <2>4. /\ Used = kept
        /\ \A i \in 0..(Used - 1) : rx[At(tail + i)] = came[n - Used + 1 + i]
    BY <2>1 DEF Whole, Holds
  <2>5. pc = "poll" => Left < Size
    BY <2>1, <2>2, ReadingHoldsAll DEF Reading
  <2> HIDE DEF kept, n
  <2>6. Used <= n
    BY <2>2, <2>3, <2>4 DEF kept
  <2>7. Contents = [i \in 1..Used |-> came[n - Used + i]]
    <3>1. ASSUME NEW i \in 1..Used
          PROVE  rx[(tail + i - 1) % Size] = came[n - Used + i]
      <4>1. tail \in Int /\ i \in Int /\ Used \in Int /\ n \in Int
        BY <2>1, <2>2, <2>3 DEF Slots
      <4>2. /\ i - 1 \in 0..(Used - 1) /\ tail + i - 1 = tail + (i - 1)
            /\ n - Used + 1 + (i - 1) = n - Used + i
        BY <4>1
      <4> QED
        BY <2>2, <2>4, <4>2
    <3> QED
      BY <2>2, <3>1 DEF Contents
  <2>8. SubSeq(came, n - Used + 1, n) = [i \in 1..Used |-> came[n - Used + i]]
    <3>1. n - Used + 1 \in 1..(n + 1) /\ n - (n - Used + 1) + 1 = Used
      BY <2>2, <2>3, <2>6
    <3>2. \A i \in 1..Used : i + (n - Used + 1) - 1 = n - Used + i
      BY <2>2, <2>3
    <3> QED
      BY <2>3, <3>1, <3>2 DEF n
  <2> QED
    BY <2>4, <2>5, <2>7, <2>8
<1> QED
  BY <1>1, InvHolds, PTL
=============================================================================
