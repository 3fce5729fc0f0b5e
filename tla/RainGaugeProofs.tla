------------------------- MODULE RainGaugeProofs -------------------------
(***************************************************************************)
(* Theorems about RainGauge for every width of a byte, every interval that *)
(* fits the timer, and any number of snapshots: how far the tips counted   *)
(* may drift from those of the bucket, and when the slope is exact.        *)
(***************************************************************************)
EXTENDS RainGauge, TLAPS

(***************************************************************************)
(* The invariant.                                                          *)
(***************************************************************************)
Stats == [Bytes -> 0..(Byte - 1)]
Words == 0..(Word - 1)

\* The gauge in RAM: the time of the last tip it counted and how many it did.
Last == Value(stats, LastTip)
Counted == Value(stats, Tips)

\* Time since then by the timer, which is what raingauge_tip looks at.
Gap == IF Last <= cents THEN cents - Last ELSE (cents - Last) + Word

\* Hundredths during the snapshot under way: it takes less than two.
Passed == IF late THEN 1 ELSE 0

\* The timer was restarted by the last snapshot.
Timed ==
  /\ cents = since /\ since <= Interval + Passed
  /\ pc = Idle => ~late
  /\ pc # Idle => snaps < MaxSnaps

\* The tips are not copied yet, or copied in part.
Uncopied == pc = Idle \/ pc \in {"get"} \X (1..5)
Halfway == pc = << "get", 6 >>

\* The tips that the gauge counted fit two bytes: all but two came MinGap apart.
Room ==
  Uncopied \/ Halfway => Counted <= 1 \/ (Last <= cents /\ (Counted - 2) * MinGap <= Last)

\* What copies torn by a carry have too many.
Excess == Byte * carries

\* The tips of the copy, when its low byte is taken and its high byte is, or is
\* next.
Taken == item[Tips] + Byte * (IF Halfway THEN stats[Tips + 1] ELSE item[Tips + 1])

\* The timer has passed the time of the last tip counted, or never will before
\* the next snapshot.
Settled == Last <= cents \/ Last > Word - MinGap

\* Drift d of a gauge between lo and hi: on a bound, the next tip or bounce does
\* not lead past it.  A tip that is lost sets the gauge ahead of the bucket's
\* next tip; a bounce that is counted sets it behind.
Within(d, lo, hi) ==
  \/ d \in (lo + 1)..(hi - 1)
  \/ Last = Undef /\ d \in lo..hi /\ (age < MinGap => d < hi)
  \/ /\ Last # Undef /\ Settled /\ d \in lo..hi
     /\ Gap < age => d > lo
     /\ Gap > age => d < hi

Balanced == Uncopied => Within(drift + Counted - Excess, -2 * snaps, 2 * snaps)

\* Once copied, the tips of the gauge do not matter until they are reset.
Copied ==
  ~Uncopied =>
    /\ drift + Taken - Excess \in ((-2 * snaps) - 1)..(2 * snaps)
    /\ drift + Taken - Excess < -2 * snaps => age <= Passed

\* A copy is torn once at most: the tip that carries is too fresh for another.
Torn ==
  /\ Uncopied => carries <= snaps
  /\ carries <= snaps + 1
  /\ Halfway /\ carries > snaps => Last # Undef /\ Last <= cents /\ cents - Last <= Passed

\* At most one tip or bounce is counted between the reset of the tips and the
\* restart of the timer.
Reset ==
  pc \in {<< "reset", 6 >>, Strobe} =>
    /\ stats[Tips] \in 0..1
    /\ stats[Tips] = 1 => Last <= cents /\ cents - Last <= Passed
    /\ pc = Strobe => stats[Tips + 1] = 0

\* A snapshot without a pulse leaves the defaults.
Cleared ==
  clean =>
    /\ pc[1] = "reset" => \A b \in Bytes : b < pc[2] => stats[b] = Default[b]
    /\ pc = Strobe => \A b \in Bytes : stats[b] = Default[b]

\* From then on the gauge knows of every tip and of no bounce.
Sloped ==
  pc = Idle /\ clean =>
    /\ Value(stats, MaxSlope) = slope
    /\ first => Last = Undef /\ slope = Undef
    /\ ~first => Last <= cents /\ cents - Last = age

IInv == TypeOK /\ Timed /\ Room /\ Balanced /\ Copied /\ Torn /\ Reset /\ Cleared /\ Sloped

(***************************************************************************)
(* Bytes and words.                                                        *)
(***************************************************************************)
\* Multiplication keeps the order.
LEMMA TimesOrder ==
  ASSUME NEW m \in Nat \ {0}, NEW x \in Int, NEW y \in Int
  PROVE  /\ m * x \in Int
         /\ x <= y => m * x <= m * y
         /\ x < y => m * x + m <= m * y
<1>1. m * x \in Int /\ m * y \in Int /\ m * (y - x) = m * y - m * x
  OBVIOUS
<1>2. \A d \in Nat : m * d >= 0 /\ (d >= 1 => m * d >= m)
  OBVIOUS
<1>3. CASE x <= y
  BY <1>1, <1>2, <1>3
<1> QED
  BY <1>1, <1>3

\* The constants.
LEMMA Sizes ==
  /\ Byte \in Nat \ {0} /\ Byte >= 3 /\ MinGap \in Nat \ {0} /\ MinGap >= 2
  /\ Interval \in Nat /\ MaxSnaps \in Nat /\ Word \in Nat /\ Undef \in Words
  /\ Undef = Word - 1 /\ Interval + 1 + MinGap <= Word
<1>1. Byte * Byte \in Int /\ Byte * 1 <= Byte * Byte
  BY RainAssumption, TimesOrder
<1> QED
  BY <1>1, RainAssumption DEF Word, Words, Undef

\* A word and its two bytes.
LEMMA Split ==
  ASSUME NEW v \in Words
  PROVE  Low(v) \in 0..(Byte - 1) /\ High(v) \in 0..(Byte - 1) /\ v = Low(v) + Byte * High(v)
<1> USE Sizes
<1> DEFINE q == v \div Byte
           r == v % Byte
<1>1. v \in Nat /\ v < Byte * Byte
  BY DEF Words, Word
<1>2. q \in Int /\ r \in 0..(Byte - 1) /\ v = Byte * q + r
  BY <1>1
<1> HIDE DEF q, r
<1>3. q >= 0
  <2>1. q < 0 => Byte * q + Byte <= Byte * 0
    BY <1>2, TimesOrder
  <2> QED
    BY <1>1, <1>2, <2>1, TimesOrder
<1>4. q < Byte
  <2>1. Byte <= q => Byte * Byte <= Byte * q
    BY <1>2, TimesOrder
  <2> QED
    BY <1>1, <1>2, <2>1, TimesOrder
<1> QED
  BY <1>2, <1>3, <1>4 DEF q, r, Low, High

\* Two bytes and their word.
LEMMA Join ==
  ASSUME NEW a \in 0..(Byte - 1), NEW b \in 0..(Byte - 1)
  PROVE  a + Byte * b \in Words /\ Low(a + Byte * b) = a /\ High(a + Byte * b) = b
<1> USE Sizes
<1> DEFINE v == a + Byte * b
           q == High(v)
           r == Low(v)
<1>1. Byte * b \in Int /\ Byte * 0 <= Byte * b /\ Byte * b + Byte <= Byte * Byte
  BY TimesOrder
<1>2. v \in Words /\ v = a + Byte * b
  BY <1>1 DEF Words, Word
<1>3. r \in 0..(Byte - 1) /\ q \in 0..(Byte - 1) /\ v = r + Byte * q
  BY <1>2, Split
<1> HIDE DEF v, q, r
<1>4. Byte * q \in Int
  BY <1>3, TimesOrder
<1>5. ~(q < b)
  <2>1. q < b => Byte * q + Byte <= Byte * b
    BY <1>3, TimesOrder
  <2> QED
    BY <1>1, <1>2, <1>3, <1>4, <2>1
<1>6. ~(b < q)
  <2>1. b < q => Byte * b + Byte <= Byte * q
    BY <1>3, TimesOrder
  <2> QED
    BY <1>1, <1>2, <1>3, <1>4, <2>1
<1>7. q = b /\ r = a
  BY <1>1, <1>2, <1>3, <1>5, <1>6
<1> QED
  BY <1>2, <1>7 DEF v, q, r

\* The fields of RAINGAUGE_STATS that are kept.
Fields == {LastTip, MaxSlope, Tips}

\* What the bytes of a field tell of it.
LEMMA ValueOf ==
  ASSUME NEW s \in Stats, NEW f \in Fields
  PROVE  /\ s[f] \in 0..(Byte - 1) /\ s[f + 1] \in 0..(Byte - 1)
         /\ Value(s, f) \in Words
         /\ s[f + 1] = 0 => Value(s, f) = s[f]
         /\ Value(s, f) < Byte => s[f + 1] = 0 /\ Value(s, f) = s[f]
         /\ s[f] = Byte - 1 /\ s[f + 1] = Byte - 1 => Value(s, f) = Undef
<1> USE Sizes
<1>1. s[f] \in 0..(Byte - 1) /\ s[f + 1] \in 0..(Byte - 1)
  BY DEF Stats, Fields, LastTip, MaxSlope, Tips, Bytes
<1>2. Value(s, f) = s[f] + Byte * s[f + 1] /\ Value(s, f) \in Words
  BY <1>1, Join DEF Value
<1>3. s[f + 1] = 0 => Value(s, f) = s[f]
  BY <1>1, <1>2
<1>4. s[f + 1] > 0 => Byte * 0 + Byte <= Byte * s[f + 1]
  BY <1>1, TimesOrder
<1>5. Value(s, f) < Byte => s[f + 1] = 0
  BY <1>1, <1>2, <1>4
<1>6. s[f] = Byte - 1 /\ s[f + 1] = Byte - 1 => Value(s, f) = Undef
  BY <1>2 DEF Word
<1> QED
  BY <1>1, <1>2, <1>3, <1>5, <1>6

\* Writing a field changes no other one.
LEMMA PutIs ==
  ASSUME NEW s \in Stats, NEW f \in Fields, NEW v \in Words
  PROVE  /\ Put(s, f, v) \in Stats /\ Value(Put(s, f, v), f) = v
         /\ \A g \in Fields \ {f} : Value(Put(s, f, v), g) = Value(s, g)
         /\ \A b \in Bytes \ {f, f + 1} : Put(s, f, v)[b] = s[b]
         /\ Put(s, f, v)[f] = Low(v) /\ Put(s, f, v)[f + 1] = High(v)
<1> DEFINE z == Put(s, f, v)
<1>1. Low(v) \in 0..(Byte - 1) /\ High(v) \in 0..(Byte - 1) /\ v = Low(v) + Byte * High(v)
  BY Split
<1>2. f \in Bytes /\ f + 1 \in Bytes /\ f # f + 1
  BY DEF Fields, LastTip, MaxSlope, Tips, Bytes
<1>3. /\ z \in Stats /\ z[f] = Low(v) /\ z[f + 1] = High(v)
      /\ \A b \in Bytes \ {f, f + 1} : z[b] = s[b]
  BY <1>1, <1>2 DEF Put, Stats
<1> HIDE DEF z
<1>4. \A g \in Fields \ {f} : g \in Bytes \ {f, f + 1} /\ g + 1 \in Bytes \ {f, f + 1}
  BY DEF Fields, LastTip, MaxSlope, Tips, Bytes
<1>5. Value(z, f) = v /\ \A g \in Fields \ {f} : Value(z, g) = Value(s, g)
  BY <1>1, <1>3, <1>4 DEF Value
<1> QED
  BY <1>3, <1>5 DEF z
(***************************************************************************)
(* What raingauge_tip makes of the gauge.                                  *)
(***************************************************************************)
\* The remainder of a word and of a negative one.
LEMMA Remainder ==
  ASSUME NEW x \in Int, NEW g \in Words, x = g \/ x = g - Word
  PROVE  x % Word = g
<1> USE Sizes
<1> DEFINE p == x \div Word
           t == x % Word
<1>1. p \in Int /\ t \in 0..(Word - 1) /\ x = Word * p + t
  OBVIOUS
<1> HIDE DEF p, t
<1>2. Word * p \in Int /\ g \in 0..(Word - 1)
  BY <1>1, TimesOrder DEF Words
<1>3. CASE x = g
  <2>1. p < 0 => Word * p + Word <= Word * 0
    BY <1>1, TimesOrder
  <2>2. 0 < p => Word * 0 + Word <= Word * p
    BY <1>1, TimesOrder
  <2> QED
    BY <1>1, <1>2, <1>3, <2>1, <2>2 DEF t
<1>4. CASE x = g - Word
  <2>1. p < -1 => Word * p + Word <= Word * (-1)
    BY <1>1, TimesOrder
  <2>2. -1 < p => Word * (-1) + Word <= Word * p
    BY <1>1, TimesOrder
  <2> QED
    BY <1>1, <1>2, <1>4, <2>1, <2>2 DEF t
<1> QED
  BY <1>3, <1>4

\* Either the gauge stays as it is, or it counts a tip at this time.
LEMMA TipIs ==
  ASSUME stats \in Stats, cents \in Words, NEW r, r = Tip(stats)
  PROVE  /\ r \in Stats /\ Last \in Words /\ Counted \in Words /\ Gap \in Words
         /\ \/ r = stats /\ Last # Undef /\ Gap < MinGap
            \/ /\ Last = Undef \/ Gap >= MinGap
               /\ Value(r, LastTip) = cents
               /\ Counted + 1 < Word =>
                    /\ Value(r, Tips) = Counted + 1
                    /\ r[Tips] = Low(Counted + 1) /\ r[Tips + 1] = High(Counted + 1)
               /\ Value(r, MaxSlope) =
                    IF Last # Undef /\ Gap < Value(stats, MaxSlope)
                    THEN Gap ELSE Value(stats, MaxSlope)
<1> DEFINE n == (Counted + 1) % Word
           a == Put(stats, LastTip, cents)
           b == Put(a, Tips, n)
           d == Put(b, MaxSlope, Gap)
<1>1. LastTip \in Fields /\ Tips \in Fields /\ MaxSlope \in Fields
  BY DEF Fields
<1>2. LastTip # Tips /\ Tips # MaxSlope /\ LastTip # MaxSlope /\ {Tips, Tips + 1} \subseteq Bytes
      /\ {Tips, Tips + 1} \cap {LastTip, LastTip + 1, MaxSlope, MaxSlope + 1} = {}
  BY DEF LastTip, Tips, MaxSlope, Bytes
<1>3. Last \in Words /\ Counted \in Words /\ Value(stats, MaxSlope) \in Words
  BY <1>1, ValueOf DEF Last, Counted
<1>4. Gap \in Words /\ (cents - Last) % Word = Gap
  <2>1. Gap \in Words /\ cents - Last \in Int
        /\ (cents - Last = Gap \/ cents - Last = Gap - Word)
    BY <1>3, Sizes DEF Gap, Words
  <2> QED
    BY <2>1, Remainder
<1>5. n \in Words /\ (Counted + 1 < Word => n = Counted + 1)
  <2>1. n \in Words
    BY <1>3, Sizes DEF Words
  <2>2. Counted + 1 < Word => Counted + 1 \in Words /\ Counted + 1 \in Int
    BY <1>3, Sizes DEF Words
  <2> QED
    BY <2>1, <2>2, Remainder
<1> HIDE DEF n
<1>6. /\ a \in Stats /\ Value(a, LastTip) = cents /\ Value(a, Tips) = Counted
      /\ Value(a, MaxSlope) = Value(stats, MaxSlope)
  BY <1>1, <1>2, PutIs DEF Counted
<1> HIDE DEF a
<1>7. /\ b \in Stats /\ Value(b, LastTip) = cents /\ Value(b, Tips) = n
      /\ Value(b, MaxSlope) = Value(stats, MaxSlope) /\ b[Tips] = Low(n) /\ b[Tips + 1] = High(n)
  BY <1>1, <1>2, <1>5, <1>6, PutIs
<1> HIDE DEF b
<1>8. /\ d \in Stats /\ Value(d, LastTip) = cents /\ Value(d, Tips) = n
      /\ Value(d, MaxSlope) = Gap /\ d[Tips] = Low(n) /\ d[Tips + 1] = High(n)
  <2>1. Tips \in Bytes \ {MaxSlope, MaxSlope + 1} /\ Tips + 1 \in Bytes \ {MaxSlope, MaxSlope + 1}
    BY <1>2
  <2>2. d \in Stats /\ Value(d, MaxSlope) = Gap
    BY <1>1, <1>4, <1>7, PutIs
  <2>4. \A x \in Bytes \ {MaxSlope, MaxSlope + 1} : d[x] = b[x]
    BY <1>1, <1>4, <1>7, PutIs
  <2>3. Value(d, LastTip) = Value(b, LastTip) /\ Value(d, Tips) = Value(b, Tips)
    BY <1>1, <1>2, <1>4, <1>7, PutIs
  <2> QED
    BY <1>7, <2>1, <2>2, <2>3, <2>4
<1>9. r = IF Last = Undef THEN b ELSE IF Gap < MinGap THEN stats
          ELSE IF Gap < Value(stats, MaxSlope) THEN d ELSE b
  BY <1>4 DEF Tip, Last, Counted, Bounce, Steeper, a, b, n
<1> HIDE DEF d
<1>10. CASE Last # Undef /\ Gap < MinGap
  BY <1>3, <1>4, <1>9, <1>10
<1>11. CASE Last = Undef
  BY <1>3, <1>4, <1>5, <1>7, <1>9, <1>11
<1>12. CASE Last # Undef /\ Gap >= MinGap
  <2>1. r = IF Gap < Value(stats, MaxSlope) THEN d ELSE b
    <3>1. ~(Gap < MinGap)
      BY <1>4, <1>12, Sizes DEF Words
    <3> QED
      BY <1>9, <1>12, <3>1
  <2> QED
    BY <1>3, <1>4, <1>5, <1>7, <1>8, <1>12, <2>1
<1>13. Gap < MinGap \/ Gap >= MinGap
  BY <1>4, Sizes DEF Words
<1> QED
  BY <1>10, <1>11, <1>12, <1>13
(***************************************************************************)
(* Every step keeps the invariant.                                         *)
(***************************************************************************)
\* The points of the tick.
LEMMA Places ==
  ASSUME pc \in Steps \cup {Idle, Strobe}
  PROVE  /\ pc[1] = "get" => pc[2] \in Bytes /\ pc = << "get", pc[2] >>
         /\ pc[1] = "reset" => pc[2] \in Bytes /\ pc = << "reset", pc[2] >>
         /\ Uncopied <=> pc = Idle \/ (pc[1] = "get" /\ pc[2] # 6)
         /\ Halfway <=> pc[1] = "get" /\ pc[2] = 6
         /\ Idle[1] = "idle" /\ Strobe[1] = "strobe"
         /\ pc[1] \in {"idle", "strobe", "get", "reset"}
         /\ pc[1] = "idle" => pc = Idle
         /\ pc[1] = "strobe" => pc = Strobe
<1>1. Idle[1] = "idle" /\ Strobe[1] = "strobe"
  BY DEF Idle, Strobe
<1>2. CASE pc \in Steps
  <2>1. PICK t \in {"get", "reset"}, n \in Bytes : pc = << t, n >>
    BY <1>2 DEF Steps
  <2>2. pc[1] = t /\ pc[2] = n
    BY <2>1
  <2>3. n \in 1..6
    BY DEF Bytes
  <2>4. pc # Idle
    BY <1>1, <2>2
  <2>5. pc \in {"get"} \X (1..5) <=> t = "get" /\ n \in 1..5
    BY <2>1
  <2>6. pc = << "get", 6 >> <=> t = "get" /\ n = 6
    BY <2>1
  <2> QED
    BY <1>1, <2>1, <2>2, <2>3, <2>4, <2>5, <2>6 DEF Uncopied, Halfway
<1>3. CASE pc \in {Idle, Strobe}
  <2>1. pc[1] \in {"idle", "strobe"}
    BY <1>1, <1>3
  <2>2. pc \notin {"get"} \X (1..5) /\ pc # << "get", 6 >>
    BY <2>1
  <2> QED
    BY <1>1, <1>3, <2>1, <2>2 DEF Uncopied, Halfway
<1> QED
  BY <1>2, <1>3

\* The types, spelled out.
LEMMA Typing ==
  ASSUME TypeOK
  PROVE  /\ cents \in Words /\ stats \in Stats /\ item \in Stats
         /\ pc \in Steps \cup {Idle, Strobe} /\ age \in Nat /\ age <= Word
         /\ since \in Nat /\ slope \in Words /\ drift \in Int /\ snaps \in Nat
         /\ late \in BOOLEAN /\ first \in BOOLEAN /\ clean \in BOOLEAN
         /\ Last \in Words /\ Counted \in Words /\ Gap \in Words /\ Passed \in 0..1
         /\ carries \in Nat /\ Excess \in Int /\ Taken \in Int
<1>1. /\ cents \in Words /\ stats \in Stats /\ item \in Stats
      /\ pc \in Steps \cup {Idle, Strobe} /\ age \in Nat /\ age <= Word
      /\ since \in Nat /\ slope \in Words /\ drift \in Int /\ snaps \in Nat
      /\ late \in BOOLEAN /\ first \in BOOLEAN /\ clean \in BOOLEAN
  BY Sizes DEF TypeOK, Words, Stats
<1>2. Passed \in 0..1
  BY DEF Passed
<1>3. carries \in Nat /\ Excess \in Int
  BY Sizes, TimesOrder DEF TypeOK, Excess
<1>4. Taken \in Int
  <2>1. /\ item[Tips] \in Int /\ item[Tips + 1] \in Int
        /\ stats[Tips + 1] \in Int
    BY <1>1, ValueOf DEF Fields
  <2> QED
    BY <2>1, Sizes, TimesOrder DEF Taken
<1> QED
  BY <1>1, <1>2, <1>3, <1>4, TipIs

\* The tips of an interval fit a word, and the next one does.
LEMMA CountFits ==
  ASSUME IInv, Uncopied \/ Halfway
  PROVE  Counted + 1 < Word
<1> USE Sizes
<1> DEFINE n == Counted - 2
<1>1. /\ Last \in Nat /\ Counted \in Nat /\ cents \in Nat /\ cents <= Interval + 1
      /\ Counted <= 1 \/ (Last <= cents /\ n * MinGap <= Last)
  <2>1. cents <= Interval + 1
    BY Typing DEF IInv, Timed, Passed
  <2>2. \A w \in Words : w \in Nat
    BY DEF Words
  <2> QED
    BY <2>1, <2>2, Typing DEF IInv, Room
<1>2. n \in Int /\ n * MinGap = MinGap * n /\ n * MinGap \in Int
  BY <1>1
<1>3. Byte * 3 <= Byte * Byte
  BY TimesOrder
<1>4. Word >= 9
  BY <1>3 DEF Word
<1>5. CASE Counted <= 1
  BY <1>1, <1>4, <1>5
<1>6. CASE n >= 0 /\ n * MinGap <= Interval + 1
  <2>1. n * 2 <= n * MinGap
    <3>1. n * 2 <= n * MinGap
      <4>1. CASE n = 0
        BY <4>1
      <4>2. CASE n > 0
        BY <1>2, <4>2, TimesOrder
      <4> HIDE DEF n
      <4> QED
        BY <1>2, <1>6, <4>1, <4>2
    <3> QED
      BY <3>1
  <2> HIDE DEF n
  <2>2. n * 2 + 2 <= Word
    BY <1>2, <1>6, <2>1
  <2>3. n + 3 < Word
    BY <1>2, <1>4, <1>6, <2>2
  <2> QED
    BY <1>1, <2>3 DEF n
<1> QED
  BY <1>1, <1>2, <1>5, <1>6
\* One more is the same high byte, or with a carry the next one.
LEMMA HighNext ==
  ASSUME NEW a \in 0..(Byte - 1), NEW b \in 0..(Byte - 1), a + Byte * b + 1 < Word
  PROVE  High(a + Byte * b + 1) \in {b, b + 1}
<1> USE Sizes
<1>1. Byte * b \in Int /\ Byte * (b + 1) \in Int /\ Byte * (b + 1) = Byte * b + Byte
  BY TimesOrder
<1>2. CASE a < Byte - 1
  <2>1. a + 1 \in 0..(Byte - 1) /\ a + Byte * b + 1 = (a + 1) + Byte * b
    BY <1>1, <1>2
  <2>2. High((a + 1) + Byte * b) = b
    BY <2>1, Join
  <2> QED
    BY <2>1, <2>2
<1>3. CASE a = Byte - 1
  <2>1. a + Byte * b + 1 = 0 + Byte * (b + 1)
    BY <1>1, <1>3
  <2>2. b + 1 \in 0..(Byte - 1)
    <3>1. Byte <= b + 1 => Byte * Byte <= Byte * (b + 1)
      BY TimesOrder
    <3>2. Byte * (b + 1) < Byte * Byte
      BY <1>1, <2>1 DEF Word
    <3> QED
      BY <1>1, <3>1, <3>2
  <2>3. 0 \in 0..(Byte - 1) /\ High(0 + Byte * (b + 1)) = b + 1
    BY <2>2, Join
  <2> QED
    BY <2>1, <2>3
<1> QED
  BY <1>2, <1>3
\* A hundredth goes by.
LEMMA HundredthKeeps == IInv /\ Hundredth => IInv'
<1> SUFFICES ASSUME IInv, Hundredth PROVE IInv'
  OBVIOUS
<1> USE Sizes
<1>1. /\ cents' = (cents + 1) % Word /\ since' = since + 1 /\ age' = Shorter(age + 1, Word)
      /\ late' = (pc # Idle) /\ stats' = stats /\ item' = item /\ pc' = pc /\ drift' = drift
      /\ snaps' = snaps /\ slope' = slope /\ first' = first /\ clean' = clean
      /\ carries' = carries
      /\ IF pc = Idle THEN since < Interval ELSE ~late
  BY DEF Hundredth
<1>2. /\ Last' = Last /\ Counted' = Counted /\ Uncopied' = Uncopied /\ Halfway' = Halfway
      /\ Taken' = Taken /\ Excess' = Excess
  BY <1>1 DEF Last, Counted, Uncopied, Halfway, Value, Taken, Excess
<1>3. /\ cents = since /\ since + 1 <= Interval + Passed' /\ Passed' \in 0..1 /\ Passed = 0
      /\ (pc # Idle => Passed' = 1) /\ (pc = Idle => ~late')
  <2>1. cents = since /\ since <= Interval + Passed /\ (pc = Idle => ~late) /\ since \in Nat
    BY Typing DEF IInv, Timed
  <2>2. CASE pc = Idle
    <3>1. ~late' /\ Passed' = 0 /\ Passed = 0
      BY <1>1, <2>1, <2>2 DEF Passed
    <3> QED
      BY <1>1, <2>1, <2>2, <3>1
  <2>3. CASE pc # Idle
    <3>1. late' /\ Passed' = 1 /\ Passed = 0
      BY <1>1, <2>3 DEF Passed
    <3> QED
      BY <1>1, <2>1, <2>3, <3>1
  <2> QED
    BY <2>2, <2>3
<1>4. cents' = cents + 1 /\ cents' \in Words /\ cents + 1 <= Interval + 1
  <2>1. cents + 1 \in Words /\ cents + 1 <= Interval + 1
    BY <1>3, Typing DEF IInv, Words
  <2>2. cents + 1 \in Int /\ (cents + 1) % Word = cents + 1
    BY <2>1, Remainder DEF Words
  <2> QED
    BY <1>1, <2>1, <2>2
<1>5. age' \in Nat /\ age' <= Word /\ age <= age' /\ age' <= age + 1
      /\ age' = (IF age < Word THEN age + 1 ELSE Word)
  BY <1>1, Typing DEF IInv, Shorter
<1>6. TypeOK'
  <2>1. since' \in 0..(Interval + 1)
    BY <1>1, <1>3, Typing DEF IInv
  <2> QED
    BY <1>1, <1>4, <1>5, <2>1 DEF IInv, TypeOK, Words
<1>7. Timed'
  BY <1>1, <1>3, <1>4 DEF IInv, Timed
<1>8. Last \in Words /\ Counted \in Words /\ Gap \in Words /\ cents \in Words
  BY Typing DEF IInv
<1>9. Room'
  BY <1>2, <1>4, <1>8 DEF IInv, Room, Words
<1>10. Balanced'
  <2> DEFINE d == drift + Counted - Excess
             lo == -2 * snaps
             hi == 2 * snaps
  <2>1. SUFFICES ASSUME Uncopied PROVE Within(d, lo, hi)'
    BY <1>1, <1>2 DEF Balanced
  <2>2. Within(d, lo, hi) /\ d' = d /\ lo' = lo /\ hi' = hi
    BY <1>1, <1>2, <2>1 DEF IInv, Balanced
  <2>3. Settled => Settled' /\ Gap' = Gap + 1
    BY <1>2, <1>4, <1>8 DEF Settled, Gap, Words
  <2>4. Settled => Gap + 1 < Word
    BY <1>4, <1>8 DEF Settled, Gap, Words
  <2>5. Settled => (Gap' < age' => Gap < age) /\ (Gap' > age' => Gap > age)
    BY <1>5, <1>8, <2>3, <2>4, Typing DEF IInv, Words
  <2>6. age' < MinGap => age < MinGap
    BY <1>5, Typing DEF IInv
  <2> HIDE DEF d, lo, hi
  <2> QED
    BY <1>2, <2>2, <2>3, <2>5, <2>6 DEF Within
<1>11. Copied'
  <2>1. SUFFICES ASSUME ~Uncopied PROVE Copied'
    BY <1>2 DEF Copied
  <2>2. pc # Idle
    BY <2>1 DEF Uncopied
  <2>3. age <= Passed => age' <= Passed'
    BY <1>3, <1>5, <2>2, Typing DEF IInv
  <2> QED
    BY <1>1, <1>2, <2>1, <2>3 DEF IInv, Copied
<1>12. Reset'
  <2>1. pc \in {<< "reset", 6 >>, Strobe} => pc # Idle
    BY DEF Strobe, Idle
  <2>2. ASSUME pc # Idle, Last <= cents, cents - Last <= Passed
        PROVE  Last <= cents' /\ cents' - Last <= Passed'
    BY <1>3, <1>4, <1>8, <2>2 DEF Words
  <2> QED
    BY <1>1, <1>2, <2>1, <2>2 DEF IInv, Reset
<1>13. Cleared'
  BY <1>1 DEF IInv, Cleared
<1>14. Sloped'
  <2>1. ASSUME Last <= cents, cents - Last = age
        PROVE  Last <= cents' /\ cents' - Last = age'
    BY <1>4, <1>5, <1>8, <2>1 DEF Words
  <2>2. Value(stats, MaxSlope)' = Value(stats, MaxSlope)
    BY <1>1 DEF Value
  <2> QED
    BY <1>1, <1>2, <2>1, <2>2 DEF IInv, Sloped
<1>15. Torn'
  <2>1. Halfway => pc # Idle
    BY DEF Halfway, Idle
  <2>2. ASSUME pc # Idle, Last <= cents, cents - Last <= Passed
        PROVE  Last <= cents' /\ cents' - Last <= Passed'
    BY <1>3, <1>4, <1>8, <2>2 DEF Words
  <2> QED
    BY <1>1, <1>2, <2>1, <2>2 DEF IInv, Torn
<1> QED
  BY <1>6, <1>7, <1>9, <1>10, <1>11, <1>12, <1>13, <1>14, <1>15 DEF IInv

\* The tick begins a snapshot.
LEMMA SnapshotKeeps == IInv /\ Snapshot => IInv'
<1> SUFFICES ASSUME IInv, Snapshot PROVE IInv'
  OBVIOUS
<1>1. /\ pc = Idle /\ pc' = << "get", 1 >> /\ clean' = TRUE /\ snaps < MaxSnaps
      /\ cents' = cents /\ stats' = stats /\ item' = item /\ age' = age /\ since' = since
      /\ late' = late /\ drift' = drift /\ snaps' = snaps /\ slope' = slope /\ first' = first
      /\ carries' = carries
  BY DEF Snapshot
<1>2. /\ Last' = Last /\ Counted' = Counted /\ Gap' = Gap /\ Passed' = Passed
      /\ Settled' = Settled /\ Excess' = Excess
  BY <1>1 DEF Last, Counted, Gap, Passed, Value, Settled, Excess
<1>3. pc' \in Steps /\ pc' # Idle /\ pc'[1] = "get" /\ pc'[2] = 1
  BY <1>1 DEF Steps, Bytes, Idle
<1>4. Uncopied /\ Uncopied' /\ pc' # Strobe /\ pc' # << "reset", 6 >>
  BY <1>1 DEF Uncopied, Strobe
<1>5. TypeOK'
  BY <1>1, <1>3 DEF IInv, TypeOK
<1>6. Timed' /\ Room'
  BY <1>1, <1>2, <1>3, <1>4 DEF IInv, Timed, Room
<1>7. Balanced'
  BY <1>1, <1>2, <1>4 DEF IInv, Balanced, Within
<1>8. Copied' /\ Reset' /\ Cleared' /\ Sloped'
  BY <1>3, <1>4 DEF Copied, Reset, Cleared, Sloped
<1>9. Torn'
  <2>1. ~Halfway'
    BY <1>1 DEF Halfway
  <2> QED
    BY <1>1, <1>4, <2>1 DEF IInv, Torn
<1> QED
  BY <1>5, <1>6, <1>7, <1>8, <1>9 DEF IInv

\* A byte is copied; with the low byte of the tips, their number is.
LEMMA GetByteKeeps == IInv /\ GetByte => IInv'
<1> SUFFICES ASSUME IInv, GetByte PROVE IInv'
  OBVIOUS
<1> DEFINE n == pc[2]
<1>1. /\ pc[1] = "get" /\ item' = [item EXCEPT ![n] = stats[n]]
      /\ pc' = IF n = 6 THEN << "reset", 1 >> ELSE << "get", n + 1 >>
      /\ cents' = cents /\ stats' = stats /\ age' = age /\ since' = since
      /\ late' = late /\ drift' = drift /\ snaps' = snaps /\ slope' = slope /\ first' = first
      /\ clean' = clean /\ carries' = carries
  BY DEF GetByte, real
<1>2. /\ Last' = Last /\ Counted' = Counted /\ Gap' = Gap /\ Passed' = Passed
      /\ Settled' = Settled /\ Excess' = Excess
  BY <1>1 DEF Last, Counted, Gap, Passed, Value, Settled, Excess
<1>3. n \in Bytes /\ n \in 1..6 /\ pc = << "get", n >>
  BY <1>1, Places, Typing DEF IInv, Bytes
<1>4. /\ Uncopied <=> n # 6
      /\ Halfway <=> n = 6
  BY <1>1, Places, Typing DEF IInv
<1> HIDE DEF n
<1>5. pc' \in Steps /\ pc' # Idle /\ pc' # Strobe /\ pc' # << "reset", 6 >> /\ pc # Idle
  BY <1>1, <1>3 DEF Steps, Bytes, Idle, Strobe
<1>6. /\ Uncopied' <=> n \in 1..4
      /\ Halfway' <=> n = 5
      /\ pc'[1] = "reset" => pc'[2] = 1
  BY <1>1, <1>3, <1>5 DEF Uncopied, Halfway
<1>7. stats \in Stats /\ item \in Stats
  BY Typing DEF IInv
<1>8. item' \in Stats /\ item'[n] = stats[n] /\ \A b \in Bytes \ {n} : item'[b] = item[b]
  BY <1>1, <1>3, <1>7 DEF Stats
<1>9. TypeOK'
  BY <1>1, <1>5, <1>8 DEF IInv, TypeOK, Stats
<1>10. Timed' /\ Room'
  BY <1>1, <1>2, <1>3, <1>4, <1>5, <1>6 DEF IInv, Timed, Room
<1>11. Balanced'
  BY <1>1, <1>2, <1>3, <1>4, <1>6 DEF IInv, Balanced, Within
<1>12. Tips \in Bytes /\ Tips + 1 \in Bytes /\ Tips = 5
  BY DEF Tips, Bytes
<1>13. Copied'
  <2>1. CASE n = 5
    <3> DEFINE lo == -2 * snaps
               hi == 2 * snaps
               d == drift + Counted - Excess
    <3>1. Taken' = Counted
      BY <1>1, <1>6, <1>8, <1>12, <2>1 DEF Taken, Counted, Value
    <3>2. Within(d, lo, hi) /\ lo \in Int /\ hi \in Int /\ d \in Int
      BY <1>4, <2>1, Typing DEF IInv, Balanced, Words
    <3>4. drift' + Taken' - Excess' = d /\ snaps' = snaps
      BY <1>1, <1>2, <3>1
    <3> HIDE DEF d
    <3>3. d \in lo..hi
      BY <3>2 DEF Within
    <3> QED
      BY <3>2, <3>3, <3>4 DEF Copied
  <2>2. CASE n = 6
    <3>1. Taken' = Taken
      BY <1>4, <1>6, <1>8, <1>12, <2>2 DEF Taken
    <3> QED
      BY <1>1, <1>2, <1>4, <2>2, <3>1 DEF IInv, Copied
  <2>3. CASE n \in 1..4
    BY <1>6, <2>3 DEF Copied
  <2> QED
    BY <1>3, <2>1, <2>2, <2>3
<1>14. Reset' /\ Sloped'
  BY <1>5 DEF Reset, Sloped
<1>15. Cleared'
  BY <1>5, <1>6 DEF Cleared, Bytes
<1>16. Torn'
  BY <1>1, <1>3, <1>4, <1>6, Typing DEF IInv, Torn
<1> QED
  BY <1>9, <1>10, <1>11, <1>13, <1>14, <1>15, <1>16 DEF IInv
\* A byte of the gauge is reset.
LEMMA ResetByteKeeps == IInv /\ ResetByte => IInv'
<1> SUFFICES ASSUME IInv, ResetByte PROVE IInv'
  OBVIOUS
<1> USE Sizes
<1> DEFINE n == pc[2]
<1>1. /\ pc[1] = "reset" /\ stats' = [stats EXCEPT ![n] = Default[n]]
      /\ pc' = IF n = 6 THEN Strobe ELSE << "reset", n + 1 >>
      /\ cents' = cents /\ item' = item /\ age' = age /\ since' = since
      /\ late' = late /\ drift' = drift /\ snaps' = snaps /\ slope' = slope /\ first' = first
      /\ clean' = clean /\ carries' = carries
  BY DEF ResetByte, real
<1>2. n \in Bytes /\ n \in 1..6 /\ pc = << "reset", n >>
  BY <1>1, Places, Typing DEF IInv, Bytes
<1>3. ~Uncopied /\ ~Halfway
  BY <1>1, Places, Typing DEF IInv
<1> HIDE DEF n
<1>4. /\ pc' \in Steps \cup {Strobe} /\ pc' # Idle /\ pc # Idle
      /\ (pc' = Strobe <=> n = 6) /\ (pc' = << "reset", 6 >> <=> n = 5)
      /\ pc'[1] = "reset" => pc'[2] = n + 1
  BY <1>1, <1>2 DEF Steps, Bytes, Idle, Strobe
<1>5. ~Uncopied' /\ ~Halfway'
  BY <1>1, <1>2, <1>4 DEF Uncopied, Halfway, Strobe
<1>6. stats \in Stats
  BY Typing DEF IInv
<1>7. \A b \in Bytes : Default[b] \in 0..(Byte - 1)
  BY DEF Default, Tips
<1>8. /\ stats' \in Stats /\ stats'[n] = Default[n]
      /\ \A b \in Bytes \ {n} : stats'[b] = stats[b]
  BY <1>1, <1>2, <1>6, <1>7 DEF Stats
<1>9. TypeOK'
  BY <1>1, <1>4, <1>8 DEF IInv, TypeOK, Stats
<1>10. Timed' /\ Room' /\ Balanced' /\ Sloped'
  BY <1>1, <1>4, <1>5 DEF IInv, Timed, Passed, Room, Balanced, Sloped
<1>11. Copied'
  BY <1>1, <1>3, <1>5 DEF IInv, Copied, Passed, Taken, Excess
<1>12. Tips = 5 /\ Tips \in Bytes /\ Tips + 1 \in Bytes /\ Default[Tips] = 0 /\ Default[Tips + 1] = 0
  BY DEF Tips, Bytes, Default
<1>13. Reset'
  <2>1. CASE n = 5
    <3>1. stats'[Tips] = 0 /\ pc' # Strobe
      BY <1>4, <1>8, <1>12, <2>1
    <3> QED
      BY <3>1 DEF Reset
  <2>2. CASE n = 6
    <3>1. stats'[Tips] = stats[Tips] /\ stats'[Tips + 1] = 0
      BY <1>8, <1>12, <2>2
    <3>2. Last' = Last
      BY <1>8, <2>2 DEF Last, Value, LastTip, Bytes
    <3>3. /\ stats[Tips] \in 0..1
          /\ stats[Tips] = 1 => Last <= cents /\ cents - Last <= Passed
      BY <1>2, <2>2 DEF IInv, Reset
    <3> QED
      BY <1>1, <3>1, <3>2, <3>3 DEF Reset, Passed
  <2>3. CASE n \in 1..4
    BY <1>4, <2>3 DEF Reset
  <2> QED
    BY <1>2, <2>1, <2>2, <2>3
<1>14. Cleared'
  <2>1. SUFFICES ASSUME clean PROVE Cleared'
    BY <1>1 DEF Cleared
  <2>2. \A b \in Bytes : b < n => stats[b] = Default[b]
    BY <1>1, <1>2, <2>1 DEF IInv, Cleared, n
  <2>3. \A b \in Bytes : b < n + 1 => stats'[b] = Default[b]
    BY <1>2, <1>8, <2>2 DEF Bytes
  <2>4. n = 6 => \A b \in Bytes : b < n + 1
    BY DEF Bytes
  <2> QED
    BY <1>4, <2>3, <2>4 DEF Cleared
<1>15. Torn'
  BY <1>1, <1>5 DEF IInv, Torn
<1> QED
  BY <1>9, <1>10, <1>11, <1>13, <1>14, <1>15 DEF IInv

\* The timer restarts; tips lost since the copy, and tips counted since the
\* reset, are the drift of this snapshot.
LEMMA RestartKeeps == IInv /\ Restart => IInv'
<1> SUFFICES ASSUME IInv, Restart PROVE IInv'
  OBVIOUS
<1> USE Sizes
<1>1. /\ pc = Strobe /\ pc' = Idle /\ cents' = 0 /\ since' = 0 /\ late' = FALSE
      /\ drift' = drift + Value(item, Tips) /\ snaps' = snaps + 1
      /\ slope' = Undef /\ first' = TRUE /\ stats' = stats /\ item' = item
      /\ age' = age /\ clean' = clean /\ carries' = carries
  BY DEF Restart
<1>2. /\ stats \in Stats /\ item \in Stats /\ drift \in Int /\ snaps \in Nat /\ snaps < MaxSnaps
      /\ cents' \in Words /\ Undef \in Words
  BY <1>1, Typing DEF IInv, Timed, Strobe, Idle, Words
<1>3. pc \notin {"get"} \X (1..5) /\ pc # << "get", 6 >> /\ pc # Idle
  BY <1>1 DEF Strobe, Idle
<1>4. /\ drift + Taken - Excess \in ((-2 * snaps) - 1)..(2 * snaps)
      /\ stats[Tips] \in 0..1 /\ stats[Tips + 1] = 0
  BY <1>1, <1>3 DEF IInv, Copied, Reset, Uncopied, Halfway
<1>5. /\ Counted = stats[Tips] /\ Counted' = Counted /\ Excess' = Excess
      /\ Value(item, Tips) = Taken /\ Taken \in Int /\ Excess \in Int
  <2>1. Counted = stats[Tips] /\ Counted' = Counted
    BY <1>1, <1>2, <1>4, ValueOf DEF Fields, Counted, Value
  <2>2. Value(item, Tips) = Taken /\ Excess' = Excess
    BY <1>1, <1>3 DEF Taken, Value, Halfway, Excess
  <2> QED
    BY <2>1, <2>2, Typing DEF IInv
<1>6. Uncopied' /\ pc' # Strobe /\ pc' # << "reset", 6 >> /\ pc'[1] # "reset"
  BY <1>1 DEF Uncopied, Strobe, Idle
<1>7. TypeOK'
  <2>1. drift' \in Int /\ snaps' \in 0..MaxSnaps
    BY <1>1, <1>2, <1>5
  <2>2. since' \in 0..(Interval + 1) /\ slope' \in 0..Undef /\ cents' \in 0..(Word - 1)
    BY <1>1, <1>2 DEF Words
  <2> QED
    BY <1>1, <2>1, <2>2 DEF IInv, TypeOK
<1>8. Timed'
  BY <1>1 DEF Timed, Passed
<1>9. Room'
  BY <1>4, <1>5 DEF Room
<1>10. Balanced'
  <2> DEFINE g == drift + Taken - Excess
  <2>1. g \in ((-2 * snaps) - 1)..(2 * snaps)
    BY <1>4
  <2>2. drift' + Counted' - Excess' = g + stats[Tips]
    BY <1>1, <1>2, <1>4, <1>5
  <2> HIDE DEF g
  <2>3. g + stats[Tips] \in ((-2 * snaps') + 1)..((2 * snaps') - 1)
    BY <1>1, <1>2, <1>4, <2>1
  <2>4. drift' + Counted' - Excess' \in ((-2 * snaps') + 1)..((2 * snaps') - 1)
    BY <2>2, <2>3
  <2> QED
    BY <2>4 DEF Balanced, Within
<1>11. Copied' /\ Reset' /\ Cleared'
  BY <1>6, <1>1 DEF Copied, Reset, Cleared
<1>12. Sloped'
  <2>1. SUFFICES ASSUME clean PROVE Value(stats, MaxSlope)' = Undef /\ Last' = Undef
    BY <1>1 DEF Sloped
  <2>2. \A b \in Bytes : stats[b] = Default[b]
    BY <1>1, <2>1 DEF IInv, Cleared
  <2>3. \A b \in 1..4 : b \in Bytes /\ Default[b] = Byte - 1
    BY DEF Bytes, Default, Tips
  <2>4. \A b \in 1..4 : stats[b] = Byte - 1
    BY <2>2, <2>3
  <2>5. Value(stats, MaxSlope) = Undef /\ Value(stats, LastTip) = Undef
    BY <1>2, <2>4, ValueOf DEF Fields, MaxSlope, LastTip
  <2> QED
    BY <1>1, <2>5 DEF Last, Value
<1>13. Torn'
  <2>1. ~Halfway'
    BY <1>1 DEF Halfway, Idle
  <2> QED
    BY <1>1, <1>2, <2>1, Typing DEF IInv, Torn
<1> QED
  BY <1>7, <1>8, <1>9, <1>10, <1>11, <1>12, <1>13 DEF IInv
\* The bucket tips, or its switch bounces, and the gauge counts that or not.
LEMMA PulseSteps ==
  ASSUME IInv, Pulse
  PROVE  /\ cents' = cents /\ item' = item /\ pc' = pc /\ since' = since /\ late' = late
         /\ snaps' = snaps /\ Uncopied' = Uncopied /\ Halfway' = Halfway /\ Passed' = Passed
         /\ \/ /\ age < MinGap /\ age' = age /\ drift' = drift /\ slope' = slope
               /\ first' = first
            \/ /\ age >= MinGap /\ age' = 0 /\ drift' = drift - 1 /\ first' = FALSE
               /\ slope' = IF first THEN slope ELSE Shorter(age, slope)
         /\ stats' \in Stats
         /\ \/ /\ stats' = stats /\ Last # Undef /\ Gap < MinGap
               /\ Last' = Last /\ Counted' = Counted /\ Gap' = Gap
            \/ /\ Last = Undef \/ Gap >= MinGap
               /\ Last' = cents /\ Gap' = 0 /\ Last' # Undef
               /\ Counted + 1 < Word =>
                    /\ Counted' = Counted + 1
                    /\ stats'[Tips] = Low(Counted + 1) /\ stats'[Tips + 1] = High(Counted + 1)
               /\ Value(stats', MaxSlope) =
                    IF Last # Undef /\ Gap < Value(stats, MaxSlope)
                    THEN Gap ELSE Value(stats, MaxSlope)
         /\ carries' = carries + (IF Halfway /\ Carried THEN 1 ELSE 0)
<1> USE Sizes
<1>0. carries' = carries + (IF Halfway /\ Carried THEN 1 ELSE 0)
  BY DEF Pulse, Halfway
<1>1. /\ cents' = cents /\ item' = item /\ pc' = pc /\ since' = since /\ late' = late
      /\ snaps' = snaps /\ stats' = Tip(stats)
  BY DEF Pulse
<1>2. Uncopied' = Uncopied /\ Halfway' = Halfway /\ Passed' = Passed
  BY <1>1 DEF Uncopied, Halfway, Passed
<1>3. \/ /\ age < MinGap /\ age' = age /\ drift' = drift /\ slope' = slope
         /\ first' = first
      \/ /\ age >= MinGap /\ age' = 0 /\ drift' = drift - 1 /\ first' = FALSE
         /\ slope' = IF first THEN slope ELSE Shorter(age, slope)
  BY Typing DEF Pulse, IInv
<1>4. /\ stats \in Stats /\ cents \in Words /\ cents < Undef
  <2>1. cents <= Interval + 1 /\ cents \in Words
    BY Typing DEF IInv, Timed
  <2> QED
    BY <2>1, Typing DEF IInv, Words
<1>5. /\ stats' \in Stats
      /\ \/ stats' = stats /\ Last # Undef /\ Gap < MinGap
         \/ /\ Last = Undef \/ Gap >= MinGap
            /\ Value(stats', LastTip) = cents
            /\ Counted + 1 < Word =>
                 /\ Value(stats', Tips) = Counted + 1
                 /\ stats'[Tips] = Low(Counted + 1) /\ stats'[Tips + 1] = High(Counted + 1)
            /\ Value(stats', MaxSlope) =
                 IF Last # Undef /\ Gap < Value(stats, MaxSlope)
                 THEN Gap ELSE Value(stats, MaxSlope)
  BY <1>1, <1>4, TipIs
<1>6. Last' = Value(stats', LastTip) /\ Counted' = Value(stats', Tips)
  BY DEF Last, Counted, Value
<1>7. Last' = Last => Gap' = Gap
  BY <1>1 DEF Gap
<1>8. Last' = cents => Gap' = 0 /\ Last' # Undef
  BY <1>1, <1>4 DEF Gap, Words
<1>9. stats' = stats => Last' = Last /\ Counted' = Counted
  BY DEF Last, Counted, Value
<1> QED
  BY <1>0, <1>1, <1>2, <1>3, <1>5, <1>6, <1>7, <1>8, <1>9

\* Whether it carries or not, the copy is as far from the true number as it was.
LEMMA PulseTakes ==
  ASSUME IInv, Pulse
  PROVE  /\ Uncopied => Excess' = Excess
         /\ ~Uncopied => Taken' - Excess' = Taken - Excess
         /\ carries' \in Nat /\ Taken' \in Int /\ Excess' \in Int
<1> USE Sizes
<1>1. /\ item' = item /\ Halfway' = Halfway
      /\ carries' = carries + (IF Halfway /\ Carried THEN 1 ELSE 0)
  BY PulseSteps
<1>2. /\ stats \in Stats /\ item \in Stats /\ carries \in Nat
      /\ item[Tips] \in Int /\ stats[Tips] \in 0..(Byte - 1) /\ stats[Tips + 1] \in 0..(Byte - 1)
      /\ Taken \in Int /\ Excess \in Int
  BY Typing, ValueOf DEF IInv, Fields
<1>3. ~(Uncopied /\ Halfway)
  BY Places, Typing DEF IInv
<1>4. CASE ~Halfway \/ ~Carried
  <2>1. carries' = carries
    BY <1>1, <1>2, <1>4
  <2>2. Taken' = Taken
    BY <1>1, <1>4 DEF Taken, Carried
  <2> QED
    BY <1>2, <2>1, <2>2 DEF Excess
<1>5. CASE Halfway /\ Carried
  <2>1. stats'[Tips + 1] = stats[Tips + 1] + 1
    <3>1. Counted + 1 < Word
      BY <1>5, CountFits
    <3>2. stats' # stats
      BY <1>5 DEF Carried
    <3>3. stats'[Tips + 1] = High(Counted + 1)
      BY <3>1, <3>2, PulseSteps
    <3>4. Counted = stats[Tips] + Byte * stats[Tips + 1]
      BY DEF Counted, Value
    <3>5. High(Counted + 1) \in {stats[Tips + 1], stats[Tips + 1] + 1}
      BY <1>2, <3>1, <3>4, HighNext
    <3> QED
      BY <1>5, <3>3, <3>5 DEF Carried
  <2>2. carries' = carries + 1
    BY <1>1, <1>5
  <2> DEFINE h == stats[Tips + 1]
  <2>3. /\ Byte * (h + 1) = Byte * h + Byte /\ Byte * h \in Int
        /\ Byte * (carries + 1) = Byte * carries + Byte /\ Byte * carries \in Int
    BY <1>2, TimesOrder
  <2>4. Taken = item[Tips] + Byte * h /\ Taken' = item[Tips] + Byte * (h + 1)
    BY <1>1, <1>5, <2>1 DEF Taken
  <2>5. Excess' = Byte * (carries + 1) /\ Excess = Byte * carries
    BY <2>2 DEF Excess
  <2> HIDE DEF h
  <2> QED
    BY <1>2, <1>3, <1>5, <2>2, <2>3, <2>4, <2>5
<1> QED
  BY <1>4, <1>5

\* Before the copy, a tip that is lost or a bounce that is counted leads from
\* one bound towards the other.
LEMMA PulseBalances ==
  ASSUME IInv, Pulse, Uncopied, NEW lo \in Int, NEW hi \in Int,
         NEW x \in Int, Within(drift + Counted - x, lo, hi), NEW d, d = drift' + Counted' - x
  PROVE  \/ d \in (lo + 1)..(hi - 1)
         \/ Last' = Undef /\ d \in lo..hi /\ (age' < MinGap => d < hi)
         \/ /\ Last' # Undef /\ Settled' /\ d \in lo..hi
            /\ Gap' < age' => d > lo
            /\ Gap' > age' => d < hi
<1> USE Sizes
<1> DEFINE e == drift + Counted - x
<1>1. /\ cents \in Nat /\ Last \in Nat /\ Gap \in Nat /\ Counted \in Nat /\ drift \in Int
      /\ age \in Nat
  <2>1. \A w \in Words : w \in Nat
    BY DEF Words
  <2> QED
    BY <2>1, Typing DEF IInv
<1>2. \/ e \in (lo + 1)..(hi - 1)
      \/ Last = Undef /\ e \in lo..hi /\ (age < MinGap => e < hi)
      \/ /\ Last # Undef /\ Settled /\ e \in lo..hi
         /\ Gap < age => e > lo
         /\ Gap > age => e < hi
  BY DEF Within
<1>3. Counted + 1 < Word
  BY CountFits
<1>4. CASE stats' = stats /\ Last # Undef /\ Gap < MinGap
           /\ Last' = Last /\ Counted' = Counted /\ Gap' = Gap
  <2>1. Settled'
    <3>1. cents' = cents /\ (Last <= cents \/ Last > Word - MinGap)
      BY <1>1, <1>4, PulseSteps DEF Gap
    <3> QED
      BY <1>4, <3>1 DEF Settled
  <2>2. CASE age < MinGap /\ age' = age /\ drift' = drift
    <3>1. d = e
      BY <1>4, <2>2
    <3> HIDE DEF e
    <3> QED
      BY <1>2, <1>4, <2>1, <2>2, <3>1
  <2>3. CASE age >= MinGap /\ age' = 0 /\ drift' = drift - 1
    <3>1. d = e - 1 /\ e \in Int /\ Gap < age
      BY <1>1, <1>4, <2>3
    <3> HIDE DEF e
    <3>2. e \in (lo + 1)..hi
      BY <1>2, <1>4, <3>1
    <3> QED
      BY <1>1, <1>4, <2>1, <2>3, <3>1, <3>2
  <2> QED
    BY <2>2, <2>3, PulseSteps
<1>5. CASE /\ Last = Undef \/ Gap >= MinGap
           /\ Last' = cents /\ Gap' = 0 /\ Last' # Undef /\ Counted' = Counted + 1
  <2>1. Settled'
    <3>1. Last' <= cents' /\ cents' = cents
      BY <1>1, <1>5, PulseSteps
    <3> QED
      BY <3>1 DEF Settled
  <2>2. CASE age < MinGap /\ age' = age /\ drift' = drift
    <3>1. d = e + 1 /\ e \in Int
      BY <1>1, <1>5, <2>2
    <3> HIDE DEF e
    <3>2. e \in lo..(hi - 1)
      BY <1>1, <1>2, <1>5, <2>2, <3>1
    <3> QED
      BY <1>1, <1>5, <2>1, <2>2, <3>1, <3>2
  <2>3. CASE age >= MinGap /\ age' = 0 /\ drift' = drift - 1
    <3>1. d = e /\ e \in Int
      BY <1>1, <1>5, <2>3
    <3> HIDE DEF e
    <3> QED
      BY <1>1, <1>2, <1>5, <2>1, <2>3, <3>1
  <2> QED
    BY <2>2, <2>3, PulseSteps
<1> QED
  BY <1>3, <1>4, <1>5, PulseSteps
\* A pulse keeps the invariant, between any two bytes of a snapshot too.
LEMMA PulseKeeps == IInv /\ Pulse => IInv'
<1> SUFFICES ASSUME IInv, Pulse PROVE IInv'
  OBVIOUS
<1> USE Sizes
<1>1. /\ cents \in Nat /\ Last \in Nat /\ Gap \in Nat /\ Counted \in Nat /\ drift \in Int
      /\ age \in Nat /\ slope \in Nat /\ slope \in Words /\ Value(stats, MaxSlope) \in Words
      /\ snaps \in Nat /\ Passed \in 0..1 /\ stats \in Stats
      /\ cents <= Interval + 1 /\ cents < Undef
  <2>1. \A w \in Words : w \in Nat
    BY DEF Words
  <2>2. cents <= Interval + 1 /\ Interval + 1 < Undef
    BY Typing DEF IInv, Timed
  <2>3. stats \in Stats /\ Value(stats, MaxSlope) \in Words
    BY Typing, ValueOf DEF IInv, Fields
  <2>4. /\ cents \in Words /\ Last \in Words /\ Gap \in Words /\ Counted \in Words /\ slope \in Words
        /\ drift \in Int /\ age \in Nat /\ snaps \in Nat /\ Passed \in 0..1
    BY Typing DEF IInv
  <2>5. cents < Undef
    BY <2>1, <2>2, <2>4
  <2> QED
    BY <2>1, <2>2, <2>3, <2>4, <2>5
<1>2. /\ cents' = cents /\ item' = item /\ pc' = pc /\ since' = since /\ late' = late
      /\ snaps' = snaps /\ Uncopied' = Uncopied /\ Halfway' = Halfway /\ Passed' = Passed
  BY PulseSteps
<1>3. TypeOK'
  <2>1. age' \in 0..Word /\ drift' \in Int /\ slope' \in 0..Undef /\ first' \in BOOLEAN
    <3>1. age \in 0..Word /\ slope \in 0..Undef /\ first \in BOOLEAN /\ drift \in Int
          /\ Shorter(age, slope) \in 0..Undef
      BY DEF IInv, TypeOK, Shorter
    <3>2. 0 \in 0..Word /\ drift - 1 \in Int
      BY <3>1
    <3>3. CASE age' = age /\ drift' = drift /\ slope' = slope /\ first' = first
      BY <3>1, <3>3
    <3>4. CASE /\ age' = 0 /\ drift' = drift - 1 /\ first' = FALSE
               /\ slope' = IF first THEN slope ELSE Shorter(age, slope)
      BY <3>1, <3>2, <3>4
    <3> QED
      BY <3>3, <3>4, PulseSteps
  <2>2. clean' \in BOOLEAN /\ carries' \in Nat
    BY PulseTakes DEF Pulse
  <2>3. stats' \in [Bytes -> 0..(Byte - 1)]
    BY PulseSteps DEF Stats
  <2> QED
    BY <1>2, <2>1, <2>2, <2>3 DEF IInv, TypeOK
<1>4. Timed'
  BY <1>2 DEF IInv, Timed
<1>5. Room'
  <2>1. SUFFICES ASSUME Uncopied \/ Halfway
                 PROVE  Counted' <= 1 \/ (Last' <= cents /\ (Counted' - 2) * MinGap <= Last')
    BY <1>2 DEF Room
  <2>2. Counted <= 1 \/ (Last <= cents /\ (Counted - 2) * MinGap <= Last)
    BY <2>1 DEF IInv, Room
  <2>3. CASE Last' = Last /\ Counted' = Counted
    BY <2>2, <2>3
  <2>4. CASE /\ Last = Undef \/ Gap >= MinGap
             /\ Last' = cents /\ Counted' = Counted + 1
    <3>1. CASE Counted <= 1
      <4>1. Counted' <= 1 \/ Counted' - 2 = 0
        BY <1>1, <2>4, <3>1
      <4> QED
        BY <1>1, <2>4, <4>1
    <3>2. CASE Last <= cents /\ (Counted - 2) * MinGap <= Last
      <4>1. Last + MinGap <= cents
        BY <1>1, <2>4, <3>2 DEF Gap
      <4>2. /\ (Counted - 1) * MinGap = (Counted - 2) * MinGap + MinGap
            /\ (Counted - 2) * MinGap \in Int
        BY <1>1
      <4>3. Counted' - 2 = Counted - 1
        BY <1>1, <2>4
      <4>4. (Counted - 1) * MinGap <= cents
        BY <1>1, <3>2, <4>1, <4>2
      <4> QED
        BY <1>1, <2>4, <4>3, <4>4
    <3> QED
      BY <2>2, <3>1, <3>2
  <2> QED
    BY <2>1, <2>3, <2>4, CountFits, PulseSteps
<1>6. Balanced'
  <2> DEFINE lo == -2 * snaps
             hi == 2 * snaps
             d == drift' + Counted' - Excess
  <2>1. SUFFICES ASSUME Uncopied PROVE Within(drift + Counted - Excess, lo, hi)'
    BY <1>2 DEF Balanced
  <2>2. Within(drift + Counted - Excess, lo, hi)
    BY <2>1 DEF IInv, Balanced
  <2>3. lo \in Int /\ hi \in Int /\ lo' = lo /\ hi' = hi /\ Excess \in Int /\ Excess' = Excess
    BY <1>1, <1>2, <2>1, Typing, PulseTakes DEF IInv
  <2> HIDE DEF lo, hi
  <2>4. \/ d \in (lo + 1)..(hi - 1)
        \/ Last' = Undef /\ d \in lo..hi /\ (age' < MinGap => d < hi)
        \/ /\ Last' # Undef /\ Settled' /\ d \in lo..hi
           /\ Gap' < age' => d > lo
           /\ Gap' > age' => d < hi
    BY <2>1, <2>2, <2>3, PulseBalances
  <2> QED
    BY <2>3, <2>4 DEF Within
<1>7. Copied'
  <2> DEFINE g == drift + Taken - Excess
             h == drift' + Taken' - Excess'
             lo == -2 * snaps
             hi == 2 * snaps
  <2>1. SUFFICES ASSUME ~Uncopied
                 PROVE  h \in (lo - 1)..hi /\ (h < lo => age' <= Passed)
    BY <1>2 DEF Copied
  <2>2. /\ g \in (lo - 1)..hi /\ (g < lo => age <= Passed)
        /\ lo \in Int /\ hi \in Int /\ g \in Int
    BY <1>1, <2>1, Typing DEF IInv, Copied
  <2>5. h = g + (drift' - drift)
    <3>1. Taken' - Excess' = Taken - Excess
      BY <2>1, PulseTakes
    <3>2. Taken \in Int /\ Excess \in Int /\ Taken' \in Int /\ Excess' \in Int
      BY Typing, PulseTakes DEF IInv
    <3>3. drift' \in Int
      BY <1>3 DEF TypeOK
    <3>4. g = drift + (Taken - Excess) /\ h = drift' + (Taken' - Excess')
      BY <1>1, <3>2, <3>3
    <3>5. Taken - Excess \in Int
      BY <3>2
    <3> HIDE DEF g, h
    <3> QED
      BY <1>1, <3>1, <3>3, <3>4, <3>5
  <2> HIDE DEF g, h
  <2>3. CASE age < MinGap /\ age' = age /\ drift' = drift
    BY <1>1, <2>2, <2>3, <2>5
  <2>4. CASE age >= MinGap /\ age' = 0 /\ drift' = drift - 1
    <3>1. g \in lo..hi
      BY <1>1, <2>2, <2>4
    <3>2. h = g - 1
      BY <1>1, <2>2, <2>4, <2>5
    <3> QED
      BY <1>1, <2>2, <2>4, <3>1, <3>2
  <2> QED
    BY <2>3, <2>4, PulseSteps
<1>8. Reset'
  <2>1. SUFFICES ASSUME pc \in {<< "reset", 6 >>, Strobe}
                 PROVE  /\ stats'[Tips] \in 0..1
                        /\ stats'[Tips] = 1 => Last' <= cents /\ cents - Last' <= Passed
                        /\ pc = Strobe => stats'[Tips + 1] = 0
    BY <1>2 DEF Reset
  <2>2. /\ stats[Tips] \in 0..1
        /\ stats[Tips] = 1 => Last <= cents /\ cents - Last <= Passed
        /\ pc = Strobe => stats[Tips + 1] = 0
    BY <2>1 DEF IInv, Reset
  <2>3. CASE stats' = stats /\ Last' = Last
    BY <2>2, <2>3
  <2>4. CASE /\ Last = Undef \/ Gap >= MinGap
             /\ Last' = cents
             /\ Counted + 1 < Word =>
                  stats'[Tips] = Low(Counted + 1) /\ stats'[Tips + 1] = High(Counted + 1)
    <3>1. stats[Tips] = 0
      <4>1. ~(stats[Tips] = 1)
        BY <1>1, <2>2, <2>4 DEF Gap
      <4> QED
        BY <2>2, <4>1
    <3>2. stats[Tips + 1] \in 0..(Byte - 1) /\ 1 \in 0..(Byte - 1)
      BY <1>1, ValueOf DEF Fields
    <3>3. Counted + 1 = 1 + Byte * stats[Tips + 1]
      <4>1. Byte * stats[Tips + 1] \in Int
        BY <3>2, TimesOrder
      <4>2. Counted = 0 + Byte * stats[Tips + 1]
        BY <3>1 DEF Counted, Value
      <4> QED
        BY <4>1, <4>2
    <3>4. Counted + 1 \in Words /\ Low(Counted + 1) = 1 /\ High(Counted + 1) = stats[Tips + 1]
      BY <3>2, <3>3, Join
    <3>5. stats'[Tips] = 1 /\ stats'[Tips + 1] = stats[Tips + 1]
      <4>1. Counted + 1 < Word
        BY <3>4 DEF Words
      <4> QED
        BY <2>4, <3>4, <4>1
    <3> QED
      BY <1>1, <2>2, <2>4, <3>5
  <2> QED
    BY <2>3, <2>4, PulseSteps
<1>9. clean' => clean /\ pc = Idle /\ (first => age >= MinGap)
  <2>1. clean' = (clean /\ pc = Idle /\ ~(first /\ age < MinGap))
    BY DEF Pulse
  <2>2. ~(age < MinGap) => age >= MinGap
    BY <1>1
  <2> QED
    BY <2>1, <2>2, Zenon
<1>10. Cleared'
  BY <1>2, <1>9 DEF Cleared, Idle, Strobe
<1>11. Sloped'
  <2>1. SUFFICES ASSUME clean, pc = Idle, first => age >= MinGap
                 PROVE  /\ Value(stats', MaxSlope) = slope'
                        /\ first' => Last' = Undef /\ slope' = Undef
                        /\ ~first' => Last' <= cents /\ cents - Last' = age'
    <3>1. Value(stats, MaxSlope)' = Value(stats', MaxSlope)
      BY DEF Value
    <3> QED
      BY <1>2, <1>9, <3>1 DEF Sloped
  <2>2. /\ Value(stats, MaxSlope) = slope
        /\ first => Last = Undef /\ slope = Undef
        /\ ~first => Last <= cents /\ cents - Last = age
    BY <2>1 DEF IInv, Sloped
  <2>3. CASE first
    <3>1. age' = 0 /\ ~first' /\ slope' = slope
      <4>1. ~(age < MinGap)
        BY <1>1, <2>1, <2>3
      <4> QED
        BY <2>3, <4>1, PulseSteps
    <3>2. Last' = cents /\ Value(stats', MaxSlope) = Value(stats, MaxSlope)
      BY <2>2, <2>3, PulseSteps
    <3> QED
      BY <1>1, <2>2, <3>1, <3>2
  <2>4. CASE ~first
    <3>1. Gap = age /\ Last # Undef
      BY <1>1, <2>2, <2>4 DEF Gap
    <3>2. CASE age < MinGap
      <4>1. ~(age >= MinGap) /\ ~(Gap >= MinGap) /\ Last # Undef
        BY <1>1, <3>1, <3>2
      <4>2. age' = age /\ first' = first /\ slope' = slope
        BY <4>1, PulseSteps
      <4>3. stats' = stats /\ Last' = Last
        BY <4>1, PulseSteps
      <4> QED
        BY <2>2, <2>4, <4>2, <4>3
    <3>3. CASE age >= MinGap
      <4>1. ~(age < MinGap) /\ ~(Gap < MinGap) /\ Last # Undef
        BY <1>1, <3>1, <3>3
      <4>2. age' = 0 /\ ~first' /\ slope' = Shorter(age, slope)
        BY <2>4, <4>1, PulseSteps
      <4>3. /\ Last' = cents
            /\ Value(stats', MaxSlope) =
                 IF Gap < Value(stats, MaxSlope) THEN Gap ELSE Value(stats, MaxSlope)
        BY <4>1, PulseSteps
      <4> QED
        BY <1>1, <2>2, <3>1, <4>2, <4>3 DEF Shorter
    <3> QED
      BY <1>1, <3>2, <3>3
  <2> QED
    BY <2>3, <2>4
<1>12. Torn'
  <2>1. /\ Uncopied => carries <= snaps
        /\ carries <= snaps + 1 /\ carries \in Nat
        /\ Halfway /\ carries > snaps => Last # Undef /\ Last <= cents /\ cents - Last <= Passed
    BY Typing DEF IInv, Torn
  <2>2. Uncopied => ~Halfway
    BY Places, Typing DEF IInv
  <2>3. CASE ~(Halfway /\ Carried)
    <3>1. carries' = carries
      BY <2>1, <2>3, PulseSteps
    <3>2. /\ Last <= cents /\ cents - Last <= Passed /\ Last # Undef
          => ~(Gap >= MinGap)
      BY <1>1 DEF Gap
    <3> QED
      BY <1>1, <1>2, <2>1, <3>1, <3>2, PulseSteps DEF Torn
  <2>4. CASE Halfway /\ Carried
    <3>1. carries' = carries + 1
      BY <2>4, PulseSteps
    <3>2. stats' # stats
      BY <2>4 DEF Carried
    <3>3. (Last = Undef \/ Gap >= MinGap) /\ Last' = cents /\ Last' # Undef
      BY <3>2, PulseSteps
    <3>4. ~(Last # Undef /\ Last <= cents /\ cents - Last <= Passed)
      BY <1>1, <3>3 DEF Gap
    <3>5. carries <= snaps
      BY <1>1, <2>1, <2>4, <3>4
    <3>6. Last' <= cents /\ cents - Last' <= Passed
      BY <1>1, <3>3
    <3> QED
      BY <1>1, <1>2, <2>1, <2>2, <2>4, <3>1, <3>3, <3>5, <3>6 DEF Torn
  <2> QED
    BY <2>3, <2>4
<1> QED
  BY <1>3, <1>4, <1>5, <1>6, <1>7, <1>8, <1>10, <1>11, <1>12 DEF IInv

\* Every step keeps the invariant.
LEMMA NextKeeps == IInv /\ [Next]_vars => IInv'
<1> SUFFICES ASSUME IInv, [Next]_vars PROVE IInv'
  OBVIOUS
<1>1. CASE UNCHANGED vars
  <2>1. /\ cents' = cents /\ stats' = stats /\ item' = item /\ pc' = pc /\ age' = age
        /\ since' = since /\ late' = late /\ drift' = drift /\ snaps' = snaps
        /\ slope' = slope /\ first' = first /\ clean' = clean /\ carries' = carries
    BY <1>1 DEF vars
  <2>2. /\ Last' = Last /\ Counted' = Counted /\ Gap' = Gap /\ Passed' = Passed
        /\ Settled' = Settled /\ Uncopied' = Uncopied /\ Halfway' = Halfway
        /\ Value(stats, MaxSlope)' = Value(stats, MaxSlope) /\ Taken' = Taken /\ Excess' = Excess
    BY <2>1 DEF Last, Counted, Gap, Passed, Value, Settled, Uncopied, Halfway, Taken, Excess
  <2>3. TypeOK' /\ Timed' /\ Room' /\ Copied' /\ Torn' /\ Reset' /\ Cleared' /\ Sloped'
    BY <2>1, <2>2 DEF IInv, TypeOK, Timed, Room, Copied, Torn, Reset, Cleared, Sloped
  <2>4. Balanced'
    BY <2>1, <2>2 DEF IInv, Balanced, Within
  <2> QED
    BY <2>3, <2>4 DEF IInv
<1> QED
  BY <1>1, HundredthKeeps, PulseKeeps, SnapshotKeeps, GetByteKeeps, ResetByteKeeps,
     RestartKeeps DEF Next

\* At its start the gauge holds its defaults and knows of no tip.
LEMMA InitInvariant == Init => IInv
<1> SUFFICES ASSUME Init PROVE IInv
  OBVIOUS
<1> USE Sizes
<1>1. /\ cents = 0 /\ stats = Default /\ item = Default /\ pc = Idle /\ age = Word /\ since = 0
      /\ late = FALSE /\ drift = 0 /\ snaps = 0 /\ slope = Undef /\ first = TRUE /\ clean = TRUE
      /\ carries = 0
  BY DEF Init
<1>2. Default \in Stats /\ \A b \in 1..4 : Default[b] = Byte - 1
  BY DEF Default, Stats, Bytes, Tips
<1>3. Default[Tips] = 0 /\ Default[Tips + 1] = 0
  BY DEF Default, Tips, Bytes
<1>4. Value(stats, MaxSlope) = Undef /\ Last = Undef /\ Counted = 0
  BY <1>1, <1>2, <1>3, ValueOf DEF Fields, MaxSlope, LastTip, Last, Counted
<1>5. Uncopied /\ pc # << "reset", 6 >> /\ pc # Strobe /\ pc[1] # "reset"
  BY <1>1 DEF Uncopied, Idle, Strobe
<1>6. TypeOK
  <2>1. 0 \in 0..(Word - 1) /\ Word \in 0..Word /\ 0 \in 0..(Interval + 1) /\ Undef \in 0..Undef
        /\ 0 \in 0..MaxSnaps
    BY DEF Words
  <2>2. pc \in Steps \cup {Idle, Strobe}
    BY <1>1
  <2>3. stats \in [Bytes -> 0..(Byte - 1)] /\ item \in [Bytes -> 0..(Byte - 1)]
    BY <1>1, <1>2 DEF Stats
  <2>4. /\ cents \in 0..(Word - 1) /\ age \in 0..Word /\ since \in 0..(Interval + 1)
        /\ slope \in 0..Undef /\ snaps \in 0..MaxSnaps /\ drift \in Int
    BY <1>1, <2>1
  <2>5. late \in BOOLEAN /\ first \in BOOLEAN /\ clean \in BOOLEAN /\ carries \in Nat
    BY <1>1
  <2> QED
    BY <2>2, <2>3, <2>4, <2>5 DEF TypeOK
<1>7. Timed /\ Room
  BY <1>1, <1>4 DEF Timed, Room, Passed
<1>8. Balanced
  <2>1. ~(age < MinGap)
    BY <1>1
  <2>2. drift + Counted - Excess \in (-2 * snaps)..(2 * snaps)
    BY <1>1, <1>4 DEF Excess
  <2> QED
    BY <1>4, <2>1, <2>2 DEF Balanced, Within
<1>9. Copied /\ Torn /\ Reset /\ Cleared /\ Sloped
  <2>1. ~Halfway
    BY <1>1 DEF Halfway, Idle
  <2> QED
    BY <1>1, <1>4, <1>5, <2>1 DEF Copied, Torn, Reset, Cleared, Sloped
<1> QED
  BY <1>6, <1>7, <1>8, <1>9 DEF IInv

\* So it always holds.
LEMMA InvariantHolds == Spec => []IInv
BY InitInvariant, NextKeeps, PTL DEF Spec

(***************************************************************************)
(* The theorems.                                                           *)
(***************************************************************************)
\* Types: bytes stay bytes, and the time between two snapshots stays below the
\* timer's overflow (pulse_raingauge.h:17).
THEOREM TypesHold == Spec => []TypeOK
BY InvariantHolds, PTL DEF IInv

\* Whatever pulses come between the bytes of the snapshots, the tips in the log
\* and in the gauge differ from those of the bucket by two for each snapshot at
\* most, and by a byte's values for each copy that a carry tears, one a snapshot
\* (datalogger_snapshot_data, raingauge_tip).
THEOREM DriftBounded == Spec => []CountDrift
<1>1. IInv => CountDrift
  <2> SUFFICES ASSUME IInv, pc = Idle
               PROVE  /\ drift + Counted - Excess \in (-2 * snaps)..(2 * snaps)
                      /\ carries <= snaps
    BY DEF CountDrift, Counted, Excess
  <2> DEFINE d == drift + Counted - Excess
             lo == -2 * snaps
             hi == 2 * snaps
  <2>1. lo \in Int /\ hi \in Int /\ Within(d, lo, hi)
    BY Typing DEF IInv, Balanced, Uncopied
  <2> HIDE DEF d, lo, hi
  <2>2. d \in lo..hi
    BY <2>1 DEF Within
  <2>3. carries <= snaps
    BY DEF IInv, Torn, Uncopied
  <2> QED
    BY <2>2, <2>3 DEF d, lo, hi
<1> QED
  BY <1>1, InvariantHolds, PTL

\* After a snapshot that no pulse disturbed, the slope is the shortest time
\* between two tips, however the switch bounces (raingauge_tip).
THEOREM SlopeExact == Spec => []SlopeMeasured
<1>1. IInv => SlopeMeasured
  BY DEF IInv, Sloped, SlopeMeasured
<1> QED
  BY <1>1, InvariantHolds, PTL
===========================================================================
