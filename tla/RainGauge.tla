----------------------------- MODULE RainGauge -----------------------------
(***************************************************************************)
(* The rain gauge (devices/raingauge) and the snapshot that the tick takes *)
(* of it (datalogger_snapshot_data).  The pulse interrupt runs at a higher *)
(* level than the tick, so it may come between any two bytes that the tick *)
(* copies or resets.  The hardware is a tipping bucket whose switch        *)
(* bounces, and a timer that counts hundredths of a second.                *)
(***************************************************************************)
EXTENDS Integers

CONSTANTS
  Byte,      \* number of values of a byte
  MinGap,    \* shortest time between two tips, in hundredths of a second (20)
  Interval,  \* bound: longest time between two snapshots
  MaxSnaps   \* bound: snapshots in a behaviour

\* The next snapshot comes before the timer nears its overflow.  MinGap is 20
\* in the code, a byte has 256 values.
ASSUME RainAssumption ==
  /\ Byte \in Nat /\ Byte >= 3 /\ MinGap \in Nat /\ MinGap >= 2
  /\ Interval \in Nat /\ MaxSnaps \in Nat
  /\ Interval + 1 + MinGap <= Byte * Byte

Word == Byte * Byte
Undef == Word - 1     \* CENTS_UNDEF_VALUE, MAXSLOPE_UNDEF_VALUE

\* The bytes of RAINGAUGE_STATS in the order they are copied.  The two fields
\* that are only ever written (firstTip_cents, maxSlope_cents) are left out.
Bytes == 1..6
LastTip == 1    \* lastTip_cents
MaxSlope == 3   \* maxSlope
Tips == 5       \* tips

VARIABLES
  cents,   \* TCC1
  stats,   \* raingauge_stats[0], byte by byte
  item,    \* the copy of it in g_data_snapshot
  pc       \* what the tick does: idle, or the next byte to copy or to reset

\* Auxiliary variables: what really happened.
VARIABLES
  age,     \* time since the bucket tipped last, up to Word
  since,   \* time since the last snapshot
  late,    \* did the hundredth change during this snapshot?
  drift,   \* tips in the items of all snapshots, minus tips of the bucket
  snaps,   \* snapshots
  slope,   \* shortest time between two tips since the last snapshot
  first,   \* no tip since the last snapshot
  clean,   \* no pulse came during the last snapshot, nor bounced after it
  carries  \* snapshots with the tips' low byte from before a carry into the
           \* high byte, and the high byte from after it

vars == << cents, stats, item, pc, age, since, late, drift, snaps, slope, first,
           clean, carries >>
real == << age, since, late, drift, snaps, slope, first, clean, carries >>

Low(v) == v % Byte
High(v) == v \div Byte
Value(s, f) == s[f] + Byte * s[f + 1]
Put(s, f, v) == [s EXCEPT ![f] = Low(v), ![f + 1] = High(v)]

Default == [b \in Bytes |-> IF b < Tips THEN Byte - 1 ELSE 0]

Steps == {"get", "reset"} \X Bytes
Idle == << "idle", 0 >>
Strobe == << "strobe", 0 >>

TypeOK ==
  /\ cents \in 0..(Word - 1)
  /\ stats \in [Bytes -> 0..(Byte - 1)] /\ item \in [Bytes -> 0..(Byte - 1)]
  /\ pc \in Steps \cup {Idle, Strobe}
  /\ age \in 0..Word /\ since \in 0..(Interval + 1) /\ slope \in 0..Undef
  /\ drift \in Int /\ snaps \in 0..MaxSnaps /\ carries \in Nat
  /\ late \in BOOLEAN /\ first \in BOOLEAN /\ clean \in BOOLEAN

Init ==
  /\ cents = 0 /\ stats = Default /\ item = Default /\ pc = Idle
  /\ age = Word /\ since = 0 /\ late = FALSE
  /\ drift = 0 /\ snaps = 0 /\ carries = 0
  /\ slope = Undef /\ first = TRUE /\ clean = TRUE

Shorter(a, b) == IF a < b THEN a ELSE b

(***************************************************************************)
(* Hardware.                                                               *)
(***************************************************************************)
Hundredth ==
  /\ IF pc = Idle THEN since < Interval ELSE ~late
  /\ late' = (pc # Idle)
  /\ cents' = (cents + 1) % Word
  /\ age' = Shorter(age + 1, Word) /\ since' = since + 1
  /\ UNCHANGED << stats, item, pc, drift, snaps, slope, first, clean, carries >>

(***************************************************************************)
(* raingauge_tip, called by PORTR_INT0_vect with the timer's count.        *)
(***************************************************************************)
\* Mutants: bounces count; the longest gap.
BounceNever(c) == FALSE
SteeperLonger(c, s) == c > s

Bounce(c) == c < MinGap
Steeper(c, s) == c < s

Tip(s) ==
  LET last == Value(s, LastTip)
      c == (cents - last) % Word
      counted == Put(Put(s, LastTip, cents), Tips, (Value(s, Tips) + 1) % Word)
  IN  IF last = Undef THEN counted
      ELSE IF Bounce(c) THEN s
      ELSE IF Steeper(c, Value(s, MaxSlope)) THEN Put(counted, MaxSlope, c)
      ELSE counted

\* This step counts a tip that carries into the high byte of the tips.
Carried == stats'[Tips + 1] # stats[Tips + 1]

\* The bucket tips, or the switch bounces after it did.
Pulse ==
  /\ stats' = Tip(stats)
  /\ clean' = (clean /\ pc = Idle /\ ~(first /\ age < MinGap))
  /\ carries' = carries + (IF pc = << "get", 6 >> /\ Carried THEN 1 ELSE 0)
  /\ IF age < MinGap
     THEN UNCHANGED << age, drift, slope, first >>
     ELSE /\ age' = 0 /\ drift' = drift - 1 /\ first' = FALSE
          /\ slope' = IF first THEN slope ELSE Shorter(age, slope)
  /\ UNCHANGED << cents, item, pc, since, late, snaps >>

(***************************************************************************)
(* datalogger_snapshot_data: raingauge_get_stats copies the bytes, then    *)
(* raingauge_reset_stats writes the defaults, then the timer is restarted. *)
(***************************************************************************)
Snapshot ==
  /\ pc = Idle /\ snaps < MaxSnaps /\ since > 0
  /\ pc' = << "get", 1 >> /\ clean' = TRUE
  /\ UNCHANGED << cents, stats, item, age, since, late, drift, snaps, slope,
                  first, carries >>

GetByte ==
  /\ pc[1] = "get"
  /\ item' = [item EXCEPT ![pc[2]] = stats[pc[2]]]
  /\ pc' = IF pc[2] = 6 THEN << "reset", 1 >> ELSE << "get", pc[2] + 1 >>
  /\ UNCHANGED << cents, stats, real >>

ResetByte ==
  /\ pc[1] = "reset"
  /\ stats' = [stats EXCEPT ![pc[2]] = Default[pc[2]]]
  /\ pc' = IF pc[2] = 6 THEN Strobe ELSE << "reset", pc[2] + 1 >>
  /\ UNCHANGED << cents, item, real >>

\* EVSYS.STROBE
Restart ==
  /\ pc = Strobe /\ pc' = Idle
  /\ cents' = 0 /\ since' = 0 /\ late' = FALSE
  /\ drift' = drift + Value(item, Tips) /\ snaps' = snaps + 1
  /\ slope' = Undef /\ first' = TRUE
  /\ UNCHANGED << stats, item, age, clean, carries >>

Next == Hundredth \/ Pulse \/ Snapshot \/ GetByte \/ ResetByte \/ Restart

Spec == Init /\ [][Next]_vars

(***************************************************************************)
(* Properties.                                                             *)
(***************************************************************************)
\* The tips in the log and in the gauge differ from those of the bucket by no
\* more than two for each snapshot, and by a whole byte too many for each copy
\* torn by a carry, at most once a snapshot.  A tip that comes between the copy
\* and the reset is lost, and its time, left in a gauge whose timer restarts,
\* may make the next one look like a bounce; bounces after the reset count as
\* tips.
CountDrift ==
  pc = Idle =>
    /\ drift + Value(stats, Tips) - Byte * carries \in (-2 * snaps)..(2 * snaps)
    /\ carries <= snaps

\* Unless a pulse disturbed the last snapshot, the slope is the shortest time
\* between two tips since that snapshot.
SlopeMeasured == pc = Idle /\ clean => Value(stats, MaxSlope) = slope
=============================================================================
