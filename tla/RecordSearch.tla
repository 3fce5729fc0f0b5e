---------------------------- MODULE RecordSearch ----------------------------
(***************************************************************************)
(* dl_search_record_by_date (faia/services/datalogger): the search for a   *)
(* record by its date that serves GET_BY_DATE_RANGE.  It starts at the     *)
(* newest record and jumps back and forth through the ring, halving its    *)
(* stride with each change of direction.  Nothing interferes with it, so   *)
(* an action is one turn of its loop; the log and the date are arbitrary.  *)
(***************************************************************************)
EXTENDS RecordRing

CONSTANTS
  Skip,      \* initial value of reg_skip: 2^7, so it takes 8 turns to reach 0
  MaxDate,   \* dates are 1..MaxDate
  Full       \* may the log have been filled before?

ASSUME SearchAssumption ==
  /\ First \in Nat /\ Last \in Nat /\ Item \in Nat \ {0} /\ First + Item <= Last
  /\ Skip \in Nat \ {0} /\ MaxDate \in Nat /\ Full \in BOOLEAN

Modes == {"LEFT_BOUND", "RIGHT_BOUND", "EXACT_MATCH"}
ErasedDate == MaxDate + 1     \* an erased EEPROM reads 0xFFFFFFFF

VARIABLES
  date,         \* date[a]: data_timestamp of the record stored at a
  dt, mode,     \* the arguments
  reg_skip, reg_dir,
  state         \* "search", then "found" or "not_found"

log == << begin, end, date, dt, mode >>
searchVars == << log, it, ds, reg_skip, reg_dir, state >>

\* The i-th record of the ring, counted from slot b
At(b, i) == First + ((b - First + i * Item) % (Item * Cardinality(Slots)))

\* Dates increase from the oldest record on.
Increasing(f, b, n) == \A i \in 1..(n - 1) : f[At(b, i - 1)] < f[At(b, i)]

\* A log that was never full starts at First and ends in erased memory.  Once
\* full it ends in one free slot that still holds the record evicted last.
Log(b, e, f) ==
  \/ /\ b = First
     /\ \A s \in Slots : f[s] = ErasedDate <=> s \notin Between(b, e)
     /\ Increasing(f, b, (e - b) \div Item)
  \/ /\ Full /\ b = At(e, 1)
     /\ \A s \in Slots : f[s] # ErasedDate
     /\ Increasing(f, e, Cardinality(Slots))

SearchTypeOK ==
  /\ begin \in Slots /\ end \in Slots /\ it \in Slots
  /\ date \in [Slots -> 1..ErasedDate] /\ ds \in 0..ErasedDate
  /\ dt \in 0..ErasedDate /\ mode \in Modes
  /\ reg_skip \in 0..Skip /\ reg_dir \in {"back", "forward"}
  /\ state \in {"search", "found", "not_found"}

\* dl_iterator_moveforward, in bytes
MoveForward(a, range) ==
  LET n == range * Item IN
  IF n > end - a THEN end
  ELSE IF a > Last - n THEN First + (a - (Last - n)) ELSE a + n

SearchInit ==
  /\ begin \in Slots /\ end \in Slots /\ date \in [Slots -> 1..ErasedDate]
  /\ Log(begin, end, date)
  /\ begin # end
  /\ dt \in 0..ErasedDate /\ mode \in Modes
  /\ it = MoveBack(end, 1) /\ ds = 0
  /\ reg_skip = Skip /\ reg_dir = "back" /\ state = "search"

(***************************************************************************)
(* One turn of while(1).                                                   *)
(***************************************************************************)
\* The date read lies on the other side: turn round with half the stride.
Turns(d) == IF reg_dir = "back" THEN d < dt ELSE d > dt
\* Mutant: the stride shrinks to a quarter.
NewSkipFast(d) == IF Turns(d) THEN reg_skip \div 4 ELSE reg_skip
NewSkip(d) == IF Turns(d) THEN reg_skip \div 2 ELSE reg_skip
NewDir(d) ==
  IF ~Turns(d) THEN reg_dir ELSE IF reg_dir = "back" THEN "forward" ELSE "back"

\* Scanned all the memory in this direction.
AtLimit(dir) == it = (IF dir = "back" THEN First ELSE Last)

\* Mutants: passes over the date itself; goes on at the end of the memory.
BreaksLate(d) == NewSkip(d) = 0 \/ AtLimit(NewDir(d))
BreaksNever(d) == d = dt \/ NewSkip(d) = 0

Breaks(d) == d = dt \/ NewSkip(d) = 0 \/ AtLimit(NewDir(d))

\* What the bound modes accept besides the date itself
Accepts(d) ==
  \/ d = dt
  \/ mode = "RIGHT_BOUND" /\ d < dt
  \/ mode = "LEFT_BOUND" /\ d > dt

Jump ==
  /\ state = "search" /\ ~Breaks(date[it])
  /\ ds' = date[it]
  /\ reg_skip' = NewSkip(ds') /\ reg_dir' = NewDir(ds')
  /\ it' = IF reg_dir' = "back" THEN MoveBack(it, reg_skip') ELSE MoveForward(it, reg_skip')
  /\ UNCHANGED << log, state >>

Finish ==
  /\ state = "search" /\ Breaks(date[it])
  /\ ds' = date[it]
  /\ reg_skip' = IF ds' = dt THEN reg_skip ELSE NewSkip(ds')
  /\ reg_dir' = IF ds' = dt THEN reg_dir ELSE NewDir(ds')
  /\ state' = IF Accepts(ds') THEN "found" ELSE "not_found"
  /\ UNCHANGED << log, it >>

SearchNext == Jump \/ Finish

SearchSpec == SearchInit /\ [][SearchNext]_searchVars /\ WF_searchVars(SearchNext)

(***************************************************************************)
(* Properties.                                                             *)
(***************************************************************************)
Records == Between(begin, end)

\* The search ends, whatever date it is asked for.
Terminates == <>(state # "search")

\* A record with the very date asked for is found, in every mode.
ExactFound ==
  state # "search" /\ (\E s \in Records : date[s] = dt) => state = "found" /\ date[it] = dt

\* What a bound mode finds is the nearest record on its side of the date.
NearestFound ==
  state = "found" /\ it \in Records =>
    \A s \in Records :
      /\ mode = "RIGHT_BOUND" => date[s] <= date[it] \/ dt < date[s]
      /\ mode = "LEFT_BOUND" => date[s] >= date[it] \/ dt > date[s]
=============================================================================
