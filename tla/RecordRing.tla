----------------------------- MODULE RecordRing -----------------------------
(***************************************************************************)
(* The ring of records in the serial EEPROM (faia/services/datalogger), as *)
(* the functions see it that walk through it: its slots, its two ends, and *)
(* the iterator and the record that such a function holds.                 *)
(***************************************************************************)
EXTENDS Integers, FiniteSets

CONSTANTS
  First,   \* LOG_FIRST_VALID_ADDRESS
  Last,    \* LOG_LAST_VALID_ADDRESS
  Item     \* sizeof(DL_LOG_ITEM)

VARIABLES
  begin,   \* g_eeprom_iter[LOG_BEGIN].plain
  end,     \* g_eeprom_iter[LOG_END].plain
  it,      \* local it of send_data_with_post or dl_search_record_by_date
  ds       \* their local ds, or what matters of it: the record read last

Slots == { a \in First..Last : (a - First) % Item = 0 }

\* Slots from b up to, and without, e
Between(b, e) ==
  { s \in Slots : IF b <= e THEN b <= s /\ s < e ELSE b <= s \/ s < e }

\* dl_iterator_moveback, in bytes; the result need not be a slot.
MoveBack(a, range) ==
  LET n == range * Item IN
  IF n > a - begin THEN begin
  ELSE IF a < First + n THEN Last - (First + n - a) ELSE a - n
=============================================================================
