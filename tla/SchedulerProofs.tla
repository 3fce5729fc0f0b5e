--------------------------- MODULE SchedulerProofs ---------------------------
(***************************************************************************)
(* Theorems about Scheduler for every value of its constants: the types,   *)
(* the snapshot buffer shared by datalogger_tick and dl_task_store_data,   *)
(* the feeding of the watchdog, the bearer; and, for an exact clock and    *)
(* intervals in proportion, the retry after a failed transmission and the  *)
(* reset that ends one that does not come back.                            *)
(***************************************************************************)
EXTENDS Scheduler, TLAPS

\* A remainder is below its divisor.
LEMMA ModRange ==
  ASSUME NEW x \in Int, NEW m \in Nat \ {0}
  PROVE  x % m \in 0..(m - 1)
OBVIOUS

\* Replacing the low part of a word by another low part leaves a word.
LEMMA TornRange ==
  ASSUME NEW w \in Nat \ {0}, NEW c \in Nat \ {0}, w % c = 0,
         NEW a \in 0..(w - 1), NEW b \in 0..(c - 1)
  PROVE  (a - (a % c)) + b \in 0..(w - 1)
<1> DEFINE k == w \div c
           q == a \div c
<1>1. k \in Int /\ w = c * k
  OBVIOUS
<1>2. q \in Int /\ a = c * q + (a % c) /\ a % c \in 0..(c - 1)
  BY ModRange
<1>3. q >= 0
  BY <1>2
<1>4. q <= k - 1
  <2>1. SUFFICES ASSUME q >= k PROVE FALSE
    BY <1>1, <1>2
  <2>2. c * q >= c * k
    BY <2>1, <1>1, <1>2
  <2> QED
    BY <2>2, <1>1, <1>2
<1>5. c * q <= c * (k - 1) /\ c * (k - 1) = w - c
  BY <1>1, <1>2, <1>4
<1>6. c * q >= 0
  BY <1>2, <1>3
<1> HIDE DEF k, q
<1> QED
  BY <1>1, <1>2, <1>5, <1>6

\* The status bytes after a tick, and the accumulators, keep their types.
LEMMA TickTypes ==
  ASSUME TypeOK, ConstantsAssumption
  PROVE  /\ Marked \in [Tasks -> {"STOP", "READY", "RUNNING"}]
         /\ Accumulate \in [Clocks -> 0..(Word - 1)]
         /\ SnapshotTaken \in 0..(SnapshotSize - 1)
<1>1. Marked \in [Tasks -> {"STOP", "READY", "RUNNING"}]
  BY DEF Marked, TypeOK, Tasks
<1>2. \A c \in Clocks : Elapse(c) \in 0..(Word - 1)
  <2> SUFFICES ASSUME NEW c \in Clocks PROVE Elapse(c) \in 0..(Word - 1)
    OBVIOUS
  <2>1. acc[c] + due \in Int /\ Word \in Nat \ {0}
    BY DEF TypeOK, ConstantsAssumption
  <2> QED
    BY <2>1, ModRange DEF Elapse
<1>3. Accumulate \in [Clocks -> 0..(Word - 1)]
  BY <1>2 DEF Accumulate, ConstantsAssumption
<1>4. SnapshotTaken \in 0..(SnapshotSize - 1)
  BY DEF SnapshotTaken, TypeOK, ConstantsAssumption
<1> QED
  BY <1>1, <1>3, <1>4

\* Every variable keeps its type; in particular the accumulators stay 32-bit
\* words although the loop stores one of them in two parts.
THEOREM TypesHold == SafetySpec => []TypeOK
<1>1. Init => TypeOK
  <2> SUFFICES ASSUME Init PROVE TypeOK
    OBVIOUS
  <2>1. AccSend0 \in 0..(Word - 1) /\ FirstAlarm \in 0..(Word - 1)
        /\ 0 \in 0..(Word - 1) /\ 0 \in 0..(SnapshotSize - 1) /\ FirstAlarm \in Nat
        /\ 0 \in 0..MaxPosts
    BY ConstantsAssumption DEF ConstantsAssumption
  <2>2. acc \in [Clocks -> 0..(Word - 1)]
    BY <2>1 DEF Init
  <2>3. posts \in [Passes -> 0..MaxPosts]
    BY <2>1 DEF Init
  <2>4. status \in [Tasks -> {"STOP", "READY", "RUNNING"}]
    BY DEF Init
  <2>5. pc \in Points /\ ret \in {"send", "cmd"}
    BY DEF Init, Points
  <2> QED
    <3>1. tries \in Nat /\ lock \in BOOLEAN /\ bearer \in BOOLEAN /\ once \in BOOLEAN
      BY DEF Init
    <3>2. due \in 0..(Word - 1) /\ snapshot_num \in 0..(SnapshotSize - 1)
          /\ idx \in 0..(SnapshotSize - 1)
      BY <2>1 DEF Init
    <3>3. gap \in Nat /\ pending \in Int /\ busy \in Nat
          /\ waiting \in Nat \cup {-1}
      BY <2>1 DEF Init
    <3>4. closer \in {"none", "init", "sync", "send_RT", "send_data"}
      BY DEF Init
    <3> QED
      BY <2>2, <2>3, <2>4, <2>5, <3>1, <3>2, <3>3, <3>4 DEF TypeOK
<1>2. TypeOK /\ [Next]_vars => TypeOK'
  <2> SUFFICES ASSUME TypeOK, [Next]_vars PROVE TypeOK'
    OBVIOUS
  <2> USE ConstantsAssumption DEF TypeOK, aux, Points
  <2>1. CASE Restart
    <3>1. AccSend0 \in 0..(Word - 1) /\ FirstAlarm \in 0..(Word - 1)
          /\ 0 \in 0..(Word - 1) /\ 0 \in 0..(SnapshotSize - 1) /\ FirstAlarm \in Nat
          /\ 0 \in 0..MaxPosts
      BY DEF ConstantsAssumption
    <3>2. acc' \in [Clocks -> 0..(Word - 1)]
      BY <2>1, <3>1 DEF Restart
    <3>3. posts' \in [Passes -> 0..MaxPosts]
      BY <2>1, <3>1 DEF Restart
    <3>4. status' \in [Tasks -> {"STOP", "READY", "RUNNING"}]
      BY <2>1 DEF Restart
    <3>5. pc' \in Points /\ ret' \in {"send", "cmd"}
      BY <2>1 DEF Restart
    <3> QED
      <4>1. tries' \in Nat /\ lock' \in BOOLEAN /\ bearer' \in BOOLEAN /\ once' \in BOOLEAN
        BY <2>1 DEF Restart
      <4>2. due' \in 0..(Word - 1) /\ snapshot_num' \in 0..(SnapshotSize - 1)
            /\ idx' \in 0..(SnapshotSize - 1)
        BY <2>1, <3>1 DEF Restart
      <4>3. gap' \in Nat /\ pending' \in Int /\ busy' \in Nat
            /\ waiting' \in Nat \cup {-1}
        BY <2>1, <3>1 DEF Restart
      <4>4. closer' \in {"none", "init", "sync", "send_RT", "send_data"}
        BY <2>1 DEF Restart
      <4> QED
        BY <3>2, <3>3, <3>4, <3>5, <4>1, <4>2, <4>3, <4>4
  <2>2. CASE BootModem
    BY <2>2 DEF BootModem, Attempt
  <2>3. CASE BootSync
    BY <2>3 DEF BootSync, Attempt
  <2>4. CASE Tick
    <3>1. due' \in 0..(Word - 1) /\ Timespan \in Nat
      BY <2>4, ModRange DEF Tick, ConstantsAssumption
    <3>2. acc' \in [Clocks -> 0..(Word - 1)]
          /\ status' \in [Tasks -> {"STOP", "READY", "RUNNING"}]
      BY <2>4, TickTypes DEF Tick
    <3>3. snapshot_num' \in 0..(SnapshotSize - 1) /\ pending' \in Int
      BY <2>4, TickTypes DEF Tick
    <3>4. pc' \in Points /\ lock' \in BOOLEAN /\ once' \in BOOLEAN
      <4>1. pc' \in {"reset", "test", pc}
        BY <2>4 DEF Tick
      <4>2. once' \in BOOLEAN
        BY <2>4 DEF Tick, Short
      <4>3. lock' \in BOOLEAN
        BY <2>4 DEF Tick
      <4> QED
        BY <4>1, <4>2, <4>3
    <3>5. gap' \in Nat /\ busy' \in Nat /\ waiting' \in Nat \cup {-1}
      BY <2>4, <3>1 DEF Tick
    <3>6. UNCHANGED << ret, tries, idx, posts, bearer, closer >>
      BY <2>4 DEF Tick
    <3> QED
      BY <3>1, <3>2, <3>3, <3>4, <3>5, <3>6
  <2>5. CASE WdtBite
    BY <2>5 DEF WdtBite
  <2>6. CASE OtherInterrupt
    BY <2>6 DEF OtherInterrupt
  <2>7. CASE Loop
    <3>0. once' \in BOOLEAN
      BY <2>7 DEF Loop
    <3>1. CASE RunSync
      BY <3>0, <3>1 DEF RunSync, Dispatch, Set, Tasks
    <3>2. CASE SyncOpen
      <4>1. pc' \in Points /\ bearer' \in BOOLEAN
            /\ closer' \in {"none", "init", "sync", "send_RT", "send_data"}
        BY <3>2 DEF Open, SyncOpen
      <4>2. UNCHANGED << ret, tries, lock, status, acc, due, snapshot_num, idx, posts, gap, pending, busy, waiting >>
        BY <3>2 DEF SyncOpen
      <4> QED
        BY <3>0, <4>1, <4>2
    <3>3. CASE SyncGet
      <4>1. pc' \in Points
        BY <3>3 DEF SyncGet, Step
      <4>2. due' \in 0..(Word - 1) /\ gap' \in Nat
        <5>1. CASE UNCHANGED << due, gap >>
          BY <5>1
        <5>2. ASSUME NEW e \in 0..(gap - 1), NEW step \in ClockSteps, Rearm(e, step)
              PROVE  due' \in 0..(Word - 1) /\ gap' \in Nat
          <6>1. /\ due - gap + e + step + Timespan \in Int
                /\ Word \in Nat \ {0} /\ e + Timespan \in Nat
            BY DEF ConstantsAssumption
          <6> QED
            BY <5>2, <6>1, ModRange DEF Rearm
        <5> QED
          BY <3>3, <5>1, <5>2 DEF SyncGet
      <4>3. UNCHANGED << ret, tries, lock, status, acc, snapshot_num, idx, posts, bearer, pending, busy, waiting, closer >>
        BY <3>3 DEF SyncGet
      <4> QED
        BY <3>0, <4>1, <4>2, <4>3
    <3>4. CASE SyncClose
      BY <3>0, <3>4 DEF SyncClose, Step, Set, Close, Tasks
    <3>5. CASE RunStore
      BY <3>0, <3>5 DEF RunStore, Dispatch, Set, Tasks
    <3>6. CASE StoreWrite
      BY <3>0, <3>6 DEF StoreWrite
    <3>7. CASE StoreClear
      BY <3>0, <3>7 DEF StoreClear, Step
    <3>8. CASE StoreStop
      BY <3>0, <3>8 DEF StoreStop, Step, Set, Tasks
    <3>9. CASE RunPrepare
      BY <3>0, <3>9 DEF RunPrepare, Dispatch, Set, Tasks
    <3>10. CASE PrepareOpen
      <4>0. 0 \in 0..MaxPosts
        BY DEF ConstantsAssumption
      <4>1. pc' \in Points /\ ret' \in {"send", "cmd"} /\ bearer' \in BOOLEAN
            /\ closer' \in {"none", "init", "sync", "send_RT", "send_data"}
        BY <3>10 DEF Open, PrepareOpen, Set
      <4>2. status' \in [Tasks -> {"STOP", "READY", "RUNNING"}]
        BY <3>10 DEF PrepareOpen, Set
      <4>3. posts' \in [Passes -> 0..MaxPosts]
        BY <3>10, <4>0 DEF PrepareOpen, Set, Passes
      <4>4. UNCHANGED << tries, lock, acc, due, snapshot_num, idx, gap, pending, busy, waiting >>
        BY <3>10 DEF PrepareOpen, Set
      <4> QED
        BY <3>0, <4>1, <4>2, <4>3, <4>4
    <3>11. CASE PrepareDone
      BY <3>0, <3>11 DEF PrepareDone, Step, Set, Tasks
    <3>12. CASE RunSend
      BY <3>0, <3>12 DEF RunSend, Dispatch, Set, Tasks
    <3>13. CASE SendPost
      <4>1. pc' \in Points /\ ret' \in {"send", "cmd"}
        BY <3>13 DEF SendPost, Set, Close, PostMore, PostLast, PostFails
      <4>2. bearer' \in BOOLEAN /\ closer' \in {"none", "init", "sync", "send_RT", "send_data"}
        BY <3>13 DEF SendPost, Set, Close, PostMore, PostLast, PostFails
      <4>3. status' \in [Tasks -> {"STOP", "READY", "RUNNING"}]
        BY <3>13 DEF SendPost, Set, Tasks
      <4>4. posts' \in [Passes -> 0..MaxPosts]
        BY <3>13 DEF SendPost, Set, Close, PostMore, PostLast, PostFails, Passes, ConstantsAssumption
      <4>5. UNCHANGED << tries, lock, acc, due, snapshot_num, idx, gap, pending, busy, waiting >>
        BY <3>13 DEF SendPost, Set, Close, PostMore, PostLast, PostFails
      <4> QED
        BY <3>0, <4>1, <4>2, <4>3, <4>4, <4>5
    <3>14. CASE InitAfterSend
      BY <3>0, <3>14 DEF InitAfterSend, Step
    <3>15. CASE RetryLow
      <4>0. RetryAcc \in 0..(Word - 1) /\ Chunk \in Nat \ {0} /\ Word \in Nat \ {0}
            /\ Word % Chunk = 0 /\ acc["send_RT"] \in 0..(Word - 1)
        BY ModRange DEF RetryAcc, Clocks, ConstantsAssumption
      <4>1. pc' \in Points /\ waiting' \in Nat \cup {-1}
        BY <3>15 DEF RetryLow, Step
      <4>2. acc' \in [Clocks -> 0..(Word - 1)]
        <5>1. (acc["send_RT"] - (acc["send_RT"] % Chunk)) + (RetryAcc % Chunk)
                \in 0..(Word - 1)
          <6>0. acc["send_RT"] \in Int /\ RetryAcc \in Int /\ Chunk \in Nat \ {0}
            BY <4>0
          <6>1. acc["send_RT"] % Chunk \in 0..(Chunk - 1) /\ RetryAcc % Chunk \in 0..(Chunk - 1)
            BY <6>0, ModRange
          <6> QED
            BY <4>0, <6>1, TornRange
        <5> QED
          BY <3>15, <5>1 DEF RetryLow, Clocks
      <4>3. UNCHANGED << ret, tries, lock, status, due, snapshot_num, idx, posts, bearer, gap, pending, busy, closer >>
        BY <3>15 DEF RetryLow
      <4> QED
        BY <3>0, <4>1, <4>2, <4>3
    <3>16. CASE RetryHigh
      <4>0. RetryAcc \in 0..(Word - 1) /\ Chunk \in Nat \ {0} /\ Word \in Nat \ {0}
            /\ Word % Chunk = 0 /\ acc["send_RT"] \in 0..(Word - 1)
        BY ModRange DEF RetryAcc, Clocks, ConstantsAssumption
      <4>1. pc' \in Points /\ ret' \in {"send", "cmd"}
        BY <3>16 DEF RetryHigh
      <4>2. acc' \in [Clocks -> 0..(Word - 1)]
        <5>1. (RetryAcc - (RetryAcc % Chunk)) + (acc["send_RT"] % Chunk)
                \in 0..(Word - 1)
          <6>0. acc["send_RT"] \in Int /\ RetryAcc \in Int /\ Chunk \in Nat \ {0}
            BY <4>0
          <6>1. acc["send_RT"] % Chunk \in 0..(Chunk - 1) /\ RetryAcc % Chunk \in 0..(Chunk - 1)
            BY <6>0, ModRange
          <6> QED
            BY <4>0, <6>1, TornRange
        <5> QED
          BY <3>16, <5>1 DEF RetryHigh, Clocks
      <4>3. UNCHANGED << tries, lock, status, due, snapshot_num, idx, posts, bearer, gap, pending, busy, waiting, closer >>
        BY <3>16 DEF RetryHigh
      <4> QED
        BY <3>0, <4>1, <4>2, <4>3
    <3>17. CASE RunCmd
      BY <3>0, <3>17 DEF RunCmd, Dispatch, Set, Tasks
    <3>18. CASE CmdOpen
      <4>1. pc' \in Points /\ bearer' \in BOOLEAN
            /\ closer' \in {"none", "init", "sync", "send_RT", "send_data"}
        BY <3>18 DEF Open, CmdOpen
      <4>2. status' \in [Tasks -> {"STOP", "READY", "RUNNING"}]
        BY <3>18 DEF CmdOpen, Set, Tasks
      <4>3. UNCHANGED << ret, tries, lock, acc, due, snapshot_num, idx, posts, gap, pending, busy, waiting >>
        BY <3>18 DEF CmdOpen
      <4> QED
        BY <3>0, <4>1, <4>2, <4>3
    <3>19. CASE CmdGet
      BY <3>0, <3>19 DEF CmdGet, Step, Set, Passes, Tasks, ConstantsAssumption
    <3>20. CASE RunData
      BY <3>0, <3>20 DEF RunData, Dispatch, Set, Tasks
    <3>21. CASE DataPost
      <4>1. pc' \in Points
        BY <3>21 DEF DataPost, Set, Close, PostMore, PostLast, PostFails
      <4>2. bearer' \in BOOLEAN /\ closer' \in {"none", "init", "sync", "send_RT", "send_data"}
        BY <3>21 DEF DataPost, Set, Close, PostMore, PostLast, PostFails
      <4>3. status' \in [Tasks -> {"STOP", "READY", "RUNNING"}]
        BY <3>21 DEF DataPost, Set, Tasks
      <4>4. posts' \in [Passes -> 0..MaxPosts]
        BY <3>21 DEF DataPost, Set, Close, PostMore, PostLast, PostFails, Passes, ConstantsAssumption
      <4>5. UNCHANGED << ret, tries, lock, acc, due, snapshot_num, idx, gap, pending, busy, waiting >>
        BY <3>21 DEF DataPost, Set, Close, PostMore, PostLast, PostFails
      <4> QED
        BY <3>0, <4>1, <4>2, <4>3, <4>4, <4>5
    <3>22. CASE InitAfterData
      BY <3>0, <3>22 DEF InitAfterData, Step, Set, Tasks
    <3>23. CASE Check
      BY <3>0, <3>23 DEF Check
    <3>24. CASE Lock
      BY <3>0, <3>24 DEF Lock, Step
    <3>25. CASE Test
      BY <3>0, <3>25 DEF Test
    <3>26. CASE Sleep
      BY <3>0, <3>26 DEF Sleep, Step
    <3> QED
      BY <2>7, <3>1, <3>2, <3>3, <3>4, <3>5, <3>6, <3>7, <3>8, <3>9, <3>10, <3>11, <3>12, <3>13, <3>14, <3>15, <3>16, <3>17, <3>18, <3>19, <3>20, <3>21, <3>22, <3>23, <3>24, <3>25, <3>26 DEF Loop
  <2>8. CASE UNCHANGED vars
    BY <2>8 DEF vars
  <2> QED
    BY <2>1, <2>2, <2>3, <2>4, <2>5, <2>6, <2>7, <2>8 DEF Next, Main
<1> QED
  BY <1>1, <1>2, PTL DEF SafetySpec

-----------------------------------------------------------------------------
(***************************************************************************)
(* The snapshot buffer.  The tick appends to it and the store task empties *)
(* it; what keeps them apart is the status byte of the store task, so the  *)
(* invariant says what the buffer holds in each status.                    *)
(***************************************************************************)
StoreStatus == status["store"]

SnapshotInv ==
  /\ StoreStatus = "STOP" => snapshot_num = 0 /\ pending = 0
  /\ StoreStatus = "READY" => snapshot_num = 1 /\ pending = 1
  /\ StoreStatus = "RUNNING" => snapshot_num = 1 \/ (snapshot_num = 0 /\ pending = 0)
  /\ pc = "store_write" => StoreStatus = "RUNNING" /\ snapshot_num = 1 /\ pending = idx
  /\ pc = "store_clear" => StoreStatus = "RUNNING" /\ pending = 0
  /\ pc = "store_stop" => StoreStatus = "RUNNING" /\ snapshot_num = 0 /\ pending = 0

LEMMA SnapshotInit == Init => SnapshotInv
BY DEF Init, SnapshotInv, StoreStatus, Tasks

\* Steps of the loop outside dl_task_store_data leave its part of the state
\* alone and do not enter it.
LEMMA OutsideStore ==
  ASSUME TypeOK,
         RunSync \/ SyncOpen \/ SyncGet \/ SyncClose \/ RunPrepare \/ PrepareOpen
         \/ PrepareDone \/ RunSend \/ SendPost \/ InitAfterSend \/ RetryLow
         \/ RetryHigh \/ RunCmd \/ CmdOpen \/ CmdGet \/ RunData \/ DataPost
         \/ InitAfterData \/ Check \/ Lock \/ Test \/ Sleep
  PROVE  /\ UNCHANGED << snapshot_num, pending >>
         /\ status'["store"] = StoreStatus
         /\ pc' \notin {"store_write", "store_clear", "store_stop"}
<1> USE DEF StoreStatus
<1>0. status \in [Tasks -> {"STOP", "READY", "RUNNING"}]
  BY DEF TypeOK
<1>1. CASE RunSync
  BY <1>0, <1>1 DEF RunSync, Dispatch, Set, aux, Tasks
<1>2. CASE SyncOpen
  BY <1>0, <1>2 DEF SyncOpen, aux, Tasks
<1>3. CASE SyncGet
  BY <1>0, <1>3 DEF SyncGet, Step, aux, Tasks
<1>4. CASE SyncClose
  BY <1>0, <1>4 DEF SyncClose, Step, Set, aux, Tasks
<1>5. CASE RunPrepare
  BY <1>0, <1>5 DEF RunPrepare, Dispatch, Set, aux, Tasks
<1>6. CASE PrepareOpen
  BY <1>0, <1>6 DEF PrepareOpen, Set, aux, Tasks
<1>7. CASE PrepareDone
  BY <1>0, <1>7 DEF PrepareDone, Step, Set, aux, Tasks
<1>8. CASE RunSend
  BY <1>0, <1>8 DEF RunSend, Dispatch, Set, aux, Tasks
<1>9. CASE SendPost
  BY <1>0, <1>9 DEF SendPost, Set, aux, Tasks
<1>10. CASE InitAfterSend
  BY <1>0, <1>10 DEF InitAfterSend, Step, aux, Tasks
<1>11. CASE RetryLow
  BY <1>0, <1>11 DEF RetryLow, Step, aux, Tasks
<1>12. CASE RetryHigh
  BY <1>0, <1>12 DEF TypeOK, RetryHigh, aux
<1>13. CASE RunCmd
  BY <1>0, <1>13 DEF RunCmd, Dispatch, Set, aux, Tasks
<1>14. CASE CmdOpen
  BY <1>0, <1>14 DEF CmdOpen, Set, aux, Tasks
<1>15. CASE CmdGet
  BY <1>0, <1>15 DEF CmdGet, Step, Set, aux, Tasks
<1>16. CASE RunData
  BY <1>0, <1>16 DEF RunData, Dispatch, Set, aux, Tasks
<1>17. CASE DataPost
  BY <1>0, <1>17 DEF DataPost, Set, aux, Tasks
<1>18. CASE InitAfterData
  BY <1>0, <1>18 DEF InitAfterData, Step, Set, aux, Tasks
<1>19. CASE Check
  BY <1>0, <1>19 DEF Check, aux, Tasks
<1>20. CASE Lock
  BY <1>0, <1>20 DEF Lock, Step, aux, Tasks
<1>21. CASE Test
  BY <1>0, <1>21 DEF Test, aux, Tasks
<1>22. CASE Sleep
  BY <1>0, <1>22 DEF Sleep, Step, aux, Tasks
<1> QED
  BY <1>1, <1>2, <1>3, <1>4, <1>5, <1>6, <1>7, <1>8, <1>9, <1>10, <1>11, <1>12, <1>13, <1>14, <1>15, <1>16, <1>17, <1>18, <1>19, <1>20, <1>21, <1>22

LEMMA SnapshotStep == TypeOK /\ SnapshotInv /\ [Next]_vars => SnapshotInv'
<1> SUFFICES ASSUME TypeOK, SnapshotInv, [Next]_vars PROVE SnapshotInv'
  OBVIOUS
<1> USE DEF SnapshotInv, StoreStatus, aux
<1>0. /\ status \in [Tasks -> {"STOP", "READY", "RUNNING"}] /\ "store" \in Tasks
      /\ snapshot_num \in Nat /\ idx \in Nat /\ pending \in Int
  BY DEF TypeOK, Tasks
<1>1. CASE Restart
  BY <1>1 DEF Restart, Tasks
<1>2. CASE BootModem
  BY <1>2 DEF BootModem, Attempt
<1>3. CASE BootSync
  BY <1>3 DEF BootSync, Attempt
<1>4. CASE Tick
  <2>1. CASE FireStore
    <3>1. StoreStatus = "STOP" /\ snapshot_num = 0 /\ pending = 0
      BY <2>1 DEF FireStore, Fires
    <3>2. snapshot_num' = 1 /\ pending' = 1
      BY <1>4, <2>1, <3>1, ConstantsAssumption DEF Tick, SnapshotTaken, ConstantsAssumption
    <3>3. status'["store"] = "READY"
      BY <1>4, <2>1, <1>0 DEF Tick, Marked
    <3>4. pc' \in {"reset", "test", pc}
      BY <1>4 DEF Tick
    <3> QED
      BY <3>1, <3>2, <3>3, <3>4
  <2>2. CASE ~FireStore
    <3>1. UNCHANGED << snapshot_num, pending, idx >>
      BY <1>4, <2>2 DEF Tick
    <3>2. status'["store"] = StoreStatus
      BY <1>4, <2>2, <1>0 DEF Tick, Marked
    <3>3. pc' \in {"reset", "test", pc}
      BY <1>4 DEF Tick
    <3> QED
      BY <3>1, <3>2, <3>3
  <2> QED
    BY <2>1, <2>2
<1>5. CASE WdtBite
  BY <1>5 DEF WdtBite
<1>6. CASE OtherInterrupt
  BY <1>6 DEF OtherInterrupt
<1>7. CASE RunStore
  BY <1>0, <1>7 DEF RunStore, Dispatch, Set
<1>8. CASE StoreWrite
  BY <1>0, <1>8 DEF StoreWrite
<1>9. CASE StoreClear
  BY <1>0, <1>9 DEF StoreClear, Step
<1>10. CASE StoreStop
  BY <1>0, <1>10 DEF StoreStop, Step, Set
<1>11. CASE Loop /\ ~(RunStore \/ StoreWrite \/ StoreClear \/ StoreStop)
  BY <1>11, OutsideStore DEF Loop
<1>12. CASE UNCHANGED vars
  BY <1>12 DEF vars
<1> QED
  BY <1>1, <1>2, <1>3, <1>4, <1>5, <1>6, <1>7, <1>8, <1>9, <1>10, <1>11, <1>12
     DEF Next, Main, Loop

THEOREM SnapshotInvariant == SafetySpec => []SnapshotInv
BY SnapshotInit, SnapshotStep, TypesHold, PTL DEF SafetySpec

\* The snapshot never holds more than one item (datalogger.c:1439), whatever
\* the intervals, the size of the buffer and the duration of the tasks.
THEOREM SnapshotBound == SafetySpec => []SnapshotAtMostOne
<1>1. TypeOK /\ SnapshotInv => SnapshotAtMostOne
  BY DEF TypeOK, SnapshotInv, StoreStatus, SnapshotAtMostOne, Tasks
<1> QED
  BY <1>1, TypesHold, SnapshotInvariant, PTL

\* No snapshot is lost between the tick and the log.
THEOREM SnapshotsKept == SafetySpec => []NoSnapshotLost
<1>1. TypeOK /\ SnapshotInv => NoSnapshotLost
  BY DEF TypeOK, SnapshotInv, StoreStatus, NoSnapshotLost, Tasks
<1> QED
  BY <1>1, TypesHold, SnapshotInvariant, PTL

-----------------------------------------------------------------------------
(***************************************************************************)
(* The watchdog.  A synchronisation defers the next tick by the time since *)
(* the last one, but only once: it needs a tick to be READY again.         *)
(***************************************************************************)
WatchdogInv ==
  /\ gap <= WdtPeriod
  /\ status["sync"] = "READY" \/ pc \in {"sync_open", "sync_get"} => gap = Timespan
  /\ pc \in {"sync_open", "sync_get", "sync_close"} => status["sync"] = "RUNNING"

\* Steps of the loop outside dl_task_sync_time leave the alarm alone.
LEMMA OutsideSync ==
  ASSUME TypeOK, Loop, ~(RunSync \/ SyncOpen \/ SyncGet \/ SyncClose)
  PROVE  /\ UNCHANGED gap
         /\ status'["sync"] = status["sync"]
         /\ pc' \notin {"sync_open", "sync_get", "sync_close"}
<1>0. status \in [Tasks -> {"STOP", "READY", "RUNNING"}]
  BY DEF TypeOK
<1>1. CASE RunStore
  BY <1>0, <1>1 DEF RunStore, Dispatch, Set, aux, Tasks
<1>2. CASE StoreWrite
  BY <1>0, <1>2 DEF StoreWrite, aux, Tasks
<1>3. CASE StoreClear
  BY <1>0, <1>3 DEF StoreClear, Step, aux, Tasks
<1>4. CASE StoreStop
  BY <1>0, <1>4 DEF StoreStop, Step, Set, aux, Tasks
<1>5. CASE RunPrepare
  BY <1>0, <1>5 DEF RunPrepare, Dispatch, Set, aux, Tasks
<1>6. CASE PrepareOpen
  BY <1>0, <1>6 DEF PrepareOpen, Set, aux, Tasks
<1>7. CASE PrepareDone
  BY <1>0, <1>7 DEF PrepareDone, Step, Set, aux, Tasks
<1>8. CASE RunSend
  BY <1>0, <1>8 DEF RunSend, Dispatch, Set, aux, Tasks
<1>9. CASE SendPost
  BY <1>0, <1>9 DEF SendPost, Set, aux, Tasks
<1>10. CASE InitAfterSend
  BY <1>0, <1>10 DEF InitAfterSend, Step, aux, Tasks
<1>11. CASE RetryLow
  BY <1>0, <1>11 DEF RetryLow, Step, aux, Tasks
<1>12. CASE RetryHigh
  BY <1>0, <1>12 DEF TypeOK, RetryHigh, aux, Tasks
<1>13. CASE RunCmd
  BY <1>0, <1>13 DEF RunCmd, Dispatch, Set, aux, Tasks
<1>14. CASE CmdOpen
  BY <1>0, <1>14 DEF CmdOpen, Set, aux, Tasks
<1>15. CASE CmdGet
  BY <1>0, <1>15 DEF CmdGet, Step, Set, aux, Tasks
<1>16. CASE RunData
  BY <1>0, <1>16 DEF RunData, Dispatch, Set, aux, Tasks
<1>17. CASE DataPost
  BY <1>0, <1>17 DEF DataPost, Set, aux, Tasks
<1>18. CASE InitAfterData
  BY <1>0, <1>18 DEF InitAfterData, Step, Set, aux, Tasks
<1>19. CASE Check
  BY <1>0, <1>19 DEF Check, aux, Tasks
<1>20. CASE Lock
  BY <1>0, <1>20 DEF Lock, Step, aux, Tasks
<1>21. CASE Test
  BY <1>0, <1>21 DEF Test, aux, Tasks
<1>22. CASE Sleep
  BY <1>0, <1>22 DEF Sleep, Step, aux, Tasks
<1> QED
  BY <1>1, <1>2, <1>3, <1>4, <1>5, <1>6, <1>7, <1>8, <1>9, <1>10, <1>11, <1>12, <1>13, <1>14, <1>15, <1>16, <1>17, <1>18, <1>19, <1>20, <1>21, <1>22 DEF Loop

\* If a tick period and the one that a synchronisation defers fit into the
\* watchdog period, the watchdog never bites.
THEOREM WatchdogAlwaysFed ==
  ASSUME FirstAlarm <= WdtPeriod, 2 * Timespan - 1 <= WdtPeriod
  PROVE  SafetySpec => []WatchdogFed
<1>1. Init => WatchdogInv
  BY DEF Init, WatchdogInv, Tasks
<1>2. TypeOK /\ WatchdogInv /\ [Next]_vars => WatchdogInv'
  <2> SUFFICES ASSUME TypeOK, WatchdogInv, [Next]_vars PROVE WatchdogInv'
    OBVIOUS
  <2> USE DEF WatchdogInv, aux
  <2>0. /\ status \in [Tasks -> {"STOP", "READY", "RUNNING"}] /\ "sync" \in Tasks
        /\ gap \in Nat /\ Timespan \in Nat \ {0} /\ WdtPeriod \in Nat
        /\ FirstAlarm \in Nat
    BY ConstantsAssumption DEF TypeOK, Tasks, ConstantsAssumption
  <2>1. CASE Restart
    BY <2>1 DEF Restart, Tasks
  <2>2. CASE BootModem
    BY <2>2 DEF BootModem, Attempt
  <2>3. CASE BootSync
    BY <2>3 DEF BootSync, Attempt
  <2>4. CASE Tick
    <3>1. gap' = Timespan /\ pc' \in {"reset", "test", pc}
      BY <2>4 DEF Tick
    <3>2. status'["sync"] = "RUNNING" \/ status["sync"] # "RUNNING"
      BY <2>4, <2>0 DEF Tick, Marked, FireSync, Fires
    <3> QED
      BY <2>0, <3>1, <3>2
  <2>5. CASE WdtBite
    BY <2>5 DEF WdtBite
  <2>6. CASE OtherInterrupt
    BY <2>6 DEF OtherInterrupt
  <2>7. CASE RunSync
    BY <2>0, <2>7 DEF RunSync, Dispatch, Set
  <2>8. CASE SyncOpen
    BY <2>0, <2>8 DEF SyncOpen
  <2>9. CASE SyncGet
    <3>1. gap' <= WdtPeriod
      <4>1. gap = Timespan
        BY <2>9 DEF SyncGet, Step
      <4>2. ASSUME NEW e \in 0..(gap - 1), NEW step \in ClockSteps, Rearm(e, step)
            PROVE  gap' <= WdtPeriod
        <5>1. gap' = e + Timespan /\ e <= Timespan - 1 /\ e \in Int
          BY <2>0, <4>1, <4>2 DEF Rearm
        <5> QED
          BY <2>0, <5>1
      <4> QED
        BY <2>9, <4>2 DEF SyncGet
    <3> QED
      BY <2>0, <2>9, <3>1 DEF SyncGet, Step
  <2>10. CASE SyncClose
    BY <2>0, <2>10 DEF SyncClose, Step, Set
  <2>11. CASE Loop /\ ~(RunSync \/ SyncOpen \/ SyncGet \/ SyncClose)
    BY <2>11, OutsideSync DEF Loop
  <2>12. CASE UNCHANGED vars
    BY <2>12 DEF vars
  <2> QED
    BY <2>1, <2>2, <2>3, <2>4, <2>5, <2>6, <2>7, <2>8, <2>9, <2>10, <2>11, <2>12
       DEF Next, Main
<1>3. WatchdogInv => WatchdogFed
  BY DEF WatchdogInv, WatchdogFed
<1> QED
  BY <1>1, <1>2, <1>3, TypesHold, PTL DEF SafetySpec

-----------------------------------------------------------------------------
(***************************************************************************)
(* The bearer.  A pass that has posts left keeps it across iterations of   *)
(* the loop; the invariant says so at every program point.                 *)
(***************************************************************************)
BearerInv ==
  posts["send_RT"] > 0 /\ ~bearer => closer \in {"sync", "send_data", "init"}

\* Steps of the loop that touch neither the bearer nor the pass.
LEMMA OutsideBearer ==
  ASSUME Loop,
         ~( \/ SyncOpen \/ SyncClose \/ PrepareOpen \/ SendPost \/ InitAfterSend
            \/ CmdOpen \/ CmdGet \/ DataPost \/ InitAfterData )
  PROVE  UNCHANGED << posts, bearer, closer >>
<1> USE DEF aux
<1>1. CASE RunSync \/ RunStore \/ RunPrepare \/ RunSend \/ RunCmd \/ RunData
  BY <1>1 DEF RunSync, RunStore, RunPrepare, RunSend, RunCmd, RunData, Dispatch
<1>2. CASE SyncGet \/ StoreWrite \/ StoreClear \/ StoreStop \/ PrepareDone
  BY <1>2 DEF SyncGet, StoreWrite, StoreClear, StoreStop, PrepareDone
<1>3. CASE RetryLow \/ RetryHigh
  BY <1>3 DEF RetryLow, RetryHigh
<1>4. CASE Check \/ Lock \/ Test \/ Sleep
  BY <1>4 DEF Check, Lock, Test, Sleep
<1> QED
  BY <1>1, <1>2, <1>3, <1>4 DEF Loop

LEMMA BearerStep == TypeOK /\ BearerInv /\ [Next]_vars => BearerInv'
<1> SUFFICES ASSUME TypeOK, BearerInv, [Next]_vars PROVE BearerInv'
  OBVIOUS
<1> USE DEF BearerInv, aux
<1>0. /\ posts \in [Passes -> 0..MaxPosts] /\ MaxPosts \in Nat
      /\ "send_RT" \in Passes /\ "send_data" \in Passes
  BY ConstantsAssumption DEF TypeOK, Passes, ConstantsAssumption
<1>1. CASE Restart
  BY <1>1, <1>0 DEF Restart
<1>2. CASE BootModem \/ BootSync
  BY <1>2 DEF BootModem, BootSync, Attempt
<1>3. CASE Tick
  BY <1>3 DEF Tick
<1>4. CASE WdtBite \/ OtherInterrupt
  BY <1>4 DEF WdtBite, OtherInterrupt
<1>5. CASE SyncOpen \/ SyncClose
  BY <1>5 DEF SyncOpen, SyncClose, Open, Close
<1>6. CASE PrepareOpen
  BY <1>6, <1>0 DEF PrepareOpen, Open
<1>7. CASE SendPost
  <2>1. CASE PostMore("send_RT")
    BY <2>1 DEF PostMore
  <2>2. CASE PostLast("send_RT") \/ PostFails("send_RT")
    BY <2>2, <1>0 DEF PostLast, PostFails
  <2> QED
    BY <1>7, <2>1, <2>2 DEF SendPost
<1>8. CASE InitAfterSend \/ InitAfterData
  BY <1>8 DEF InitAfterSend, InitAfterData
<1>9. CASE CmdOpen
  BY <1>9 DEF CmdOpen, Open
<1>10. CASE CmdGet
  <2>1. posts'["send_RT"] = posts["send_RT"]
    BY <1>10, <1>0 DEF CmdGet
  <2> QED
    BY <1>10, <2>1 DEF CmdGet
<1>11. CASE DataPost
  <2>1. posts'["send_RT"] = posts["send_RT"]
    BY <1>11, <1>0 DEF DataPost, PostMore, PostLast, PostFails
  <2>2. UNCHANGED << bearer, closer >> \/ Close("send_data")
    BY <1>11 DEF DataPost, PostMore, PostLast, PostFails
  <2> QED
    BY <2>1, <2>2 DEF Close
<1>12. CASE Loop /\ ~( \/ SyncOpen \/ SyncClose \/ PrepareOpen \/ SendPost
                       \/ InitAfterSend \/ CmdOpen \/ CmdGet \/ DataPost
                       \/ InitAfterData )
  BY <1>12, OutsideBearer
<1>13. CASE UNCHANGED vars
  BY <1>13 DEF vars
<1> QED
  BY <1>1, <1>2, <1>3, <1>4, <1>5, <1>6, <1>7, <1>8, <1>9, <1>10, <1>11, <1>12, <1>13
     DEF Next, Main, Loop

\* When a pass with records left finds its bearer closed, a synchronisation, a
\* date-range transmission or a power cycle of the modem closed it: the pass
\* itself never leaves records behind a bearer it closed (datalogger.c:1347).
THEOREM BearerKept == SafetySpec => []BearerHeld
<1>1. Init => BearerInv
  BY DEF Init, BearerInv, Passes
<1>2. BearerInv => BearerHeld
  BY DEF BearerInv, BearerHeld
<1> QED
  BY <1>1, <1>2, BearerStep, TypesHold, PTL DEF SafetySpec

-----------------------------------------------------------------------------
(***************************************************************************)
(* The intervals.  Remainders of sums.                                     *)
(***************************************************************************)
\* A larger multiple is larger by at least the factor.
LEMMA TimesOrder ==
  ASSUME NEW m \in Nat \ {0}, NEW a \in Int, NEW b \in Int, a < b
  PROVE  m * a + m <= m * b /\ m * a \in Int /\ m * b \in Int
<1>1. m * (b - a) >= m * 1
  OBVIOUS
<1> QED
  BY <1>1

\* The remainder is what is left over a multiple.
LEMMA ModShift ==
  ASSUME NEW m \in Nat \ {0}, NEW k \in Int, NEW y \in 0..(m - 1)
  PROVE  (m * k + y) % m = y
<1> DEFINE x == m * k + y
           p == x \div m
           t == x % m
<1>1. m * k \in Int /\ p \in Int /\ t \in 0..(m - 1) /\ x = m * p + t /\ m * p \in Int
  OBVIOUS
<1>2. x = m * k + y
  OBVIOUS
<1> HIDE DEF x, p, t
<1>3. p < k => m * p + m <= m * k
  BY <1>1, TimesOrder
<1>4. k < p => m * k + m <= m * p
  BY <1>1, TimesOrder
<1>5. t = y
  BY <1>1, <1>2, <1>3, <1>4
<1> QED
  BY <1>5 DEF x, t

LEMMA ModSplit ==
  ASSUME NEW m \in Nat \ {0}, NEW x \in Int
  PROVE  /\ x % m \in 0..(m - 1) /\ x \div m \in Int /\ m * (x \div m) \in Int
         /\ x = m * (x \div m) + (x % m)
OBVIOUS

\* Multiples can be left out of a remainder.
LEMMA ModPlus ==
  ASSUME NEW m \in Nat \ {0}, NEW k \in Int, NEW x \in Int
  PROVE  (m * k + x) % m = x % m
<1> DEFINE q == x \div m
           y == x % m
<1>1. y \in 0..(m - 1) /\ q \in Int /\ x = m * q + y
  BY ModSplit
<1> HIDE DEF q, y
<1>2. m * k + x = m * (k + q) + y
  BY <1>1
<1>3. (m * (k + q) + y) % m = y
  BY <1>1, ModShift
<1> QED
  BY <1>2, <1>3 DEF y

\* A number that is no multiple's successor stays what it is.
LEMMA ModSmall ==
  ASSUME NEW m \in Nat \ {0}, NEW y \in 0..(m - 1)
  PROVE  y % m = y
<1>1. (m * 0 + y) % m = y
  BY ModShift
<1> QED
  BY <1>1

\* A remainder never exceeds what is divided.
LEMMA ModBelow ==
  ASSUME NEW m \in Nat \ {0}, NEW x \in Nat
  PROVE  x % m \in Nat /\ x % m <= x
<1> DEFINE q == x \div m
           y == x % m
<1>1. y \in 0..(m - 1) /\ q \in Int /\ x = m * q + y /\ m * q \in Int
  BY ModSplit
<1> HIDE DEF q, y
<1>2. q < 0 => m * q + m <= m * 0
  BY <1>1, TimesOrder
<1>3. 0 <= q => 0 <= m * q
  BY <1>1
<1> QED
  BY <1>1, <1>2, <1>3 DEF y

\* Only the remainders of the summands count.
LEMMA ModAdd ==
  ASSUME NEW m \in Nat \ {0}, NEW a \in Int, NEW d \in Int
  PROVE  (a + d) % m = ((a % m) + d) % m
<1> DEFINE q == a \div m
           y == a % m
<1>1. y \in 0..(m - 1) /\ q \in Int /\ a = m * q + y /\ m * q \in Int
  BY ModSplit
<1> HIDE DEF q, y
<1> DEFINE z == y + d
<1>2. a + d = m * q + z /\ z \in Int
  BY <1>1
<1> HIDE DEF z
<1>3. (m * q + z) % m = z % m
  BY <1>1, <1>2, ModPlus
<1> QED
  BY <1>2, <1>3 DEF y, z

\* The low part of a word is the same before and after the word wraps.
LEMMA ModOfMod ==
  ASSUME NEW w \in Nat \ {0}, NEW c \in Nat \ {0}, w % c = 0, NEW x \in Int
  PROVE  (x % w) % c = x % c
<1> DEFINE k == w \div c
           q == x \div w
           y == x % w
<1>1. k \in Int /\ w = c * k
  OBVIOUS
<1>2. y \in 0..(w - 1) /\ q \in Int /\ x = w * q + y /\ w * q \in Int
  BY ModSplit
<1> HIDE DEF k, q, y
<1>3. w * q = c * (k * q) /\ k * q \in Int /\ y \in Int
  BY <1>1, <1>2
<1>4. (c * (k * q) + y) % c = y % c
  BY <1>2, <1>3, ModPlus
<1> QED
  BY <1>2, <1>3, <1>4 DEF y

(***************************************************************************)
(* What the intervals have to satisfy, and the clock: it is never set to   *)
(* another time.                                                           *)
(***************************************************************************)
ExactClock == ClockSteps \subseteq {0}

Proportions ==
  /\ WdtPeriod < Retry /\ Retry <= IntervSend
  /\ 3 * IntervSend + WdtPeriod < Word

\* The tick between the two stores of the retry does not carry.
NoCarry == (RetryAcc % Chunk) + WdtPeriod < Chunk

Age == acc["send_RT"]
Sum == Elapse("send_RT")
Going == status["send_RT"] # "STOP"
Asked == status["prepare_RT"] = "READY"

SendPoints ==
  {"prepare_open", "prepare_done", "send_post", "init_RT", "retry_low", "retry_high"}

\* Nothing of a transmission is requested or under way.
Idle == ~Going /\ status["prepare_RT"] = "STOP" /\ pc \notin SendPoints

\* The next tick will measure the time since the last one; a tick is on record
\* only as long as its stretch lasts.
ClockInv ==
  /\ due = gap % Word
  /\ once => pc \in Short \cup {"reset"}

\* Steps of the loop other than those that prepare, send or retry.
LEMMA OutsideSend ==
  ASSUME TypeOK, Loop,
         ~( \/ RunPrepare \/ PrepareOpen \/ PrepareDone \/ RunSend \/ SendPost
            \/ InitAfterSend \/ RetryLow \/ RetryHigh )
  PROVE  /\ UNCHANGED << acc, busy, waiting >>
         /\ status'["send_RT"] = status["send_RT"]
         /\ status'["prepare_RT"] = status["prepare_RT"]
         /\ pc \notin SendPoints \cup {"reset"} /\ pc' \notin SendPoints \cup {"reset"}
<1>0. status \in [Tasks -> {"STOP", "READY", "RUNNING"}]
  BY DEF TypeOK
<1> USE <1>0 DEF aux, Tasks, SendPoints
<1>1. CASE RunSync \/ RunStore \/ RunCmd \/ RunData
  BY <1>1 DEF RunSync, RunStore, RunCmd, RunData, Dispatch, Set
<1>2. CASE SyncOpen \/ SyncGet \/ SyncClose
  BY <1>2 DEF SyncOpen, SyncGet, SyncClose, Step, Set
<1>3. CASE StoreWrite \/ StoreClear \/ StoreStop
  BY <1>3 DEF StoreWrite, StoreClear, StoreStop, Step, Set
<1>4. CASE CmdOpen \/ CmdGet
  BY <1>4 DEF CmdOpen, CmdGet, Step, Set
<1>5. CASE DataPost \/ InitAfterData
  BY <1>5 DEF DataPost, InitAfterData, Step, Set
<1>6. CASE Check \/ Lock \/ Test \/ Sleep
  BY <1>6 DEF Check, Lock, Test, Sleep, Step
<1> QED
  BY <1>1, <1>2, <1>3, <1>4, <1>5, <1>6 DEF Loop

\* Only a synchronisation moves the alarm.
LEMMA OutsideSyncGet ==
  ASSUME Loop, ~SyncGet
  PROVE  UNCHANGED << due, gap >>
<1> USE DEF aux
<1>1. CASE RunSync \/ RunStore \/ RunPrepare \/ RunSend \/ RunCmd \/ RunData
  BY <1>1 DEF RunSync, RunStore, RunPrepare, RunSend, RunCmd, RunData, Dispatch
<1>2. CASE SyncOpen \/ SyncClose \/ StoreWrite \/ StoreClear \/ StoreStop
  BY <1>2 DEF SyncOpen, SyncClose, StoreWrite, StoreClear, StoreStop
<1>3. CASE PrepareOpen \/ PrepareDone \/ SendPost \/ InitAfterSend
  BY <1>3 DEF PrepareOpen, PrepareDone, SendPost, InitAfterSend
<1>4. CASE RetryLow \/ RetryHigh \/ CmdOpen \/ CmdGet
  BY <1>4 DEF RetryLow, RetryHigh, CmdOpen, CmdGet
<1>5. CASE DataPost \/ InitAfterData \/ Check \/ Lock \/ Test \/ Sleep
  BY <1>5 DEF DataPost, InitAfterData, Check, Lock, Test, Sleep
<1> QED
  BY <1>1, <1>2, <1>3, <1>4, <1>5 DEF Loop

\* The constants as numbers.
LEMMA Numbers ==
  /\ Word \in Nat \ {0} /\ Chunk \in Nat \ {0} /\ Word % Chunk = 0
  /\ Timespan \in Nat \ {0} /\ FirstAlarm \in 1..(Word - 1)
  /\ IntervSend \in 0..(Word - 1) /\ Retry \in Nat /\ WdtPeriod \in Nat
BY ConstantsAssumption DEF ConstantsAssumption

LEMMA ClockInit == Init => ClockInv
BY Numbers, ModSmall DEF Init, ClockInv

LEMMA ClockStep ==
  ASSUME ExactClock, TypeOK, ClockInv, [Next]_vars
  PROVE  ClockInv'
<1> USE DEF ClockInv
<1>1. CASE Restart
  <2>1. FirstAlarm % Word = FirstAlarm
    BY Numbers, ModSmall
  <2> QED
    BY <1>1, <2>1 DEF Restart
<1>2. CASE BootModem \/ BootSync
  <2>1. UNCHANGED << due, gap, once >> /\ pc \in {"boot_modem", "boot_sync"}
    BY <1>2 DEF BootModem, BootSync, Attempt, aux
  <2>2. ~once
    BY <2>1 DEF Short
  <2> QED
    BY <2>1, <2>2
<1>3. CASE Tick
  BY <1>3 DEF Tick, Short
<1>4. CASE WdtBite \/ OtherInterrupt
  BY <1>4 DEF WdtBite, OtherInterrupt, aux, Short
<1>5. CASE Loop /\ ~SyncGet
  <2>1. UNCHANGED << due, gap >>
    BY <1>5, OutsideSyncGet
  <2> QED
    BY <1>5, <2>1 DEF Loop
<1>6. CASE Loop /\ SyncGet
  <2>1. ASSUME NEW e \in 0..(gap - 1), NEW step \in ClockSteps, Rearm(e, step)
        PROVE  due' = gap' % Word
    <3> DEFINE q == gap \div Word
               x == e + Timespan
    <3>1. /\ gap \in Int /\ e \in Int /\ Timespan \in Int /\ step = 0
          /\ Word \in Nat \ {0}
      BY Numbers, <2>1 DEF TypeOK, ExactClock
    <3>2. /\ q \in Int /\ due \in Int /\ Word * q \in Int /\ Word * (-q) = -(Word * q)
          /\ gap = Word * q + due
      BY <3>1, ModSplit
    <3>3. due - gap + e + step + Timespan = Word * (-q) + x /\ x \in Int /\ -q \in Int
      <4> HIDE DEF q
      <4> QED
        BY <3>1, <3>2
    <3> HIDE DEF q, x
    <3>4. (Word * (-q) + x) % Word = x % Word
      BY <3>1, <3>3, ModPlus
    <3> QED
      BY <2>1, <3>3, <3>4 DEF Rearm, x
  <2>2. due' = gap' % Word
    BY <1>6, <2>1 DEF SyncGet
  <2> QED
    BY <1>6, <2>2 DEF Loop
<1>7. CASE UNCHANGED vars
  BY <1>7 DEF vars
<1> QED
  BY <1>1, <1>2, <1>3, <1>4, <1>5, <1>6, <1>7 DEF Next, Main

\* What a tick adds to the accumulator of the transmissions: the seconds since
\* the last tick, except that a word may wrap.
LEMMA TickSum ==
  ASSUME Proportions, TypeOK, ClockInv, Tick
  PROVE  /\ gap \in Nat /\ gap <= WdtPeriod
         /\ Age \in Nat /\ Sum \in Nat /\ Sum <= Age + gap
         /\ Age + gap < Word => Sum = Age + gap
         /\ Sum % Chunk = ((Age % Chunk) + gap) % Chunk
<1>1. gap \in Nat /\ gap <= WdtPeriod /\ gap \in 0..(Word - 1)
  BY Numbers DEF TypeOK, Tick, Proportions
<1>2. due = gap
  BY <1>1, Numbers, ModSmall DEF ClockInv
<1>3. Age \in 0..(Word - 1)
  BY DEF Age, TypeOK, Clocks
<1>4. Sum = (Age + gap) % Word /\ Age + gap \in Nat
  BY <1>1, <1>2, <1>3, Numbers DEF Sum, Elapse, Age
<1>5. Sum \in Nat /\ Sum <= Age + gap
  BY <1>4, Numbers, ModBelow
<1>6. Age + gap < Word => Sum = Age + gap
  BY <1>4, Numbers, ModSmall
<1>7. Sum % Chunk = (Age + gap) % Chunk
  BY <1>4, Numbers, ModOfMod
<1>8. (Age + gap) % Chunk = ((Age % Chunk) + gap) % Chunk
  <2>1. Age \in Int /\ gap \in Int /\ Chunk \in Nat \ {0}
    BY <1>1, <1>3, Numbers
  <2> HIDE DEF Age
  <2> QED
    BY <2>1, ModAdd
<1> QED
  BY <1>1, <1>3, <1>5, <1>6, <1>7, <1>8

\* What a tick does to the transmissions.
LEMMA TickSend ==
  ASSUME Proportions, TypeOK, Tick
  PROVE  /\ pc' \in {"reset", "test", pc} /\ (pc' = "test" => pc \in {"asleep", "test"})
         /\ ~AtBoot /\ ~once /\ pc # "reset"
         /\ pc \in SendPoints => (once' <=> pc \in {"prepare_done", "retry_high"})
         /\ status'["send_RT"] = status["send_RT"]
         /\ \/ Age' = 0 /\ ~Going /\ status'["prepare_RT"] = "READY" /\ waiting' = -1
               /\ Sum >= IntervSend
            \/ /\ Age' = Sum /\ (Going \/ Sum < IntervSend)
               /\ status'["prepare_RT"] = status["prepare_RT"]
               /\ waiting' = IF waiting = -1 \/ Going THEN -1 ELSE waiting + gap
         /\ busy' = IF Going THEN busy + gap ELSE 0
         /\ gap' = Timespan
         /\ pc' = "reset" <=> Age' > 3 * IntervSend
<1> USE DEF Tick, Going, Age, Sum
<1>1. (3 * IntervSend) % Word = 3 * IntervSend
  BY Numbers, ModSmall DEF Proportions
<1>2. acc'["send_RT"] = IF FireSend THEN 0 ELSE Elapse("send_RT")
  BY DEF Accumulate, Clocks
<1>3. /\ status'["send_RT"] = status["send_RT"]
      /\ status'["prepare_RT"] = IF FireSend THEN "READY" ELSE status["prepare_RT"]
  BY DEF Marked, Tasks
<1>4. FireSend <=> status["send_RT"] = "STOP" /\ Elapse("send_RT") >= IntervSend
  BY DEF FireSend, Fires
<1>5. Elapse("send_RT") \in Int /\ IntervSend \in Int
  <2>1. acc["send_RT"] + due \in Int
    BY DEF TypeOK, Clocks
  <2> QED
    BY <2>1, Numbers DEF Elapse
<1>6. Hanged <=> acc'["send_RT"] > 3 * IntervSend
  BY <1>1 DEF Hanged
<1>7. pc # "reset" /\ ~AtBoot /\ ~once
  BY DEF AtBoot
<1>8. pc' = "reset" <=> Hanged
  BY <1>7
<1>9. pc' \in {"reset", "test", pc} /\ (pc' = "test" => pc \in {"asleep", "test"})
  OBVIOUS
<1>10. pc \in SendPoints => (once' <=> pc \in {"prepare_done", "retry_high"})
  BY DEF SendPoints, Short
<1> HIDE DEF Tick
<1>11. /\ busy' = IF Going THEN busy + gap ELSE 0
       /\ gap' = Timespan
       /\ waiting' = IF waiting = -1 \/ FireSend \/ Going THEN -1 ELSE waiting + gap
  BY DEF Tick
<1> QED
  BY <1>2, <1>3, <1>4, <1>5, <1>6, <1>7, <1>8, <1>9, <1>10, <1>11

\* What the steps that prepare and send do to the two tasks.
LEMMA SendSteps ==
  ASSUME TypeOK
  PROVE  /\ RunPrepare =>
              /\ UNCHANGED << acc, busy, waiting >> /\ status'["send_RT"] = status["send_RT"]
              /\ pc = "prepare"
              /\ \/ Asked /\ pc' = "prepare_open" /\ status'["prepare_RT"] = "RUNNING"
                 \/ ~Asked /\ pc' = "send" /\ status'["prepare_RT"] = status["prepare_RT"]
         /\ PrepareOpen =>
              /\ UNCHANGED << acc, busy, waiting >> /\ status'["send_RT"] = status["send_RT"]
              /\ pc = "prepare_open" /\ pc' \in {"prepare_done", "init_RT"}
              /\ status'["prepare_RT"] = "STOP"
         /\ PrepareDone =>
              /\ UNCHANGED << acc, busy, waiting >> /\ status'["send_RT"] = "READY"
              /\ pc = "prepare_done" /\ pc' = "send"
              /\ status'["prepare_RT"] = status["prepare_RT"]
         /\ RunSend =>
              /\ UNCHANGED << acc, busy, waiting >> /\ pc = "send"
              /\ \/ status["send_RT"] = "READY" /\ status'["send_RT"] = "RUNNING"
                    /\ pc' = "send_post"
                 \/ status'["send_RT"] = status["send_RT"] /\ pc' = "cmd"
              /\ status'["prepare_RT"] = status["prepare_RT"]
         /\ SendPost =>
              /\ UNCHANGED << acc, busy, waiting >> /\ pc = "send_post"
              /\ \/ status'["send_RT"] = "READY" /\ pc' = "cmd"
                 \/ status'["send_RT"] = "STOP" /\ pc' \in {"cmd", "init_RT"}
              /\ status'["prepare_RT"] = status["prepare_RT"]
         /\ InitAfterSend =>
              /\ UNCHANGED << acc, busy, waiting, status >>
              /\ pc = "init_RT" /\ pc' = "retry_low"
<1>0. status \in [Tasks -> {"STOP", "READY", "RUNNING"}]
  BY DEF TypeOK
<1> USE <1>0 DEF aux, Tasks, Set, Step
<1>1. ASSUME RunPrepare
      PROVE  /\ UNCHANGED << acc, busy, waiting >> /\ status'["send_RT"] = status["send_RT"]
             /\ pc = "prepare"
             /\ \/ Asked /\ pc' = "prepare_open" /\ status'["prepare_RT"] = "RUNNING"
                \/ ~Asked /\ pc' = "send" /\ status'["prepare_RT"] = status["prepare_RT"]
  BY <1>1 DEF RunPrepare, Dispatch, Asked
<1>2. ASSUME PrepareOpen
      PROVE  /\ UNCHANGED << acc, busy, waiting >> /\ status'["send_RT"] = status["send_RT"]
             /\ pc = "prepare_open" /\ pc' \in {"prepare_done", "init_RT"}
             /\ status'["prepare_RT"] = "STOP"
  BY <1>2 DEF PrepareOpen
<1>3. ASSUME PrepareDone
      PROVE  /\ UNCHANGED << acc, busy, waiting >> /\ status'["send_RT"] = "READY"
             /\ pc = "prepare_done" /\ pc' = "send"
             /\ status'["prepare_RT"] = status["prepare_RT"]
  BY <1>3 DEF PrepareDone
<1>4. ASSUME RunSend
      PROVE  /\ UNCHANGED << acc, busy, waiting >> /\ pc = "send"
             /\ \/ status["send_RT"] = "READY" /\ status'["send_RT"] = "RUNNING"
                   /\ pc' = "send_post"
                \/ status'["send_RT"] = status["send_RT"] /\ pc' = "cmd"
             /\ status'["prepare_RT"] = status["prepare_RT"]
  BY <1>4 DEF RunSend, Dispatch
<1>5. ASSUME SendPost
      PROVE  /\ UNCHANGED << acc, busy, waiting >> /\ pc = "send_post"
             /\ \/ status'["send_RT"] = "READY" /\ pc' = "cmd"
                \/ status'["send_RT"] = "STOP" /\ pc' \in {"cmd", "init_RT"}
             /\ status'["prepare_RT"] = status["prepare_RT"]
  BY <1>5 DEF SendPost
<1>6. ASSUME InitAfterSend
      PROVE  /\ UNCHANGED << acc, busy, waiting, status >>
             /\ pc = "init_RT" /\ pc' = "retry_low"
  BY <1>6 DEF InitAfterSend
<1> QED
  BY <1>1, <1>2, <1>3, <1>4, <1>5, <1>6

\* Steps outside the loop and the tick only move the program point.
LEMMA OutsideLoop ==
  ASSUME BootModem \/ BootSync \/ WdtBite \/ OtherInterrupt
  PROVE  /\ UNCHANGED << acc, busy, waiting, status, gap, once >>
         /\ pc # "reset" /\ pc' \notin SendPoints
         /\ pc' = "reset" \/ pc \notin SendPoints
<1> USE DEF SendPoints, AtBoot, aux
<1>1. CASE BootModem \/ BootSync
  BY <1>1 DEF BootModem, BootSync, Attempt
<1>2. CASE WdtBite \/ OtherInterrupt
  BY <1>2 DEF WdtBite, OtherInterrupt
<1> QED
  BY <1>1, <1>2

\* A reset leaves nothing under way.
LEMMA AfterRestart ==
  ASSUME Restart
  PROVE  /\ pc' = "boot_modem" /\ status'["send_RT"] = "STOP" /\ status'["prepare_RT"] = "STOP"
         /\ busy' = 0 /\ waiting' = -1 /\ gap' = FirstAlarm /\ once' = FALSE
         /\ status'["sync"] = "STOP"
BY DEF Restart, Tasks

\* The two stores of the retry.
LEMMA RetryValue ==
  ASSUME Proportions
  PROVE  /\ RetryAcc = IntervSend - Retry /\ RetryAcc \in Nat
         /\ RetryAcc % Chunk \in Nat /\ RetryAcc % Chunk <= RetryAcc
         /\ RetryAcc % Chunk \in 0..(Chunk - 1)
<1>1. IntervSend - Retry \in 0..(Word - 1)
  BY Numbers DEF Proportions
<1>2. RetryAcc = IntervSend - Retry /\ RetryAcc \in Nat
  BY <1>1, Numbers, ModSmall DEF RetryAcc
<1>3. RetryAcc % Chunk \in 0..(Chunk - 1)
  BY <1>2, Numbers, ModSplit
<1>4. RetryAcc % Chunk <= RetryAcc
  BY <1>2, Numbers, ModBelow
<1> QED
  BY <1>2, <1>3, <1>4, Numbers

LEMMA LowStored ==
  ASSUME Proportions, TypeOK, RetryLow
  PROVE  /\ Age' \in Nat /\ Age' <= Age + RetryAcc
         /\ Age' % Chunk = RetryAcc % Chunk
         /\ UNCHANGED << status, busy >>
         /\ pc = "retry_low" /\ pc' = "retry_high"
         /\ waiting' = IF Asked \/ Going THEN -1 ELSE 0
<1> DEFINE r == RetryAcc % Chunk
           q == Age \div Chunk
<1>1. Age' = (Age - (Age % Chunk)) + r
  BY DEF RetryLow, Age, TypeOK, Clocks
<1>2. Age \in Nat
  BY Numbers DEF Age, TypeOK, Clocks
<1>3. Age % Chunk \in Nat /\ Age % Chunk <= Age
  BY <1>2, Numbers, ModBelow
<1>4. r \in 0..(Chunk - 1) /\ r \in Nat /\ r <= RetryAcc /\ RetryAcc \in Nat
  BY RetryValue
<1>5. q \in Int /\ Age = Chunk * q + (Age % Chunk) /\ Chunk * q \in Int
  BY <1>2, Numbers, ModSplit
<1> HIDE DEF q, r
<1>6. (Chunk * q + r) % Chunk = r
  BY <1>4, <1>5, Numbers, ModShift
<1>7. Age' = Chunk * q + r
  BY <1>1, <1>3, <1>4, <1>5
<1>8. /\ UNCHANGED << status, busy >>
      /\ pc = "retry_low" /\ pc' = "retry_high"
      /\ waiting' = IF Asked \/ Going THEN -1 ELSE 0
  BY DEF RetryLow, Step, Asked, Going
<1> QED
  BY <1>1, <1>2, <1>3, <1>4, <1>6, <1>7, <1>8 DEF r

LEMMA HighStored ==
  ASSUME Proportions, TypeOK, RetryHigh
  PROVE  /\ Age' = (RetryAcc - (RetryAcc % Chunk)) + (Age % Chunk)
         /\ Age % Chunk \in Nat
         /\ UNCHANGED << status, busy, waiting >>
         /\ pc = "retry_high" /\ pc' \in {"send", "cmd"}
<1>1. Age \in Nat
  BY Numbers DEF Age, TypeOK, Clocks
<1>2. Age % Chunk \in Nat
  BY <1>1, Numbers, ModBelow
<1>3. Age' = (RetryAcc - (RetryAcc % Chunk)) + (Age % Chunk)
  BY DEF RetryHigh, Age, TypeOK, Clocks
<1> QED
  BY <1>2, <1>3 DEF RetryHigh, TypeOK, aux

-----------------------------------------------------------------------------
(***************************************************************************)
(* The retry (RetrySoon).  Between its two stores at most one tick comes,  *)
(* and without a carry it leaves the low part that the second store keeps. *)
(***************************************************************************)
TornInv ==
  pc = "retry_high" =>
    IF once THEN Age % Chunk <= (RetryAcc % Chunk) + WdtPeriod
            ELSE Age % Chunk = RetryAcc % Chunk

RetryInv ==
  /\ waiting < Retry
  /\ waiting >= 0 /\ pc = "retry_high" =>
       IF once THEN waiting <= WdtPeriod /\ Age % Chunk = (RetryAcc % Chunk) + waiting
               ELSE waiting = 0
  /\ waiting >= 0 /\ pc \notin {"retry_high", "reset"} => Age = RetryAcc + waiting

\* Only the first store leads between the two.
LEMMA OutsideRetry ==
  ASSUME TypeOK, Loop, ~(RetryLow \/ RetryHigh)
  PROVE  /\ UNCHANGED << acc, busy, waiting >>
         /\ pc \notin {"retry_low", "retry_high", "reset"} /\ pc' \notin {"retry_high", "reset"}
<1>1. CASE RunPrepare \/ PrepareOpen \/ PrepareDone \/ RunSend \/ SendPost \/ InitAfterSend
  BY <1>1, SendSteps
<1>2. CASE ~( \/ RunPrepare \/ PrepareOpen \/ PrepareDone \/ RunSend \/ SendPost
              \/ InitAfterSend \/ RetryLow \/ RetryHigh )
  BY <1>2, OutsideSend DEF SendPoints
<1> QED
  BY <1>1, <1>2

LEMMA TornStep ==
  ASSUME Proportions, TypeOK, ClockInv, TornInv, [Next]_vars
  PROVE  TornInv'
<1> USE DEF TornInv
<1>1. CASE Restart
  BY <1>1, AfterRestart
<1>2. CASE BootModem \/ BootSync \/ WdtBite \/ OtherInterrupt
  BY <1>2, OutsideLoop DEF SendPoints
<1>3. CASE Tick
  <2>1. SUFFICES ASSUME pc = "retry_high"
                 PROVE  once' /\ Age' % Chunk <= (RetryAcc % Chunk) + WdtPeriod
    BY <1>3, <2>1, TickSend
  <2>2. once' /\ Age % Chunk = RetryAcc % Chunk
    BY <1>3, <2>1, TickSend DEF SendPoints
  <2>3. /\ gap \in Nat /\ gap <= WdtPeriod /\ Sum % Chunk = ((Age % Chunk) + gap) % Chunk
        /\ RetryAcc % Chunk \in Nat
    BY <1>3, TickSum, RetryValue
  <2>4. Sum % Chunk <= (RetryAcc % Chunk) + gap
    BY <2>2, <2>3, Numbers, ModBelow
  <2>5. 0 % Chunk = 0 /\ Sum % Chunk \in Int
    BY <2>2, <2>3, Numbers, ModSmall, ModBelow
  <2>6. Age' = 0 \/ Age' = Sum
    BY <1>3, TickSend
  <2> HIDE DEF Age, Sum
  <2> QED
    BY <2>2, <2>3, <2>4, <2>5, <2>6, Numbers
<1>4. CASE Loop /\ RetryLow
  <2>1. ~once'
    BY <1>4 DEF Loop, ClockInv, RetryLow, Step, Short
  <2> QED
    BY <1>4, <2>1, LowStored
<1>5. CASE RetryHigh
  BY <1>5, HighStored
<1>6. CASE Loop /\ ~(RetryLow \/ RetryHigh)
  BY <1>6, OutsideRetry
<1>7. CASE UNCHANGED vars
  BY <1>7 DEF vars, Age
<1> QED
  BY <1>1, <1>2, <1>3, <1>4, <1>5, <1>6, <1>7 DEF Next, Main, Loop

LEMMA RetryStep ==
  ASSUME Proportions, NoCarry, TypeOK, ClockInv, TornInv, RetryInv, [Next]_vars
  PROVE  RetryInv'
<1>0. waiting \in Nat \cup {-1} /\ Retry \in Nat /\ Retry > 0
  BY Numbers DEF TypeOK, Proportions
<1> USE DEF RetryInv
<1>1. CASE Restart
  BY <1>0, <1>1, AfterRestart
<1>2. CASE BootModem \/ BootSync \/ WdtBite \/ OtherInterrupt
  BY <1>2, OutsideLoop DEF SendPoints, Age
<1>3. CASE Tick
  <2>1. CASE waiting' = -1
    BY <1>0, <2>1
  <2>2. CASE waiting' # -1
    <3>1. /\ waiting' = waiting + gap /\ waiting >= 0 /\ Age' = Sum /\ Sum < IntervSend
          /\ pc # "reset"
      BY <1>0, <1>3, <2>2, TickSend DEF Going
    <3>2. /\ gap \in Nat /\ gap <= WdtPeriod /\ Age \in Nat
          /\ Age + gap < Word => Sum = Age + gap
          /\ Sum % Chunk = ((Age % Chunk) + gap) % Chunk
      BY <1>3, TickSum
    <3>3. /\ RetryAcc = IntervSend - Retry /\ RetryAcc \in Nat
          /\ RetryAcc % Chunk \in 0..(Chunk - 1)
      BY RetryValue
    <3>4. CASE pc = "retry_high"
      <4>1. once' /\ ~once /\ pc' \in {"reset", "retry_high"}
        BY <1>3, <3>4, TickSend DEF SendPoints
      <4>2. waiting = 0 /\ Age % Chunk = RetryAcc % Chunk
        BY <3>1, <3>4, <4>1 DEF TornInv
      <4>3. (RetryAcc % Chunk) + gap \in 0..(Chunk - 1)
        BY <3>2, <3>3, Numbers DEF NoCarry
      <4>4. ((RetryAcc % Chunk) + gap) % Chunk = (RetryAcc % Chunk) + gap
        BY <4>3, Numbers, ModSmall
      <4>5. waiting' = gap /\ Age' % Chunk = (RetryAcc % Chunk) + waiting'
        BY <3>1, <3>2, <4>2, <4>4
      <4> HIDE DEF Age, Sum
      <4> QED
        BY <3>2, <4>1, <4>5, Numbers DEF Proportions
    <3>5. CASE pc # "retry_high"
      <4>1. Age = RetryAcc + waiting
        BY <3>1, <3>5
      <4>2. Sum = Age + gap
        BY <1>0, <3>1, <3>2, <3>3, <4>1, Numbers DEF Proportions
      <4>3. waiting' < Retry /\ Age' = RetryAcc + waiting'
        BY <1>0, <3>1, <3>2, <3>3, <4>1, <4>2, Numbers
      <4>4. pc' # "retry_high"
        BY <1>3, <3>5, TickSend
      <4> QED
        BY <4>3, <4>4
    <3> QED
      BY <3>4, <3>5
  <2> QED
    BY <2>1, <2>2
<1>4. CASE Loop /\ RetryLow
  <2>1. ~once'
    BY <1>4 DEF Loop, ClockInv, RetryLow, Step, Short
  <2>2. pc' = "retry_high" /\ waiting' \in {-1, 0}
    BY <1>4, LowStored
  <2> QED
    BY <1>0, <2>1, <2>2
<1>5. CASE RetryHigh
  <2>1. /\ Age' = (RetryAcc - (RetryAcc % Chunk)) + (Age % Chunk)
        /\ waiting' = waiting /\ pc = "retry_high" /\ pc' # "retry_high"
    BY <1>5, HighStored
  <2>2. waiting >= 0 => Age % Chunk = (RetryAcc % Chunk) + waiting
    BY <1>0, <2>1, RetryValue DEF TornInv
  <2>3. RetryAcc % Chunk \in Int /\ RetryAcc \in Int
    BY RetryValue
  <2> QED
    BY <1>0, <2>1, <2>2, <2>3
<1>6. CASE Loop /\ ~(RetryLow \/ RetryHigh)
  BY <1>6, OutsideRetry DEF Age
<1>7. CASE UNCHANGED vars
  BY <1>7 DEF vars, Age
<1> QED
  BY <1>1, <1>2, <1>3, <1>4, <1>5, <1>6, <1>7 DEF Next, Main, Loop

\* A failed transmission is scheduled again within Retry seconds
\* (datalogger.c:1524), if the clock is not set, the watchdog period is shorter
\* than that, and the tick between the two stores does not carry into the part
\* that the second one overwrites.
THEOREM RetriedSoon ==
  ASSUME ExactClock, Proportions, NoCarry
  PROVE  SafetySpec => []RetrySoon
<1>1. Init => ClockInv /\ TornInv /\ RetryInv
  <2>1. ASSUME Init PROVE TornInv /\ RetryInv
    BY <2>1, Numbers DEF Init, TornInv, RetryInv, Proportions
  <2> QED
    BY <2>1, ClockInit
<1>2. TypeOK /\ (ClockInv /\ TornInv /\ RetryInv) /\ [Next]_vars
        => (ClockInv /\ TornInv /\ RetryInv)'
  BY ClockStep, TornStep, RetryStep
<1>3. RetryInv => RetrySoon
  BY DEF RetryInv, RetrySoon
<1> QED
  BY <1>1, <1>2, <1>3, TypesHold, PTL DEF SafetySpec

-----------------------------------------------------------------------------
(***************************************************************************)
(* The reset (ResetOnlyWhenHanged).  The accumulator of the transmissions  *)
(* is ahead of the time for which one has been under way by at most an     *)
(* interval; it is not ahead at all when a second preparation has been     *)
(* requested, whose failure may add up to an interval (LowStored).         *)
(***************************************************************************)
PassInv ==
  /\ pc = "send_post" => Going
  /\ pc \in {"init_RT", "retry_low", "retry_high"} => ~(Asked /\ Going)
  /\ pc = "prepare_done" /\ Asked => Age = 0 /\ busy = 0 /\ once

Preparing == pc \in {"prepare_open", "init_RT", "retry_low"}

AgeInv ==
  /\ pc \notin {"retry_high", "reset"} => Idle \/ Age <= busy + IntervSend
  /\ pc = "retry_high" /\ Going => Age <= busy + IntervSend
  /\ Going /\ (Asked \/ Preparing) /\ pc # "reset" => Age <= busy

\* Accumulator and duration are numbers.
LEMMA Counters ==
  ASSUME TypeOK
  PROVE  /\ Age \in Nat /\ busy \in Nat /\ gap \in Nat
         /\ status \in [Tasks -> {"STOP", "READY", "RUNNING"}]
BY Numbers DEF TypeOK, Age, Clocks

LEMMA PassStep ==
  ASSUME Proportions, TypeOK, PassInv, [Next]_vars
  PROVE  PassInv'
<1> USE DEF PassInv
<1>1. CASE Restart
  BY <1>1, AfterRestart
<1>2. CASE BootModem \/ BootSync \/ WdtBite \/ OtherInterrupt
  BY <1>2, OutsideLoop DEF SendPoints
<1>3. CASE Tick
  <2>1. /\ pc' \in {"reset", "test", pc} /\ ~once
        /\ pc \in SendPoints => (once' <=> pc \in {"prepare_done", "retry_high"})
        /\ (Going' <=> Going) /\ (~Going => busy' = 0)
        /\ \/ Age' = 0 /\ ~Going
           \/ (Asked' <=> Asked)
    BY <1>3, TickSend DEF Going, Asked
  <2> QED
    BY <2>1 DEF SendPoints
<1>4. CASE Loop /\ ~( \/ RunPrepare \/ PrepareOpen \/ PrepareDone \/ RunSend \/ SendPost
                      \/ InitAfterSend \/ RetryLow \/ RetryHigh )
  BY <1>4, OutsideSend DEF SendPoints
<1>5. CASE RunPrepare \/ PrepareOpen \/ PrepareDone
  BY <1>5, SendSteps DEF Asked, Going
<1>6. CASE RunSend \/ SendPost \/ InitAfterSend
  BY <1>6, SendSteps DEF Asked, Going
<1>7. CASE RetryLow
  BY <1>7, LowStored DEF Asked, Going
<1>8. CASE RetryHigh
  BY <1>8, HighStored
<1>9. CASE UNCHANGED vars
  BY <1>9 DEF vars, Age, Going, Asked
<1> QED
  BY <1>1, <1>2, <1>3, <1>4, <1>5, <1>6, <1>7, <1>8, <1>9 DEF Next, Main, Loop

LEMMA AgeStep ==
  ASSUME Proportions, TypeOK, ClockInv, TornInv, PassInv, AgeInv, [Next]_vars
  PROVE  AgeInv'
<1> USE DEF AgeInv, Preparing
<1>0. Age \in Nat /\ busy \in Nat /\ gap \in Nat /\ IntervSend \in Nat
  BY Counters, Numbers
<1>1. CASE Restart
  BY <1>1, AfterRestart DEF Idle, Going, SendPoints
<1>2. CASE BootModem \/ BootSync \/ WdtBite \/ OtherInterrupt
  BY <1>2, OutsideLoop DEF SendPoints, Age, Idle, Going, Asked
<1>3. CASE Tick
  <2>1. /\ pc' \in {"reset", "test", pc} /\ (pc' = "test" => pc \in {"asleep", "test"})
        /\ (Going' <=> Going) /\ pc # "reset"
        /\ busy' = IF Going THEN busy + gap ELSE 0
        /\ \/ Age' = 0 /\ ~Going
           \/ Age' = Sum /\ (Asked' <=> Asked) /\ (Going \/ Sum < IntervSend)
    BY <1>3, TickSend DEF Going, Asked
  <2>2. Sum \in Nat /\ Sum <= Age + gap
    BY <1>3, TickSum
  <2>3. CASE ~Going
    <3>1. Age' <= busy' + IntervSend /\ ~Going'
      BY <1>0, <2>1, <2>2, <2>3
    <3> QED
      BY <3>1
  <2>4. CASE Going
    <3>1. Age' <= Age + gap /\ busy' = busy + gap /\ Going' /\ (Asked' <=> Asked) /\ Age' \in Nat
      BY <2>1, <2>2, <2>4
    <3>2. ~Idle
      BY <2>4 DEF Idle
    <3>3. Age <= busy + IntervSend => Age' <= busy' + IntervSend
      BY <1>0, <3>1
    <3>4. Age <= busy => Age' <= busy'
      BY <1>0, <3>1
    <3> QED
      BY <2>1, <2>4, <3>1, <3>2, <3>3, <3>4
  <2> QED
    BY <2>3, <2>4
<1>4. CASE Loop /\ ~( \/ RunPrepare \/ PrepareOpen \/ PrepareDone \/ RunSend \/ SendPost
                      \/ InitAfterSend \/ RetryLow \/ RetryHigh )
  BY <1>4, OutsideSend DEF SendPoints, Age, Idle, Going, Asked
<1>5. CASE RunPrepare
  BY <1>5, SendSteps DEF SendPoints, Age, Idle, Going, Asked
<1>6. CASE PrepareOpen
  BY <1>6, SendSteps DEF SendPoints, Age, Idle, Going, Asked
<1>7. CASE PrepareDone
  <2>1. /\ pc = "prepare_done" /\ pc' = "send" /\ Age' = Age /\ busy' = busy
        /\ (Asked' <=> Asked) /\ Going'
    BY <1>7, SendSteps DEF Age, Going, Asked
  <2>2. Age <= busy + IntervSend
    BY <2>1 DEF Idle, SendPoints
  <2>3. Asked => Age <= busy
    BY <2>1 DEF PassInv
  <2> QED
    BY <2>1, <2>2, <2>3
<1>8. CASE RunSend
  BY <1>8, SendSteps DEF SendPoints, Age, Idle, Going, Asked
<1>9. CASE SendPost
  <2>1. /\ pc = "send_post" /\ pc' \in {"cmd", "init_RT"} /\ Age' = Age /\ busy' = busy
        /\ (Asked' <=> Asked) /\ Going /\ (Going' => pc' = "cmd")
    BY <1>9, SendSteps DEF Age, Going, Asked, PassInv
  <2>2. Age <= busy + IntervSend
    BY <2>1 DEF Idle
  <2> QED
    BY <2>1, <2>2
<1>10. CASE InitAfterSend
  BY <1>10, SendSteps DEF SendPoints, Age, Idle, Going, Asked
<1>11. CASE RetryLow
  <2>1. /\ Age' \in Nat /\ Age' <= Age + RetryAcc /\ busy' = busy /\ (Going' <=> Going)
        /\ pc = "retry_low" /\ pc' = "retry_high"
    BY <1>11, LowStored DEF Going
  <2>2. RetryAcc \in Nat /\ RetryAcc <= IntervSend
    BY RetryValue, Numbers
  <2>3. Going => Age <= busy /\ ~Asked
    BY <2>1 DEF PassInv
  <2>4. Going' => Age' <= busy' + IntervSend
    BY <1>0, <2>1, <2>2, <2>3
  <2>5. Asked' <=> Asked
    BY <1>11, LowStored DEF Asked
  <2> QED
    BY <2>1, <2>3, <2>4, <2>5
<1>12. CASE RetryHigh
  <2>1. /\ Age' = (RetryAcc - (RetryAcc % Chunk)) + (Age % Chunk) /\ Age % Chunk \in Nat
        /\ UNCHANGED << status, busy >> /\ pc = "retry_high" /\ pc' \in {"send", "cmd"}
    BY <1>12, HighStored
  <2>2. Age % Chunk <= (RetryAcc % Chunk) + WdtPeriod
    BY <2>1, Numbers, RetryValue DEF TornInv
  <2>3. RetryAcc = IntervSend - Retry /\ RetryAcc % Chunk \in Nat /\ WdtPeriod < Retry
    BY RetryValue DEF Proportions
  <2>4. Age' <= busy' + IntervSend
    <3> DEFINE r == RetryAcc % Chunk
               l == Age % Chunk
    <3>1. /\ Age' = (RetryAcc - r) + l /\ l \in Nat /\ r \in Nat /\ l <= r + WdtPeriod
          /\ RetryAcc = IntervSend - Retry /\ WdtPeriod < Retry /\ busy' = busy
      BY <2>1, <2>2, <2>3
    <3> HIDE DEF r, l
    <3> QED
      BY <1>0, <3>1, Numbers
  <2>5. ~(Asked' /\ Going')
    BY <2>1 DEF PassInv, Asked, Going
  <2> QED
    BY <2>1, <2>4, <2>5
<1>13. CASE UNCHANGED vars
  BY <1>13 DEF vars, Age, Idle, Going, Asked, SendPoints
<1> QED
  BY <1>1, <1>2, <1>3, <1>4, <1>5, <1>6, <1>7, <1>8, <1>9, <1>10, <1>11, <1>12, <1>13
     DEF Next, Main, Loop

\* datalogger_tick resets the MCU only when each tick of more than two send
\* intervals has found a transmission under way (datalogger.c:177), if the
\* clock is not set; no tick in between two stores of the accumulator, and no
\* transmission prepared twice, makes it reset a healthy system.
THEOREM ResetMeansHanged ==
  ASSUME ExactClock, Proportions
  PROVE  SafetySpec => ResetOnlyWhenHanged
<1>1. Init => ClockInv /\ TornInv /\ PassInv /\ AgeInv
  <2>1. ASSUME Init PROVE TornInv /\ PassInv /\ AgeInv
    BY <2>1 DEF Init, TornInv, PassInv, AgeInv, Idle, Going, SendPoints, Preparing, Tasks
  <2> QED
    BY <2>1, ClockInit
<1>2. TypeOK /\ (ClockInv /\ TornInv /\ PassInv /\ AgeInv) /\ [Next]_vars
        => (ClockInv /\ TornInv /\ PassInv /\ AgeInv)'
  BY ClockStep, TornStep, PassStep, AgeStep
<1>3. ASSUME TypeOK, ClockInv, AgeInv, Tick, pc' = "reset"
      PROVE  busy + gap > 2 * IntervSend
  <2>0. Age \in Nat /\ busy \in Nat /\ gap \in Nat /\ IntervSend \in Nat
    BY <1>3, Counters, Numbers
  <2>1. Age' > 3 * IntervSend /\ pc # "reset"
        /\ (Age' = 0 \/ (Age' = Sum /\ (Going \/ Sum < IntervSend)))
    BY <1>3, TickSend
  <2>2. Sum \in Nat /\ Sum <= Age + gap
    BY <1>3, TickSum
  <2>3. Going /\ Age' = Sum
    BY <2>0, <2>1, <2>2
  <2>4. Age <= busy + IntervSend
    BY <1>3, <2>1, <2>3 DEF AgeInv, Idle
  <2> QED
    BY <2>0, <2>1, <2>2, <2>3, <2>4
<1>4. TypeOK /\ ClockInv /\ AgeInv /\ [Next]_vars
        => [Tick /\ pc' = "reset" => busy + gap > 2 * IntervSend]_vars
  BY <1>3
<1> QED
  BY <1>1, <1>2, <1>4, TypesHold, PTL DEF SafetySpec, ResetOnlyWhenHanged

-----------------------------------------------------------------------------
(***************************************************************************)
(* The bound (TransmissionBounded).  The time for which a transmission has *)
(* been under way is ahead of the accumulator by at most three intervals,  *)
(* which a failed second preparation takes away from the accumulator; it   *)
(* is not ahead while that preparation is still to come.                   *)
(***************************************************************************)
DeferInv ==
  /\ Idle \/ gap < 2 * Timespan
  /\ status["sync"] = "READY" \/ pc \in {"sync_open", "sync_get"} => gap = Timespan
  /\ pc \in {"sync_open", "sync_get", "sync_close"} => status["sync"] = "RUNNING"

BusyInv ==
  /\ busy <= 2 * (3 * IntervSend + Timespan)
  /\ pc \notin {"retry_high", "reset"} => Idle \/ Age <= 3 * IntervSend
  /\ Going /\ pc \notin {"retry_high", "reset"} => busy <= 3 * IntervSend + Age
  /\ Going /\ pc = "retry_high" => busy <= 3 * IntervSend + (Age % Chunk)
  /\ Going /\ (Asked \/ Preparing) /\ pc # "reset" => busy <= Age
  /\ ~Going /\ (Asked \/ pc \in {"prepare_open", "prepare_done"}) /\ pc # "reset"
       => busy <= 3 * IntervSend

\* Only a tick ends the quiet time after a reset.
LEMMA IdleKept ==
  ASSUME TypeOK, Idle, Loop
  PROVE  Idle'
<1> USE DEF Idle, Going, SendPoints
<1>1. CASE ~( \/ RunPrepare \/ PrepareOpen \/ PrepareDone \/ RunSend \/ SendPost
              \/ InitAfterSend \/ RetryLow \/ RetryHigh )
  BY <1>1, OutsideSend
<1>2. CASE RunPrepare \/ PrepareOpen \/ PrepareDone \/ RunSend \/ SendPost \/ InitAfterSend
  BY <1>2, SendSteps DEF Asked
<1>3. CASE RetryLow \/ RetryHigh
  BY <1>3 DEF RetryLow, RetryHigh, Step
<1> QED
  BY <1>1, <1>2, <1>3

LEMMA DeferStep ==
  ASSUME TypeOK, DeferInv, [Next]_vars
  PROVE  DeferInv'
<1>0. /\ status \in [Tasks -> {"STOP", "READY", "RUNNING"}] /\ "sync" \in Tasks
      /\ gap \in Nat /\ Timespan \in Nat \ {0}
  BY Numbers DEF TypeOK, Tasks
<1> USE DEF DeferInv
<1>1. CASE Restart
  BY <1>1, AfterRestart DEF Idle, Going, SendPoints
<1>2. CASE BootModem \/ BootSync \/ WdtBite \/ OtherInterrupt
  <2>1. UNCHANGED << status, gap >> /\ pc' \notin SendPoints
    BY <1>2, OutsideLoop
  <2>2. pc' \notin {"sync_open", "sync_get", "sync_close"}
    BY <1>2 DEF BootModem, BootSync, WdtBite, OtherInterrupt, Attempt
  <2> QED
    BY <2>1, <2>2 DEF Idle, Going
<1>3. CASE Tick
  <2>1. gap' = Timespan /\ pc' \in {"reset", "test", pc}
    BY <1>3 DEF Tick
  <2>2. status'["sync"] = "RUNNING" \/ status["sync"] # "RUNNING"
    BY <1>3, <1>0 DEF Tick, Marked, FireSync, Fires
  <2> QED
    BY <1>0, <2>1, <2>2
<1>4. CASE Loop /\ (RunSync \/ SyncOpen)
  <2>1. gap' = gap
    BY <1>4 DEF RunSync, Dispatch, SyncOpen, aux
  <2>2. Idle => Idle'
    BY <1>4, IdleKept
  <2>3. status["sync"] = "READY" \/ pc \in {"sync_open", "sync_get"}
          \/ (status'["sync"] # "READY" /\ pc' \notin {"sync_open", "sync_get"})
    BY <1>0, <1>4 DEF RunSync, Dispatch, Set, SyncOpen
  <2>4. pc' \in {"sync_open", "sync_get", "sync_close"} => status'["sync"] = "RUNNING"
    BY <1>0, <1>4 DEF RunSync, Dispatch, Set, SyncOpen
  <2> QED
    BY <2>1, <2>2, <2>3, <2>4
<1>5. CASE Loop /\ SyncGet
  <2>1. gap = Timespan /\ status' = status /\ pc' = "sync_close" /\ status["sync"] = "RUNNING"
    BY <1>5 DEF SyncGet, Step
  <2>2. ASSUME NEW e \in 0..(gap - 1), NEW step \in ClockSteps, Rearm(e, step)
        PROVE  gap' < 2 * Timespan
    <3>1. gap' = e + Timespan /\ e <= Timespan - 1 /\ e \in Int
      BY <1>0, <2>1, <2>2 DEF Rearm
    <3> QED
      BY <1>0, <3>1
  <2>3. gap' < 2 * Timespan
    BY <1>0, <1>5, <2>1, <2>2 DEF SyncGet
  <2> QED
    BY <2>1, <2>3
<1>6. CASE Loop /\ SyncClose
  <2>1. gap' = gap /\ pc' = "store" /\ status'["sync"] = "STOP"
    BY <1>0, <1>6 DEF SyncClose, Step, Set
  <2>2. Idle => Idle'
    BY <1>6, IdleKept
  <2> QED
    BY <2>1, <2>2
<1>7. CASE Loop /\ ~(RunSync \/ SyncOpen \/ SyncGet \/ SyncClose)
  BY <1>7, OutsideSync, IdleKept
<1>8. CASE UNCHANGED vars
  BY <1>8 DEF vars, Idle, Going
<1> QED
  BY <1>1, <1>2, <1>3, <1>4, <1>5, <1>6, <1>7, <1>8 DEF Next, Main

LEMMA BusyStep ==
  ASSUME Proportions, NoCarry, TypeOK, ClockInv, TornInv, PassInv, DeferInv, BusyInv, [Next]_vars
  PROVE  BusyInv'
<1> USE DEF BusyInv, Preparing
<1>0. /\ Age \in Nat /\ busy \in Nat /\ gap \in Nat /\ IntervSend \in Nat
      /\ Timespan \in Nat \ {0}
  BY Counters, Numbers
<1>1. CASE Restart
  BY <1>0, <1>1, AfterRestart DEF Idle, Going, Asked, SendPoints
<1>2. CASE BootModem \/ BootSync \/ WdtBite \/ OtherInterrupt
  BY <1>2, OutsideLoop DEF SendPoints, Age, Idle, Going, Asked
<1>3. CASE Tick
  <2>1. /\ pc' \in {"reset", "test", pc} /\ (pc' = "test" => pc \in {"asleep", "test"})
        /\ (Going' <=> Going) /\ pc # "reset"
        /\ busy' = IF Going THEN busy + gap ELSE 0
        /\ \/ Age' = 0 /\ ~Going
           \/ Age' = Sum /\ (Asked' <=> Asked) /\ (Going \/ Sum < IntervSend)
        /\ pc' = "reset" <=> Age' > 3 * IntervSend
    BY <1>3, TickSend DEF Going, Asked
  <2>2. /\ Sum \in Nat /\ Sum <= Age + gap /\ gap <= WdtPeriod
        /\ Age + gap < Word => Sum = Age + gap
        /\ Sum % Chunk = ((Age % Chunk) + gap) % Chunk
    BY <1>3, TickSum
  <2>3. CASE ~Going
    <3>1. Age' <= 3 * IntervSend /\ ~Going' /\ busy' = 0
      BY <1>0, <2>1, <2>2, <2>3
    <3> QED
      BY <1>0, <3>1
  <2>4. CASE Going
    <3>1. /\ Age' = Sum /\ busy' = busy + gap /\ Going' /\ (Asked' <=> Asked) /\ ~Idle
          /\ gap < 2 * Timespan
      BY <2>1, <2>4 DEF Idle, DeferInv
    <3>2. CASE pc # "retry_high"
      <4>1. Age <= 3 * IntervSend /\ busy <= 3 * IntervSend + Age
        BY <2>1, <2>4, <3>1, <3>2
      <4>2. Age' = Age + gap
        BY <1>0, <2>2, <3>1, <4>1, Numbers DEF Proportions
      <4>3. /\ busy' <= 2 * (3 * IntervSend + Timespan)
            /\ busy' <= 3 * IntervSend + Age'
            /\ busy <= Age => busy' <= Age'
        BY <1>0, <3>1, <4>1, <4>2
      <4>4. pc' # "reset" => Age' <= 3 * IntervSend
        BY <1>0, <2>1, <4>2
      <4>5. pc' # "retry_high"
        BY <2>1, <3>2
      <4> QED
        BY <2>1, <2>4, <3>1, <4>3, <4>4, <4>5
    <3>3. CASE pc = "retry_high"
      <4> DEFINE r == RetryAcc % Chunk
                 l == Age' % Chunk
      <4>1. ~once /\ ~Asked /\ pc' \in {"retry_high", "reset"}
        BY <1>3, <2>1, <2>4, <3>3, TickSend DEF PassInv
      <4>2. Age % Chunk = r
        BY <3>3, <4>1 DEF TornInv
      <4>3. r \in Nat /\ r <= IntervSend /\ r + gap \in 0..(Chunk - 1)
        BY <1>0, <2>2, RetryValue, Numbers DEF NoCarry
      <4>4. l = r + gap
        <5>1. (r + gap) % Chunk = r + gap
          BY <4>3, Numbers, ModSmall
        <5> QED
          BY <2>2, <3>1, <4>2, <5>1
      <4>5. busy <= 3 * IntervSend + r
        BY <2>4, <3>3, <4>2
      <4> HIDE DEF r, l
      <4>6. busy' <= 2 * (3 * IntervSend + Timespan) /\ busy' <= 3 * IntervSend + l
        BY <1>0, <3>1, <4>3, <4>4, <4>5
      <4> QED
        BY <3>1, <4>1, <4>6 DEF l
    <3> QED
      BY <3>2, <3>3
  <2> QED
    BY <2>3, <2>4
<1>4. CASE Loop /\ ~( \/ RunPrepare \/ PrepareOpen \/ PrepareDone \/ RunSend \/ SendPost
                      \/ InitAfterSend \/ RetryLow \/ RetryHigh )
  BY <1>4, OutsideSend DEF SendPoints, Age, Idle, Going, Asked
<1>5. CASE RunPrepare
  BY <1>5, SendSteps DEF SendPoints, Age, Idle, Going, Asked
<1>6. CASE PrepareOpen
  BY <1>6, SendSteps DEF SendPoints, Age, Idle, Going, Asked
<1>7. CASE PrepareDone
  <2>1. /\ pc = "prepare_done" /\ pc' = "send" /\ Age' = Age /\ busy' = busy
        /\ (Asked' <=> Asked) /\ Going'
    BY <1>7, SendSteps DEF Age, Going, Asked
  <2>2. Age <= 3 * IntervSend
    BY <2>1 DEF Idle, SendPoints
  <2>3. Asked => busy <= Age
    BY <1>0, <2>1 DEF PassInv
  <2>4. busy <= 3 * IntervSend + Age
    BY <1>0, <2>1
  <2> QED
    BY <2>1, <2>2, <2>3, <2>4
<1>8. CASE RunSend
  BY <1>8, SendSteps DEF SendPoints, Age, Idle, Going, Asked
<1>9. CASE SendPost
  <2>1. /\ pc = "send_post" /\ pc' \in {"cmd", "init_RT"} /\ Age' = Age /\ busy' = busy
        /\ (Asked' <=> Asked) /\ Going /\ (Going' => pc' = "cmd")
    BY <1>9, SendSteps DEF Age, Going, Asked, PassInv
  <2>2. Age <= 3 * IntervSend
    BY <2>1 DEF Idle
  <2>3. Asked => busy <= Age /\ busy <= 3 * IntervSend
    BY <1>0, <2>1, <2>2
  <2> QED
    BY <2>1, <2>2, <2>3
<1>10. CASE InitAfterSend
  BY <1>10, SendSteps DEF SendPoints, Age, Idle, Going, Asked
<1>11. CASE RetryLow
  <2>1. /\ Age' % Chunk = RetryAcc % Chunk /\ busy' = busy /\ (Going' <=> Going)
        /\ (Asked' <=> Asked) /\ pc = "retry_low" /\ pc' = "retry_high"
    BY <1>11, LowStored DEF Going, Asked
  <2>2. RetryAcc % Chunk \in Nat
    BY RetryValue
  <2>3. Going => Age <= 3 * IntervSend /\ busy <= Age /\ ~Asked
    BY <2>1 DEF PassInv, Idle
  <2>4. Going' => busy' <= 3 * IntervSend + (Age' % Chunk)
    <3> DEFINE l == Age' % Chunk
    <3>1. l \in Nat
      BY <2>1, <2>2
    <3> HIDE DEF l
    <3>2. Going' => busy' <= 3 * IntervSend + l
      BY <1>0, <2>1, <2>3, <3>1
    <3> QED
      BY <3>2 DEF l
  <2> QED
    BY <2>1, <2>3, <2>4
<1>12. CASE RetryHigh
  <2> DEFINE r == RetryAcc % Chunk
             l == Age % Chunk
  <2>1. /\ Age' = (RetryAcc - r) + l /\ l \in Nat
        /\ UNCHANGED << status, busy >> /\ pc = "retry_high" /\ pc' \in {"send", "cmd"}
    BY <1>12, HighStored
  <2>2. l <= r + WdtPeriod
    BY <2>1, Numbers, RetryValue DEF TornInv
  <2>3. /\ RetryAcc = IntervSend - Retry /\ r \in Nat /\ r <= RetryAcc /\ WdtPeriod < Retry
        /\ Retry \in Nat /\ WdtPeriod \in Nat
    BY RetryValue, Numbers DEF Proportions
  <2>4. Going => busy <= 3 * IntervSend + l
    BY <2>1
  <2>5. ~(Asked /\ Going) /\ (Going' <=> Going) /\ (Asked' <=> Asked)
    BY <2>1 DEF PassInv, Asked, Going
  <2> HIDE DEF r, l
  <2>6. Age' <= 3 * IntervSend
    BY <1>0, <2>1, <2>2, <2>3
  <2>7. Going' => busy' <= 3 * IntervSend + Age'
    BY <1>0, <2>1, <2>3, <2>4, <2>5
  <2> QED
    BY <2>1, <2>5, <2>6, <2>7
<1>13. CASE UNCHANGED vars
  BY <1>13 DEF vars, Age, Idle, Going, Asked, SendPoints
<1> QED
  BY <1>1, <1>2, <1>3, <1>4, <1>5, <1>6, <1>7, <1>8, <1>9, <1>10, <1>11, <1>12, <1>13
     DEF Next, Main, Loop

\* No tick finds a transmission under way for longer than three send intervals,
\* or twice that when a second preparation falls into it (datalogger.c:172), if
\* the clock is not set and the tick between the two stores of the retry does
\* not carry.
THEOREM TransmissionsEnd ==
  ASSUME ExactClock, Proportions, NoCarry
  PROVE  SafetySpec => []TransmissionBounded
<1>1. Init => ClockInv /\ TornInv /\ PassInv /\ DeferInv /\ BusyInv
  <2>1. ASSUME Init PROVE TornInv /\ PassInv /\ DeferInv /\ BusyInv
    BY <2>1, Numbers DEF Init, TornInv, PassInv, DeferInv, BusyInv, Idle, Going, Asked,
                         SendPoints, Preparing, Tasks
  <2> QED
    BY <2>1, ClockInit
<1>2. TypeOK /\ (ClockInv /\ TornInv /\ PassInv /\ DeferInv /\ BusyInv) /\ [Next]_vars
        => (ClockInv /\ TornInv /\ PassInv /\ DeferInv /\ BusyInv)'
  BY ClockStep, TornStep, PassStep, DeferStep, BusyStep
<1>3. BusyInv => TransmissionBounded
  BY DEF BusyInv, TransmissionBounded
<1> QED
  BY <1>1, <1>2, <1>3, TypesHold, PTL DEF SafetySpec
=============================================================================
