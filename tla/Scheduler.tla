------------------------------ MODULE Scheduler ------------------------------
(***************************************************************************)
(* The task scheduler of the data logger (faia/services/datalogger):       *)
(*   - the RTC alarm interrupt datalogger_tick, which accumulates elapsed  *)
(*     seconds and marks tasks READY;                                      *)
(*   - the super-loop datalogger_run, which serves READY tasks one after   *)
(*     the other and then sleeps until the next interrupt;                 *)
(*   - the boot sequence of datalogger_init, the hardware watchdog and the *)
(*     software reset.                                                     *)
(* The two actors share the task status bytes, the accumulators and the    *)
(* snapshot buffer without a lock, and a tick may fall between any two     *)
(* steps of the loop.                                                      *)
(***************************************************************************)
EXTENDS Integers

CONSTANTS
  Word,          \* number of values of a uint32_t
  Chunk,         \* number of values of the part of it that is stored first
  Timespan,      \* g_timespan: seconds between two ticks
  FirstAlarm,    \* datalogger_init arms the first alarm this far ahead
  IntervSync,    \* g_interv_task_sync
  IntervStore,   \* g_interv_task_store
  IntervSend,    \* g_interv_task_send_RT
  AccSend0,      \* initial value of g_acc_task_send_RT
  Retry,         \* a failed send is scheduled again after this many seconds
  SnapshotSize,  \* SNAPSHOT_SIZE
  MaxTries,      \* boot attempt that resets the MCU instead
  WdtPeriod,     \* hardware watchdog period in seconds
  MaxPosts,      \* bound: HTTP posts one transmission pass may need
  ClockSteps,    \* bound: corrections (server time - local time) of a sync
  DateRequests   \* may the server ask for a date range?

ASSUME ConstantsAssumption ==
  /\ Word \in Nat \ {0} /\ Chunk \in Nat \ {0} /\ Word % Chunk = 0
  /\ Timespan \in Nat \ {0} /\ FirstAlarm \in 1..(Word - 1)
  /\ IntervSync \in 0..(Word - 1) /\ IntervStore \in 0..(Word - 1)
  /\ IntervSend \in 0..(Word - 1) /\ AccSend0 \in 0..(Word - 1)
  /\ Retry \in Nat
  /\ SnapshotSize \in Nat /\ SnapshotSize >= 2
  /\ MaxTries \in Nat \ {0} /\ WdtPeriod \in Nat
  /\ MaxPosts \in Nat /\ ClockSteps \subseteq Int
  /\ DateRequests \in BOOLEAN

Tasks == {"sync", "store", "prepare_RT", "send_RT", "cmd_check", "send_data"}
Passes == {"send_RT", "send_data"}
Clocks == {"sync", "store", "send_RT"}

\* Program points of the main program.
Points ==
  { "reset", "boot_modem", "boot_sync",
    "sync", "sync_open", "sync_get", "sync_close",
    "store", "store_write", "store_clear", "store_stop",
    "prepare", "prepare_open", "prepare_done",
    "send", "send_post", "cmd", "cmd_open", "cmd_get", "data", "data_post",
    "init_RT", "retry_low", "retry_high", "init_data",
    "check", "lock", "test", "doze", "asleep" }

VARIABLES
  pc,            \* where the main program is
  ret,           \* where it goes on once the failure at hand is rescheduled
  tries,         \* ii: boot attempts made so far
  lock,          \* dl_cycle_lock
  status,        \* the task_status_... bytes
  acc,           \* the g_acc_task_... accumulators
  due,           \* (alarm time - g_timePrev) mod Word: deltaT of the next tick
  snapshot_num,  \* g_data_snapshot_num
  idx,           \* local idx of dl_task_store_data
  posts,         \* HTTP posts each transmission pass still needs
  bearer,        \* is the GPRS bearer open?
  once           \* a tick already fell into the current short stretch

\* Auxiliary variables: they record history and never influence the program.
VARIABLES
  gap,           \* seconds from the last wdt_reset() to the next tick
  pending,       \* snapshots taken and not yet written to the log
  busy,          \* seconds since the tick last saw task_status_send_data_RT = STOP
  waiting,       \* seconds since a failed send was rescheduled, -1: none is,
                 \* or another one is requested or under way
  closer         \* who closed the bearer since it was last opened, if anyone

aux == << gap, pending, busy, waiting, closer >>
vars == << pc, ret, tries, lock, status, acc, due, snapshot_num, idx, posts,
           bearer, once, gap, pending, busy, waiting, closer >>

TypeOK ==
  /\ pc \in Points /\ ret \in {"send", "cmd"}
  /\ tries \in Nat
  /\ lock \in BOOLEAN
  /\ status \in [Tasks -> {"STOP", "READY", "RUNNING"}]
  /\ acc \in [Clocks -> 0..(Word - 1)]
  /\ due \in 0..(Word - 1)
  /\ snapshot_num \in 0..(SnapshotSize - 1)
  /\ idx \in 0..(SnapshotSize - 1)
  /\ posts \in [Passes -> 0..MaxPosts]
  /\ bearer \in BOOLEAN /\ once \in BOOLEAN
  /\ gap \in Nat /\ pending \in Int /\ busy \in Nat
  /\ waiting \in Nat \cup {-1}
  /\ closer \in {"none", "init", "sync", "send_RT", "send_data"}

\* Stretches of a few instructions, far shorter than the time between two
\* ticks: at most one tick falls into each.
Short == {"prepare_done", "retry_high", "lock", "test", "doze"}

AtBoot == pc \in {"reset", "boot_modem", "boot_sync"}

Init ==
  /\ pc = "boot_modem" /\ ret = "send" /\ tries = 0
  /\ lock = TRUE
  /\ status = [t \in Tasks |-> "STOP"]
  /\ acc = [c \in Clocks |-> IF c = "send_RT" THEN AccSend0 ELSE 0]
  /\ due = FirstAlarm
  /\ snapshot_num = 0 /\ idx = 0
  /\ posts = [p \in Passes |-> 0]
  /\ bearer = FALSE /\ once = FALSE
  /\ gap = FirstAlarm /\ pending = 0 /\ busy = 0 /\ waiting = -1
  /\ closer = "none"

(***************************************************************************)
(* Reset and boot.  The RAM is initialised anew; the modem and the time    *)
(* service are tried MaxTries - 1 times each, then the MCU is reset again. *)
(* No tick happens before the callback is installed.                       *)
(***************************************************************************)
Restart ==
  /\ pc = "reset"
  /\ pc' = "boot_modem" /\ ret' = "send" /\ tries' = 0
  /\ lock' = TRUE
  /\ status' = [t \in Tasks |-> "STOP"]
  /\ acc' = [c \in Clocks |-> IF c = "send_RT" THEN AccSend0 ELSE 0]
  /\ due' = FirstAlarm
  /\ snapshot_num' = 0 /\ idx' = 0
  /\ posts' = [p \in Passes |-> 0]
  /\ bearer' = FALSE /\ once' = FALSE
  /\ gap' = FirstAlarm /\ pending' = 0 /\ busy' = 0 /\ waiting' = -1
  /\ closer' = "none"

Attempt(here, there) ==
  /\ pc = here
  /\ IF tries + 1 = MaxTries
     THEN pc' = "reset" /\ tries' = tries + 1
     ELSE \/ pc' = here /\ tries' = tries + 1     \* it failed
          \/ pc' = there /\ tries' = 0            \* it succeeded
  /\ UNCHANGED << ret, lock, status, acc, due, snapshot_num, idx, posts,
                  bearer, once, aux >>

BootModem == Attempt("boot_modem", "boot_sync")
BootSync == Attempt("boot_sync", "sync")   \* then arms FirstAlarm: see Init

(***************************************************************************)
(* datalogger_tick.  All of it runs at one interrupt level, so it is one   *)
(* step for the main program.  The subtraction that yields deltaT and the  *)
(* additions wrap at Word.                                                 *)
(***************************************************************************)
Elapse(c) == (acc[c] + due) % Word

Fires(t, c, interval) == status[t] = "STOP" /\ Elapse(c) >= interval

FireSync == Fires("sync", "sync", IntervSync)
FireStoreAnyway == Elapse("store") >= IntervStore   \* mutant: no TASK_STOP guard
FireStore == Fires("store", "store", IntervStore)
FireSendAnyway == Elapse("send_RT") >= IntervSend   \* mutant: no TASK_STOP guard
FireSend == Fires("send_RT", "send_RT", IntervSend)

\* mutant: g_acc_task_send_RT is not zeroed when it fires
AccumulateOn ==
  [c \in Clocks |->
     IF (c = "sync" /\ FireSync) \/ (c = "store" /\ FireStore) THEN 0 ELSE Elapse(c)]

Accumulate ==
  [c \in Clocks |->
     IF \/ c = "sync" /\ FireSync
        \/ c = "store" /\ FireStore
        \/ c = "send_RT" /\ FireSend
     THEN 0 ELSE Elapse(c)]

Marked ==
  [t \in Tasks |->
     IF \/ t = "sync" /\ FireSync
        \/ t = "store" /\ FireStore
        \/ t = "prepare_RT" /\ FireSend
     THEN "READY" ELSE status[t]]

\* datalogger_snapshot_data: a full buffer keeps reusing its last slot.
SnapshotTaken ==
  IF snapshot_num + 1 = SnapshotSize THEN SnapshotSize - 1 ELSE snapshot_num + 1

\* The loop looked for READY tasks and is on its way to sleep.

Hanged == Accumulate["send_RT"] > (3 * IntervSend) % Word

Tick ==
  /\ ~AtBoot /\ ~once
  /\ gap <= WdtPeriod
  /\ once' = (pc \in Short \cup {"asleep"})
  /\ lock' = FALSE
  /\ due' = Timespan % Word
  /\ acc' = Accumulate
  /\ status' = Marked
  /\ IF FireStore
     THEN snapshot_num' = SnapshotTaken /\ pending' = pending + 1
     ELSE UNCHANGED << snapshot_num, pending >>
  /\ pc' = IF Hanged THEN "reset" ELSE IF pc = "asleep" THEN "test" ELSE pc
  /\ gap' = Timespan
  /\ busy' = IF status["send_RT"] = "STOP" THEN 0 ELSE busy + gap
  /\ waiting' = IF waiting = -1 \/ FireSend \/ status["send_RT"] # "STOP"
                THEN -1 ELSE waiting + gap
  /\ UNCHANGED << ret, tries, idx, posts, bearer, closer >>

\* The watchdog bites when no tick fed it for WdtPeriod seconds (at equality
\* either may come first).
WdtBite ==
  /\ ~AtBoot /\ gap >= WdtPeriod
  /\ pc' = "reset"
  /\ UNCHANGED << ret, tries, lock, status, acc, due, snapshot_num, idx, posts,
                  bearer, once, aux >>

\* Any other interrupt (USART, rain gauge, USB) also ends the sleep.
OtherInterrupt ==
  /\ pc = "asleep" /\ pc' = "test"
  /\ UNCHANGED << ret, tries, lock, status, acc, due, snapshot_num, idx, posts,
                  bearer, once, aux >>

(***************************************************************************)
(* datalogger_run.                                                         *)
(***************************************************************************)
Step(from, to) == pc = from /\ pc' = to

Set(t, s) == status' = [status EXCEPT ![t] = s]

\* if (task_status_t == TASK_READY) run the task, which marks itself RUNNING
Dispatch(t, here, run, next) ==
  /\ pc = here
  /\ IF status[t] = "READY"
     THEN pc' = run /\ Set(t, "RUNNING")
     ELSE pc' = next /\ UNCHANGED status
  /\ UNCHANGED << ret, tries, lock, acc, due, snapshot_num, posts, bearer, aux >>

\* sim900_GPRS_simple_open()
Open == bearer' = TRUE /\ closer' = "none"

\* sim900_GPRS_simple_close(): its result is ignored everywhere.
Close(who) ==
  \/ bearer' = FALSE /\ closer' = who
  \/ UNCHANGED << bearer, closer >>

RunSync == Dispatch("sync", "sync", "sync_open", "store") /\ UNCHANGED idx

SyncOpen ==
  /\ pc = "sync_open"
  /\ \/ pc' = "sync_get" /\ Open
     \/ pc' = "sync_close" /\ UNCHANGED << bearer, closer >>
  /\ UNCHANGED << ret, tries, lock, status, acc, due, snapshot_num, idx, posts,
                  gap, pending, busy, waiting >>

\* mutant: the clock is set but the alarm stays where it was
RearmForgotten(e, step) == UNCHANGED due /\ gap' = gap - step

\* rtc_set_time(t) with t = local time + step; rtc_set_alarm_relative(g_timespan)
Rearm(e, step) ==
  /\ due' = (due - gap + e + step + Timespan) % Word
  /\ gap' = e + Timespan

\* The request fails, or sets the clock e seconds after the last tick and
\* arms the alarm Timespan seconds after the new time.
SyncGet ==
  /\ Step("sync_get", "sync_close")
  /\ \/ UNCHANGED << due, gap >>
     \/ \E e \in 0..(gap - 1), step \in ClockSteps : Rearm(e, step)
  /\ UNCHANGED << ret, tries, lock, status, acc, snapshot_num, idx, posts, bearer,
                  pending, busy, waiting, closer >>

SyncClose ==
  /\ Step("sync_close", "store")
  /\ Close("sync") /\ Set("sync", "STOP")
  /\ UNCHANGED << ret, tries, lock, acc, due, snapshot_num, idx, posts,
                  gap, pending, busy, waiting >>

\* mutant: tests the status byte of another task
RunStoreOther ==
  /\ Dispatch("send_data", "store", "store_write", "prepare")
  /\ idx' = IF status["store"] = "READY" THEN snapshot_num ELSE idx

RunStore ==
  /\ Dispatch("store", "store", "store_write", "prepare")
  /\ idx' = IF status["store"] = "READY" THEN snapshot_num ELSE idx

\* while(idx!=0): the items go to the log, the newest first
StoreWrite ==
  /\ pc = "store_write"
  /\ IF idx # 0
     THEN idx' = idx - 1 /\ pending' = pending - 1 /\ UNCHANGED pc
     ELSE pc' = "store_clear" /\ UNCHANGED << idx, pending >>
  /\ UNCHANGED << ret, tries, lock, status, acc, due, snapshot_num, posts, bearer,
                  gap, busy, waiting, closer >>

StoreClear ==
  /\ Step("store_clear", "store_stop")
  /\ snapshot_num' = 0
  /\ UNCHANGED << ret, tries, lock, status, acc, due, idx, posts, bearer, aux >>

\* mutant: the task stays RUNNING
StoreStopForgotten ==
  /\ Step("store_stop", "prepare")
  /\ UNCHANGED << ret, tries, lock, status, acc, due, snapshot_num, idx, posts, bearer, aux >>

StoreStop ==
  /\ Step("store_stop", "prepare")
  /\ Set("store", "STOP")
  /\ UNCHANGED << ret, tries, lock, acc, due, snapshot_num, idx, posts, bearer, aux >>

RunPrepare ==
  Dispatch("prepare_RT", "prepare", "prepare_open", "send") /\ UNCHANGED idx

\* dl_task_cmd_check_prepare: an empty log needs no bearer, otherwise the
\* bearer is opened; then the pass starts at the end of the log.
PrepareOpen ==
  /\ pc = "prepare_open"
  /\ Set("prepare_RT", "STOP")
  /\ \/ /\ pc' = "prepare_done"
        /\ \/ posts' = [posts EXCEPT !["send_RT"] = 0] /\ UNCHANGED << bearer, closer >>
           \/ /\ Open
              /\ \E n \in 0..MaxPosts : posts' = [posts EXCEPT !["send_RT"] = n]
        /\ UNCHANGED ret
     \/ /\ pc' = "init_RT" /\ ret' = "send"
        /\ UNCHANGED << posts, bearer, closer >>
  /\ UNCHANGED << tries, lock, acc, due, snapshot_num, idx,
                  gap, pending, busy, waiting >>

PrepareDone ==
  /\ Step("prepare_done", "send")
  /\ Set("send_RT", "READY")
  /\ UNCHANGED << ret, tries, lock, acc, due, snapshot_num, idx, posts, bearer, aux >>

RunSend == Dispatch("send_RT", "send", "send_post", "cmd") /\ UNCHANGED idx

\* dl_task_send_data_RT around one call of send_data_with_post.  A post needs
\* an open bearer.  With more to send the task stays READY (99); otherwise the
\* bearer is closed, whatever the outcome.
\* mutant: the bearer is closed after every post
PostMoreCloses(p) ==
  /\ posts[p] > 1 /\ bearer
  /\ posts' = [posts EXCEPT ![p] = @ - 1]
  /\ Close(p)

PostMore(p) ==
  /\ posts[p] > 1 /\ bearer
  /\ posts' = [posts EXCEPT ![p] = @ - 1]
  /\ UNCHANGED << bearer, closer >>

PostLast(p) ==
  /\ posts[p] = 0 \/ (posts[p] = 1 /\ bearer)
  /\ posts' = [posts EXCEPT ![p] = 0]
  /\ Close(p)

PostFails(p) ==
  /\ posts[p] > 0
  /\ posts' = [posts EXCEPT ![p] = 0]      \* the pass is given up
  /\ Close(p)

SendPost ==
  /\ pc = "send_post"
  /\ \/ PostMore("send_RT") /\ Set("send_RT", "READY")
        /\ pc' = "cmd" /\ UNCHANGED ret
     \/ /\ status' = [status EXCEPT !["send_RT"] = "STOP", !["cmd_check"] = "READY"]
        /\ \/ PostLast("send_RT") /\ pc' = "cmd" /\ UNCHANGED ret
           \/ PostFails("send_RT") /\ pc' = "init_RT" /\ ret' = "cmd"
  /\ UNCHANGED << tries, lock, acc, due, snapshot_num, idx,
                  gap, pending, busy, waiting >>

(***************************************************************************)
(* A failed preparation or transmission: power-cycle the modem, then       *)
(*     g_acc_task_send_RT = g_interv_task_send_RT - 30;                    *)
(* The store of a uint32_t takes several instructions, the low bytes       *)
(* first, and the tick may come in between.                                *)
(***************************************************************************)
InitAfterSend ==
  /\ Step("init_RT", "retry_low")
  /\ bearer' = FALSE /\ closer' = "init"
  /\ UNCHANGED << ret, tries, lock, status, acc, due, snapshot_num, idx, posts,
                  gap, pending, busy, waiting >>

RetryAccZero == 0                            \* mutant: a whole interval again
RetryAcc == (IntervSend - Retry) % Word

RetryLow ==
  /\ Step("retry_low", "retry_high")
  /\ acc' = [acc EXCEPT !["send_RT"] = (@ - (@ % Chunk)) + (RetryAcc % Chunk)]
  /\ waiting' = IF status["prepare_RT"] = "READY" \/ status["send_RT"] # "STOP"
                THEN -1 ELSE 0
  /\ UNCHANGED << ret, tries, lock, status, due, snapshot_num, idx, posts, bearer,
                  gap, pending, busy, closer >>

RetryHigh ==
  /\ pc = "retry_high" /\ pc' = ret /\ ret' = "send"
  /\ acc' = [acc EXCEPT !["send_RT"] = (RetryAcc - (RetryAcc % Chunk)) + (@ % Chunk)]
  /\ UNCHANGED << tries, lock, status, due, snapshot_num, idx, posts, bearer, aux >>

RunCmd == Dispatch("cmd_check", "cmd", "cmd_open", "data") /\ UNCHANGED idx

CmdOpen ==
  /\ pc = "cmd_open"
  /\ \/ pc' = "cmd_get" /\ UNCHANGED status
        /\ (Open \/ UNCHANGED << bearer, closer >>)
     \/ pc' = "data" /\ Set("cmd_check", "STOP") /\ UNCHANGED << bearer, closer >>
  /\ UNCHANGED << ret, tries, lock, acc, due, snapshot_num, idx, posts,
                  gap, pending, busy, waiting >>

\* The bearer stays open.  A date range that is found starts another pass.
CmdGet ==
  /\ Step("cmd_get", "data")
  /\ \/ Set("cmd_check", "STOP") /\ UNCHANGED posts
     \/ /\ DateRequests /\ bearer
        /\ \E n \in 0..MaxPosts : posts' = [posts EXCEPT !["send_data"] = n]
        /\ status' = [status EXCEPT !["cmd_check"] = "STOP", !["send_data"] = "READY"]
  /\ UNCHANGED << ret, tries, lock, acc, due, snapshot_num, idx, bearer, aux >>

RunData == Dispatch("send_data", "data", "data_post", "check") /\ UNCHANGED idx

DataPost ==
  /\ pc = "data_post"
  /\ \/ PostMore("send_data") /\ Set("send_data", "READY") /\ pc' = "check"
     \/ /\ Set("send_data", "STOP")
        /\ \/ PostLast("send_data") /\ pc' = "check"
           \/ PostFails("send_data") /\ pc' = "init_data"
  /\ UNCHANGED << ret, tries, lock, acc, due, snapshot_num, idx,
                  gap, pending, busy, waiting >>

InitAfterData ==
  /\ Step("init_data", "check")
  /\ bearer' = FALSE /\ closer' = "init"
  /\ Set("send_data", "STOP")
  /\ UNCHANGED << ret, tries, lock, acc, due, snapshot_num, idx, posts,
                  gap, pending, busy, waiting >>

\* The four reads count as one step: the tick only ever turns STOP into READY.
Check ==
  /\ pc = "check"
  /\ pc' = IF \E t \in {"send_RT", "store", "send_data", "sync"} : status[t] = "READY"
           THEN "sync" ELSE "lock"
  /\ UNCHANGED << ret, tries, lock, status, acc, due, snapshot_num, idx, posts,
                  bearer, aux >>

Lock ==
  /\ Step("lock", "test")
  /\ lock' = TRUE
  /\ UNCHANGED << ret, tries, status, acc, due, snapshot_num, idx, posts, bearer, aux >>

\* while(dl_cycle_lock) sleepmgr_enter_sleep(); interrupts are still enabled
\* between the test of the flag and the disabling of interrupts before sleep.
Test ==
  /\ pc = "test" /\ pc' = IF lock THEN "doze" ELSE "sync"
  /\ UNCHANGED << ret, tries, lock, status, acc, due, snapshot_num, idx, posts,
                  bearer, aux >>

Sleep ==
  /\ Step("doze", "asleep")
  /\ UNCHANGED << ret, tries, lock, status, acc, due, snapshot_num, idx, posts,
                  bearer, aux >>

Loop ==
  /\ \/ RunSync \/ SyncOpen \/ SyncGet \/ SyncClose
     \/ RunStore \/ StoreWrite \/ StoreClear \/ StoreStop
     \/ RunPrepare \/ PrepareOpen \/ PrepareDone
     \/ RunSend \/ SendPost \/ InitAfterSend \/ RetryLow \/ RetryHigh
     \/ RunCmd \/ CmdOpen \/ CmdGet
     \/ RunData \/ DataPost \/ InitAfterData
     \/ Check \/ Lock \/ Test \/ Sleep
  /\ once' = (once /\ pc' \in Short)

Main == Restart \/ BootModem \/ BootSync \/ Loop

Next == Main \/ Tick \/ WdtBite \/ OtherInterrupt

SafetySpec == Init /\ [][Next]_vars

\* The RTC runs from its own oscillator: the tick or the watchdog comes.  The
\* main program runs whenever no interrupt does.
Spec == SafetySpec /\ WF_vars(Tick \/ WdtBite) /\ WF_vars(Main)

(***************************************************************************)
(* Properties.                                                             *)
(***************************************************************************)
\* The snapshot buffer never holds more than one item, as dl_task_store_data
\* assumes when it gives every item the same battery voltage.
SnapshotAtMostOne == snapshot_num <= 1

\* Whenever dl_task_store_data has emptied the buffer, every snapshot that the
\* tick took is in the log: no tick puts an item between the last write and
\* the assignment that empties the buffer.
NoSnapshotLost == snapshot_num = 0 => pending = 0

\* A failed transmission is scheduled again within Retry seconds, counted by
\* the ticks (datalogger.c:1524), although tick and loop both write the
\* accumulator.
RetrySoon == waiting < Retry

\* The tick resets the MCU only if, for more than two whole send intervals, it
\* has found a transmission under way each time.
ResetOnlyWhenHanged ==
  [][Tick /\ pc' = "reset" => busy + gap > 2 * IntervSend]_vars

\* A transmission pass that still has records to post finds its bearer open,
\* unless between two of its iterations a clock synchronisation or a date-range
\* transmission closed it, or the modem was power-cycled because a second
\* preparation, requested in the window after the first, failed.
BearerHeld ==
  pc = "send_post" /\ posts["send_RT"] > 0 /\ ~bearer
    => closer \in {"sync", "send_data", "init"}

\* The hardware watchdog is fed in time, although each synchronisation defers
\* the next tick.
WatchdogFed == gap <= WdtPeriod

\* The clock is synchronised, snapshots are stored and transmissions are
\* prepared again and again, unless the system is rebooting.
ServesEveryTask ==
  \A p \in {"sync_open", "store_write", "prepare_open"} : []<>(pc = p \/ AtBoot)

\* Each snapshot reaches the log, unless the system is reset.
SnapshotsReachLog == pending > 0 ~> (pending = 0 \/ AtBoot)

\* A transmission that does not come back is ended by a reset of the MCU: no
\* tick finds one under way for longer than three send intervals, or twice that
\* when a preparation requested during the window after the first one starts
\* another transmission before a tick sees the end of this one.
TransmissionBounded == busy <= 2 * (3 * IntervSend + Timespan)
=============================================================================
