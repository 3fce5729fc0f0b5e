# Faia / Acroboard station: a TLA+ development

Faia is the firmware of a solar-powered rain station: an ATxmega reads a
tipping-bucket rain gauge, keeps records in a serial EEPROM and posts them to a
server through a SIM900 GPRS modem.  This directory holds TLA+ models of its
own logic, TLC configurations that check them, and proofs for TLAPS.  The paths
below are relative to `AcroboardStation_v01/` in the repository; plain line
numbers are those of `faia/services/datalogger/datalogger.c`.

## 1. Inventory

| component | code | state | operations |
|---|---|---|---|
| Task scheduler | `datalogger.c` 134-188, 452-658, 1012-1063, 1494-1558 | task status bytes, three accumulators, `g_timePrev`, `dl_cycle_lock`, snapshot counter, alarm | tick interrupt, super-loop, six tasks, boot, watchdog, software reset |
| Record log | 297-528, 725-791, 919-941, 1066-1377, 1415-1492 | EEPROM ring, iterators BEGIN and END and their saved copies, two sets of send parameters, flags | store, prepare, transmission pass, date-range command, boot |
| Search by date | 793-917 | local iterator, stride, direction | search in three modes |
| Rain gauge | `AcroboardStation_v01/devices/raingauge`, 1384-1412 | statistics record, timer | pulse interrupt, copy, reset, timer restart |
| Modem driver, HTTP | `AcroboardStation_v01/drivers/sim900` | no state of its own but the dialogue's position | get, post, read, close |
| Modem driver, start | `sim900.c` 385-700, `datalogger.c` 532-563 | position of the dialogue, power of the module | power switch, synchronisation, SIM, registration, bearer open and close, boot loop |
| USART ring | `AcroboardStation_v01/drivers/usart_interrupt` | 8-byte ring, head, tail | receive interrupt, get, flush |
| EEPROM driver | `AcroboardStation_v01/devices/AT24CXX` | none | block read and write, iterator arithmetic |
| USB bus monitor | `AcroboardStation_v01/devices/USBVbusMonitor`, `src/globals.c` | reentrance guard, USB clock, oscillator | check at boot, interrupt of either edge of the cable |
| Sleep manager | `src/ASF/common/services/sleepmgr` | lock count of each mode | lock, unlock, choice of the mode, sleep |
| USB control endpoint | `src/ASF/xmega/drivers/usb/usb_device.c`, `src/ASF/common/services/usb/udc/udc.c` | phase of the transfer, address, configuration, interfaces | setup, data and status phases, errors, bus reset, requests |
| USB serial port | `src/ASF/common/services/usb/class/cdc/device/udi_cdc.c` | two double buffers, serial state | read, write, putc, signals; transfers and frames |
| Rain statistics | `faia/services/IDF` | ring of floats | insert, iterate (not called) |
| Task manager | `*/services/taskman` | table of functions | create, run (not called) |
| Configuration, sensors, debug output, `main` | `faia/services/config`, `devices/SHT21`, `devices/Voltmeter`, `src/globals.c`, `faia/simple_logger.c` | none | straight-line input and output |
| Rest of the Atmel Software Framework | `AcroboardStation_v01/src/ASF` | vendored | register access |

**How they interact.**  There are two threads of control.  The RTC alarm
interrupt `datalogger_tick` adds up elapsed seconds and marks tasks READY; in
passing it takes the snapshot of the rain gauge.  The super-loop
`datalogger_run` serves READY tasks one at a time and sleeps.  They share the
status bytes, the accumulators and the snapshot buffer, without a lock.  The
pulse interrupt of the gauge has a higher level than the tick and preempts it;
the USART interrupt has the tick's level.  The store task writes snapshots to
the EEPROM; a transmission pass reads them back over several iterations of the
loop, posts up to `QUEUE_LEN` of them at a time and sets their flags.  Both the
clock synchronisation and the two kinds of pass use the modem, and each closes
the bearer when it has finished.  The USB runs beside all this in its own
interrupts: the interrupt of the cable starts and stops the device, the bus
events drive the control endpoint, which configures the serial port.  The two
halves meet in the sleep manager, whose lock counts decide whether the timers
of the rain gauge run while the loop sleeps.

**What is hard.**

* interleaving of tick and loop at every point, lost wake-ups, multi-byte
  variables stored byte by byte on an 8-bit machine;
* the clock is set from the network while differences of it are being taken;
* power may fail between any two EEPROM transactions, while an empty chip is
  formatted too, and the cells of the two saved iterators overlap;
* the log moves on while a pass works through it;
* the modem answers late, twice or not at all, and the driver matches answers
  to commands by order alone;
* the ring wraps, records cross page boundaries, the search halves its stride;
* one pin turns the modem on and off, and the driver does not know which;
* the USB host gives transfers up, repeats packets and resets the bus at any
  time, and the flags that the driver reads may be of another transfer;
* buffers are switched by an interrupt while the application holds an index
  into them; lock counts are bytes, and every lock must be given back once.

`PROJECT.json` lists these hazards one by one, at their lines, with the
properties that watch over them.

**What makes each component correct.**  Scheduler: no snapshot lost, every task
served again and again, a failed transmission retried soon, the watchdog fed
while the system lives and the MCU reset only when a transmission hangs.  Log:
what a restart recovers is what was stored, oldest records dropped first, a
sent flag means that the server has the record, a pass skips only what the server
has, every record is sent at last.
Search: it ends and returns the right record.  Gauge: the tips in the records
add up to the tips of the bucket.  Modem: success means that the server
accepted this very post, and driver and modem never stay out of step; a start
that succeeds leaves a module that is on and unlocked.  Receive ring: the driver
reads what came since its flush, in order.  USB: host and device agree on
address and configuration, supported requests are answered whole, bytes pass in
order and once in each direction, no side waits for ever.  Power: the locks count
their holders, so that the CPU never sleeps too deep, and USB and oscillator
follow the cable.

## 2. Modules

| module | models | role |
|---|---|---|
| `Scheduler` | tick, loop, boot, watchdog | detailed model |
| `SchedulerProofs` | | theorems about `Scheduler` |
| `DurableLog` | what the log promises across power failures | abstract specification |
| `RecordRing` | slots of the ring and steps of an iterator | constants, used by the next and the search |
| `EepromLog` | record log, store task, transmission passes | implements `DurableLog` |
| `EepromLogProofs` | | theorems about `EepromLog` (saved iterators, sent flags, refinement, what a pass skips) and `RecordSearch` |
| `RecordSearch` | `dl_search_record_by_date` | algorithm, all inputs of a bounded size |
| `RainGauge`, `RainGaugeProofs` | gauge and snapshot | detailed model, theorems |
| `Sim900`, `Sim900Proofs` | HTTP dialogue, modem and server | detailed model, theorems |
| `ModemStart`, `ModemStartProofs` | start of the modem, SIM, bearer, boot loop | detailed model, theorems |
| `Receiver`, `ReceiverProofs` | receive ring, interrupt and driver, access by access | detailed model, theorems |
| `Power` | sleep locks, cable, start and stop of the USB | detailed model |
| `UsbControl` | control endpoint and requests | detailed model |
| `UsbProofs` | | theorems about `UsbControl` and `Power` |
| `UdiCdc`, `UdiCdcProofs` | double buffers of the serial port | detailed model, theorems |
| `MC*` | | instances for TLC |

`EepromLogProofs` and `UsbProofs` extend two models each, so the names that both
would have carry a prefix in one of them (`SearchInit`, `PowerSpec`, `UddEnable`).

The components are composed where they share state: tick with loop, gauge with
tick, store with transmission, driver with modem.  The modules meet at the
assumptions they make of each other: `EepromLog` assumes the turns that
`ServesEveryTask` gives, `RecordSearch` assumes that records are read back as
written, `Scheduler` lets every modem operation succeed or fail as `Sim900` and
`ModemStart` allow, `Sim900` and `ModemStart` lose lines where `Receiver` drops
bytes, and `UdiCdc` is enabled and disabled as `UsbControl` does it.

Definitions that carry "mutant" in their comment are not part of the models.
Each is the form a definition would have with a plausible mistake in the code;
with it in place of the true one the property named in `PROJECT.json` fails.

### Scheduler

`pc` is the program point of the main program, `status`, `acc`, `lock`,
`snapshot_num` and `idx` are the variables of the code.  `due` stands for
`alarm - g_timePrev` modulo 2^32 (`Word`): the `deltaT` that the next tick will
compute; `gap` is the true time between two ticks, measured from the last
`wdt_reset()`.  A clock synchronisation changes the one without the other
(`Rearm`).  One action of the loop is a stretch of code without a shared access
that a tick could disturb; a tick may fall between any two.  The store to the
32-bit `g_acc_task_send_RT` is two steps (`RetryLow`, `RetryHigh`), so that a
tick can fall between its bytes; `Chunk` says where the cut is.

Assumed: a stretch of a few instructions (`Short`) sees at most one tick, for
ticks come seconds apart (the return of `dl_task_send_data_prepare_RT` up to the
assignment of READY is one, `prepare_done`); setting the clock and the alarm is one step;
`AT24CXX_Init` never fails (its result is a constant); tasks terminate.
`g_is_GPRS_module_OK` is true once boot has passed.

### EepromLog and DurableLog

The EEPROM is a function from slots to records, a record a function from
offsets to bytes: the last is the sent flag, the others carry the time stamp,
so that a record put together from two others is seen as what it is.  A slot
may lie across two pages; then it is written in two steps (`StoreWrite`,
`StoreWrite2`) and read by `Read`, which takes its decision as the code does.
BEGIN and END are saved one after the other, each in a ring of eight `cells` in
which a `Tag` follows the current one (`SaveValue`, `SaveTag`; `Found` reads it
back).  The rings begin 8 bytes, two cells, apart, so the second overlaps the
first; as the tag is always written back to the same cell, only the first cell
of each ring ever holds an iterator.  `Boot` is the part of `datalogger_init`
that looks for the mark of a formatted chip and for the iterators, and `Format`
and `Reformat` write the cells one by one.  `Reset` may come between any two
steps, the first boot included.  A pass (`SendStart`, `Scan`,
`PostSucceeds`, `PostFails`, `WriteFlag`, `SendEnds`) is one call of
`send_data_with_post`, and stores come between two calls.  `batch` are the data
of the records in the post, as `Read` returned them, and `server` all that the
server has accepted: of a record that begins in the first `Item - 1` bytes of a
page this is its own head (`Own`) with the tail of its predecessor.  `Posted`
says of a slot that the server has what `dl_get_record` takes from it, which is
all its data in any other place.

`Recovered` is the log that a restart would find; it is the refinement mapping
to `DurableLog`, in which a log only grows at its end, and loses only its oldest
record, when it is full.

Not modelled: the bytes within one page write (a reset tears a record at the
page boundary only; the 4 bytes of a cell are written together), and the last slot,
whose record overruns the memory.

### RecordSearch

The log, the dates, the date asked for and the mode are chosen in `Init`; one
action is one turn of the loop.  `Skip` is 2 where the code has 128: what
matters is the parity of the number of halvings that lead to 0, for it decides
on which side of the date the search stops.

### RainGauge

The statistics are kept byte by byte, because the pulse interrupt may come
between any two bytes that the tick copies or resets.  `cents` is the timer.
`age`, `since`, `drift` and `slope` record what really happened, and `carries`
counts the copies whose two bytes of tips a carry has torn apart.  Assumed
(`RainAssumption`): a byte has at least three values, two tips are at least two
hundredths of a second apart (the code debounces for 20), and an interval ends at
least one such distance before the timer overflows.  With the code's numbers the
last means intervals below 655 seconds; the interval is configured
(`DL_TASK_STORE_DT`) and nothing in the code checks it.  How many tips an interval
has is not bounded otherwise.  `CountDrift` rests on both: with tips one hundredth
apart, or a timer that comes close to its overflow, a snapshot can cost three tips.

### Sim900

The unit is a command and a line of an answer.  `step` is the next step of the
dialogue, with the attempts it has left; `inbox` are commands that the modem has
not performed, `rx` lines on their way back.  A command is preceded by half a
second of delay and followed by a flush, so everything that has come is lost;
waiting for a line that follows another flushes nothing, for the bytes come a
millisecond apart (9600 baud) and the driver reads on within microseconds.
When a tick delays it for longer, bytes are lost: action `Lose`.  A `Timeout`
needs a silent line; if the modem still owes an answer it counts against
`MaxSlow`.

The modem is external and modelled from how the driver uses it: one HTTP session
at a time, commands performed in order, data mode after HTTPDATA, in which
whatever comes is taken for data, an unsolicited line when the server has
answered.  `Cancels` says that HTTPTERM drops a request in progress.  The code
relies on this: with `Cancels = FALSE` TLC finds `PostTrue` violated, a late
result of a GET being taken for that of the following post.

`MaxSlow` matters too.  No answer says which command it answers, and with nine
late answers the dialogue of three posts can run a whole request ahead: the first
gives up with HTTPDATA still unanswered, the second takes that DOWNLOAD for its own
and gives up, and the third takes the DOWNLOAD, the OK and the +HTTPACTION of the
second and returns 0.  With eight TLC still finds no such behaviour, and for up to
seven `PostsTrue` excludes it; the run stays at four.  In the station a failed post is
followed by the bearer's commands and another start (`ModemStart`), which would have
to be answered as late; `Sim900` leaves them out.

### ModemStart

The driver again goes by `step`, with the attempts of the step in `tries`, the
toggles of the power pin in `t` and the rounds of the registration and of the
bearer in `checks`; `GoesOn` says what each answer, or none, leads to.  `op` is
the function that runs: `sim900_init`, `sim900_GPRS_init` or
`sim900_GPRS_close`.  `Boot` is the loop of `datalogger_init`, which calls the
first again and resets the station after `MaxAttempts`; the modem keeps its
state then, for nothing turns it off.  `Found` is what the matcher reports for a
line: it compares the words of its dictionary at once, so it finds `SIM PIN`
at the start of `SIM PIN2` and at the end of `PH_SIM PIN`.  Module, SIM and
network are external: `Toggle` switches `on` in both directions, a lock counts
the codes it has `left` and is blocked after the last, a bearer opens and closes
in its own time (`Network`).  `Disturb` loses a line or brings one unasked.

### Receiver

A step of the driver is one load or store of a byte of the ring's state, as
`cbuffer_usart.h` and `buffer_usart.h` are written: the read loads the tail,
fetches the byte, loads the tail again and stores it; the flush stores the tail
and then the head.  The interrupt comes between any two and runs as one step.
The USART holds `Fifo` bytes while another interrupt of the level is busy.
`KeepsPace` says what a driver that reads at 9600 baud may fall behind by.
`came` and `got` record what came and what was read since the flush.

### Power

`VBusMon_check` is a sequence of steps, `at`, run by `main` once and by the
interrupt of the pin; `r` is its guard against reentrance.  An edge that comes
while the interrupt's flag is set leaves no trace.  `usb` and `dfll` are what
the check starts and stops, with the lock that `udd_sleep_mode` takes and gives
back through `udd_b_idle`; `locks` are the counts of the two modes that are used,
modulo `Word`.  `leaks` counts how often `udd_enable` cleared `udd_b_idle`
without giving the lock back.  The loop is here only the places where it
sleeps or holds a lock: the gauge, its timers and the ADC.

### UsbControl

`ctl` is the driver's state machine with its counters, `ep` the control
endpoint's registers, `dev` what `udc.c` keeps.  The controller answers packets
on its own from `ep` and raises `flags`; `Interrupt` handles one of them, bus
events before completions, in the order in which the code tests them.  The host
(`Begin`, `TokenIn`, `TokenOut`, `Enter`, `Cut`, `GiveUp`, `Reset`) follows the
transfers of the standard, may end a data phase early, may give a transfer up
at any packet (`MaxGiveUps`), and may reset the bus.  `Other` raises the
underflow and overflow flags on behalf of another endpoint.  A request is its
kind, its length and what the device has for it; descriptors have no contents.

### UdiCdc

`rx` and `tx` are the two double buffers with the selected buffer, the position,
the counts and the flags of the code; `mem` is the transmit memory, as much
again behind it included, so that what `putc` writes past a buffer is seen
where it falls.  The application is a sequence of critical sections (`app.pc`)
and of accesses outside them, and the interrupts come between any two: `read_buf`
looks at the indices, copies, reads the position again (`Load`) and writes it,
`getc` writes the position that it has seen; the notification is tested, started
(`Tell`) and flagged (`SetOngoing`).  A session may end and the next one begin at
any of these steps, with nothing between, as SET_CONFIGURATION and SET_INTERFACE
do it in one interrupt; the latter restarts one of the two halves, which share
only `running`.  `use` is what an application does with the port: it reads blocks
or characters, writes blocks or characters, or signals.

## 3. Runs

Every run checks deadlock except where noted.  Times are for two workers.

| run | what it shows | bounds |
|---|---|---|
| `scheduler_safety` | tick and loop in every interleaving: `SnapshotAtMostOne`, `NoSnapshotLost`, `RetrySoon`, `BearerHeld`, `TransmissionBounded`, `ResetOnlyWhenHanged` | `Word` 12, intervals of 2 and 3 ticks, two posts per pass, no clock correction; 4.7 million states, 90 s |
| `scheduler_live` | `WatchdogFed` with corrections of -2 and 0; `ServesEveryTask`, `SnapshotsReachLog` under fairness | `Word` 6, `Timespan` 2, one post; 47 thousand states |
| `log_durable` | `DurableSpec`, `FlagImpliesPosted`, `SkipsOnlyPosted` with records that cross pages, two of them with their flag read from the predecessor, and two resets, in the formatting or later | 4 slots, 5 records, so the ring fills, wraps and evicts twice; 710 000 states, 100 s |
| `log_live` | `EveryRecordPosted` before the ring wraps | 3 records, 1 reset, no page crossed; 31 thousand states, 30 s |
| `search` | `Terminates`, `ExactFound`, `NearestFound` for every log, date and mode; it stops, so no deadlock check | 6 slots, dates 1..7 |
| `rain` | `CountDrift`, `SlopeMeasured`; the bounds are reached, so no deadlock check | bytes of 3 values, so that the tips carry; 6 hundredths per interval, the most the timer allows; 2 snapshots; 2.3 million states, 20 s |
| `modem` | `PostTrue`, `NoFalseFailure`, `SessionClosed`, `Recovers` | requests told apart by 2 numbers, 4 late answers, 2 lost lines; 320 thousand states |
| `start` | `StartedMeansReady`, `BearerTrue`, `BootEnds` | 2 AT commands per toggle, 2 rounds, 2 attempts, 2 codes, locks READY, SIM PIN and PH_SIM PIN, 3 faults; 1.5 million states, 100 s |
| `receive` | `ReadsWhatCame`, `KeepsNewest` | the ring's true size and FIFO, 11 bytes, so the ring wraps and overflows; 2.4 million states, 20 s |
| `power` | `IdleExact`, `TimersRun`, `UsbFollowsCable`; a count that has overflowed lets the CPU sleep for ever, so no deadlock check | counts of 6 values, 7 edges, so that forgotten locks make a count overflow; 54 thousand states |
| `usb_control` | `NoFalseStall`, `WholeAnswer`, `AddressAgreed`, `ConfigurationWhole`, `TransferEnds` | packets of 2 bytes, answers of 2 and 3 of up to 3 asked for, one transfer given up; 260 thousand states, 90 s |
| `usb_cdc` | `ReadsInOrder`, `RxServed`, `TxInOrder`, `Flushed`, `StateAnnounced` | buffers of 2 bytes, 4 bytes in each direction, 2 sessions; 370 thousand states, 105 s |

**Why the bounds are enough.**  The scheduler's intervals are a few ticks long
so that each task comes due while each other runs, the words are small so that
they wrap, and with two posts a pass yields to the loop in between.  The log's
ring holds four slots, the fewest in which a pass, the free slot and a record
being evicted are all different, and five records wrap it; with two resets one
can leave the formatting unfinished and the other a record.  Four late answers
suffice for a session whose every kind of step has timed out, and further ones
(five, with two losses, and three request numbers) gave no other result.  Two
rounds and two attempts let each loop of the start run out and be entered
anew, and three faults can spoil three steps of one start.  Answers
of 2 and 3 bytes in packets of 2 end in an empty, a short and a full packet.
Two bytes a buffer and four bytes in all fill both buffers of a direction and
switch them twice; the second session finds what the first left, and may begin
at any step of the application.  Three tips fit the gauge's interval, one more
than its low byte holds.

**Fairness.**  `Scheduler`: the RTC runs from its own oscillator, so tick or
watchdog comes, and the main program runs whenever no interrupt does (weak
fairness).  `EepromLog`: weak fairness of the boot's and the tasks' steps; each ready pass has
its turn, transmissions are prepared again and again, as the scheduler's
liveness shows, and some of the posts tried again and again succeed (strong
fairness).  `RecordSearch`: the loop runs.  `Sim900`: the driver polls, its
timeouts run, the modem answers at last, posts are requested again and again
and the server is reached by some of them.  `ModemStart`: the driver polls and
its timeouts run, the module performs the commands it has received; nothing is
assumed of the network.  `Power`: main and the check run on, and a pending
interrupt is taken in the end.  `UsbControl`: interrupts are served, a host goes
on with a transfer it has begun, and the bus is not refused without end, so that
the completion interrupt, which has the lower priority, has its turn (strong
fairness).  `UdiCdc`: the application runs, frames go by while the device is
attached, and a configured host polls the IN endpoints.  `RainGauge` and
`Receiver` assume nothing.

## 4. What the runs found

Where the code does something that one would not expect, the property is stated
for the rest and names the exception, in an auxiliary variable or in the bounds.

*Scheduler*

* **A clock set back** (146).  `deltaT` is an unsigned difference and
  `g_timePrev` is not adjusted when the clock is set, so a correction beyond the
  tick period makes the next tick believe that an age has passed and reset the
  MCU, although the comment at 172 reserves that for a hanging task.  With -3 in
  `ClockSteps`, `ResetOnlyWhenHanged` fails.
* **A torn store** (1524, 1531).  The retry "after 30 seconds" may come later
  when the tick updates the accumulator between its bytes and carries into the
  part that is stored last: `RetrySoon` fails with `Chunk` 2.

*Record log and search*

* **A record is skipped, or sent with another's tail** (733).  A record in the
  first bytes of a page (other than at its start) is read with the tail of the one
  before it, flag included.  If that one was sent, a real-time pass skips it; if
  not, the server gets its head with that tail, and its own flag is set.  The
  device's page of 256 bytes and record of 17 have such records.  `log_durable` has
  two; `SkipsOnlyPosted` and `FlagImpliesPosted` name what is left for them
  (`FlagSeen`, `Own`) and hold of all others without exception.
* **After the wrap** (758).  The distance to BEGIN is negative, so a pass jumps
  to the oldest record at once.
* **Right bound** (882).  The search can only stop at a later record, so a bound
  search succeeds for exact dates only (`RightBoundIsExact`).
* The beginning of a date range is ignored (1268); the search does not end on a
  log that has been full (866); the last record overruns the memory (1453); the
  rings of the saved iterators overlap and never advance, for the value is
  written at the cell before the tag's (372), so that the writes are not spread
  over 8 addresses as 310 has it.  `CellsActAsRegisters` shows that nothing is
  lost by it.

*Rain gauge*

* **A torn copy of the tips** (1386).  A tip between the copies of the two bytes
  that carries from the low into the high one leaves 256 tips too many in the
  record: `carries`, at most one a snapshot.  It takes more than 255 tips in an
  interval.

*Modem*

* `http_get` returns success after a timeout of its last read, and the clock is
  then set to 0 (`sim900.c` 957).
* The second toggle of `sim900_init` turns a modem off that is on and silent
  (421); the next start turns it on again, and `StartedMeansReady` holds.
* The PIN goes to the wrong lock (282, 507): `SIM PIN` is found in `SIM PIN2` and
  in `PH_SIM PIN`.
* While the module does not answer the registration query `sim900_init` starts
  again from the power switch without a bound, and it returns 0 when the module
  never registers (545-547).  An APN that nobody answers is passed over.
* A byte between the two stores of the flush, with the head at the last slot,
  leaves the ring full of what it had held (`buffer_usart.h` 98): `torn`.

*USB and power*

* `putc` tests for room in the wrong buffer while a transfer is under way and
  writes past the end (`udi_cdc.c` 984, 1015-1026): `overrun`.  `write_buf` does
  not return when the cable is pulled (1061), and the flag of a notification is set after
  the transfer is started (527): `lost`.
* **A session begins inside a read** (`udi_cdc.c` 342, 876-956).  Enabling the port
  clears the first receive buffer only, and nothing keeps the host from configuring
  the device, or setting the interface, while a reader is between its look at the
  indices and the move of the position.  The reader then returns bytes of the second
  buffer again, or moves the position past bytes that it has not read; so it does when
  two packets arrive there (`hits`).  If session and packet come between the critical section of
  `udi_cdc_rx_start` and its `udd_ep_run`, the reader starts a transfer into a buffer
  that the packet has just been put in, or that is being read, until the next
  session (`stray`).
* The underflow and overflow flags are those of every endpoint, and one of
  another is taken for one of the control endpoint (`usb_device.c` 1261):
  `foreign`.  A setup packet from before a bus reset is served after it, and a
  SET_ADDRESS that the host gave up takes effect later (1032): `strayed`.
  The loop that resets the endpoints stops before the last (806).
* A SET_INTERFACE for a missing setting disables the interface and then fails
  (`udc.c` 905): `maimed`.
* `udd_enable` forgets the lock of IDLE when the device is enabled twice
  (`usb_device.c` 490): `leaks`.  After 252 of them the count is full, and the
  timers of the gauge stop with the CPU.  A boot without a cable unlocks power
  down once more than it was locked, which only the compiled-out assertion of
  `sleepmgr.h` 164 would notice.
* An edge of the cable that falls into main's own call of the check is dropped
  (`VBusMon.c` 24): `missed`.

## 5. What is proved

For all values of the constants that satisfy each module's assumption.

**`SchedulerProofs`.**

* `TypesHold`: `TypeOK` is inductive as it stands.  The two halves of the torn
  store are the interesting part: replacing the low part of a word leaves a
  word (`TornRange`).
* `SnapshotBound` and `SnapshotsKept`: `SnapshotAtMostOne` and `NoSnapshotLost`.
  Neither is inductive: both need to know what the store task's status is at
  each program point, how `idx` and `pending` follow `snapshot_num` while the
  task runs, and that the buffer is empty when the status is STOP.  This is
  `SnapshotInv`, proved in `SnapshotInvariant` with one step per action
  (`SnapshotStep`) and one lemma for the actions outside the store task
  (`OutsideStore`).
* `WatchdogAlwaysFed`: if `FirstAlarm` and `2 * Timespan - 1` do not exceed the
  watchdog period then `WatchdogFed` holds.  The invariant behind it bounds
  `gap` by one tick period while no synchronisation is under way, and uses that
  at most one of them falls between two ticks.  The premise is a real condition
  on the configuration: with the watchdog's 8 seconds the tick period may not
  exceed 4.
* `BearerKept`: `BearerHeld`, which is inductive once it is stated for every
  program point (`BearerInv`).
* `RetriedSoon`: `RetrySoon`, under three premises.  `ExactClock`: the clock is
  never set to another time (a correction is read as elapsed seconds).
  `Proportions`: the watchdog period is below the 30 seconds of `Retry`, these do
  not exceed the send interval, and three intervals fit into a word.  `NoCarry`:
  the low part of the rescheduled accumulator has room for the seconds that one
  tick adds.  `RetryInv` says how far the accumulator is ahead of the rescheduled
  value at every program point; between the two stores only the low part is known,
  and only one tick has come (`TornInv`, `ClockInv`).  Without `NoCarry` TLC finds
  the late retry of section 4.
* `ResetMeansHanged`: `ResetOnlyWhenHanged`, under `ExactClock` and `Proportions`.
  `AgeInv` bounds the accumulator by the time under way plus one interval.  The
  hard case is a second preparation, requested while the first one returns: its
  failure stores the retry into the accumulator of a running transmission.  Then
  the accumulator was not ahead at all (`PassInv`), so the torn value is within
  the bound.
* `TransmissionsEnd`: `TransmissionBounded`, under all three premises.  `BusyInv`
  bounds the time under way by the accumulator plus the three intervals that such
  a second preparation can take away from it, once; `DeferInv` bounds the last
  tick period.

  The premises hold in `MCScheduler.cfg`, whose run checks the three properties,
  and on the device (8 s, 30 s) for every send interval from 30 s to 45 years
  whose rescheduled value leaves room in its low byte for 8 more seconds.

**`EepromLogProofs`**, in five parts.

The saved iterators act as two registers.  `CellsActAsRegisters`: `CellInv` holds, and only
`SaveBegin` and `SaveEnd` change `saved`, the pair of iterators that a restart
recovers.  A chip is `Fresh` until END is written for the first time, and then
`Formatted`: in both a reset leaves cells that the next boot understands
(`FoundFormatted`, `FreshUnset`), because the first cell of END is the last one
whose value decides.  `Progress` follows the formatting cell by cell through the
overlap.

A sent flag is true.  `FlagsAreTrue`: `FlagImpliesPosted`, for every size of
record, page and memory: the server has what `dl_get_record` takes from a flagged
record.  The invariant `IInv` adds that END is always saved
before a record is begun, that a record's flag is cleared with its first part,
that the post under way holds what was read of each record in the queue of the pass,
that the server has it once the post has succeeded, and that flags are written from
that queue only.

The log implements `DurableLog`.  `ImplementsDurableLog`: `SafetySpec => DurableSpec`,
with `log <- Recovered`.  The log is a walk around the ring, so the proof starts
with the arithmetic of the ring (`TimesOrder`, `DivUnique`, `Count`, `AfterNth`,
`RingIndex`), describes a log by its length and its n-th record (`SameLog`,
`LogTail`, `LogAppend`) and then takes each step: saving BEGIN evicts the oldest
record (or nothing), saving END appends the new one, and every other step, the
reset and the boot among them, leaves what would be recovered.  `RingInv` holds the facts
that this needs: the iterators are slots, BEGIN is never the slot behind END
while a record is being written, and the slot that is written is outside the
saved log.

What a pass skips.  `SkipsWhatIsPosted`: `SkipsOnlyPosted`, for every size of
record, page and memory and for logs that wrap: a record that a real-time pass goes
past without posting is in the log, although stores may have evicted others since
the pass began, and the server has the one whose flag was looked at.  That the flag
tells the truth is `FlagsAreTrue`.  `PassInv` says of the position, kept over stores and
evictions, that it does not lie beyond END while the log has not wrapped; in one
that has, a step back from outside the log ends at BEGIN (`BackInLog`).

The search.  `ExactIsFound` and `BoundIsNearest`: `ExactFound` and
`NearestFound` of `RecordSearch`, for every memory, record, initial stride, log,
date and mode.  A log that has been full needs a memory whose last address is no
slot, as the device's 524288 is not, and a stride above 1; with either missing TLC
finds both violated.  `SearchInv` says what the search has passed
(`Passed`): going back, all records a stride further on are younger than the
date; going forward, all a stride back are older.  When the stride is 0, or an
end of the log is reached, the record is next to the date (`Nearest`).  In a log
that has been full and whose BEGIN is the first slot, END is the record evicted
last, older than all (`Outdated`): a search that comes there stays there for ever
(`Aground`).  In any other, BEGIN is behind END, and the search sees nothing but the
oldest record and that one (`Stranded`): it finds the oldest record or never ends.
So these theorems say that what a search returns is right, not that it returns.  That
dates increase from record to record only becomes an order of all records by
induction, for which `Least`, that a set of naturals has a least element, does.
`SearchTypesHold` holds of the same logs.  `SearchRunsDown`: in a log that was never
full each turn of the loop makes `Left`, a natural number, smaller, so that of
`Terminates` only the fairness that makes turns is left to TLC.  A turn that changes
direction halves the stride, for the date is then passed (`Above`), and any other one goes nearer to an end.
`RightBoundIsExact`: with the code's stride of 128, a search for the right bound
finds the date itself or nothing.  `Strides` says which strides go back and which
forward: the last one goes forward, so that the search ends at the date or at the
record after it (`LaterInv`).  With a stride of 4 this is false, as TLC shows.

**`ReceiverProofs`.**  `TypesHold`; `ReadsInOrder` and `RingKeepsNewest`: `ReadsWhatCame` and
`KeepsNewest`, for a ring with room for twice what the USART holds
(`ReceiverAssumption`).  `Holds` says which of the bytes that came lie in which
slot; it needs `Paced`, that the ring is far from full while the driver reads,
because then the interrupt does not move the tail, and `Registers`, that what
the driver has loaded at each access is still so at the next.  A torn flush
voids all of it until the next flush (`FlushKeeps`).

**`UsbProofs`**, in two parts: the control endpoint, for every packet and answer
size, and the locks.
`ConfigurationStaysWhole`: `ConfigurationWhole`.  The invariant says what `dev`
is made of (`Shape`), that an unmaimed device is whole (`Whole`) and that
interfaces and endpoints go together (`Paired`); only an accepted request and a
bus reset change `dev`.

`NeverFalseStall`, `AnswersWhole` and `AddressesAgree`: `NoFalseStall`,
`WholeAnswer` and `AddressAgreed`.  Here the host and the device take turns, and
what the one believes has to be matched with what the other is doing between any
two interrupts.  `Protocol` is the invariant: `Silenced` and `Marks` say what a
waiting setup packet and refused packets leave in the registers, `Follows` which
state of the machine goes with which phase of the host's request, `Endpoint` what
the endpoint does in each state, `Stalls` that a stalled request which the device
supports was cut off by the host or met an event of another endpoint, `DataIn`
and `DataOut` count the bytes of a data phase on the device, under way and on
the host, and `Addressed` that the two addresses differ only while a SET_ADDRESS
waits for its status phase.  While a reset of the bus waits for its interrupt
(`Quiet` is false) only the types and what the host knows hold; the interrupt
restores the rest.

The locks.  `PowerTypesHold`; `IdleCounted`: `IdleExact`; `TimersKeepRunning`:
`TimersRun`.  The invariant follows `udd_b_idle`, the guard and the flag of the
interrupt through every step of the check.  Sleep deeper than IDLE needs
a count of 0, and with 3 holders that takes `Word - 3` forgotten locks.

**`RainGaugeProofs`.**  `TypesHold`; `DriftBounded`: `CountDrift`; `SlopeExact`:
`SlopeMeasured`.  For every width of a byte, every interval that the timer can
count, with any number of tips in it, and any number of snapshots.  `Balanced` says
how far log and gauge together may be from the bucket before the tips are copied, and
that a gauge at the bound is not led past it by the next tip or bounce; `Copied` says
it of the copy (`Taken`), less what torn ones have too many (`Excess`), `Torn` that
one tip at most can carry while the copy is half way, for the next one comes too soon
after it to count, `Reset` that at most
one tip is counted from the reset of the tips to the restart of the timer, `Room`
that the tips of an interval fit their two bytes, and `Cleared` and `Sloped` follow
the slope of a snapshot that no pulse disturbed.

**`UdiCdcProofs`**, for every size of the buffers and any exchange.
`AlwaysListening`: `RxServed`.  `Served` is what makes it inductive: the flag
`on`, the job of the endpoint and the reader's way from `Start` to `Arm` go
together, whatever interrupt comes in between.
`ReadersServedInOrder`: `ReadsInOrder`, with sessions at any step.  `Ahead` says
that the bytes due are the rest of the buffer in use and then the other one if it is full (`Holds`), and `Watched`
that what the reader saw of the indices either still holds or showed an empty
buffer: one packet can exchange the buffers only when there was nothing left
to read.  A second packet or a session voids this for the read under way (`Torn`),
whose end takes the buffers as it leaves them (`UnreadHolds`), and a transfer started
into the wrong buffer (`stray`) until the next session.
`SentAsWritten`: `TxInOrder`.  `Stored` places the bytes not yet taken in the two
buffers; it is kept by a change of buffers because the other one is then empty
(`Swaps`), and by a write because it has room (`StoreInOrder`), which putc does
not check.

**`ModemStartProofs`.**  `SuccessMeansReady` and `SuccessMeansBearer`:
`StartedMeansReady` and `BearerTrue`.  The invariant ties the lines and commands
under way to the step that waits for them: in a calm dialogue at most one
command is unanswered, and its answer is the next line (`Dialogue`); `LockKnown`
and `BearerKnown` then say what the driver may conclude from the line it reads.
`TypesHold`: `Counted` bounds toggles, attempts and rounds by the step that uses them
up, and `CodesLeft` says that a lock that can still be blocked has a code left.

**`Sim900Proofs`**, for every number of requests and of lost lines.  `TypesHold`.
`SessionsEnd`: `SessionClosed`, for every number of late answers.  A driver without
a request has sent HTTPTERM last, and the modem performs in the order of sending
(`ClosedLast`).

While no answer is late.  `NoFailureInCalm`: `NoFalseFailure`, and `PostsTrueInTime`:
`PostTrue` until an answer comes after its timeout, whatever lines are lost and
whether or not the modem cancels.  `Turns` is the invariant of both: until then it
is the driver's turn, the modem's with one command, or the server's with one
HTTPACTION, so that nothing is left of a request when the next begins.  `Written`
follows the data of a post to the server and `Accepted` the server's answer back to
the driver.

With late answers.  `PostsTrue`: `PostTrue` if the modem cancels at HTTPTERM
(`Cancels`) and no more than seven answers come late (`MaxSlow`); `PostsTrueLate`
says it of each behaviour up to its eighth.  Both premises are needed (section 2,
`Sim900`); eight instead of seven is open.  The one thing that the modem keeps to is the
order of the commands.  `Ordered` states it: the command performed last and those
still to come form one sequence in which each may follow the one before it (`Then`),
the last is the one sent last (`LastSent`), all that no HTTPTERM has ended are this
request's, and an HTTPTERM that has not been overtaken lies as many commands back as
the request has sent since (`Count`).  `Backlog`: each late answer lets the modem
fall behind by one command more, and one is unanswered in any case.  So while fewer
than eight came late, a post that has reached HTTPACTION, the seventh command of a
post, cannot have an older request's HTTPTERM still before the modem: what it takes for the server's
answer is its own (`Told`).

Only model-checked: liveness under fairness, which is out of the prover's reach
(`ServesEveryTask`, `SnapshotsReachLog`, `EveryRecordPosted`, `Terminates`, `Recovers`,
`BootEnds`, `UsbFollowsCable`, `TransferEnds`, `Flushed`, `StateAnnounced`); `PostTrue`
of `Sim900` with eight late answers.  Every other property of the runs is stated by a
theorem.

## 6. Plan

1. Done: `Scheduler`, `EepromLog` over `DurableLog`, `RecordSearch`,
   `RainGauge`, `Sim900`, `ModemStart`, `Receiver`, `Power`, `UsbControl`,
   `UdiCdc`; proofs about the scheduler, the log and its refinement, the
   receive ring, the locks, the control endpoint, the serial port, the gauge,
   the search by date, the start of the modem and its requests, late answers
   included.
2. Extend: the transfers of the TWI bus below `AT24CXX`; the bytes of the last
   record.
3. Prove: `PostTrue` of `Sim900` for eight late answers; that `TypeOK` of
   `EepromLog`, `UsbControl` and `UdiCdc` bounds every counter as TLC shows it (their
   proofs carry the types that they need).

## 7. Not modelled

* Configuration, sensors and debug output keep no state.  The statistics queue
  and the task manager are never called, nor are the SMS and FTP functions of the
  modem driver.  `services/datalogger_BAK` is an old version outside the build.
* The transfers of the TWI bus, whose errors every caller ignores.
* The characters of a modem's line, except where the matcher takes one word for
  another; the contents of descriptors; endpoint halt and remote wake-up.
* The rest of `src/ASF`, which is most of the repository's lines: register
  access of clocks, ports, timers, ADC and the non-volatile memory, header macros
  and board tables.  It has no state beyond the registers and no step that
  another could come between; a model of it would be a list of assignments.
