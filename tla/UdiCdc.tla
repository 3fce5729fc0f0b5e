------------------------------- MODULE UdiCdc -------------------------------
(***************************************************************************)
(* The virtual serial port on the USB (class/cdc/device/udi_cdc.c, one     *)
(* port, full speed).  Each direction has two buffers, shared by the       *)
(* application, which runs in the main program and calls the udi_cdc_      *)
(* functions, and the callbacks, which run in the USB interrupts.  An      *)
(* interrupt may come between any two critical sections of the             *)
(* application, never inside one, and one interrupt never nests in         *)
(* another.  The endpoints below (udd_ep_run and its callbacks) and the    *)
(* host are the environment.                                               *)
(*                                                                         *)
(* A character of nine bits is two bytes: getc and putc are asked for one  *)
(* or two.                                                                 *)
(***************************************************************************)
EXTENDS Integers, Sequences, SequencesExt

CONSTANTS
  Size,         \* bytes of a buffer, and of a packet (64)
  Frames,       \* number of USB frame numbers (2048)
  ZlpFrames,    \* frames without data before an empty packet is sent (100)
  Uses,         \* what the application may use: "read", "getc", "write", "putc", "signal"
  MaxIn,        \* bound: bytes the host sends
  MaxOut,       \* bound: bytes the application writes
  MaxSignals,   \* bound: changes of the serial state
  MaxSessions   \* bound: times the host configures the device

ASSUME CdcAssumption ==
  /\ Size \in Nat \ {0} /\ Frames \in Nat \ {0, 1} /\ ZlpFrames \in Nat \ {0}
  /\ Uses \subseteq {"read", "getc", "write", "putc", "signal"} /\ Uses # {}
  /\ MaxIn \in Nat /\ MaxOut \in Nat /\ MaxSignals \in Nat /\ MaxSessions \in Nat

Two == 0..1          \* the two buffers of a direction
None == 2            \* no transfer
Other(b) == 1 - b

\* Serial state: a level that is announced when it changes, and an event that
\* is announced once (break, ring, framing, parity, overrun).
Irregular == {"overrun"}
Bits == {"dcd"} \cup Irregular

VARIABLES
  running,   \* udi_cdc_data_running: the host configured the device
  rx,        \* the receive buffers
  rxJob,     \* the buffer that the OUT endpoint fills, or None
  tx,        \* the transmit buffers
  mem,       \* udi_cdc_tx_buf, and as much memory again as one buffer
  txJob,     \* the buffer that the IN endpoint sends, or None
  frame,     \* udd_get_frame_number
  state, msg,     \* udi_cdc_state and the value in uid_cdc_state_msg
  ongoing,   \* udi_cdc_serial_state_msg_ongoing
  commJob,   \* the notification endpoint: none, armed, or stuck (busy, never sent)
  app        \* what the application does

\* Auxiliary variables.
VARIABLES
  use,       \* what this application uses
  hostSent,  \* bytes that the host sent
  due,       \* bytes received and not read yet
  hits,      \* packets received since the reader last looked at the indices
             \* and before it moved the position; a session counts for two
  stray,     \* in this session a reader started a transfer that overwrites
             \* a buffer with bytes to read
  wrong,     \* the application has read something else than what was due
  wrote,     \* bytes the application wrote
  taken,     \* the last of them that is not the device's to send any more
  overrun,   \* putc wrote past the end of a buffer
  lost,      \* an end of notification came before the flag it clears was set
  signals, sessions

rxVars == << rx, rxJob, hostSent, due, hits, stray, wrong >>
txVars == << tx, mem, txJob, wrote, taken, overrun >>
commVars == << state, msg, ongoing, commJob, lost, signals >>
vars == << running, frame, app, use, sessions, rxVars, txVars, commVars >>

Idle == [pc |-> "idle", left |-> 0, sel |-> 0, pos |-> 0, n |-> 0]

TypeOK ==
  /\ running \in BOOLEAN /\ frame \in 0..(Frames - 1)
  /\ rx \in [buf : [Two -> [0..(Size - 1) -> 0..MaxIn]], nb : [Two -> 0..Size],
             sel : Two, pos : 0..(2 * Size), on : BOOLEAN]
  /\ rxJob \in Two \cup {None} /\ txJob \in Two \cup {None}
  /\ tx \in [nb : [Two -> 0..(2 * Size)], sel : Two, both : BOOLEAN,
             on : BOOLEAN, sof : 0..(Frames - 1), zlp : 0..(ZlpFrames - 1)]
  /\ mem \in [0..(3 * Size - 1) -> 0..MaxOut]
  /\ state \subseteq Bits /\ msg \subseteq Bits /\ ongoing \in BOOLEAN
  /\ commJob \in {"none", "armed", "stuck"}
  /\ app \in [pc : {"idle", "sample", "check", "load", "advance", "start", "arm",
                    "ready", "copy", "room", "put", "mark", "notify", "tell", "store"},
              left : 0..(2 * Size), sel : Two, pos : 0..(2 * Size), n : 0..Size]
  /\ use \in Uses /\ hostSent \in 0..MaxIn /\ due \in Seq(0..MaxIn)
  /\ hits \in 0..2 /\ stray \in BOOLEAN /\ wrong \in BOOLEAN
  /\ wrote \in 0..MaxOut /\ taken \in 0..MaxOut
  /\ overrun \in BOOLEAN /\ lost \in BOOLEAN
  /\ signals \in 0..MaxSignals /\ sessions \in 0..MaxSessions

Init ==
  /\ running = FALSE /\ frame = 0 /\ app = Idle /\ use \in Uses /\ sessions = 0
  /\ rx = [buf |-> [b \in Two |-> [i \in 0..(Size - 1) |-> 0]],
           nb |-> [b \in Two |-> 0], sel |-> 0, pos |-> 0, on |-> FALSE]
  /\ rxJob = None /\ hostSent = 0 /\ due = << >> /\ hits = 0
  /\ stray = FALSE /\ wrong = FALSE
  /\ tx = [nb |-> [b \in Two |-> 0], sel |-> 0, both |-> FALSE, on |-> FALSE,
           sof |-> 0, zlp |-> 0]
  /\ mem = [i \in 0..(3 * Size - 1) |-> 0]
  /\ txJob = None /\ wrote = 0 /\ taken = 0 /\ overrun = FALSE
  /\ state = {} /\ msg = {} /\ ongoing = FALSE /\ commJob = "none"
  /\ lost = FALSE /\ signals = 0

(***************************************************************************)
(* Reception.  The application reads buffer rx.sel, the endpoint fills the *)
(* other one.                                                              *)
(***************************************************************************)
\* Mutant: the buffer in use is given away before it is read to its end.
BlockedIfOngoing(r) == r.on
Blocked(r) == r.on \/ r.pos < r.nb[r.sel]
Exchange(r) == [r EXCEPT !.pos = 0, !.sel = Other(r.sel), !.on = TRUE]

\* udi_cdc_rx_start, called in an interrupt, where nothing comes between.
RxStart(r) ==
  /\ rx' = IF Blocked(r) THEN r ELSE Exchange(r)
  /\ rxJob' = IF Blocked(r) THEN None ELSE r.sel

\* Mutant: the end of a transfer is not recorded.
StillOngoing(r, n) == [r EXCEPT !.nb[Other(r.sel)] = n]
Filled(r, n) == [r EXCEPT !.nb[Other(r.sel)] = n, !.on = FALSE]

\* A reader has looked at the indices and has not moved the position yet.
Amid == app.pc \in {"check", "load", "advance"}

\* Its read, or every one until the next session, may repeat or skip bytes.
Torn == hits = 2 \/ stray

\* What the two buffers still hold for the application.
Held(r, b, first) == [i \in 1..(r.nb[b] - first) |-> r.buf[b][first + i - 1]]
Unread(r) == Held(r, r.sel, r.pos) \o (IF r.on THEN << >> ELSE Held(r, Other(r.sel), 0))

\* udi_cdc_data_received, after a packet of the host.
DataReceived(n) ==
  /\ running /\ rxJob # None /\ hostSent + n <= MaxIn
  /\ n > 0 => use \in {"read", "getc"}    \* bound: the host sends to readers
  /\ hostSent' = hostSent + n
  /\ LET r == [rx EXCEPT !.buf[rxJob] =
                 [i \in 0..(Size - 1) |-> IF i < n THEN hostSent + i + 1 ELSE @[i]]]
     IN  IF n = 0 THEN rx' = r /\ rxJob' = Other(rx.sel)
                  ELSE RxStart(Filled(r, n))
  /\ hits' = IF n > 0 /\ Amid /\ hits < 2 THEN hits + 1 ELSE hits
  /\ due' = IF stray \/ hits' = 2 THEN Unread(rx') ELSE due \o [i \in 1..n |-> hostSent + i]
  /\ UNCHANGED << running, frame, app, use, sessions, stray, wrong, txVars, commVars >>

(***************************************************************************)
(* Transmission.  The application fills buffer tx.sel, the endpoint sends  *)
(* the other one.                                                          *)
(***************************************************************************)
\* udi_cdc_tx_send, always called in an interrupt.  A buffer that is not full
\* waits for a new frame, and an empty one for ZlpFrames of them.
Waits(t) == t.on \/ t.sof = frame'
Starved(t) == t.nb[t.sel] = 0 /\ t.zlp + 1 < ZlpFrames
ToSend(t) == IF t.both THEN Other(t.sel) ELSE t.sel
Launch(t) ==
  [t EXCEPT !.zlp = 0, !.on = TRUE, !.sel = Other(ToSend(t)),
            !.sof = IF t.nb[ToSend(t)] # Size THEN frame' ELSE 0]

TxSend(t) ==
  /\ tx' = IF Waits(t) THEN t
           ELSE IF Starved(t) THEN [t EXCEPT !.zlp = @ + 1] ELSE Launch(t)
  /\ txJob' = IF Waits(t) \/ Starved(t) THEN None ELSE ToSend(t)

\* udi_cdc_data_sof_notify
Sof ==
  /\ frame' = (frame + 1) % Frames
  /\ IF running /\ ~tx.on THEN TxSend(tx) ELSE UNCHANGED << tx, txJob >>
  /\ UNCHANGED << running, app, use, sessions, mem, wrote, taken, overrun,
                  rxVars, commVars >>

Contents(b) == [i \in 1..tx.nb[b] |-> mem[b * Size + i - 1]]

\* Mutant: the transfer never ends.
SentOngoing(t) == [t EXCEPT !.nb[Other(t.sel)] = 0, !.both = FALSE]
Sent(t) == [t EXCEPT !.nb[Other(t.sel)] = 0, !.both = FALSE, !.on = FALSE]

\* udi_cdc_data_sent, after the host took what was to send.
DataSent ==
  /\ running /\ txJob # None
  /\ taken' = IF tx.nb[txJob] = 0 THEN taken ELSE Contents(txJob)[tx.nb[txJob]]
  /\ frame' = frame
  /\ TxSend(Sent(tx))
  /\ UNCHANGED << running, app, use, sessions, mem, wrote, overrun, rxVars, commVars >>

(***************************************************************************)
(* Serial state notifications.                                             *)
(***************************************************************************)
\* Mutant: the state that changed during the transfer is not looked at.
NotifyNot(s, m, then) ==
  state' = s /\ msg' = m /\ ongoing' = FALSE /\ commJob' = "none"

\* udi_cdc_ctrl_state_notify in an interrupt; then tells what udd_ep_run
\* makes of a new job: a transfer, or one that is never sent because the
\* endpoint is being freed.
Notify(s, m, then) ==
  /\ state' = s
  /\ IF s # m THEN msg' = s /\ ongoing' = TRUE /\ commJob' = then
              ELSE msg' = m /\ ongoing' = FALSE /\ commJob' = "none"

\* udi_cdc_serial_state_msg_sent
MsgSent(then) == Notify(state \ Irregular, msg \ Irregular, then)

CommSent ==
  /\ running /\ commJob = "armed"
  /\ MsgSent("armed")
  /\ lost' = (lost \/ app.pc = "store")
  /\ UNCHANGED << running, frame, app, use, sessions, signals, rxVars, txVars >>

(***************************************************************************)
(* The host configures the device, or resets the bus or goes away.         *)
(***************************************************************************)
\* udi_cdc_comm_enable and udi_cdc_data_enable.  The second receive buffer
\* keeps its count.  SET_CONFIGURATION and SET_INTERFACE end a session and
\* begin the next one in one interrupt, so that the application may be at any
\* of its steps: Disable, then Enable with nothing between.  SET_INTERFACE does
\* so for one of the two interfaces, whose half of the state shares only
\* running with the other.
TxReset == [tx EXCEPT !.nb = [b \in Two |-> 0], !.sel = 0, !.both = FALSE,
                      !.on = FALSE, !.sof = 0]
RxReset == [rx EXCEPT !.nb[0] = 0, !.sel = 0, !.pos = 0, !.on = FALSE]

Enable ==
  /\ ~running /\ sessions < MaxSessions
  /\ running' = TRUE /\ sessions' = sessions + 1
  /\ state' = {} /\ msg' = {}
  /\ frame' = frame /\ TxSend(TxReset)
  /\ RxStart(RxReset)
  /\ due' = Unread(rx')
  /\ hits' = (IF Amid THEN 2 ELSE 0) /\ stray' = FALSE
  /\ taken' = wrote
  /\ UNCHANGED << app, use, ongoing, commJob, lost, signals, mem, wrote, overrun,
                  hostSent, wrong >>

\* A reset of the bus, or the cable pulled: the jobs are aborted, which only
\* the notification's callback does not ignore, then udi_cdc_data_disable.
Disable ==
  /\ running
  /\ running' = FALSE /\ rxJob' = None /\ txJob' = None
  /\ IF commJob = "none"
     THEN UNCHANGED << state, msg, ongoing, commJob, lost >>
     ELSE /\ MsgSent("stuck")
          /\ lost' = (lost \/ app.pc = "store" \/ commJob' = "stuck")
  /\ UNCHANGED << frame, app, use, sessions, rx, hostSent, due, hits, stray, wrong,
                  tx, mem, wrote, taken, overrun, signals >>

(***************************************************************************)
(* The application.                                                        *)
(***************************************************************************)
At(pc) == app.pc = pc
Go(pc) == app' = [app EXCEPT !.pc = pc]
Return == app' = Idle
Again(pc) == IF app.left = 0 THEN Return ELSE Go(pc)

Call ==
  /\ At("idle")
  /\ \E n \in 1..(2 * Size) :
       \/ use = "read" /\ app' = [Idle EXCEPT !.pc = "sample", !.left = n]
       \/ use = "getc" /\ n <= 2 /\ app' = [Idle EXCEPT !.pc = "sample", !.left = n]
       \/ use = "write" /\ wrote + n <= MaxOut
          /\ app' = [Idle EXCEPT !.pc = "ready", !.left = n]
       \/ use = "putc" /\ wrote + n <= MaxOut /\ n <= 2
          /\ app' = [Idle EXCEPT !.pc = "room", !.left = n]
       \/ use = "signal" /\ signals < MaxSignals /\ n = 1
          /\ app' = [Idle EXCEPT !.pc = "mark"]
  /\ UNCHANGED << running, frame, use, sessions, rxVars, txVars, commVars >>

\* udi_cdc_multi_getc and udi_cdc_multi_read_buf
Sample ==
  /\ At("sample")
  /\ app' = [app EXCEPT !.pc = "check", !.pos = rx.pos, !.sel = rx.sel]
  /\ hits' = 0
  /\ UNCHANGED << running, frame, use, sessions, rx, rxJob, hostSent, due, stray, wrong,
                  txVars, commVars >>

Fewest(a, b) == IF a < b THEN a ELSE b

\* getc takes one byte at a time.
Check ==
  /\ At("check")
  /\ IF app.pos >= rx.nb[app.sel]
     THEN /\ IF running THEN Go("sample") ELSE Return
          /\ UNCHANGED << due, wrong >>
     ELSE LET n == IF use = "getc" THEN 1
                   ELSE Fewest(rx.nb[app.sel] - app.pos, app.left)
              got == [i \in 1..n |-> rx.buf[app.sel][app.pos + i - 1]]
          IN  /\ app' = [app EXCEPT !.pc = IF use = "getc" THEN "advance" ELSE "load",
                                    !.n = n, !.left = @ - n]
              /\ wrong' = (wrong \/ (~Torn /\ ~IsPrefix(got, due)))
              /\ due' = IF Torn THEN due ELSE SubSeq(due, n + 1, Len(due))
  /\ UNCHANGED << running, frame, use, sessions, rx, rxJob, hostSent, hits, stray,
                  txVars, commVars >>

\* getc moves the position on from where it looked, read_buf from where it
\* finds it, which it reads before it writes it.
Load ==
  /\ At("load")
  /\ app' = [app EXCEPT !.pc = "advance", !.pos = rx.pos]
  /\ UNCHANGED << running, frame, use, sessions, rxVars, txVars, commVars >>

Advance ==
  /\ At("advance") /\ Go("start")
  /\ rx' = [rx EXCEPT !.pos = app.pos + app.n]
  /\ due' = IF Torn THEN Unread(rx') ELSE due
  /\ UNCHANGED << running, frame, use, sessions, rxJob, hostSent, hits, stray, wrong,
                  txVars, commVars >>

\* udi_cdc_rx_start in the main program: a critical section, then udd_ep_run.
Start ==
  /\ At("start")
  /\ IF Blocked(rx)
     THEN Again("sample") /\ UNCHANGED rx
     ELSE app' = [app EXCEPT !.pc = "arm", !.sel = rx.sel] /\ rx' = Exchange(rx)
  /\ UNCHANGED << running, frame, use, sessions, rxJob, hostSent, due, hits, stray, wrong,
                  txVars, commVars >>

Arm ==
  /\ At("arm") /\ Again("sample")
  /\ LET starts == running /\ rxJob = None
     IN  /\ rxJob' = IF starts THEN app.sel ELSE rxJob
         /\ stray' = (stray \/ (starts /\ ~rx.on))
  /\ UNCHANGED << running, frame, use, sessions, rx, hostSent, due, hits, wrong,
                  txVars, commVars >>

\* udi_cdc_multi_get_free_tx_buffer moves on to the other buffer when this one
\* is full and the other one is not in use.
\* Mutant: it moves even if the other one is being sent.
MovesAlways(t) == t.nb[t.sel] = Size /\ ~t.both
Moves(t) == t.nb[t.sel] = Size /\ ~t.on /\ ~t.both
Moved(t) == IF Moves(t) THEN [t EXCEPT !.both = TRUE, !.sel = Other(t.sel)] ELSE t
Free(t) == 2 * Size - t.nb[0] - t.nb[1]

\* The wait for room in write_buf ("ready") and in putc ("room").
Ready ==
  /\ app.pc \in {"ready", "room"}
  /\ tx' = Moved(tx)
  /\ IF Free(tx) # 0 THEN Go(IF At("ready") THEN "copy" ELSE "put")
     ELSE IF running THEN UNCHANGED app ELSE Return
  /\ UNCHANGED << running, frame, use, sessions, mem, txJob, wrote, taken, overrun,
                  rxVars, commVars >>

Store(n) ==
  LET at == tx.sel * Size + tx.nb[tx.sel]
  IN  /\ mem' = [i \in DOMAIN mem |->
                   IF i \in at..(at + n - 1) THEN wrote + 1 + i - at ELSE mem[i]]
      /\ tx' = [tx EXCEPT !.nb[tx.sel] = @ + n]
      /\ wrote' = wrote + n
      /\ UNCHANGED << running, frame, use, sessions, txJob, taken, rxVars, commVars >>

\* udi_cdc_multi_write_buf
Copy ==
  /\ At("copy")
  /\ LET n == Fewest(Size - tx.nb[tx.sel], app.left)
     IN  /\ Store(n)
         /\ app' = IF app.left = n THEN Idle
                   ELSE [app EXCEPT !.pc = "ready", !.left = @ - n]
  /\ UNCHANGED overrun

\* udi_cdc_multi_putc does not look at the room of the buffer it writes to.
Put ==
  /\ At("put")
  /\ Store(1)
  /\ overrun' = (overrun \/ tx.nb[tx.sel] >= Size)
  /\ app' = IF app.left = 1 THEN Idle
            ELSE [app EXCEPT !.pc = "room", !.left = @ - 1]

\* udi_cdc_ctrl_state_change
Mark ==
  /\ At("mark") /\ Go("notify")
  /\ signals' = signals + 1
  /\ \E b \in Bits : state' \in {state \cup {b}, state \ ({b} \ Irregular)}
  /\ UNCHANGED << running, frame, use, sessions, msg, ongoing, commJob, lost,
                  rxVars, txVars >>

\* udi_cdc_ctrl_state_notify in the main program: the test, the transfer, and
\* the flag that takes the result of udd_ep_run.
Announce ==
  /\ At("notify")
  /\ IF ongoing \/ state = msg THEN Return ELSE Go("tell")
  /\ UNCHANGED << running, frame, use, sessions, rxVars, txVars, commVars >>

Tell ==
  /\ At("tell")
  /\ LET sent == running /\ commJob = "none"
     IN  /\ msg' = state
         /\ commJob' = IF sent THEN "armed" ELSE commJob
         /\ app' = [app EXCEPT !.pc = "store", !.n = IF sent THEN 1 ELSE 0]
  /\ UNCHANGED << running, frame, use, sessions, state, ongoing, lost, signals,
                  rxVars, txVars >>

SetOngoing ==
  /\ At("store") /\ Return
  /\ ongoing' = (app.n = 1)
  /\ UNCHANGED << running, frame, use, sessions, state, msg, commJob, lost, signals,
                  rxVars, txVars >>

Step ==
  \/ Sample \/ Check \/ Load \/ Advance \/ Start \/ Arm
  \/ Ready \/ Copy \/ Put
  \/ Mark \/ Announce \/ Tell \/ SetOngoing

Next ==
  \/ \E n \in 0..Size : DataReceived(n)
  \/ Sof \/ DataSent \/ CommSent \/ Enable \/ Disable
  \/ Call \/ Step

\* The main program runs, frames go by while the device is attached, and a
\* connected host polls the IN endpoints.
Spec ==
  /\ Init /\ [][Next]_vars
  /\ WF_vars(Step) /\ WF_vars(Sof) /\ WF_vars(DataSent) /\ WF_vars(CommSent)

(***************************************************************************)
(* Properties.                                                             *)
(***************************************************************************)
\* A reader gets the bytes of the host in order, none twice and none skipped;
\* after a new session it first gets what the second buffer still held.  The
\* exceptions: a read during which, between the look at the indices and the
\* move of the position, two packets arrive or a session begins, may repeat or
\* skip bytes, and the next one goes on from where it left the position.  And
\* when a session begins and a packet arrives between the critical section of a
\* reader's udi_cdc_rx_start and its udd_ep_run, the transfer that then starts
\* overwrites a buffer with bytes to read, until the next session.
ReadsInOrder == ~wrong

\* The receiver never stops listening for good: either the OUT endpoint fills
\* the buffer that the application does not read (or, after such a transfer,
\* one of the two), or there is something to read, or a reader is about to
\* start a transfer.
RxServed ==
  running => \/ rxJob = Other(rx.sel)
             \/ stray /\ rxJob # None
             \/ rxJob = None /\ ~rx.on /\ rx.pos < rx.nb[rx.sel]
             \/ rxJob = None /\ app.pc \in {"start", "arm"}

\* What the two buffers hold, the one to be sent first, is what was written
\* and not sent yet, in order; what the endpoint sends is the first of them.
TxInOrder ==
  \/ overrun
  \/ /\ Contents(Other(tx.sel)) \o Contents(tx.sel)
          = [i \in 1..(wrote - taken) |-> taken + i]
     /\ txJob # None => txJob = Other(tx.sel)

\* Every byte written goes to the host, or the session ends.
Flushed == \A k \in 1..MaxOut : wrote >= k ~> (taken >= k \/ ~running \/ overrun)

\* A change of the serial state is announced, unless the end of a notification
\* ran between udd_ep_run and the flag, or one was cut off by a reset.
StateAnnounced == state # msg ~> (state = msg \/ ~running \/ lost)
=============================================================================
