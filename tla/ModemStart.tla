----------------------------- MODULE ModemStart -----------------------------
(***************************************************************************)
(* The start of the modem and its bearer (drivers/sim900): sim900_init,    *)
(* which powers the module, synchronises with it, unlocks the SIM and      *)
(* waits for the network, sim900_GPRS_init and _close, and the loop of     *)
(* datalogger_init that repeats the start until it succeeds.               *)
(*                                                                         *)
(* A command and a line of an answer are the units of communication, as in *)
(* module Sim900.  The module also speaks unasked, and loses its power at  *)
(* the toggle of a pin that works in both directions.                      *)
(***************************************************************************)
EXTENDS Integers, Sequences

CONSTANTS
  AtTries,      \* AT commands after each toggle (3)
  Checks,       \* rounds of AT+CREG? and of AT+SAPBR=2 (18 and 10)
  MaxAttempts,  \* calls of sim900_init before the reset of the station (9)
  Codes,        \* wrong codes until a lock is blocked (3)
  Locks,        \* what the SIM may ask for
  MaxFaults     \* bound: answers that are late or lost, and lines unasked

Blocked == [l \in {"SIM PIN", "PH_SIM PIN", "SIM PIN2"} |->
              CASE l = "SIM PIN" -> "SIM PUK"
                [] l = "PH_SIM PIN" -> "PH_SIM PUK"
                [] OTHER -> "SIM PUK2"]

ASSUME ModemStartAssumption ==
  /\ {AtTries, Checks, MaxAttempts, Codes} \subseteq Nat \ {0} /\ MaxFaults \in Nat
  /\ Locks \subseteq DOMAIN Blocked \cup {"READY", "none"}

\* Steps of sim900_init, of sim900_GPRS_init and of sim900_GPRS_close.
Twice == {"ATE0", "CREG=0", "GSN=?", "GSN", "bearer?", "contype", "apn", "SAPBR=1", "again?", "SAPBR=0"}
Once == {"AT", "CPIN=?", "CPIN?", "PIN", "CREG?"}
\* Steps that listen only, for the OK after the line of an answer.
Listening == {"GSN ok", "bearer ok", "again ok"}
Steps == Twice \cup Once \cup Listening \cup {"off", "toggle", "idle"}
\* Steps that take the next line whatever it is (sim900_read_string).
Reading == {"GSN", "CREG?", "bearer?", "again?"}

Answers == {"OK", "ERROR"}
Bearers == {"connecting", "open", "closing", "closed"}
Words == DOMAIN Blocked \cup {Blocked[l] : l \in DOMAIN Blocked} \cup {"READY"}
Texts == Answers \cup Bearers \cup Words \cup {"IMEI", "unregistered", "registered", "unasked"}

VARIABLES
  phase,     \* the station: in datalogger_init, or past it
  attempt,   \* ii of datalogger_init
  pin,       \* the PIN in the configuration
  op, step,  \* the function that runs and its next step
  waiting,   \* has the step sent its command?
  tries,     \* attempts of the step left
  t,         \* toggles left
  checks,    \* rounds left
  status,    \* the line about the bearer that was read last
  result     \* what the last function returned

VARIABLES rx, inbox   \* lines and commands on their way

VARIABLES on, asks, lock, left, bearer   \* the module: asks: the lock of the SIM when
                                         \* it gets power, left: codes until lock is blocked

\* Auxiliary variables.
VARIABLES
  faults,
  calm,      \* nothing was lost, late or unasked since op was called
  seen       \* the bearer when the module was last asked about it since then

station == << phase, attempt, pin >>
driver == << op, step, waiting, tries, t, checks, status, result >>
module == << on, asks, lock, left, bearer >>
vars == << station, driver, rx, inbox, module, faults, calm, seen >>

TypeOK ==
  /\ phase \in {"boot", "run"} /\ attempt \in 1..MaxAttempts
  /\ pin \in {"none", "right", "wrong"}
  /\ op \in {"init", "open", "close"} /\ step \in Steps /\ waiting \in BOOLEAN
  /\ tries \in 1..(AtTries + 2) /\ t \in 0..2 /\ checks \in 1..Checks
  /\ status \in Texts \cup {"none"} /\ result \in -1..4
  /\ rx \in Seq(Texts) /\ inbox \in Seq(Steps)
  /\ on \in BOOLEAN /\ {asks, lock} \subseteq Words \cup {"none"} /\ left \in 0..Codes
  /\ bearer \in Bearers
  /\ faults \in 0..MaxFaults /\ calm \in BOOLEAN /\ seen \in Bearers \cup {"none"}

\* The station starts, with the module on if only the station was reset.
Init ==
  /\ phase = "boot" /\ attempt = 1 /\ pin \in {"none", "right", "wrong"}
  /\ op = "init" /\ step = "off" /\ waiting = FALSE /\ tries = 1 /\ t = 2
  /\ checks = Checks /\ status = "none" /\ result = -1
  /\ rx = << >> /\ inbox = << >>
  /\ on \in BOOLEAN /\ asks \in Locks /\ lock = asks /\ left = Codes /\ bearer = "closed"
  /\ faults = 0 /\ calm = TRUE /\ seen = "none"

(***************************************************************************)
(* The driver.                                                             *)
(***************************************************************************)
Tries(s) == IF s = "AT" THEN AtTries ELSE IF s \in Twice THEN 2 ELSE 1

\* The word that sim900_wait4dictionary finds in a line: the first of its table
\* that is complete, and that is SIM PIN in SIM PIN2 and in PH_SIM PIN.
Found(line) ==
  CASE line \in {"SIM PIN2", "PH_SIM PIN"} -> "SIM PIN"
    [] line \in {"SIM PUK2", "PH_SIM PUK"} -> "SIM PUK"
    [] OTHER -> line
Dictionary(s) == IF s = "CPIN?" THEN Answers \cup Words ELSE Answers

Goto(s) ==
  /\ step' = s /\ waiting' = FALSE /\ tries' = Tries(s)
  /\ UNCHANGED << op, t, checks, status, result >>
Return(code) ==
  /\ step' = "idle" /\ waiting' = FALSE /\ tries' = 1 /\ result' = code
  /\ UNCHANGED << op, t, checks, status >>
Retry ==
  /\ waiting' = FALSE /\ tries' = tries - 1
  /\ UNCHANGED << op, step, t, checks, status, result >>
\* mutant: the rounds are not counted.
RoundForever(s) == Goto(s)

\* One more round of a loop, which succeeds when it has no more.
Round(s) ==
  IF checks = 1 THEN Return(0)
  ELSE /\ step' = s /\ waiting' = FALSE /\ tries' = Tries(s) /\ checks' = checks - 1
       /\ UNCHANGED << op, t, status, result >>
Start(o, s) ==
  /\ op' = o /\ step' = s /\ waiting' = FALSE /\ tries' = Tries(s)
  /\ t' = 2 /\ checks' = Checks /\ status' = "none" /\ result' = result
Unless(good, x, bad) == IF x = "OK" THEN good ELSE bad

\* After AT has been tried for the last time.
NoAnswer == IF t > 0 THEN Goto("toggle") ELSE Return(-1)

\* mutant: without a PIN in the configuration the start goes on.
PinOrNothing(x) ==
  IF x = "SIM PIN" /\ pin # "none" THEN Goto("PIN")
  ELSE IF x = "SIM PUK" THEN Return(4) ELSE Goto("CREG?")

\* What the answer to AT+CPIN? decides.
Asked(x) ==
  IF x = "SIM PIN" THEN IF pin = "none" THEN Return(3) ELSE Goto("PIN")
  ELSE IF x = "SIM PUK" THEN Return(4) ELSE Goto("CREG?")

\* sim900_init after step s got x, a word or a line, or "none" after a timeout.
InitGoesOn(s, x) ==
  CASE s = "AT" -> Unless(Goto("ATE0"), x, IF tries > 1 THEN Retry ELSE NoAnswer)
    [] s = "ATE0" -> Goto("CREG=0")
    [] s = "CREG=0" -> Goto("GSN=?")
    [] s = "GSN=?" -> Goto("GSN")
    [] s = "GSN" -> Goto("GSN ok")
    [] s = "GSN ok" -> Goto("CPIN=?")
    [] s = "CPIN=?" -> Unless(Goto("CPIN?"), x, Return(1))
    [] s = "CPIN?" -> Asked(x)
    [] s = "PIN" -> Unless(Goto("CREG?"), x, Return(3))
    [] s = "CREG?" -> CASE x = "registered" -> Return(0)
                        [] x = "unregistered" -> Round("CREG?")
                        [] OTHER -> Start("init", "off")

ReadStatus(x, s) ==
  /\ step' = s /\ waiting' = FALSE /\ tries' = 1 /\ status' = x
  /\ UNCHANGED << op, t, checks, result >>

\* mutant: a bearer that is closed again is asked about again, until the rounds end.
AskOn(x) == Unless(IF status = "open" THEN Return(0) ELSE Round("again?"), x, Return(1))

\* What the second question about the bearer decides.
Again(x) == Unless(CASE status = "open" -> Return(0)
                     [] status \in {"closing", "closed"} -> Return(1)
                     [] OTHER -> Round("again?"), x, Return(1))

\* sim900_GPRS_init; an APN that nobody answers is passed over.
OpenGoesOn(s, x) ==
  CASE s \in {"bearer?", "again?"} /\ x = "none" -> Return(1)
    [] s = "bearer?" /\ x # "none" -> ReadStatus(x, "bearer ok")
    [] s = "bearer ok" -> Unless(CASE status = "closed" -> Goto("contype")
                                   [] status = "closing" -> Return(2)
                                   [] OTHER -> Return(0), x, Return(1))
    [] s = "contype" -> IF x = "none" THEN Return(1) ELSE Goto("apn")
    [] s = "apn" -> IF x = "ERROR" THEN Return(1) ELSE Goto("SAPBR=1")
    [] s = "SAPBR=1" -> Unless(Goto("again?"), x, Return(1))
    [] s = "again?" /\ x # "none" -> ReadStatus(x, "again ok")
    [] s = "again ok" -> Again(x)

GoesOn(s, x) ==
  CASE op = "init" -> InitGoesOn(s, x)
    [] op = "open" -> OpenGoesOn(s, x)
    [] op = "close" -> Return(IF x = "OK" THEN 0 ELSE 1)

\* A switch of the module: the SIM asks again for a code that was given.
Relock == lock' = IF lock = "READY" THEN asks ELSE lock

PowerOff ==
  /\ step = "off"
  /\ Goto("toggle")
  /\ on' = FALSE /\ bearer' = "closed" /\ Relock
  /\ inbox' = IF on THEN << >> ELSE inbox
  /\ UNCHANGED << station, rx, asks, left, faults, calm, seen >>

\* sim900_power_toggle: the second toggle turns off what the first turned on.
Toggle ==
  /\ step = "toggle"
  /\ step' = "AT" /\ waiting' = FALSE /\ tries' = AtTries /\ t' = t - 1
  /\ UNCHANGED << op, checks, status, result >>
  /\ on' = ~on /\ inbox' = << >> /\ bearer' = "closed" /\ Relock
  /\ UNCHANGED << station, rx, asks, left, faults, calm, seen >>

\* The command goes out, and the waiting function flushes what came before.
\* The OK after a line that was read follows a few milliseconds later: the flush
\* before it is waited for finds nothing of it (a lost line: Disturb).
Send ==
  /\ step \notin {"off", "toggle", "idle"} /\ ~waiting
  /\ waiting' = TRUE
  /\ rx' = IF step \in Listening THEN rx ELSE << >>
  /\ inbox' = IF step \in Listening \/ ~on THEN inbox ELSE Append(inbox, step)
  /\ UNCHANGED << station, op, step, tries, t, checks, status, result, module, faults, calm, seen >>

Receive ==
  /\ waiting /\ rx # << >>
  /\ rx' = Tail(rx)
  /\ LET x == IF step \in Reading THEN Head(rx) ELSE Found(Head(rx))
     IN  IF step \in Reading \/ x \in Dictionary(step) THEN GoesOn(step, x)
         ELSE UNCHANGED driver
  /\ UNCHANGED << station, inbox, module, faults, calm, seen >>

\* Nothing comes, or the answer comes too late.
Timeout ==
  /\ waiting /\ rx = << >>
  /\ inbox # << >> => faults < MaxFaults
  /\ faults' = IF inbox = << >> THEN faults ELSE faults + 1
  /\ calm' = (calm /\ inbox = << >>)
  /\ IF tries > 1 /\ step \in Twice THEN Retry ELSE GoesOn(step, "none")
  /\ UNCHANGED << station, rx, inbox, module, seen >>

(***************************************************************************)
(* The station.                                                            *)
(***************************************************************************)
\* A call: what is still on its way to the module counts against it, unless the
\* call begins with the power switch.
Fresh(o) == calm' = (o = "init" \/ inbox = << >>) /\ seen' = "none"

\* datalogger_init: the start is repeated; the last attempt resets the station,
\* which does not reset the module.
Boot ==
  /\ phase = "boot" /\ step = "idle"
  /\ IF result = 0
     THEN phase' = "run" /\ UNCHANGED << attempt, driver, calm, seen >>
     ELSE /\ attempt' = (attempt % MaxAttempts) + 1
          /\ Start("init", "off") /\ Fresh("init") /\ UNCHANGED phase
  /\ UNCHANGED << pin, rx, inbox, module, faults >>

\* A task opens or closes the bearer, or starts the modem again.
Call(o, s) ==
  /\ phase = "run" /\ step = "idle"
  /\ Start(o, s)
  /\ Fresh(o)
  /\ UNCHANGED << station, rx, inbox, module, faults >>
Tasks == Call("open", "bearer?") \/ Call("close", "SAPBR=0") \/ Call("init", "off")

(***************************************************************************)
(* The module.                                                             *)
(***************************************************************************)
Answer(lines) == rx' = rx \o lines
Keeps == UNCHANGED module

EnterPin ==
  IF lock = "SIM PIN" /\ pin = "right"
  THEN lock' = "READY" /\ left' = Codes /\ Answer(<< "OK" >>)
  ELSE /\ Answer(<< "ERROR" >>)
       /\ IF lock \in DOMAIN Blocked
          THEN left' = left - 1 /\ lock' = IF left = 1 THEN Blocked[lock] ELSE lock
          ELSE UNCHANGED << lock, left >>

Perform ==
  /\ on /\ inbox # << >>
  /\ inbox' = Tail(inbox)
  /\ LET c == Head(inbox)
     IN  CASE c \in {"CPIN=?", "CPIN?"} /\ lock = "none" -> Answer(<< "ERROR" >>) /\ Keeps
           [] c = "GSN" -> Answer(<< "IMEI", "OK" >>) /\ Keeps
           [] c = "CPIN?" /\ lock # "none" -> Answer(<< lock, "OK" >>) /\ Keeps
           [] c = "CREG?" ->
                \E x \in {"registered", "unregistered"} : Answer(<< x, "OK" >>) /\ Keeps
           [] c \in {"bearer?", "again?"} -> Answer(<< bearer, "OK" >>) /\ Keeps
           [] c = "PIN" -> EnterPin /\ UNCHANGED << on, asks, bearer >>
           [] c = "SAPBR=1" ->
                \/ Answer(<< "ERROR" >>) /\ Keeps
                \/ /\ bearer = "closed" /\ bearer' = "connecting" /\ Answer(<< "OK" >>)
                   /\ UNCHANGED << on, asks, lock, left >>
           [] c = "SAPBR=0" ->
                IF bearer = "closed" THEN Answer(<< "ERROR" >>) /\ Keeps
                ELSE bearer' = "closing" /\ Answer(<< "OK" >>) /\ UNCHANGED << on, asks, lock, left >>
           [] OTHER -> Answer(<< "OK" >>) /\ Keeps
  /\ seen' = IF Head(inbox) \in {"bearer?", "again?"} THEN bearer ELSE seen
  /\ UNCHANGED << station, driver, faults, calm >>

\* The network connects, disconnects, or drops the bearer.
Network ==
  /\ on /\ bearer # "closed"
  /\ bearer' = CASE bearer = "connecting" -> "open"
                 [] bearer = "open" -> "closing"
                 [] bearer = "closing" -> "closed"
  /\ UNCHANGED << station, driver, rx, inbox, on, asks, lock, left, faults, calm, seen >>

\* A line is lost, or comes unasked (RDY, Call Ready).
Disturb ==
  /\ faults < MaxFaults /\ faults' = faults + 1 /\ calm' = FALSE
  /\ \/ rx # << >> /\ rx' = Tail(rx)
     \/ on /\ rx' = Append(rx, "unasked")
  /\ UNCHANGED << station, driver, inbox, module, seen >>

Driver == PowerOff \/ Toggle \/ Send \/ Receive \/ Timeout \/ Boot

Next == Driver \/ Tasks \/ Perform \/ Network \/ Disturb

\* The driver polls, its timeouts run, and the module answers.
Spec == Init /\ [][Next]_vars /\ WF_vars(Driver) /\ WF_vars(Perform)

(***************************************************************************)
(* Properties.                                                             *)
(***************************************************************************)
\* When sim900_init returns 0 the module is on, however many toggles of the one
\* pin came before, and its SIM is unlocked, unless a line was lost, late or
\* unasked (sim900.c:421, 507).
StartedMeansReady ==
  op = "init" /\ step = "idle" /\ result = 0 => on /\ (lock = "READY" \/ ~calm)

\* The boot ends unless the SIM is missing or cannot be unlocked: each failure
\* of the start has had a cause, and causes come to an end (sim900.c:547,
\* datalogger.c:534).
BootEnds == (lock \in {"READY", "SIM PIN"} /\ (lock = "SIM PIN" => pin = "right")) ~> phase = "run"

\* When sim900_GPRS_init returns 0 the module had a bearer, or was connecting it,
\* when it was last asked, unless a line was lost, late or unasked (sim900.c:685).
BearerTrue ==
  op = "open" /\ step = "idle" /\ result = 0 => seen \in {"connecting", "open"} \/ ~calm
=============================================================================
