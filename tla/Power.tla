------------------------------- MODULE Power -------------------------------
(***************************************************************************)
(* Sleep and the supply of the USB: the lock counts of the sleep manager   *)
(* (common/services/sleepmgr), their holders, and VBusMon_check, which     *)
(* starts and stops the USB device and is called once by main and then by  *)
(* the interrupt of either edge of the pin that senses the cable.          *)
(*                                                                         *)
(* The interrupts of the cable and of the USB have one level: neither      *)
(* interrupts the other, both interrupt main.  An edge sets the flag of    *)
(* its interrupt, which stays set until the interrupt is taken.            *)
(***************************************************************************)
EXTENDS Integers

CONSTANTS
  Word,     \* a lock count is a number modulo Word (uint8_t: 256)
  MaxEdges  \* bound: times the cable is plugged in or out, contact bounce included

ASSUME PowerAssumption == Word \in Nat /\ Word > 4 /\ MaxEdges \in Nat

VARIABLES
  plugged,   \* level of USB_PROBE_PIN
  edge,      \* flag of PORTD_INT0
  main,      \* where main is
  isr,       \* PORTD_INT0 is in VBusMon_check
  r,         \* the guard against reentrance of VBusMon_check
  at,        \* the next step of the VBusMon_check that runs
  usb,       \* clock of the USB module, enabled, attached to the bus, udd_b_idle
  dfll,      \* what the 32 MHz oscillator is calibrated with
  locks,     \* sleepmgr_locks of the two modes in use
  asleep     \* the mode the CPU sleeps in, or "no"

\* Auxiliary variables.
VARIABLES
  edges,     \* edges so far
  missed,    \* an edge came that no reading of the pin has followed
  leaks      \* udd_enable has forgotten that it held the lock of IDLE

powerVars == << plugged, edge, main, isr, r, at, usb, dfll, locks, asleep, edges, missed, leaks >>

Modes == {"IDLE", "PDOWN"}
MainAt == {"masked", "check", "checking", "gauge", "timers", "loop", "adc"}
Steps == {"none", "read", "detach", "stop", "uncalibrate", "calibrate", "clock", "enable",
          "attach", "blink"}

PowerTypeOK ==
  /\ plugged \in BOOLEAN /\ edge \in BOOLEAN /\ isr \in BOOLEAN /\ r \in BOOLEAN
  /\ main \in MainAt /\ at \in Steps
  /\ usb \in [clock : BOOLEAN, on : BOOLEAN, attached : BOOLEAN, idle : BOOLEAN]
  /\ dfll \in {"frames", "crystal"}
  /\ locks \in [Modes -> 0..(Word - 1)]
  /\ asleep \in Modes \cup {"no"}
  /\ edges \in 0..MaxEdges /\ missed \in BOOLEAN /\ leaks \in Nat

\* main has enabled the interrupt of the pin and not yet the interrupts as a whole.
PowerInit ==
  /\ plugged \in BOOLEAN /\ edge = FALSE
  /\ main = "masked" /\ isr = FALSE /\ r = FALSE /\ at = "none"
  /\ usb = [clock |-> FALSE, on |-> FALSE, attached |-> FALSE, idle |-> FALSE]
  /\ dfll = "frames"
  /\ locks = [m \in Modes |-> IF m = "PDOWN" THEN 1 ELSE 0]
  /\ asleep = "no"
  /\ edges = 0 /\ missed = FALSE /\ leaks = 0

(* ------------------------------ sleep manager --------------------------- *)

Lock(l, m, n) == [l EXCEPT ![m] = (@ + n) % Word]
Unlock(l, m) == [l EXCEPT ![m] = (@ + Word - 1) % Word]

\* The shallowest mode that is locked; the scan of a table without any runs on
\* past its end.
SleepMode == IF locks["IDLE"] # 0 THEN {"IDLE"}
             ELSE IF locks["PDOWN"] # 0 THEN {"PDOWN"} ELSE Modes

\* mutants: the guard of the unlock is forgotten, that of the lock.
UsbLockUnlocks(l, was, idle) ==
  IF ~idle THEN Unlock(l, "IDLE") ELSE IF was THEN l ELSE Lock(l, "IDLE", 1)
UsbLockLocks(l, was, idle) ==
  IF idle THEN Lock(l, "IDLE", 1) ELSE IF was THEN Unlock(l, "IDLE") ELSE l

\* udd_sleep_mode(idle) when the last call was udd_sleep_mode(was).
UsbLock(l, was, idle) ==
  IF was = idle THEN l ELSE IF idle THEN Lock(l, "IDLE", 1) ELSE Unlock(l, "IDLE")

SetIdle(idle) ==
  /\ usb' = [usb EXCEPT !.idle = idle]
  /\ locks' = UsbLock(locks, usb.idle, idle)

(* -------------------------------- the cable ----------------------------- *)

\* mutant: the interrupt of the rising edge only.
EdgeRising ==
  /\ edges < MaxEdges
  /\ plugged' = ~plugged /\ edge' = (edge \/ ~plugged) /\ edges' = edges + 1
  /\ UNCHANGED << main, isr, r, at, usb, dfll, locks, asleep, missed, leaks >>

Edge ==
  /\ edges < MaxEdges
  /\ plugged' = ~plugged /\ edge' = TRUE /\ edges' = edges + 1
  /\ UNCHANGED << main, isr, r, at, usb, dfll, locks, asleep, missed, leaks >>

\* PORTD_INT0: VBusMon_check returns at once when main is inside it.
CableInterrupt ==
  /\ edge /\ main # "masked" /\ ~isr
  /\ edge' = FALSE /\ asleep' = "no"
  /\ IF r
     THEN missed' = TRUE /\ UNCHANGED << isr, r, at >>
     ELSE isr' = TRUE /\ r' = TRUE /\ at' = "read" /\ UNCHANGED missed
  /\ UNCHANGED << plugged, main, usb, dfll, locks, edges, leaks >>

MainCheck ==
  /\ main = "check" /\ ~isr /\ ~r
  /\ main' = "checking" /\ r' = TRUE /\ at' = "read"
  /\ UNCHANGED << plugged, edge, isr, usb, dfll, locks, asleep, edges, missed, leaks >>

(* ------------------------- steps of VBusMon_check ----------------------- *)

Step(here, next) ==
  /\ at = here /\ at' = next
  /\ UNCHANGED << plugged, edge, edges, asleep >>

Stay == UNCHANGED << main, isr, r >>

ReadPin ==
  /\ Step("read", IF plugged THEN "calibrate" ELSE "detach") /\ Stay
  /\ missed' = FALSE
  /\ UNCHANGED << usb, dfll, locks, leaks >>

Detach ==
  /\ Step("detach", "stop") /\ Stay
  /\ usb' = [usb EXCEPT !.attached = FALSE]
  /\ UNCHANGED << dfll, locks, missed, leaks >>

\* udd_disable; it does not ask whether the device is enabled.
Stop ==
  /\ Step("stop", "uncalibrate") /\ Stay
  /\ usb' = [clock |-> FALSE, on |-> FALSE, attached |-> FALSE, idle |-> FALSE]
  /\ locks' = Unlock(UsbLock(locks, usb.idle, FALSE), "PDOWN")
  /\ UNCHANGED << dfll, missed, leaks >>

Calibrate(ref) == dfll' = ref /\ UNCHANGED << usb, locks, missed, leaks >>
Uncalibrated == Step("uncalibrate", "blink") /\ Stay /\ Calibrate("crystal")
Calibrated == Step("calibrate", "clock") /\ Stay /\ Calibrate("frames")

Clock ==
  /\ Step("clock", "enable") /\ Stay
  /\ usb' = [usb EXCEPT !.clock = TRUE]
  /\ UNCHANGED << dfll, locks, missed, leaks >>

\* The critical section of udd_enable, with udd_attach: a lock of IDLE that is
\* held is forgotten and taken once more.
UddEnable ==
  /\ Step("enable", "attach") /\ Stay
  /\ usb' = [usb EXCEPT !.on = TRUE, !.attached = TRUE, !.idle = TRUE]
  /\ locks' = UsbLock(Lock(locks, "PDOWN", 1), FALSE, TRUE)
  /\ leaks' = IF usb.idle THEN leaks + 1 ELSE leaks
  /\ UNCHANGED << dfll, missed >>

\* vbus_action(true).
Attach ==
  /\ Step("attach", "blink") /\ Stay
  /\ usb' = [usb EXCEPT !.attached = TRUE, !.idle = TRUE]
  /\ locks' = UsbLock(locks, usb.idle, TRUE)
  /\ UNCHANGED << dfll, missed, leaks >>

\* The light has blinked and the message is out: VBusMon_check returns.
Return ==
  /\ Step("blink", "none")
  /\ r' = FALSE /\ isr' = FALSE
  /\ main' = IF isr THEN main ELSE "gauge"
  /\ UNCHANGED << usb, dfll, locks, missed, leaks >>

Check == ReadPin \/ Detach \/ Stop \/ Uncalibrated \/ Calibrated \/ Clock \/ UddEnable
           \/ Attach \/ Return

(* ------------------------------ the USB bus ----------------------------- *)

\* The host falls silent, or the cable is out; the host resumes.
BusEvent ==
  /\ usb.on /\ main # "masked" /\ ~isr
  /\ \E idle \in BOOLEAN : (idle => plugged /\ usb.attached) /\ SetIdle(idle)
  /\ asleep' = "no"
  /\ UNCHANGED << plugged, edge, main, isr, r, at, dfll, edges, missed, leaks >>

(* ---------------------------------- main -------------------------------- *)

Goto(here, next) ==
  /\ main = here /\ main' = next /\ ~isr
  /\ UNCHANGED << plugged, edge, isr, r, at, usb, dfll, edges, missed, leaks >>

EnableInterrupts == Goto("masked", "check") /\ UNCHANGED << locks, asleep >>
GaugeInit == Goto("gauge", "timers") /\ locks' = Lock(locks, "IDLE", 1) /\ UNCHANGED asleep
TimersEnable == Goto("timers", "loop") /\ locks' = Lock(locks, "IDLE", 2) /\ UNCHANGED asleep

\* The loop of datalogger_run has nothing to do.
EnterSleep ==
  /\ asleep = "no" /\ Goto("loop", "loop")
  /\ asleep' \in SleepMode
  /\ UNCHANGED locks

\* The alarm of the clock wakes the CPU out of IDLE only.
Alarm ==
  /\ asleep = "IDLE" /\ Goto("loop", "loop")
  /\ asleep' = "no"
  /\ UNCHANGED locks

\* The store task reads the voltage of the battery.
AdcEnable == asleep = "no" /\ Goto("loop", "adc") /\ locks' = Lock(locks, "IDLE", 1) /\ UNCHANGED asleep
AdcDisable == Goto("adc", "loop") /\ locks' = Unlock(locks, "IDLE") /\ UNCHANGED asleep

Main == EnableInterrupts \/ MainCheck \/ GaugeInit \/ TimersEnable \/ AdcDisable

PowerNext == Edge \/ CableInterrupt \/ Check \/ BusEvent \/ Main \/ EnterSleep \/ Alarm \/ AdcEnable

PowerSafetySpec == PowerInit /\ [][PowerNext]_powerVars

\* The code runs on, and a pending interrupt of the cable is taken in the end:
\* the events that come before it are a tick and what the bus does.
PowerFairness == WF_powerVars(Main) /\ WF_powerVars(Check) /\ WF_powerVars(CableInterrupt)

PowerSpec == PowerSafetySpec /\ PowerFairness

(* ------------------------------- properties ----------------------------- *)

Holds(b) == IF b THEN 1 ELSE 0

\* The count of IDLE is, modulo Word, the number of its holders and of the
\* locks that starts of a USB device already started have forgotten, at every
\* point of main and of the interrupts (sleepmgr.h:132, usb_device.c:164).
Holders == CASE main = "timers" -> 1
             [] main = "loop" -> 3
             [] main = "adc" -> 4
             [] OTHER -> 0
IdleExact == locks["IDLE"] = (Holders + Holds(usb.idle) + leaks) % Word

\* The CPU never sleeps deeper than the timers of the rain gauge allow, which
\* stop in every mode below IDLE, and the scan for the mode never leaves the
\* table (sleepmgr.h:185), until forgotten locks make the count overflow.
TimersRun == asleep \in {"no", "IDLE"} \/ leaks + 4 >= Word

\* Once the cable is left alone the USB device is on, attached and the
\* reference of the oscillator, or off, as the cable is: unless main was inside
\* VBusMon_check at the last edge (VBusMon.c:23).
AsCable ==
  /\ at = "none"
  /\ usb.clock = plugged /\ usb.on = plugged /\ usb.attached = plugged
  /\ dfll = IF plugged THEN "frames" ELSE "crystal"
UsbFollowsCable == <>[](AsCable \/ missed)
=============================================================================
