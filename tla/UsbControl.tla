----------------------------- MODULE UsbControl -----------------------------
(***************************************************************************)
(* The control endpoint of the USB device: the driver's state machine      *)
(* (xmega/drivers/usb/usb_device.c), the decoding of the requests and the  *)
(* configuration (common/services/usb/udc/udc.c, udi_cdc_comm_setup).      *)
(*                                                                         *)
(* The host sends packets at any time; the controller answers them on its  *)
(* own, from the state of the endpoint, and raises flags.  Two interrupts  *)
(* handle the flags, the one of the bus events first.  Host and controller *)
(* are the environment.                                                    *)
(***************************************************************************)
EXTENDS Integers

CONSTANTS
  Packet,      \* USB_DEVICE_EP_CTRL_SIZE (64)
  MaxLen,      \* bound: wLength of a request with data
  Sizes,       \* sizes of what the host may read
  CodingSize,  \* bytes of a line coding
  Address,     \* the address the host gives to the device
  Settings,    \* alternate settings that the host asks for (the device has 0)
  Targets,     \* interfaces whose setting the host changes
  MaxGiveUps   \* bound: transfers that the host gives up

ASSUME ControlAssumption ==
  /\ Packet \in Nat \ {0} /\ MaxLen \in Nat \ {0}
  /\ Sizes \subseteq Nat \ {0} /\ CodingSize \in Nat \ {0}
  /\ Address \in Nat \ {0} /\ Settings \subseteq Nat /\ MaxGiveUps \in Nat
  /\ Targets \subseteq {"comm", "data"}

Fewest(a, b) == IF a < b THEN a ELSE b

\* The interfaces of the configuration and their endpoints.
Interfaces == {"comm", "data"}
Endpoints(i) == IF i = "comm" THEN {"notify"} ELSE {"in", "out"}
AllEndpoints == UNION {Endpoints(i) : i \in Interfaces}

\* A request: len is its wLength, size what the device has for it.
Request(k, l, s, a) == [kind |-> k, len |-> l, size |-> s, arg |-> a]
NoRequest == Request("none", 0, 0, 0)
Reads ==
  {Request("descriptor", l, Fewest(l, s), 0) : l \in 1..MaxLen, s \in Sizes}
    \cup {Request("status", l, 2, 0) : l \in 1..2}
    \cup {Request("setting", 1, 1, 0)}
Coding == Request("coding", CodingSize, CodingSize, 0)
Commands ==
  {Request("address", 0, 0, Address)}
    \cup {Request("configuration", 0, 0, c) : c \in 0..1}
    \cup {Request("interface", 0, 0, << i, s >>) : i \in Targets, s \in Settings}
Requests == Reads \cup Commands \cup {Coding}
IsIn(r) == r \in Reads

VARIABLES
  ctl,      \* the driver's state machine and its counters
  short,    \* b_shortpacket of udd_ctrl_in_sent
  dev,      \* address, configuration, endpoints and interfaces in use
  ep,       \* control endpoint: NAK of IN and OUT, stall, byte counts, UNF, OVF
  flags,    \* pending events: setup, in, out, unf, ovf, reset
  host      \* the transfer the host is busy with

\* Auxiliary variables.
VARIABLES
  accepted,  \* udc_process_setup accepted the request
  alien,     \* flags that another endpoint has raised
  foreign,   \* a stall came from the flag of another endpoint
  maimed,    \* a SET_INTERFACE for a setting the device does not have
  strayed,   \* the host gave up a SET_ADDRESS that the device had or was to take
  gaveUp

aux == << accepted, alien, foreign, maimed, strayed, gaveUp >>
vars == << ctl, short, dev, ep, flags, host, aux >>

States == {"SETUP", "DATA_OUT", "DATA_IN", "WAIT_IN_ZLP", "WAIT_OUT_ZLP", "STALL_REQ"}
Waiting == {"WAIT_IN_ZLP", "WAIT_OUT_ZLP"}
Phases == {"idle", "setup", "data_in", "data_out", "status_in", "status_out", "lost"}

TypeOK ==
  /\ ctl \in [st : States, prev : 0..(2 * MaxLen), nb : 0..MaxLen, size : 0..MaxLen,
              cb : {"none", "address", "coding"}, req : Requests \cup {NoRequest}]
  /\ short \in BOOLEAN
  /\ dev \in [addr : {0, Address}, cfg : 0..1, alloc : SUBSET AllEndpoints,
              ifaces : SUBSET Interfaces]
  /\ ep \in [inNak : BOOLEAN, outNak : BOOLEAN, stall : BOOLEAN, cnt : 0..Packet,
             got : 0..Packet, unf : BOOLEAN, ovf : BOOLEAN, err : BOOLEAN]
  /\ flags \subseteq {"setup", "in", "out", "unf", "ovf", "reset"}
  /\ host \in [phase : Phases, req : Requests \cup {NoRequest}, n : 0..MaxLen,
               addr : {0, Address}, cut : BOOLEAN, stalled : BOOLEAN]
  /\ alien \subseteq flags \cap {"unf", "ovf"}
  /\ accepted \in BOOLEAN /\ foreign \in BOOLEAN /\ maimed \in BOOLEAN
  /\ strayed \in BOOLEAN /\ gaveUp \in 0..MaxGiveUps

CtlIdle == [st |-> "SETUP", prev |-> 0, nb |-> 0, size |-> 0, cb |-> "none",
            req |-> NoRequest]
DevIdle == [addr |-> 0, cfg |-> 0, alloc |-> {}, ifaces |-> {}]
EpIdle == [inNak |-> TRUE, outNak |-> TRUE, stall |-> FALSE, cnt |-> 0, got |-> 0,
           unf |-> FALSE, ovf |-> FALSE, err |-> FALSE]
HostIdle == [phase |-> "idle", req |-> NoRequest, n |-> 0, addr |-> 0,
             cut |-> FALSE, stalled |-> FALSE]

Init ==
  /\ ctl = CtlIdle /\ short = FALSE /\ dev = DevIdle /\ ep = EpIdle
  /\ flags = {} /\ host = HostIdle
  /\ alien = {} /\ accepted = FALSE /\ foreign = FALSE /\ maimed = FALSE /\ strayed = FALSE
  /\ gaveUp = 0

(***************************************************************************)
(* Interfaces and configuration (udc.c).                                   *)
(***************************************************************************)
\* udc_iface_disable frees the endpoints, udc_iface_enable allocates them.
\* Mutant: the endpoints stay allocated.
DisableKeep(d, i) == [d EXCEPT !.ifaces = @ \ {i}]
Disable(d, i) ==
  [d EXCEPT !.ifaces = @ \ {i}, !.alloc = @ \ Endpoints(i)]
Enable(d, i) == [d EXCEPT !.ifaces = @ \cup {i}, !.alloc = @ \cup Endpoints(i)]

\* udc_reset
DevReset(d) == [Disable(Disable(d, "comm"), "data") EXCEPT !.cfg = 0]

\* udc_req_std_dev_set_configuration
Configure(d, c) ==
  IF c = 0 THEN DevReset(d)
  ELSE Enable(Enable([DevReset(d) EXCEPT !.cfg = c], "comm"), "data")

\* udc_req_std_iface_set_setting
SetInterface(d, i, s) ==
  IF s = 0 THEN Enable(Disable(d, i), i) ELSE Disable(d, i)

\* udc_process_setup: is the request supported, and what it does at once.
Accepts(d, r) ==
  CASE r.kind \in {"descriptor", "address"} -> TRUE
    [] r.kind = "status" -> r.len = r.size
    [] r.kind = "configuration" -> d.addr # 0
    [] r.kind \in {"setting", "coding"} -> d.cfg # 0
    [] r.kind = "interface" -> d.cfg # 0 /\ r.arg[2] = 0

Effect(d, r) ==
  CASE r.kind = "configuration" /\ d.addr # 0 -> Configure(d, r.arg)
    [] r.kind = "interface" /\ d.cfg # 0 -> SetInterface(d, r.arg[1], r.arg[2])
    [] OTHER -> d

\* SET_ADDRESS takes effect at the end of the request.
Callback(r) == IF r.kind \in {"address", "coding"} THEN r.kind ELSE "none"

(***************************************************************************)
(* The state machine of the driver (usb_device.c).  Each operator takes    *)
(* the states of the machine, of the endpoint and of the device.           *)
(***************************************************************************)
\* udd_ctrl_endofrequest: udc_valid_address
EndOfRequest(c, d) == IF c.cb = "address" THEN [d EXCEPT !.addr = c.req.arg] ELSE d

\* udd_ctrl_init.  What the next request sets before it is read is forgotten.
CtrlInit(c) == CtlIdle
EpInit(e) ==
  [e EXCEPT !.inNak = TRUE, !.cnt = 0, !.unf = FALSE, !.ovf = FALSE, !.err = FALSE]

ZlpIn(c) == [c EXCEPT !.st = "WAIT_IN_ZLP"]
EpZlpIn(e) == [e EXCEPT !.cnt = 0, !.inNak = FALSE]
ZlpOut(c) == [c EXCEPT !.st = "WAIT_OUT_ZLP"]
EpZlpOut(e) == [e EXCEPT !.outNak = FALSE]

\* The data phase of a read is over: all that was asked for, or a short packet.
DataInOver(c, b) == c.req.len = c.prev + c.nb \/ b

\* udd_ctrl_in_sent in the state DATA_IN
InSent(c, e) ==
  LET left == c.size - c.nb
      n == Fewest(left, Packet)
      c2 == IF left = 0 THEN [c EXCEPT !.prev = @ + c.nb] ELSE c
  IN  IF left = 0 /\ DataInOver(c, short)
      THEN ctl' = ZlpOut(c2) /\ ep' = EpZlpOut(e) /\ short' = short
      ELSE /\ ctl' = [c2 EXCEPT !.nb = @ + n]
           /\ ep' = [e EXCEPT !.cnt = n, !.inNak = FALSE]
           /\ short' = (n < Packet)

\* udd_ctrl_setup_received.  A handshake may be hidden by the next request.
Ended == IF ctl.st \in Waiting THEN EndOfRequest(ctl, dev) ELSE dev

SetupReceived ==
  LET r == host.req
      e == [(IF ctl.st = "SETUP" THEN ep ELSE EpInit(ep)) EXCEPT !.err = TRUE]
      c == [CtrlInit(ctl) EXCEPT !.req = r, !.size = r.size, !.cb = Callback(r),
                                 !.prev = 0, !.nb = 0]
  IN  /\ accepted' = Accepts(Ended, r)
      /\ dev' = Effect(Ended, r)
      /\ maimed' = IF r.kind = "configuration" /\ Accepts(Ended, r) THEN FALSE
                   ELSE maimed \/ (r.kind = "interface" /\ dev.cfg # 0 /\ r.arg[2] # 0)
      /\ IF ~Accepts(Ended, r)
         THEN /\ ctl' = [c EXCEPT !.st = "STALL_REQ"]
              /\ ep' = [e EXCEPT !.stall = TRUE] /\ short' = short
         ELSE IF IsIn(r) THEN InSent([c EXCEPT !.st = "DATA_IN"], e)
         ELSE /\ short' = short
              /\ IF r.len = 0 THEN ctl' = ZlpIn(c) /\ ep' = EpZlpIn(e)
                 ELSE ctl' = [c EXCEPT !.st = "DATA_OUT"] /\ ep' = [e EXCEPT !.outNak = FALSE]
      /\ UNCHANGED << foreign, strayed, gaveUp >>

\* The end of a request, when its handshake is complete.
\* Mutant: the address is forgotten.
FinishOnly ==
  /\ ctl' = CtrlInit(ctl) /\ ep' = EpInit(ep) /\ flags' = flags \ {"in", "out"}
  /\ short' = FALSE /\ UNCHANGED dev
Finish ==
  /\ dev' = EndOfRequest(ctl, dev)
  /\ ctl' = CtrlInit(ctl) /\ ep' = EpInit(ep) /\ flags' = flags \ {"in", "out"}
  /\ short' = FALSE

\* udd_ctrl_out_received in the state DATA_OUT
OutReceived ==
  LET n == Fewest(ep.got, ctl.size - ctl.nb)
      c == [ctl EXCEPT !.nb = @ + n]
  IN  /\ UNCHANGED << dev, short >>
      /\ IF n # Packet \/ ctl.req.len <= c.prev + c.nb
         THEN ctl' = ZlpIn([c EXCEPT !.size = c.nb]) /\ ep' = EpZlpIn(ep)
         ELSE IF c.size = c.nb
         THEN ctl' = [c EXCEPT !.st = "STALL_REQ"] /\ ep' = [ep EXCEPT !.stall = TRUE]
         ELSE ctl' = c /\ ep' = [ep EXCEPT !.outNak = FALSE]

\* USB_TRNCOMPL_vect: a packet was sent or received; a setup packet comes last.
Errors == flags \cap {"unf", "ovf"}
Urgent == "reset" \in flags \/ (ep.err /\ Errors # {})

InComplete ==
  /\ ~Urgent /\ "in" \in flags
  /\ \/ ctl.st = "WAIT_IN_ZLP" /\ Finish
     \/ /\ ctl.st = "DATA_IN" /\ InSent(ctl, ep)
        /\ flags' = flags \ {"in"} /\ UNCHANGED dev
     \/ /\ ctl.st \notin {"WAIT_IN_ZLP", "DATA_IN"}
        /\ flags' = flags \ {"in"} /\ UNCHANGED << ctl, dev, ep, short >>
  /\ UNCHANGED << host, aux >>

OutComplete ==
  /\ ~Urgent /\ "out" \in flags
  /\ \/ ctl.st = "WAIT_OUT_ZLP" /\ Finish
     \/ ctl.st = "DATA_OUT" /\ flags' = flags \ {"out"} /\ OutReceived
     \/ /\ ctl.st \notin {"WAIT_OUT_ZLP", "DATA_OUT"}
        /\ flags' = flags \ {"out"} /\ UNCHANGED << ctl, dev, ep, short >>
  /\ UNCHANGED << host, aux >>

SetupComplete ==
  /\ ~Urgent /\ flags \cap {"in", "out"} = {} /\ "setup" \in flags
  /\ flags' = flags \ {"setup"} /\ SetupReceived /\ UNCHANGED << host, alien >>

\* USB_BUSEVENT_vect, underflow and overflow: the host has asked for, or sent,
\* a packet that the device was not ready for.  The flag is raised by any
\* endpoint, and the endpoint's own mark stays until udd_ctrl_init.
\* Mutant: events that are pending are not looked at.
PendingNot == FALSE
Pending == flags \cap {"in", "out"} # {}

\* What the driver does then, when no other event is pending.
\* Mutant: the host that ends a data phase early is not understood.
ChangesPhaseNever(want) == FALSE
ChangesPhase(want) == ctl.st = want

BusError(flag, own, data, wait, zlp, epZlp) ==
  /\ Urgent /\ flag \in flags
  /\ flag = "ovf" => "unf" \notin flags
  /\ alien' = alien \ {flag} /\ UNCHANGED host
  /\ IF ~own \/ Pending
     THEN /\ flags' = flags \ {flag}
          /\ UNCHANGED << ctl, dev, ep, short, accepted, foreign, maimed, strayed, gaveUp >>
     ELSE IF "setup" \in flags
     THEN flags' = flags \ {flag, "setup"} /\ SetupReceived
     ELSE /\ flags' = flags \ {flag}
          /\ UNCHANGED << dev, short, accepted, maimed, strayed, gaveUp >>
          /\ IF ChangesPhase(data) THEN ctl' = zlp /\ ep' = epZlp /\ UNCHANGED foreign
             ELSE IF ctl.st = wait
             THEN /\ ep' = [ep EXCEPT !.stall = TRUE] /\ UNCHANGED ctl
                  /\ foreign' = (flag \in alien)
             ELSE UNCHANGED << ctl, ep, foreign >>

Underflow ==
  BusError("unf", ep.unf, "DATA_OUT", "WAIT_OUT_ZLP", ZlpIn(ctl), EpZlpIn(ep))
Overflow ==
  BusError("ovf", ep.ovf, "DATA_IN", "WAIT_IN_ZLP", ZlpOut(ctl), EpZlpOut(ep))

\* USB_BUSEVENT_vect, reset of the bus.  A setup packet that is still to be
\* decoded stays.
BusReset ==
  /\ "reset" \in flags /\ Errors = {} /\ flags' = flags \cap {"setup"}
  /\ dev' = [DevReset(dev) EXCEPT !.addr = 0]
  /\ ctl' = CtrlInit(ctl) /\ ep' = EpIdle
  /\ accepted' = FALSE /\ alien' = {} /\ foreign' = FALSE /\ maimed' = FALSE
  /\ strayed' = ("setup" \in flags /\ host.req.kind = "address")
  /\ short' = FALSE /\ UNCHANGED << host, gaveUp >>

Interrupt ==
  \/ InComplete \/ OutComplete \/ SetupComplete
  \/ Underflow \/ Overflow \/ BusReset

(***************************************************************************)
(* The host, and what the controller does with its packets.                *)
(***************************************************************************)
Reached == host.addr = dev.addr /\ "reset" \notin flags

\* The host starts a transfer; a setup packet ends stalls and is never refused.
Setup(r, h) ==
  /\ Reached
  /\ host' = [h EXCEPT !.phase = "setup", !.req = r, !.n = 0, !.cut = FALSE,
                       !.stalled = FALSE]
  /\ flags' = flags \cup {"setup"}
  /\ ep' = [ep EXCEPT !.inNak = TRUE, !.outNak = TRUE, !.stall = FALSE]
  /\ accepted' = FALSE /\ UNCHANGED << ctl, short, dev, alien, maimed >>

Begin ==
  /\ host.phase = "idle" /\ \E r \in Requests : Setup(r, host)
  /\ foreign' = FALSE /\ UNCHANGED << strayed, gaveUp >>

\* It gives up a transfer after a long time, and begins another.
GiveUp ==
  /\ host.phase \notin {"idle", "lost"} /\ flags = {} /\ gaveUp < MaxGiveUps
  /\ gaveUp' = gaveUp + 1
  /\ strayed' = (strayed \/ (host.req.kind = "address" /\ accepted))
  /\ \E r \in Requests : Setup(r, host)
  /\ foreign' = FALSE

Enter ==
  /\ host.phase = "setup"
  /\ host' = [host EXCEPT !.phase = IF IsIn(host.req) THEN "data_in"
                                   ELSE IF host.req.len = 0 THEN "status_in" ELSE "data_out"]
  /\ UNCHANGED << ctl, short, dev, ep, flags, aux >>

\* It ends a data phase before its time.
Cut ==
  /\ host.phase \in {"data_in", "data_out"} /\ gaveUp < MaxGiveUps
  /\ host' = [host EXCEPT !.cut = TRUE, !.phase =
                IF @ = "data_in" THEN "status_out" ELSE "status_in"]
  /\ gaveUp' = gaveUp + 1
  /\ UNCHANGED << ctl, short, dev, ep, flags, accepted, alien, foreign, maimed, strayed >>

Done(result) ==
  host' = [HostIdle EXCEPT !.stalled = (result = "stall"), !.cut = host.cut /\ result = "stall",
             !.addr = IF result = "ok" /\ host.req.kind = "address"
                      THEN host.req.arg ELSE host.addr]

Refused(flag) ==
  /\ flags' = flags \cup {flag}
  /\ ep' = IF flag = "unf" THEN [ep EXCEPT !.unf = TRUE] ELSE [ep EXCEPT !.ovf = TRUE]
  /\ UNCHANGED host

TokenIn ==
  /\ host.phase \in {"data_in", "status_in"} /\ Reached
  /\ IF ep.stall THEN Done("stall") /\ UNCHANGED << flags, ep >>
     ELSE IF ep.inNak THEN Refused("unf")
     ELSE /\ flags' = flags \cup {"in"}
          /\ ep' = [ep EXCEPT !.inNak = TRUE, !.cnt = 0]
          /\ LET n == host.n + ep.cnt
             IN  IF host.phase = "status_in" THEN Done("ok")
                 ELSE host' = [host EXCEPT !.n = n,
                        !.phase = IF ep.cnt < Packet \/ n = host.req.len
                                  THEN "status_out" ELSE @]
  /\ UNCHANGED << ctl, short, dev, aux >>

TokenOut ==
  /\ host.phase \in {"data_out", "status_out"} /\ Reached
  /\ IF ep.stall THEN Done("stall") /\ UNCHANGED << flags, ep >>
     ELSE IF ep.outNak THEN Refused("ovf")
     ELSE LET n == IF host.phase = "status_out" THEN 0
                   ELSE Fewest(Packet, host.req.len - host.n)
          IN  /\ flags' = flags \cup {"out"}
              /\ ep' = [ep EXCEPT !.outNak = TRUE, !.got = n]
              /\ IF host.phase = "status_out" THEN Done("ok")
                 ELSE host' = [host EXCEPT !.n = @ + n,
                        !.phase = IF host.n + n = host.req.len THEN "status_in" ELSE @]
  /\ UNCHANGED << ctl, short, dev, aux >>

\* Another endpoint refuses a packet, which raises the same flags.
Other ==
  /\ dev.cfg # 0
  /\ \E f \in {"unf", "ovf"} : flags' = flags \cup {f} /\ alien' = alien \cup {f}
  /\ UNCHANGED << ctl, short, dev, ep, host, accepted, foreign, maimed, strayed, gaveUp >>

\* The host resets the bus, as it does when the device does not answer.
Reset ==
  /\ "reset" \notin flags
  /\ flags' = flags \cup {"reset"}
  /\ IF "setup" \in flags
     THEN /\ gaveUp < MaxGiveUps /\ gaveUp' = gaveUp + 1
          /\ host' = [HostIdle EXCEPT !.req = host.req]
     ELSE host' = HostIdle /\ UNCHANGED gaveUp
  /\ UNCHANGED << ctl, short, dev, ep, accepted, alien, foreign, maimed, strayed >>

Transfer == Enter \/ TokenIn \/ TokenOut

Next ==
  \/ Interrupt
  \/ Begin \/ GiveUp \/ Cut \/ Transfer \/ Other \/ Reset

\* Interrupts are served, a host goes on with the transfer it began, and the
\* packets refused on the bus leave time for the interrupt of lower priority.
Fairness ==
  /\ WF_vars(Interrupt) /\ WF_vars(Transfer) /\ []<>~Urgent
  /\ SF_vars(InComplete) /\ SF_vars(OutComplete) /\ SF_vars(SetupComplete)

Spec == Init /\ [][Next]_vars /\ Fairness

(***************************************************************************)
(* Properties.                                                             *)
(***************************************************************************)
\* A host that does not end a data phase before its time never sees a request
\* stalled that the device supports, whatever flags are still raised from
\* before, unless the flag of another endpoint was taken for one of its own.
NoFalseStall == host.stalled /\ accepted /\ ~host.cut => foreign

\* A data phase that the host does not cut ends with all the bytes that the
\* device had for it, through a short or an empty packet if need be.
WholeAnswer ==
  host.phase = "status_out" /\ ~host.cut => host.n = host.req.size

\* Host and device agree on the address when no request is under way, unless
\* the host gave up a SET_ADDRESS that the device had accepted or not decoded
\* yet: the next request makes it take effect.
AddressAgreed ==
  host.phase = "idle" /\ flags = {} /\ ~strayed => dev.addr = host.addr

\* A configured device has all its interfaces and endpoints, another one none;
\* only a SET_INTERFACE for a missing setting leaves an interface off.
ConfigurationWhole ==
  /\ dev.cfg = 0 => dev.ifaces = {} /\ dev.alloc = {}
  /\ dev.cfg # 0 /\ ~maimed => dev.ifaces = Interfaces /\ dev.alloc = AllEndpoints
  /\ \A i \in Interfaces : i \in dev.ifaces <=> Endpoints(i) \subseteq dev.alloc

\* A transfer that the host goes on with comes to its end.
TransferEnds == host.phase # "idle" ~> (host.phase = "idle" \/ strayed)
=============================================================================
