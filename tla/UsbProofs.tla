----------------------------- MODULE UsbProofs -----------------------------
(***************************************************************************)
(* Theorems about the USB: about UsbControl, for every packet size, any    *)
(* requests and any number of transfers given up, wherever the events of   *)
(* the bus fall; and about Power, for every width of the lock counts and   *)
(* any number of edges of the cable.  No theorem is about both.            *)
(***************************************************************************)
EXTENDS UsbControl, Power, TLAPS

(***************************************************************************)
(* The configuration.  ConfigurationWhole of any device, its shape, and    *)
(* the requests a host may have made.                                      *)
(***************************************************************************)
Shape(d) ==
  d \in [addr : {d.addr}, cfg : 0..1, alloc : SUBSET AllEndpoints, ifaces : SUBSET Interfaces]

Paired(d) == \A i \in Interfaces : i \in d.ifaces <=> Endpoints(i) \subseteq d.alloc

Whole(d, m) ==
  /\ d.cfg = 0 => d.ifaces = {} /\ d.alloc = {}
  /\ d.cfg # 0 /\ ~m => d.ifaces = Interfaces /\ d.alloc = AllEndpoints
  /\ Paired(d)

IInv ==
  /\ Shape(dev) /\ Whole(dev, maimed) /\ maimed \in BOOLEAN
  /\ "req" \in DOMAIN host /\ host.req \in Requests \cup {NoRequest}

\* What a request asks for, by its kind.
LEMMA RequestArgs ==
  ASSUME NEW rq \in Requests \cup {NoRequest}
  PROVE  /\ rq.kind = "configuration" => rq.arg \in 0..1
         /\ rq.kind = "interface" => rq.arg[1] \in Interfaces
<1>1. CASE rq \in Reads
  BY <1>1 DEF Reads, Request
<1>2. CASE rq \in {Request("interface", 0, 0, << i, s >>) : i \in Targets, s \in Settings}
  BY <1>2, ControlAssumption DEF Request, Interfaces
<1>3. CASE rq \in {Request("configuration", 0, 0, c) : c \in 0..1}
  BY <1>3 DEF Request
<1>4. CASE rq \in {Request("address", 0, 0, Address), Coding, NoRequest}
  BY <1>4 DEF Request, Coding, NoRequest
<1>5. rq \in Reads \cup Commands \cup {Coding, NoRequest}
  BY DEF Requests
<1>6. CASE rq \in Commands
  BY <1>2, <1>3, <1>4, <1>6 DEF Commands
<1> QED
  BY <1>1, <1>4, <1>5, <1>6

\* The endpoints of the two interfaces.
LEMMA EndpointSets ==
  /\ Interfaces = {"comm", "data"}
  /\ Endpoints("comm") = {"notify"} /\ Endpoints("data") = {"in", "out"}
  /\ AllEndpoints = {"notify", "in", "out"}
<1>1. Interfaces = {"comm", "data"}
  BY DEF Interfaces
<1>2. Endpoints("comm") = {"notify"} /\ Endpoints("data") = {"in", "out"}
  BY DEF Endpoints
<1>3. AllEndpoints = Endpoints("comm") \cup Endpoints("data")
  BY <1>1 DEF AllEndpoints
<1> QED
  BY <1>1, <1>2, <1>3

\* An interface that is turned off or on takes its endpoints with it and
\* leaves the other interface alone.
LEMMA Switched ==
  ASSUME NEW d, Shape(d), Paired(d), NEW i \in Interfaces
  PROVE  /\ Shape(Disable(d, i)) /\ Paired(Disable(d, i))
         /\ Shape(Enable(d, i)) /\ Paired(Enable(d, i))
         /\ Disable(d, i).cfg = d.cfg /\ Enable(d, i).cfg = d.cfg
         /\ Disable(d, i).addr = d.addr /\ Enable(d, i).addr = d.addr
         /\ Disable(d, i).ifaces = d.ifaces \ {i}
         /\ Disable(d, i).alloc = d.alloc \ Endpoints(i)
         /\ Enable(d, i).ifaces = d.ifaces \cup {i}
         /\ Enable(d, i).alloc = d.alloc \cup Endpoints(i)
<1> USE EndpointSets
<1>1. /\ Disable(d, i).cfg = d.cfg /\ Enable(d, i).cfg = d.cfg
      /\ Disable(d, i).addr = d.addr /\ Enable(d, i).addr = d.addr
      /\ Disable(d, i).ifaces = d.ifaces \ {i}
      /\ Disable(d, i).alloc = d.alloc \ Endpoints(i)
      /\ Enable(d, i).ifaces = d.ifaces \cup {i}
      /\ Enable(d, i).alloc = d.alloc \cup Endpoints(i)
  BY DEF Shape, Disable, Enable
<1>2. Shape(Disable(d, i)) /\ Shape(Enable(d, i))
  BY DEF Shape, Disable, Enable
<1>3. Paired(Disable(d, i)) /\ Paired(Enable(d, i))
  BY <1>1 DEF Paired
<1> QED
  BY <1>1, <1>2, <1>3

\* udc_reset leaves nothing in use.
LEMMA ResetEmpties ==
  ASSUME NEW d, Shape(d), Paired(d)
  PROVE  /\ Shape(DevReset(d)) /\ Paired(DevReset(d)) /\ DevReset(d).cfg = 0
         /\ DevReset(d).ifaces = {} /\ DevReset(d).alloc = {} /\ DevReset(d).addr = d.addr
<1> DEFINE a == Disable(d, "comm")
           b == Disable(a, "data")
<1> USE EndpointSets
<1>1. /\ Shape(a) /\ Paired(a) /\ a.ifaces = d.ifaces \ {"comm"}
      /\ a.alloc = d.alloc \ {"notify"} /\ a.addr = d.addr
  BY Switched
<1> HIDE DEF a
<1>2. /\ Shape(b) /\ Paired(b) /\ b.ifaces = a.ifaces \ {"data"}
      /\ b.alloc = a.alloc \ {"in", "out"} /\ b.addr = a.addr
  BY <1>1, Switched
<1>3. DevReset(d) = [b EXCEPT !.cfg = 0]
  BY DEF DevReset, a
<1> HIDE DEF b
<1>4. b.ifaces = {} /\ b.alloc = {}
  BY <1>1, <1>2 DEF Shape
<1> QED
  BY <1>1, <1>2, <1>3, <1>4 DEF Shape, Paired

\* SET_CONFIGURATION makes the device whole again, whatever it was before.
LEMMA ConfigureMends ==
  ASSUME NEW d, Shape(d), Paired(d), NEW c \in 0..1
  PROVE  Shape(Configure(d, c)) /\ Whole(Configure(d, c), FALSE) /\ Configure(d, c).addr = d.addr
<1> USE EndpointSets
<1> DEFINE z == DevReset(d)
<1>1. Shape(z) /\ Paired(z) /\ z.cfg = 0 /\ z.ifaces = {} /\ z.alloc = {} /\ z.addr = d.addr
  BY ResetEmpties
<1> HIDE DEF z
<1>2. CASE c = 0
  BY <1>1, <1>2 DEF Configure, Whole, z
<1>3. CASE c = 1
  <2> DEFINE e == [z EXCEPT !.cfg = c]
             f == Enable(e, "comm")
             g == Enable(f, "data")
  <2>1. Shape(e) /\ Paired(e) /\ e.cfg = 1 /\ e.ifaces = {} /\ e.alloc = {} /\ e.addr = d.addr
    BY <1>1, <1>3 DEF Shape, Paired
  <2> HIDE DEF e
  <2>2. /\ Shape(f) /\ Paired(f) /\ f.cfg = 1 /\ f.addr = d.addr
        /\ f.ifaces = {"comm"} /\ f.alloc = {"notify"}
    BY <2>1, Switched
  <2> HIDE DEF f
  <2>3. /\ Shape(g) /\ Paired(g) /\ g.cfg = 1 /\ g.addr = d.addr
        /\ g.ifaces = Interfaces /\ g.alloc = AllEndpoints
    BY <2>2, Switched
  <2>4. Configure(d, c) = g
    BY <1>3 DEF Configure, z, e, f
  <2> QED
    BY <2>3, <2>4 DEF Whole
<1>4. c = 0 \/ c = 1
  OBVIOUS
<1> QED
  BY <1>2, <1>3, <1>4, Zenon

\* SET_INTERFACE of the setting that exists leaves a whole device whole; of
\* another one, it leaves an interface off.
LEMMA SetInterfaceKeeps ==
  ASSUME NEW d, NEW m \in BOOLEAN, Shape(d), Whole(d, m), d.cfg # 0,
         NEW i \in Interfaces, NEW s
  PROVE  /\ Shape(SetInterface(d, i, s))
         /\ Whole(SetInterface(d, i, s), m \/ s # 0)
         /\ SetInterface(d, i, s).addr = d.addr
<1> USE EndpointSets
<1> DEFINE a == Disable(d, i)
           b == Enable(a, i)
<1>1. /\ Shape(a) /\ Paired(a) /\ a.cfg = d.cfg /\ a.addr = d.addr
      /\ a.ifaces = d.ifaces \ {i} /\ a.alloc = d.alloc \ Endpoints(i)
  BY Switched DEF Whole
<1> HIDE DEF a
<1>2. /\ Shape(b) /\ Paired(b) /\ b.cfg = d.cfg /\ b.addr = d.addr
      /\ b.ifaces = a.ifaces \cup {i} /\ b.alloc = a.alloc \cup Endpoints(i)
  BY <1>1, Switched
<1> HIDE DEF b
<1>3. CASE s # 0
  <2>1. SetInterface(d, i, s) = a
    BY <1>3 DEF SetInterface, a
  <2> QED
    BY <1>1, <1>3, <2>1 DEF Whole
<1>4. CASE s = 0
  <2>1. SetInterface(d, i, s) = b
    BY <1>4 DEF SetInterface, a, b
  <2>2. ~m => b.ifaces = Interfaces /\ b.alloc = AllEndpoints
    BY <1>1, <1>2 DEF Whole
  <2> QED
    BY <1>2, <1>4, <2>1, <2>2 DEF Whole
<1> QED
  BY <1>3, <1>4

\* Only the address changes at the end of a request.
LEMMA EndKeeps ==
  ASSUME NEW c, NEW d, NEW m \in BOOLEAN, Shape(d), Whole(d, m)
  PROVE  /\ Shape(EndOfRequest(c, d)) /\ Whole(EndOfRequest(c, d), m)
         /\ EndOfRequest(c, d).cfg = d.cfg
BY DEF EndOfRequest, Shape, Whole, Paired

(***************************************************************************)
(* Every step keeps the invariant.                                         *)
(***************************************************************************)
\* The decoding of a setup packet, whatever it says and whenever it comes.
LEMMA SetupKeeps ==
  ASSUME IInv, SetupReceived
  PROVE  Shape(dev') /\ Whole(dev', maimed') /\ maimed' \in BOOLEAN /\ dev'.addr = Ended.addr
<1> DEFINE rq == host.req
           d == Ended
<1> SUFFICES Shape(dev') /\ Whole(dev', maimed') /\ maimed' \in BOOLEAN /\ dev'.addr = d.addr
  OBVIOUS
<1>1. Shape(d) /\ Whole(d, maimed) /\ d.cfg = dev.cfg /\ maimed \in BOOLEAN
  BY EndKeeps DEF IInv, Ended
<1>2. rq \in Requests \cup {NoRequest}
  BY DEF IInv
<1>3. /\ dev' = Effect(d, rq)
      /\ maimed' = IF rq.kind = "configuration" /\ Accepts(d, rq) THEN FALSE
                   ELSE maimed \/ (rq.kind = "interface" /\ dev.cfg # 0 /\ rq.arg[2] # 0)
  BY DEF SetupReceived
<1> HIDE DEF rq, d
<1>4. CASE rq.kind = "configuration"
  <2>1. Accepts(d, rq) <=> d.addr # 0
    BY <1>4 DEF Accepts
  <2>2. CASE d.addr # 0
    <3>1. dev' = Configure(d, rq.arg) /\ maimed' = FALSE
      BY <1>3, <1>4, <2>1, <2>2 DEF Effect
    <3>2. rq.arg \in 0..1
      BY <1>2, <1>4, RequestArgs
    <3> QED
      BY <1>1, <3>1, <3>2, ConfigureMends DEF Whole
  <2>3. CASE d.addr = 0
    BY <1>1, <1>3, <1>4, <2>1, <2>3 DEF Effect
  <2> QED
    BY <2>2, <2>3
<1>5. CASE rq.kind = "interface" /\ d.cfg # 0
  <2>1. dev' = SetInterface(d, rq.arg[1], rq.arg[2]) /\ maimed' = (maimed \/ rq.arg[2] # 0)
    BY <1>1, <1>3, <1>5 DEF Effect
  <2>2. rq.arg[1] \in Interfaces
    BY <1>2, <1>5, RequestArgs
  <2> QED
    BY <1>1, <1>5, <2>1, <2>2, SetInterfaceKeeps
<1>6. CASE rq.kind # "configuration" /\ ~(rq.kind = "interface" /\ d.cfg # 0)
  <2>1. dev' = d /\ maimed' = maimed
    BY <1>1, <1>3, <1>6 DEF Effect
  <2> QED
    BY <1>1, <2>1
<1> QED
  BY <1>4, <1>5, <1>6

\* The completion of a packet ends a request at most.
LEMMA CompleteKeeps ==
  ASSUME IInv, InComplete \/ OutComplete
  PROVE  IInv'
<1>1. dev' = dev \/ dev' = EndOfRequest(ctl, dev)
  BY DEF InComplete, OutComplete, Finish, OutReceived
<1>2. maimed' = maimed /\ host' = host
  BY DEF InComplete, OutComplete, aux
<1> QED
  BY <1>1, <1>2, EndKeeps DEF IInv

\* So do the events of underflow and overflow, which may also decode a setup
\* packet.
LEMMA BusErrorKeeps ==
  ASSUME IInv, Underflow \/ Overflow
  PROVE  IInv'
<1>1. host' = host /\ (SetupReceived \/ (dev' = dev /\ maimed' = maimed))
  BY DEF Underflow, Overflow, BusError
<1>2. Shape(dev') /\ Whole(dev', maimed') /\ maimed' \in BOOLEAN
  BY <1>1, SetupKeeps DEF IInv
<1> QED
  BY <1>1, <1>2 DEF IInv

\* A reset of the bus takes the configuration away.
LEMMA BusResetKeeps ==
  ASSUME IInv, BusReset
  PROVE  IInv'
<1> DEFINE z == DevReset(dev)
<1>1. Shape(z) /\ Paired(z) /\ z.cfg = 0 /\ z.ifaces = {} /\ z.alloc = {}
  BY ResetEmpties DEF IInv, Whole
<1>2. dev' = [z EXCEPT !.addr = 0] /\ host' = host
  BY DEF BusReset
<1> HIDE DEF z
<1>3. Shape(dev') /\ Whole(dev', maimed')
  BY <1>1, <1>2 DEF Shape, Whole, Paired
<1>4. maimed' = FALSE
  BY DEF BusReset
<1> QED
  BY <1>2, <1>3, <1>4 DEF IInv

\* The host and the controller change the request only.
LEMMA HostKeeps ==
  ASSUME IInv, Begin \/ GiveUp \/ Cut \/ Transfer \/ Other \/ Reset
  PROVE  IInv'
<1>1. dev' = dev /\ maimed' = maimed
  BY DEF Begin, GiveUp, Setup, Cut, Transfer, Enter, TokenIn, TokenOut, Other, Reset, aux
<1>2. "req" \in DOMAIN host' /\ host'.req \in Requests \cup {NoRequest}
  <2>1. CASE Begin \/ GiveUp
    BY <2>1 DEF IInv, Begin, GiveUp, Setup
  <2>2. CASE Cut \/ Enter
    BY <2>2 DEF IInv, Cut, Enter
  <2>3. CASE Other
    BY <2>3 DEF IInv, Other
  <2>4. CASE Reset
    BY <2>4 DEF IInv, Reset, HostIdle
  <2>5. CASE TokenIn \/ TokenOut
    BY <2>5 DEF IInv, TokenIn, TokenOut, Refused, Done, HostIdle
  <2> QED
    BY <2>1, <2>2, <2>3, <2>4, <2>5 DEF Transfer
<1> QED
  BY <1>1, <1>2 DEF IInv

\* Every step keeps the invariant.
LEMMA NextKeeps == IInv /\ [Next]_vars => IInv'
<1> SUFFICES ASSUME IInv, [Next]_vars PROVE IInv'
  OBVIOUS
<1>1. CASE UNCHANGED vars
  BY <1>1 DEF IInv, vars, aux
<1>2. CASE SetupComplete
  BY <1>2, SetupKeeps DEF IInv, SetupComplete
<1>3. CASE Interrupt /\ ~SetupComplete
  BY <1>3, CompleteKeeps, BusErrorKeeps, BusResetKeeps DEF Interrupt
<1> QED
  BY <1>1, <1>2, <1>3, HostKeeps DEF Next, Interrupt

\* The device is not configured after its start.
LEMMA InitInvariant == Init => IInv
<1> SUFFICES ASSUME Init PROVE IInv
  OBVIOUS
<1>1. dev.cfg = 0 /\ dev.ifaces = {} /\ dev.alloc = {} /\ dev.addr = 0
  BY DEF Init, DevIdle
<1>2. Shape(dev)
  BY DEF Init, DevIdle, Shape
<1>3. Whole(dev, maimed)
  BY <1>1, EndpointSets DEF Whole, Paired
<1>4. "req" \in DOMAIN host /\ host.req = NoRequest /\ maimed = FALSE
  BY DEF Init, HostIdle
<1> QED
  BY <1>2, <1>3, <1>4 DEF IInv

(***************************************************************************)
(* The theorem of the configuration.                                       *)
(***************************************************************************)
\* Interfaces and endpoints in use are those of the configuration, at every
\* moment, after any requests, given up or not, and any resets of the bus;
\* only a SET_INTERFACE for a missing setting leaves one off (udc.c:905).
THEOREM ConfigurationStaysWhole == Spec => []ConfigurationWhole
<1>1. IInv => ConfigurationWhole
  BY DEF IInv, Whole, Paired, ConfigurationWhole
<1> QED
  BY <1>1, InitInvariant, NextKeeps, PTL DEF Spec

(***************************************************************************)
(* The protocol.  While no reset of the bus waits, machine, endpoint, host *)
(* and events stand in the relation below; a reset that waits leaves only  *)
(* the types and what the host knows, and its interrupt restores the rest. *)
(***************************************************************************)
Asked == "setup" \in flags
Quiet == "reset" \notin flags
Busy == host.phase # "idle" /\ ~Asked

AnyRequest == Requests \cup {NoRequest}

Machines == [st : States, prev : Nat, nb : Nat, size : Nat,
             cb : {"none", "address", "coding"}, req : AnyRequest]
Controllers == [inNak : BOOLEAN, outNak : BOOLEAN, stall : BOOLEAN, cnt : Nat, got : Nat,
                unf : BOOLEAN, ovf : BOOLEAN, err : BOOLEAN]
Hosts == [phase : Phases, req : AnyRequest, n : Nat, addr : {0, Address},
          cut : BOOLEAN, stalled : BOOLEAN]

Typed ==
  /\ ctl \in Machines /\ ep \in Controllers /\ host \in Hosts
  /\ short \in BOOLEAN /\ dev.addr \in {0, Address}
  /\ accepted \in BOOLEAN /\ foreign \in BOOLEAN /\ strayed \in BOOLEAN
  /\ ep.got <= Packet
  /\ ctl.cb = Callback(ctl.req)
  /\ ctl.st \in {"DATA_IN", "DATA_OUT"} => ctl.nb <= ctl.size

\* The host: where its transfer is, by the request it made.
Transfers ==
  /\ host.phase # "lost"
  /\ host.phase # "idle" => host.req \in Requests /\ ~host.stalled
  /\ host.phase \in {"data_in", "status_out"} => IsIn(host.req)
  /\ host.phase \in {"data_out", "status_in"} => ~IsIn(host.req)
  /\ host.phase \in {"setup", "data_in", "data_out"} => ~host.cut
  /\ host.phase = "setup" => host.n = 0
  /\ host.phase = "data_out" => host.n < host.req.len
  /\ host.phase = "status_in" /\ ~host.cut => host.n = host.req.len
  /\ ~Quiet => host.phase = "idle" /\ ~host.stalled /\ host.addr = 0 /\ host.n = 0
  /\ Asked => host.req \in Requests

\* A setup packet that waits has silenced the endpoint.
Silenced == Asked =>
  /\ ep.inNak /\ ep.outNak /\ ~ep.stall /\ ~accepted /\ ~host.stalled
  /\ host.n = 0
  /\ host.phase = "idle" => ctl.st = "SETUP"

\* Marks of packets refused stay until a request ends.
Marks ==
  /\ ctl.st = "SETUP" =>
       /\ ep.ovf => host.phase \in {"data_out", "status_out"}
                    \/ (host.phase = "status_in" /\ host.cut)
       /\ ep.unf => host.phase \in {"data_in", "status_in"}
                    \/ (host.phase = "status_out" /\ host.cut)
       /\ Asked \/ host.phase = "idle"
  /\ ctl.st # "SETUP" => ep.err
  /\ ~Asked /\ ctl.st = "DATA_IN" /\ ep.ovf => host.phase = "status_out"
  /\ ~Asked /\ ctl.st = "DATA_OUT" /\ ep.unf => host.phase = "status_in"

\* Where the machine is while the host is in a phase of a decoded request.
Follows == Busy =>
  /\ ctl.req = host.req
  /\ ctl.st = "STALL_REQ" \/
       /\ host.phase = "setup" =>
            ctl.st = IF IsIn(host.req) THEN "DATA_IN"
                     ELSE IF host.req.len = 0 THEN "WAIT_IN_ZLP" ELSE "DATA_OUT"
       /\ host.phase = "data_in" => ctl.st = "DATA_IN"
       /\ host.phase = "data_out" => ctl.st = "DATA_OUT"
       /\ host.phase = "status_in" => ctl.st \in {"DATA_OUT", "WAIT_IN_ZLP"}
       /\ host.phase = "status_out" => ctl.st \in {"DATA_IN", "WAIT_OUT_ZLP"}
  /\ "in" \in flags => ctl.st = "DATA_IN" /\ ep.inNak
  /\ "out" \in flags => ctl.st = "DATA_OUT" /\ ep.outNak

\* What the endpoint does in each state of the machine.
Endpoint ==
  /\ ctl.st = "DATA_IN" /\ (Asked \/ host.phase = "idle") => "in" \notin flags
  /\ ctl.st = "DATA_OUT" /\ (Asked \/ host.phase = "idle") => "out" \notin flags
  /\ ctl.st \in {"DATA_IN", "WAIT_OUT_ZLP"} => IsIn(ctl.req)
  /\ ep.stall => flags \cap {"in", "out"} = {}
  /\ ~Asked /\ ctl.st = "DATA_IN" => ep.outNak /\ ~ep.stall
  /\ ~Asked /\ ctl.st = "DATA_OUT" => ep.inNak /\ ~ep.stall
  /\ ~Asked /\ ctl.st = "STALL_REQ" => ep.stall /\ ~accepted

\* A stall of a request that the device supports comes from another endpoint.
Stalls ==
  /\ ~Asked /\ ctl.st = "WAIT_OUT_ZLP" /\ ep.unf /\ "unf" \in flags => "unf" \in alien
  /\ ~Asked /\ ctl.st = "WAIT_IN_ZLP" /\ ~host.cut /\ "in" \notin flags /\ ep.ovf /\ "ovf" \in flags
       => "ovf" \in alien
  /\ ~Asked /\ ep.stall /\ accepted /\ ~host.cut => foreign
  /\ host.stalled /\ accepted /\ ~host.cut => foreign

\* The bytes of a data phase, on both sides.
DataIn == Busy /\ ctl.st = "DATA_IN" /\ host.phase \in {"setup", "data_in"} =>
  /\ host.n + (IF ep.inNak THEN 0 ELSE ep.cnt) = ctl.nb
  /\ ctl.size = host.req.size /\ ctl.size <= host.req.len
  /\ ~ep.inNak => (short <=> ep.cnt < Packet) /\ (short => ctl.nb = ctl.size)
  /\ ctl.prev # 0 => short
  /\ ep.inNak => ~short /\ ctl.nb # host.req.len

DataOut == ~Asked /\ ctl.st = "DATA_OUT" =>
  /\ ctl.prev = 0 /\ ctl.size = ctl.req.len
  /\ host.phase \in {"setup", "data_out"} =>
       /\ host.n = ctl.nb + (IF "out" \in flags THEN ep.got ELSE 0) /\ host.n < ctl.size
       /\ "out" \in flags => ep.got = Packet
  /\ host.phase = "status_in" /\ ~host.cut =>
       "out" \in flags /\ ctl.nb + ep.got = ctl.size

\* The addresses differ only until the handshake of SET_ADDRESS is handled.
Addressed ==
  /\ host.phase = "idle" =>
       \/ strayed \/ dev.addr = host.addr
       \/ "in" \in flags /\ ctl.st = "WAIT_IN_ZLP" /\ ctl.cb = "address" /\ host.addr = Address
  /\ ctl.st = "WAIT_IN_ZLP" /\ "in" \in flags /\ ctl.cb = "address" /\ ~strayed =>
       host.addr = Address

\* Before a reset of the bus, the two sides understand each other.
Steady ==
  /\ Silenced /\ Marks /\ Follows /\ Endpoint /\ Stalls
  /\ DataIn /\ DataOut /\ WholeAnswer /\ Addressed

Protocol == IInv /\ Typed /\ Transfers /\ (Quiet => Steady)

(***************************************************************************)
(* What the operators of the driver make of the machine and the endpoint,  *)
(* and why each step keeps the protocol.                                   *)
(***************************************************************************)
\* The sizes in a request, and its argument when it is an address.
LEMMA RequestFields ==
  ASSUME NEW rq \in AnyRequest
  PROVE  /\ rq.len \in Nat /\ rq.size \in Nat
         /\ IsIn(rq) => rq.kind \in {"descriptor", "status", "setting"} /\ rq.size > 0
         /\ IsIn(rq) /\ rq.kind # "status" => rq.size <= rq.len
         /\ ~IsIn(rq) => rq.size = rq.len
         /\ rq.kind = "address" => rq.arg = Address /\ rq.len = 0 /\ ~IsIn(rq)
         /\ rq = NoRequest => ~IsIn(rq)
<1>1. CASE rq \in {Request("descriptor", l, Fewest(l, s), 0) : l \in 1..MaxLen, s \in Sizes}
  <2>1. PICK l \in 1..MaxLen, s \in Sizes : rq = Request("descriptor", l, Fewest(l, s), 0)
    BY <1>1
  <2>2. Fewest(l, s) \in 1..l
    BY ControlAssumption DEF Fewest
  <2> QED
    BY <1>1, <2>1, <2>2 DEF Request, IsIn, Reads, NoRequest
<1>2. CASE rq \in {Request("status", l, 2, 0) : l \in 1..2}
  BY <1>2 DEF Request, IsIn, Reads, NoRequest
<1>3. CASE rq = Request("setting", 1, 1, 0)
  BY <1>3 DEF Request, IsIn, Reads, NoRequest
<1>4. CASE rq \in Requests \ Reads \/ rq = NoRequest
  <2>1. rq.kind \notin {"descriptor", "status", "setting"} /\ rq.len \in Nat /\ rq.size = rq.len
    BY <1>4, ControlAssumption DEF Requests, Commands, Coding, NoRequest, Request
  <2>2. rq.kind = "address" => rq.arg = Address /\ rq.len = 0
    BY <1>4, ControlAssumption DEF Requests, Commands, Coding, NoRequest, Request
  <2>3. rq \notin Reads
    BY <2>1 DEF Reads, Request
  <2> QED
    BY <2>1, <2>2, <2>3 DEF IsIn
<1> QED
  BY <1>1, <1>2, <1>3, <1>4 DEF AnyRequest, Requests, Reads

LEMMA Callbacks ==
  ASSUME NEW rq \in AnyRequest
  PROVE  /\ Callback(rq) \in {"none", "address", "coding"}
         /\ IsIn(rq) => Callback(rq) = "none"
         /\ Callback(rq) = "address" => rq.kind = "address" /\ rq.arg = Address
BY RequestFields DEF Callback

\* The bytes of a packet.
LEMMA FewestOf ==
  ASSUME NEW a \in Nat, NEW b \in Nat
  PROVE  Fewest(a, b) \in Nat /\ Fewest(a, b) <= a /\ Fewest(a, b) <= b
         /\ (Fewest(a, b) = a \/ Fewest(a, b) = b)
BY DEF Fewest

\* What udd_ctrl_in_sent makes of the machine and of the endpoint.
LEMMA InSentSteps ==
  ASSUME NEW c \in Machines, NEW e \in Controllers, short \in BOOLEAN,
         c.st = "DATA_IN", c.nb <= c.size, InSent(c, e)
  PROVE  /\ ctl' \in Machines /\ ep' \in Controllers /\ short' \in BOOLEAN
         /\ ctl'.size = c.size /\ ctl'.cb = c.cb /\ ctl'.req = c.req
         /\ ep'.outNak = (IF ctl'.st = "WAIT_OUT_ZLP" THEN FALSE ELSE e.outNak)
         /\ ep'.stall = e.stall /\ ep'.got = e.got
         /\ ep'.unf = e.unf /\ ep'.ovf = e.ovf /\ ep'.err = e.err
         /\ \/ /\ ctl'.st = "WAIT_OUT_ZLP" /\ c.nb = c.size
               /\ c.req.len = c.prev + c.nb \/ short
            \/ /\ ctl'.st = "DATA_IN" /\ ~ep'.inNak
               /\ ctl'.nb = c.nb + ep'.cnt /\ ctl'.nb <= c.size
               /\ short' <=> ep'.cnt < Packet
               /\ short' => ctl'.nb = c.size
               /\ ctl'.prev = IF c.nb = c.size THEN c.prev + c.nb ELSE c.prev
               /\ c.nb = c.size => short' /\ ~(c.req.len = c.prev + c.nb \/ short)
<1> DEFINE left == c.size - c.nb
           n == Fewest(left, Packet)
           p == c.prev + c.nb
           c2 == IF left = 0 THEN [c EXCEPT !.prev = p] ELSE c
           v == c2.nb + n
<1>1. left \in Nat /\ c.nb \in Nat /\ c.size \in Nat /\ c.prev \in Nat /\ p \in Nat
  BY DEF Machines
<1>2. /\ n \in Nat /\ n <= left /\ n <= Packet /\ (n = left \/ n = Packet)
  <2> HIDE DEF left
  <2> QED
    BY <1>1, FewestOf, ControlAssumption
<1>3. /\ c2 \in Machines /\ c2.nb = c.nb /\ c2.size = c.size /\ c2.cb = c.cb
      /\ c2.req = c.req /\ c2.st = c.st /\ c2.prev = IF left = 0 THEN p ELSE c.prev
  <2> HIDE DEF p, left
  <2> QED
    BY <1>1 DEF Machines
<1>4. CASE left = 0 /\ DataInOver(c, short)
  <2>1. /\ ctl' = [c2 EXCEPT !.st = "WAIT_OUT_ZLP"] /\ ep' = [e EXCEPT !.outNak = FALSE]
        /\ short' = short
    BY <1>4 DEF InSent, ZlpOut, EpZlpOut
  <2>2. (c.req.len = p \/ short) /\ c.nb = c.size
    BY <1>1, <1>4 DEF DataInOver
  <2> HIDE DEF c2
  <2>3. /\ ctl' \in Machines /\ ctl'.size = c.size /\ ctl'.cb = c.cb /\ ctl'.req = c.req
        /\ ctl'.st = "WAIT_OUT_ZLP"
    BY <1>3, <2>1 DEF Machines, States
  <2>4. /\ ep' \in Controllers /\ ep' = [e EXCEPT !.outNak = FALSE] /\ ep'.outNak = FALSE
        /\ ep'.stall = e.stall /\ ep'.got = e.got
        /\ ep'.unf = e.unf /\ ep'.ovf = e.ovf /\ ep'.err = e.err
    BY <2>1 DEF Controllers
  <2> QED
    BY <2>1, <2>2, <2>3, <2>4
<1>5. CASE ~(left = 0 /\ DataInOver(c, short))
  <2>1. /\ ctl' = [c2 EXCEPT !.nb = v] /\ ep' = [e EXCEPT !.cnt = n, !.inNak = FALSE]
        /\ short' = (n < Packet)
    BY <1>5 DEF InSent
  <2>2. v = c.nb + n /\ v \in Nat /\ v <= c.size
    BY <1>1, <1>2, <1>3
  <2>3. left = 0 => ~(c.req.len = p \/ short)
    BY <1>5 DEF DataInOver
  <2> HIDE DEF c2, n, v
  <2>4. /\ ctl' \in Machines /\ ctl'.size = c.size /\ ctl'.cb = c.cb /\ ctl'.req = c.req
        /\ ctl'.st = "DATA_IN" /\ ctl'.nb = v /\ ctl'.prev = c2.prev
    BY <1>3, <2>1, <2>2 DEF Machines, States
  <2>5. /\ ep' \in Controllers /\ ep'.outNak = e.outNak /\ ep'.inNak = FALSE /\ ep'.cnt = n
        /\ ep'.stall = e.stall /\ ep'.got = e.got
        /\ ep'.unf = e.unf /\ ep'.ovf = e.ovf /\ ep'.err = e.err
    BY <1>2, <2>1 DEF Controllers
  <2>6. n < Packet => v = c.size
    BY <1>1, <1>2, <2>2, ControlAssumption
  <2>7. c.nb = c.size => n < Packet
    BY <1>1, <1>2, ControlAssumption
  <2>8. (c.nb = c.size <=> left = 0) /\ short' \in BOOLEAN
    BY <1>1, <2>1
  <2> HIDE DEF left, p
  <2>9. ctl'.prev = (IF c.nb = c.size THEN p ELSE c.prev)
    BY <1>3, <2>4, <2>8
  <2>10. /\ short' <=> ep'.cnt < Packet
         /\ short' => ctl'.nb = c.size
         /\ c.nb = c.size => short' /\ ~(c.req.len = p \/ short)
    BY <2>1, <2>3, <2>4, <2>5, <2>6, <2>7, <2>8
  <2> QED
    BY <2>2, <2>4, <2>5, <2>8, <2>9, <2>10 DEF p
<1> QED
  BY <1>4, <1>5

\* The end of a request makes its address the device's.
LEMMA AddressTaken ==
  ASSUME Typed, Shape(dev)
  PROVE  EndOfRequest(ctl, dev).addr = IF ctl.cb = "address" THEN Address ELSE dev.addr
<1>1. ctl.cb = "address" => ctl.req.arg = Address
  BY Callbacks DEF Typed, Machines
<1> QED
  BY <1>1 DEF EndOfRequest, Shape

\* What the decoding of a setup packet makes of the machine and the endpoint.
Decoding ==
  /\ ctl' \in Machines /\ ep' \in Controllers /\ short' \in BOOLEAN
  /\ accepted' \in BOOLEAN /\ foreign' = foreign /\ strayed' = strayed
  /\ dev'.addr = IF ctl.st = "WAIT_IN_ZLP" \/ ctl.st = "WAIT_OUT_ZLP"
                 THEN IF ctl.cb = "address" THEN Address ELSE dev.addr
                 ELSE dev.addr
  /\ ctl'.req = host.req /\ ctl'.cb = Callback(host.req)
  /\ ctl'.st = IF ~accepted' THEN "STALL_REQ"
               ELSE IF IsIn(host.req) THEN "DATA_IN"
               ELSE IF host.req.len = 0 THEN "WAIT_IN_ZLP" ELSE "DATA_OUT"
  /\ ep'.err /\ ep'.got = ep.got
  /\ ep'.stall <=> ep.stall \/ ~accepted'
  /\ ep'.unf => ep.unf /\ ctl.st = "SETUP"
  /\ ep'.ovf => ep.ovf /\ ctl.st = "SETUP"
  /\ ctl'.st = "DATA_IN" =>
       /\ ep'.outNak = ep.outNak /\ ~ep'.inNak
       /\ ctl'.nb = ep'.cnt /\ ctl'.nb <= ctl'.size /\ ctl'.prev = 0
       /\ ctl'.size = host.req.size /\ ctl'.size <= host.req.len
       /\ short' <=> ep'.cnt < Packet
       /\ short' => ctl'.nb = ctl'.size
  /\ ctl'.st = "DATA_OUT" =>
       /\ ep.inNak => ep'.inNak
       /\ ctl'.nb = 0 /\ ctl'.prev = 0 /\ ctl'.size = host.req.len

LEMMA Decoded ==
  ASSUME IInv, Typed, SetupReceived, host.req \in Requests
  PROVE  Decoding
<1> DEFINE rq == host.req
           e == [(IF ctl.st = "SETUP" THEN ep ELSE EpInit(ep)) EXCEPT !.err = TRUE]
           c == [CtrlInit(ctl) EXCEPT !.req = rq, !.size = rq.size, !.cb = Callback(rq),
                                      !.prev = 0, !.nb = 0]
<1>1. /\ e \in Controllers /\ e.err = TRUE /\ e.got = ep.got /\ e.stall = ep.stall
      /\ e.unf => ep.unf /\ ctl.st = "SETUP"
      /\ e.ovf => ep.ovf /\ ctl.st = "SETUP"
      /\ e.outNak = ep.outNak /\ (ep.inNak => e.inNak)
  BY DEF Typed, Controllers, EpInit
<1>2. rq \in AnyRequest /\ rq.size \in Nat /\ rq.len \in Nat
  BY RequestFields DEF AnyRequest
<1>3. /\ c \in Machines /\ c.req = rq /\ c.size = rq.size /\ c.cb = Callback(rq)
      /\ c.prev = 0 /\ c.nb = 0 /\ c.st = "SETUP"
  <2>1. Callback(rq) \in {"none", "address", "coding"}
    BY <1>2, Callbacks
  <2> HIDE DEF rq
  <2> QED
    BY <1>2, <2>1 DEF CtrlInit, CtlIdle, Machines, States
<1>4. dev'.addr = IF ctl.st = "WAIT_IN_ZLP" \/ ctl.st = "WAIT_OUT_ZLP"
                  THEN IF ctl.cb = "address" THEN Address ELSE dev.addr
                  ELSE dev.addr
  BY SetupKeeps, AddressTaken DEF Ended, Waiting, IInv
<1>5. /\ accepted' = Accepts(Ended, rq) /\ accepted' \in BOOLEAN
      /\ foreign' = foreign /\ strayed' = strayed
  <2>1. rq.kind \in {"descriptor", "status", "setting", "address", "configuration",
                   "interface", "coding"}
    BY DEF Requests, Reads, Commands, Coding, Request
  <2>2. CASE rq.kind \in {"descriptor", "address"}
    BY <2>2 DEF Accepts, SetupReceived
  <2>3. CASE rq.kind = "status"
    BY <2>3 DEF Accepts, SetupReceived
  <2>4. CASE rq.kind = "configuration"
    BY <2>4 DEF Accepts, SetupReceived
  <2>5. CASE rq.kind \in {"setting", "coding"}
    BY <2>5 DEF Accepts, SetupReceived
  <2>6. CASE rq.kind = "interface"
    BY <2>6 DEF Accepts, SetupReceived
  <2> QED
    BY <2>1, <2>2, <2>3, <2>4, <2>5, <2>6
<1>6. IF ~accepted'
      THEN /\ ctl' = [c EXCEPT !.st = "STALL_REQ"]
           /\ ep' = [e EXCEPT !.stall = TRUE] /\ short' = short
      ELSE IF IsIn(rq) THEN InSent([c EXCEPT !.st = "DATA_IN"], e)
      ELSE /\ short' = short
           /\ IF rq.len = 0 THEN ctl' = ZlpIn(c) /\ ep' = EpZlpIn(e)
              ELSE ctl' = [c EXCEPT !.st = "DATA_OUT"] /\ ep' = [e EXCEPT !.outNak = FALSE]
  BY <1>5 DEF SetupReceived
<1>7. IsIn(rq) /\ accepted' => rq.size <= rq.len
  <2>1. rq.kind = "status" => (Accepts(Ended, rq) <=> rq.len = rq.size)
    BY DEF Accepts
  <2> QED
    BY <1>2, <1>5, <2>1, RequestFields
<1> HIDE DEF rq, e, c
<1>8. CASE ~accepted'
  <2>1. /\ ctl' = [c EXCEPT !.st = "STALL_REQ"]
        /\ ep' = [e EXCEPT !.stall = TRUE] /\ short' = short
    BY <1>6, <1>8
  <2>2. /\ ctl' \in Machines /\ ctl'.req = rq /\ ctl'.cb = Callback(rq) /\ ctl'.st = "STALL_REQ"
    BY <1>3, <2>1 DEF Machines, States
  <2>3. /\ ep' \in Controllers /\ ep'.err /\ ep'.got = ep.got /\ ep'.stall
        /\ ep'.unf = e.unf /\ ep'.ovf = e.ovf
    BY <1>1, <2>1 DEF Controllers
  <2> QED
    BY <1>1, <1>4, <1>5, <1>8, <2>1, <2>2, <2>3 DEF rq, Typed, Decoding
<1>9. CASE accepted' /\ IsIn(rq)
  <2> DEFINE d == [c EXCEPT !.st = "DATA_IN"]
  <2>1. /\ d \in Machines /\ d.req = rq /\ d.cb = Callback(rq) /\ d.st = "DATA_IN"
        /\ d.nb = 0 /\ d.prev = 0 /\ d.size = rq.size
    BY <1>3 DEF Machines, States
  <2>2. InSent(d, e)
    BY <1>6, <1>9
  <2> HIDE DEF d
  <2>3. rq.size > 0 /\ rq.size <= rq.len /\ Callback(rq) = "none"
    BY <1>2, <1>7, <1>9, RequestFields, Callbacks
  <2>4. short \in BOOLEAN /\ d.nb <= d.size
    BY <1>2, <2>1 DEF Typed
  <2>5. /\ ctl' \in Machines /\ ep' \in Controllers /\ short' \in BOOLEAN
        /\ ctl'.size = d.size /\ ctl'.cb = d.cb /\ ctl'.req = d.req
        /\ ep'.stall = e.stall /\ ep'.got = e.got
        /\ ep'.unf = e.unf /\ ep'.ovf = e.ovf /\ ep'.err = e.err
    BY <1>1, <2>1, <2>2, <2>4, InSentSteps
  <2>6. /\ ctl'.st = "DATA_IN" /\ ~ep'.inNak /\ ep'.outNak = e.outNak
        /\ ctl'.nb = d.nb + ep'.cnt /\ ctl'.nb <= d.size
        /\ short' <=> ep'.cnt < Packet
        /\ short' => ctl'.nb = d.size
        /\ ctl'.prev = 0
    <3>1. d.nb # d.size /\ d.prev = 0
      BY <1>2, <2>1, <2>3
    <3>2. ctl'.st # "WAIT_OUT_ZLP"
      BY <1>1, <2>1, <2>2, <2>4, <3>1, InSentSteps
    <3> QED
      BY <1>1, <2>1, <2>2, <2>4, <3>1, <3>2, InSentSteps
  <2>7. ctl'.nb = ep'.cnt
    BY <2>1, <2>5, <2>6 DEF Controllers
  <2> QED
    BY <1>1, <1>4, <1>5, <1>9, <2>1, <2>3, <2>5, <2>6, <2>7 DEF rq, Decoding
<1>10. CASE accepted' /\ ~IsIn(rq) /\ rq.len = 0
  <2>1. /\ ctl' = [c EXCEPT !.st = "WAIT_IN_ZLP"] /\ short' = short
        /\ ep' = [e EXCEPT !.cnt = 0, !.inNak = FALSE]
    BY <1>6, <1>10 DEF ZlpIn, EpZlpIn
  <2>2. /\ ctl' \in Machines /\ ctl'.req = rq /\ ctl'.cb = Callback(rq) /\ ctl'.st = "WAIT_IN_ZLP"
    BY <1>3, <2>1 DEF Machines, States
  <2>3. /\ ep' \in Controllers /\ ep'.err /\ ep'.got = ep.got /\ ep'.stall = ep.stall
        /\ ep'.unf = e.unf /\ ep'.ovf = e.ovf
    BY <1>1, <2>1 DEF Controllers
  <2> QED
    BY <1>1, <1>4, <1>5, <1>10, <2>1, <2>2, <2>3 DEF rq, Typed, Decoding
<1>11. CASE accepted' /\ ~IsIn(rq) /\ rq.len # 0
  <2>1. /\ ctl' = [c EXCEPT !.st = "DATA_OUT"] /\ short' = short
        /\ ep' = [e EXCEPT !.outNak = FALSE]
    BY <1>6, <1>11
  <2>2. /\ ctl' \in Machines /\ ctl'.req = rq /\ ctl'.cb = Callback(rq) /\ ctl'.st = "DATA_OUT"
        /\ ctl'.nb = 0 /\ ctl'.prev = 0 /\ ctl'.size = rq.size
    BY <1>3, <2>1 DEF Machines, States
  <2>3. /\ ep' \in Controllers /\ ep'.err /\ ep'.got = ep.got /\ ep'.stall = ep.stall
        /\ ep'.unf = e.unf /\ ep'.ovf = e.ovf /\ ep'.inNak = e.inNak
    BY <1>1, <2>1 DEF Controllers
  <2>4. rq.size = rq.len
    BY <1>2, <1>11, RequestFields
  <2> QED
    BY <1>1, <1>4, <1>5, <1>11, <2>1, <2>2, <2>3, <2>4 DEF rq, Typed, Decoding
<1> QED
  BY <1>8, <1>9, <1>10, <1>11, <1>5

\* After the decoding of a setup packet, which waited for all the others.
LEMMA DecodedKeeps ==
  ASSUME Protocol, SetupReceived, Asked, flags \cap {"in", "out"} = {},
         UNCHANGED host, flags' \subseteq flags \ {"setup"}, Quiet' = Quiet
  PROVE  Typed' /\ Transfers' /\ (Quiet' => Steady')
<1>1. /\ Typed /\ Transfers /\ host.req \in Requests
      /\ ~Asked' /\ "in" \notin flags' /\ "out" \notin flags'
  BY DEF Protocol, Transfers, Asked
<1>2. Decoding
  BY <1>1, Decoded DEF Protocol
<1> host.req.len \in Nat /\ host.req.size \in Nat
  BY <1>1, RequestFields DEF AnyRequest
<1>3. Typed'
  <2>1. ctl'.st \in {"DATA_IN", "DATA_OUT"} => ctl'.nb <= ctl'.size
    BY <1>2 DEF Decoding, Machines
  <2>2. dev'.addr \in {0, Address}
    BY <1>1, <1>2 DEF Typed, Decoding
  <2> QED
    BY <1>1, <1>2, <2>1, <2>2 DEF Typed, Decoding
<1>4. Transfers'
  BY <1>1 DEF Transfers, Quiet
<1>5. ASSUME Quiet PROVE Steady'
  <2>1. Silenced /\ Marks /\ WholeAnswer /\ Addressed
    BY <1>5 DEF Protocol, Steady
  <2>2. ep.inNak /\ ep.outNak /\ ~ep.stall /\ host.n = 0 /\ ~host.stalled
    BY <2>1 DEF Silenced
  <2>3. /\ ep'.ovf => \/ host.phase \in {"data_out", "status_out"}
                      \/ (host.phase = "status_in" /\ host.cut)
        /\ ep'.unf => \/ host.phase \in {"data_in", "status_in"}
                      \/ (host.phase = "status_out" /\ host.cut)
    BY <1>2, <2>1 DEF Marks, Decoding
  <2>4. /\ ctl'.st # "SETUP" /\ ep'.err /\ ctl'.st # "WAIT_OUT_ZLP"
        /\ ctl'.st = "DATA_IN" => accepted' /\ IsIn(host.req)
        /\ ctl'.st = "DATA_OUT" => accepted' /\ ~IsIn(host.req) /\ host.req.len # 0
        /\ ctl'.st = "WAIT_IN_ZLP" => accepted' /\ ~IsIn(host.req) /\ host.req.len = 0
        /\ ctl'.st = "STALL_REQ" => ~accepted'
        /\ ep'.stall => ~accepted'
    BY <1>2, <2>2 DEF Decoding
  <2>5. Silenced'
    BY <1>1 DEF Silenced
  <2>6. Marks'
    BY <1>1, <2>3, <2>4 DEF Marks, Transfers
  <2>7. Follows' /\ Endpoint'
    <3>1. ctl'.req = host.req /\ (ctl'.st = "DATA_IN" => ep'.outNak) /\ (ctl'.st = "DATA_OUT" => ep'.inNak)
      BY <1>2, <2>2 DEF Decoding
    <3>2. ctl'.st = "STALL_REQ" => ep'.stall
      BY <1>2, <2>4 DEF Decoding
    <3>3. ctl'.st = IF ~accepted' THEN "STALL_REQ"
                   ELSE IF IsIn(host.req) THEN "DATA_IN"
                   ELSE IF host.req.len = 0 THEN "WAIT_IN_ZLP" ELSE "DATA_OUT"
      BY <1>2 DEF Decoding
    <3>4. host.phase = "data_out" => host.req.len # 0
      BY <1>1, <2>2 DEF Transfers
    <3>5. Follows'
      BY <1>1, <2>4, <3>4, <3>1, <3>3 DEF Follows, Busy, Transfers
    <3> QED
      BY <1>1, <2>4, <3>1, <3>2, <3>5 DEF Endpoint
  <2>8. Stalls'
    BY <1>1, <2>2, <2>3, <2>4 DEF Stalls, Transfers
  <2>9. DataIn'
    <3>1. ctl'.st = "DATA_IN" => host.n + ep'.cnt = ctl'.nb
      <4>1. ctl'.st = "DATA_IN" => ctl'.nb = ep'.cnt
        BY <1>2 DEF Decoding
      <4>2. ep'.cnt \in Nat
        BY <1>3 DEF Typed, Controllers
      <4> QED
        BY <2>2, <4>1, <4>2
    <3> QED
      BY <1>2, <3>1 DEF DataIn, Busy, Decoding
  <2>10. DataOut'
    <3>1. ctl'.st = "DATA_OUT" =>
            /\ ctl'.prev = 0 /\ ctl'.nb = 0 /\ ctl'.size = host.req.len /\ ctl'.req = host.req
            /\ host.req.len \in Nat \ {0}
      BY <1>2, <2>4 DEF Decoding
    <3>2. ctl'.st = "DATA_OUT" => host.phase # "status_in" \/ host.cut
      BY <1>1, <2>2, <3>1 DEF Transfers
    <3> QED
      BY <1>1, <2>2, <3>1, <3>2 DEF DataOut
  <2>11. WholeAnswer' /\ Addressed'
    BY <1>1, <1>2, <2>1 DEF WholeAnswer, Addressed, Silenced, Decoding
  <2> QED
    BY <2>5, <2>6, <2>7, <2>8, <2>9, <2>10, <2>11 DEF Steady
<1> QED
  BY <1>3, <1>4, <1>5

\* The machine and the endpoint at the end of a request.
LEMMA Ending ==
  ASSUME Typed, Finish, IInv
  PROVE  /\ ctl' \in Machines /\ ep' \in Controllers /\ short' \in BOOLEAN
         /\ ctl'.st = "SETUP" /\ ctl'.cb = Callback(ctl'.req)
         /\ ep'.inNak /\ ep'.outNak = ep.outNak /\ ep'.stall = ep.stall /\ ep'.got = ep.got
         /\ ~ep'.unf /\ ~ep'.ovf
         /\ dev'.addr = IF ctl.cb = "address" THEN Address ELSE dev.addr
<1>1. ctl' = CtlIdle
  BY DEF Finish, CtrlInit
<1>2. ctl' \in Machines /\ ctl'.st = "SETUP"
  BY <1>1 DEF CtlIdle, Machines, States, AnyRequest
<1>3. ctl'.cb = Callback(ctl'.req)
  BY <1>1 DEF CtlIdle, Callback, NoRequest, Request
<1>4. /\ ep' \in Controllers /\ ep'.inNak /\ ep'.outNak = ep.outNak /\ ep'.stall = ep.stall
      /\ ep'.got = ep.got /\ ~ep'.unf /\ ~ep'.ovf
  BY DEF Finish, EpInit, Typed, Controllers
<1>5. dev'.addr = IF ctl.cb = "address" THEN Address ELSE dev.addr
  BY AddressTaken DEF Finish, IInv
<1> QED
  BY <1>2, <1>3, <1>4, <1>5 DEF Finish

\* After the handshake of a request, whose transfer the host has left behind.
LEMMA FinishKeeps ==
  ASSUME Protocol, Quiet, Finish, UNCHANGED << host, aux >>,
         \/ ctl.st = "WAIT_IN_ZLP" /\ "in" \in flags
         \/ ctl.st = "WAIT_OUT_ZLP" /\ "out" \in flags
  PROVE  Typed' /\ Transfers' /\ (Quiet' => Steady')
<1>1. Typed /\ Transfers /\ Steady
  BY DEF Protocol
<1>2. /\ flags' = flags \ {"in", "out"} /\ host' = host /\ alien' = alien
      /\ accepted' = accepted /\ foreign' = foreign /\ strayed' = strayed
  BY DEF Finish, aux
<1>3. Typed'
  BY <1>1, <1>2, Ending DEF Protocol, Typed
<1>4. Transfers'
  BY <1>1, <1>2 DEF Transfers, Quiet, Asked
<1>5. Asked' = Asked /\ (Asked \/ host.phase = "idle")
  BY <1>1, <1>2 DEF Asked, Steady, Follows, Busy
<1>6. Silenced'
  BY <1>1, <1>2, <1>5, Ending DEF Protocol, Steady, Silenced
<1>7. Marks' /\ Follows' /\ Endpoint'
  BY <1>1, <1>2, <1>5, Ending DEF Protocol, Marks, Follows, Endpoint, Busy
<1>8. Stalls'
  BY <1>1, <1>2, <1>5, Ending DEF Protocol, Steady, Stalls
<1>9. DataIn' /\ DataOut' /\ WholeAnswer'
  BY <1>1, <1>2, <1>5, Ending DEF Protocol, Steady, DataIn, DataOut, WholeAnswer
<1>10. Addressed'
  <2>1. host.phase = "idle" => strayed \/ dev'.addr = host.addr
    <3>1. ctl.st = "WAIT_OUT_ZLP" => ctl.cb # "address"
      BY <1>1, Callbacks DEF Steady, Endpoint, Typed, Machines
    <3> QED
      BY <1>1, <3>1, Ending DEF Protocol, Steady, Addressed
  <2> QED
    BY <1>2, <2>1, Ending DEF Protocol, Addressed
<1> QED
  BY <1>3, <1>4, <1>6, <1>7, <1>8, <1>9, <1>10 DEF Steady

\* An event of a packet that the machine does not wait for.
LEMMA DropKeeps ==
  ASSUME Protocol, Quiet, UNCHANGED << ctl, dev, ep, short, host, aux >>,
         \/ flags' = flags \ {"in"} /\ ctl.st \notin {"WAIT_IN_ZLP", "DATA_IN"}
         \/ flags' = flags \ {"out"} /\ ctl.st \notin {"WAIT_OUT_ZLP", "DATA_OUT"}
  PROVE  Typed' /\ Transfers' /\ (Quiet' => Steady')
<1>1. Typed /\ Transfers /\ Steady
  BY DEF Protocol
<1>2. /\ host' = host /\ alien' = alien /\ ctl' = ctl /\ ep' = ep /\ dev' = dev /\ short' = short
      /\ accepted' = accepted /\ foreign' = foreign /\ strayed' = strayed
      /\ Asked' = Asked /\ Quiet' = Quiet
  BY DEF aux, Asked, Quiet
<1>3. Typed' /\ Transfers'
  BY <1>1, <1>2 DEF Typed, Transfers
<1>4. Silenced' /\ Marks' /\ Follows' /\ Endpoint'
  BY <1>1, <1>2 DEF Steady, Silenced, Marks, Follows, Endpoint, Busy
<1>5. Stalls' /\ WholeAnswer'
  BY <1>1, <1>2 DEF Steady, Stalls, WholeAnswer
<1>6. DataIn' /\ DataOut'
  BY <1>1, <1>2 DEF Steady, DataIn, DataOut, Busy
<1>7. Addressed'
  BY <1>1, <1>2 DEF Steady, Addressed
<1> QED
  BY <1>3, <1>4, <1>5, <1>6, <1>7 DEF Steady

\* After a packet of an answer: the next one, an empty one, or the handshake.
LEMMA InSentKeeps ==
  ASSUME Protocol, Quiet, ctl.st = "DATA_IN", "in" \in flags, InSent(ctl, ep),
         ~(ep.err /\ Errors # {}),
         flags' = flags \ {"in"}, UNCHANGED << dev, host, aux >>
  PROVE  Typed' /\ Transfers' /\ (Quiet' => Steady')
<1>1. Typed /\ Transfers /\ Steady
  BY DEF Protocol
<1>2. /\ host' = host /\ alien' = alien /\ dev' = dev
      /\ accepted' = accepted /\ foreign' = foreign /\ strayed' = strayed
      /\ Asked' = Asked /\ Quiet' = Quiet
  BY DEF aux, Asked, Quiet
<1>3. /\ ctl \in Machines /\ ep \in Controllers /\ short \in BOOLEAN /\ ctl.nb <= ctl.size
      /\ host \in Hosts
  BY <1>1 DEF Typed
<1>4. /\ ctl' \in Machines /\ ep' \in Controllers /\ short' \in BOOLEAN
      /\ ctl'.size = ctl.size /\ ctl'.cb = ctl.cb /\ ctl'.req = ctl.req
      /\ ep'.outNak = (IF ctl'.st = "WAIT_OUT_ZLP" THEN FALSE ELSE ep.outNak)
      /\ ep'.stall = ep.stall /\ ep'.got = ep.got
      /\ ep'.unf = ep.unf /\ ep'.ovf = ep.ovf /\ ep'.err = ep.err
      /\ \/ /\ ctl'.st = "WAIT_OUT_ZLP" /\ ctl.nb = ctl.size
            /\ ctl.req.len = ctl.prev + ctl.nb \/ short
         \/ /\ ctl'.st = "DATA_IN" /\ ~ep'.inNak
            /\ ctl'.nb = ctl.nb + ep'.cnt /\ ctl'.nb <= ctl.size
            /\ short' <=> ep'.cnt < Packet
            /\ short' => ctl'.nb = ctl.size
            /\ ctl'.prev = IF ctl.nb = ctl.size THEN ctl.prev + ctl.nb ELSE ctl.prev
            /\ ctl.nb = ctl.size => short' /\ ~(ctl.req.len = ctl.prev + ctl.nb \/ short)
  BY <1>3, InSentSteps
<1>5. ~Asked /\ host.phase # "idle" /\ Busy
  BY <1>1 DEF Steady, Endpoint, Busy
<1>6. ep.inNak /\ ep.outNak /\ ~ep.stall /\ "out" \notin flags /\ ep.err /\ Errors = {}
  BY <1>1, <1>5 DEF Steady, Endpoint, Follows, Marks
<1>7. Typed'
  BY <1>1, <1>2, <1>4 DEF Typed
<1>8. Transfers'
  BY <1>1, <1>2 DEF Transfers
<1>9. Silenced' /\ Marks'
  BY <1>1, <1>2, <1>4, <1>5, <1>6 DEF Steady, Silenced, Marks
<1>10. host.phase \in {"setup", "data_in"} => ctl'.st = "DATA_IN" /\ DataIn'
  <2> SUFFICES ASSUME host.phase \in {"setup", "data_in"} PROVE ctl'.st = "DATA_IN" /\ DataIn'
    OBVIOUS
  <2>1. /\ host.n + 0 = ctl.nb /\ ctl.size = host.req.size /\ ctl.size <= host.req.len
        /\ ctl.prev # 0 => short
        /\ ~short /\ ctl.nb # host.req.len /\ ctl.req = host.req
    BY <1>1, <1>5, <1>6 DEF Steady, DataIn, Follows
  <2>2. /\ ctl.nb \in Nat /\ ctl.prev = 0 /\ host.n \in Nat /\ host.n = ctl.nb
        /\ ctl.prev + ctl.nb = ctl.nb
    BY <1>3, <2>1 DEF Machines, Hosts
  <2>3. ctl'.st = "DATA_IN"
    BY <1>4, <2>1, <2>2
  <2>4. host.n + ep'.cnt = ctl'.nb
    BY <1>4, <2>2, <2>3
  <2>5. ctl'.prev # 0 => short'
    BY <1>4, <2>2, <2>3
  <2> QED
    BY <1>2, <1>4, <2>1, <2>3, <2>4, <2>5 DEF DataIn, Busy
<1>11. host.phase \notin {"setup", "data_in"} => host.phase = "status_out" /\ DataIn'
  BY <1>1, <1>2, <1>5 DEF Steady, Follows, DataIn, Busy, Transfers, Hosts, Typed, Phases
<1>12. ctl'.st \in {"DATA_IN", "WAIT_OUT_ZLP"}
  BY <1>4
<1>13. Follows' /\ Endpoint'
  BY <1>1, <1>2, <1>4, <1>5, <1>6, <1>10, <1>11, <1>12 DEF Steady, Follows, Endpoint, Busy
<1>14. Stalls'
  BY <1>1, <1>2, <1>5, <1>6, <1>12, <1>4 DEF Steady, Stalls, Transfers, Errors
<1>15. DataOut' /\ WholeAnswer' /\ Addressed'
  BY <1>1, <1>2, <1>5, <1>12 DEF Steady, DataOut, WholeAnswer, Addressed
<1> QED
  BY <1>7, <1>8, <1>9, <1>10, <1>11, <1>13, <1>14, <1>15 DEF Steady

\* What udd_ctrl_out_received makes of the machine and the endpoint.
LEMMA OutReceivedSteps ==
  ASSUME Typed, ctl.st = "DATA_OUT", ctl.prev = 0, ctl.size = ctl.req.len, OutReceived
  PROVE  /\ ctl' \in Machines /\ ep' \in Controllers
         /\ ctl'.cb = ctl.cb /\ ctl'.req = ctl.req
         /\ ep'.stall = ep.stall /\ ep'.got = ep.got
         /\ ep'.unf = ep.unf /\ ep'.ovf = ep.ovf /\ ep'.err = ep.err
         /\ \/ /\ ctl'.st = "WAIT_IN_ZLP"
               /\ ep.got # Packet \/ ctl.size <= ctl.nb + ep.got
            \/ /\ ctl'.st = "DATA_OUT" /\ ep'.inNak = ep.inNak
               /\ ctl'.prev = 0 /\ ctl'.size = ctl.size
               /\ ctl'.nb = ctl.nb + ep.got /\ ctl'.nb < ctl.size
<1> DEFINE left == ctl.size - ctl.nb
           n == Fewest(ep.got, left)
           v == ctl.nb + n
           c == [ctl EXCEPT !.nb = v]
<1>1. /\ ctl \in Machines /\ ep \in Controllers
      /\ ctl.nb \in Nat /\ ctl.size \in Nat /\ ep.got \in Nat /\ left \in Nat
      /\ ep.got <= Packet /\ Packet \in Nat
  BY ControlAssumption DEF Typed, Machines, Controllers
<1>2. n \in Nat /\ n <= left /\ (n = ep.got \/ n = left) /\ n <= ep.got
  <2> HIDE DEF left
  <2> QED
    BY <1>1, FewestOf
<1>3. v \in Nat /\ v <= ctl.size
  BY <1>1, <1>2
<1>4. IF n # Packet \/ ctl.req.len <= c.prev + c.nb
      THEN ctl' = ZlpIn([c EXCEPT !.size = c.nb]) /\ ep' = EpZlpIn(ep)
      ELSE IF c.size = c.nb
      THEN ctl' = [c EXCEPT !.st = "STALL_REQ"] /\ ep' = [ep EXCEPT !.stall = TRUE]
      ELSE ctl' = c /\ ep' = [ep EXCEPT !.outNak = FALSE]
  BY DEF OutReceived
<1>5. /\ n # Packet => ep.got # Packet \/ ctl.size <= ctl.nb + ep.got
      /\ ctl.size <= v => ctl.size <= ctl.nb + ep.got
      /\ n = Packet => ep.got = Packet /\ v = ctl.nb + ep.got
  BY <1>1, <1>2
<1> HIDE DEF left, n, v
<1>6. /\ c \in Machines /\ c.nb = v /\ c.prev = 0 /\ c.size = ctl.size /\ c.req = ctl.req
      /\ c.cb = ctl.cb /\ c.st = ctl.st
  BY <1>1, <1>3 DEF Machines
<1> HIDE DEF c
<1>7. c.prev + c.nb = v
  BY <1>3, <1>6
<1>8. CASE n # Packet \/ ctl.size <= v
  <2>1. /\ ctl' = [[c EXCEPT !.size = v] EXCEPT !.st = "WAIT_IN_ZLP"]
        /\ ep' = [ep EXCEPT !.cnt = 0, !.inNak = FALSE]
    BY <1>4, <1>6, <1>7, <1>8 DEF ZlpIn, EpZlpIn
  <2>2. /\ ctl' \in Machines /\ ctl'.cb = ctl.cb /\ ctl'.req = ctl.req
        /\ ctl'.st = "WAIT_IN_ZLP"
    BY <1>3, <1>6, <2>1 DEF Machines, States
  <2>3. /\ ep' \in Controllers /\ ep'.stall = ep.stall /\ ep'.got = ep.got
        /\ ep'.unf = ep.unf /\ ep'.ovf = ep.ovf /\ ep'.err = ep.err
    BY <1>1, <2>1 DEF Controllers
  <2> QED
    BY <1>5, <1>8, <2>2, <2>3
<1>9. CASE n = Packet /\ v < ctl.size
  <2>1. ctl' = c /\ ep' = [ep EXCEPT !.outNak = FALSE]
    BY <1>1, <1>3, <1>4, <1>6, <1>7, <1>9
  <2>2. /\ ep' \in Controllers /\ ep'.stall = ep.stall /\ ep'.got = ep.got
        /\ ep'.unf = ep.unf /\ ep'.ovf = ep.ovf /\ ep'.err = ep.err /\ ep'.inNak = ep.inNak
    BY <1>1, <2>1 DEF Controllers
  <2> QED
    BY <1>5, <1>6, <1>9, <2>1, <2>2
<1> QED
  BY <1>1, <1>3, <1>8, <1>9

\* After a packet of the host: the next one, or the handshake.
LEMMA OutReceivedKeeps ==
  ASSUME Protocol, Quiet, ctl.st = "DATA_OUT", "out" \in flags, OutReceived,
         ~(ep.err /\ Errors # {}),
         flags' = flags \ {"out"}, UNCHANGED << host, aux >>
  PROVE  Typed' /\ Transfers' /\ (Quiet' => Steady')
<1>1. Typed /\ Transfers /\ Steady
  BY DEF Protocol
<1>2. /\ host' = host /\ alien' = alien /\ dev' = dev /\ short' = short
      /\ accepted' = accepted /\ foreign' = foreign /\ strayed' = strayed
      /\ Asked' = Asked /\ Quiet' = Quiet
  BY DEF aux, Asked, Quiet, OutReceived
<1>3. ~Asked /\ host.phase # "idle" /\ Busy
  BY <1>1 DEF Steady, Endpoint, Busy
<1>4. ep.inNak /\ ep.outNak /\ ~ep.stall /\ "in" \notin flags /\ ep.err /\ Errors = {}
  BY <1>1, <1>3 DEF Steady, Endpoint, Follows, Marks
<1>5. DataOut /\ ctl.prev = 0 /\ ctl.size = ctl.req.len /\ ctl.req = host.req
  BY <1>1, <1>3 DEF Steady, DataOut, Follows
<1>6. ctl' \in Machines /\ ep' \in Controllers /\ ep'.got = ep.got
  BY <1>1, <1>5, OutReceivedSteps
<1>7. Typed'
  <2>1. ctl'.st = "DATA_OUT" => ctl'.nb <= ctl'.size
    BY <1>1, <1>5, <1>6, OutReceivedSteps DEF Machines
  <2>2. ctl'.st # "DATA_IN"
    BY <1>1, <1>5, OutReceivedSteps
  <2>3. ctl'.cb = ctl.cb /\ ctl'.req = ctl.req
    BY <1>1, <1>5, OutReceivedSteps
  <2> QED
    BY <1>1, <1>2, <1>6, <2>1, <2>2, <2>3 DEF Typed
<1>8. Transfers'
  BY <1>1, <1>2 DEF Transfers
<1>9. /\ ctl'.req = ctl.req /\ ctl'.st \in {"WAIT_IN_ZLP", "DATA_OUT"}
      /\ ep'.stall = ep.stall /\ ep'.unf = ep.unf /\ ep'.ovf = ep.ovf /\ ep'.err = ep.err
      /\ ctl'.st = "DATA_OUT" => ep'.inNak = ep.inNak
  BY <1>1, <1>5, OutReceivedSteps
<1>10. Silenced' /\ Marks'
  BY <1>1, <1>2, <1>3, <1>4, <1>9 DEF Steady, Silenced, Marks
<1>11. /\ ctl.nb \in Nat /\ ctl.size \in Nat /\ ep.got \in Nat /\ host.n \in Nat
  BY <1>1 DEF Typed, Machines, Controllers, Hosts
<1>12. host.phase \in {"setup", "data_out"} => ctl'.st = "DATA_OUT"
  <2>1. host.phase \in {"setup", "data_out"} => ep.got = Packet /\ ctl.nb + ep.got < ctl.size
    BY <1>3, <1>5, <1>11 DEF DataOut
  <2> QED
    BY <1>1, <1>5, <1>11, <2>1, OutReceivedSteps
<1>13. DataOut'
  <2> SUFFICES ASSUME ctl'.st = "DATA_OUT" PROVE DataOut'
    BY DEF DataOut
  <2>1. ctl'.prev = 0 /\ ctl'.size = ctl.size /\ ctl'.nb = ctl.nb + ep.got /\ ctl'.nb < ctl.size
    BY <1>1, <1>5, OutReceivedSteps
  <2>2. host.phase \in {"setup", "data_out"} => host.n = ctl'.nb + 0
    BY <1>3, <1>5, <1>11, <2>1 DEF DataOut
  <2>3. host.phase # "status_in" \/ host.cut
    BY <1>3, <1>5, <1>11, <2>1 DEF DataOut
  <2> QED
    BY <1>2, <1>3, <1>5, <1>9, <2>1, <2>2, <2>3 DEF DataOut
<1>14. Follows' /\ Endpoint'
  BY <1>1, <1>2, <1>3, <1>4, <1>9, <1>12 DEF Steady, Follows, Endpoint, Busy, Transfers
<1>15. Stalls'
  BY <1>1, <1>2, <1>3, <1>4, <1>9 DEF Steady, Stalls, Transfers, Errors
<1>16. DataIn' /\ WholeAnswer' /\ Addressed'
  BY <1>1, <1>2, <1>3, <1>4, <1>9 DEF Steady, DataIn, WholeAnswer, Addressed
<1> QED
  BY <1>7, <1>8, <1>10, <1>13, <1>14, <1>15, <1>16 DEF Steady

\* An underflow or overflow that changes nothing but its flag.
LEMMA IgnoredKeeps ==
  ASSUME Protocol, NEW f \in {"unf", "ovf"}, flags' = flags \ {f}, alien' = alien \ {f},
         UNCHANGED << ctl, dev, ep, short, host, accepted, foreign, strayed >>
  PROVE  Typed' /\ Transfers' /\ (Quiet' => Steady')
<1>1. Asked' = Asked /\ Quiet' = Quiet
  BY DEF Asked, Quiet
<1>2. Typed' /\ Transfers'
  BY <1>1 DEF Protocol, Typed, Transfers
<1>3. ASSUME Steady PROVE Steady'
  <2>1. Silenced' /\ Marks' /\ Follows' /\ Endpoint'
    BY <1>1, <1>3 DEF Steady, Silenced, Marks, Follows, Endpoint, Busy
  <2>2. Stalls' /\ WholeAnswer'
    BY <1>1, <1>3 DEF Steady, Stalls, WholeAnswer
  <2>3. DataIn' /\ DataOut' /\ Addressed'
    BY <1>1, <1>3 DEF Steady, DataIn, DataOut, Addressed, Busy
  <2> QED
    BY <2>1, <2>2, <2>3 DEF Steady
<1> QED
  BY <1>1, <1>2, <1>3 DEF Protocol

\* A host that asks for the handshake of a data phase it ends early.
LEMMA ChangedInKeeps ==
  ASSUME Protocol, ctl.st = "DATA_OUT", ep.unf, flags \cap {"in", "out", "setup"} = {},
         ctl' = ZlpIn(ctl), ep' = EpZlpIn(ep), flags' = flags \ {"unf"},
         UNCHANGED << dev, short, host, accepted, foreign, strayed >>, alien' = alien \ {"unf"}
  PROVE  Typed' /\ Transfers' /\ (Quiet' => Steady')
<1>1. Asked' = Asked /\ Quiet' = Quiet /\ ~Asked
  BY DEF Asked, Quiet
<1>2. Typed /\ Transfers
  BY DEF Protocol
<1>3. ctl' \in Machines /\ ctl'.st = "WAIT_IN_ZLP" /\ ctl'.req = ctl.req /\ ctl'.cb = ctl.cb
  BY <1>2 DEF Typed, ZlpIn, Machines, States
<1>4. /\ ep' \in Controllers /\ ep'.outNak = ep.outNak /\ ep'.stall = ep.stall
      /\ ep'.got = ep.got /\ ep'.unf = ep.unf /\ ep'.ovf = ep.ovf /\ ep'.err = ep.err
  BY <1>2 DEF Typed, EpZlpIn, Controllers
<1>5. Typed' /\ Transfers'
  BY <1>1, <1>2, <1>3, <1>4 DEF Typed, Transfers
<1>6. ASSUME Quiet PROVE Steady'
  <2>1. Steady
    BY <1>6 DEF Protocol
  <2>2. host.phase = "status_in" /\ host.cut /\ ~ep.stall
    BY <1>1, <2>1 DEF Steady, Marks, DataOut, Endpoint
  <2>3. Silenced' /\ Marks' /\ Follows' /\ Endpoint'
    BY <1>1, <1>3, <1>4, <2>1, <2>2 DEF Steady, Silenced, Marks, Follows, Endpoint, Busy
  <2>4. Stalls' /\ DataIn' /\ DataOut' /\ WholeAnswer' /\ Addressed'
    BY <1>1, <1>2, <1>3, <1>4, <2>1, <2>2
    DEF Steady, Stalls, DataIn, DataOut, WholeAnswer, Addressed, Busy, Transfers
  <2> QED
    BY <2>3, <2>4 DEF Steady
<1> QED
  BY <1>5, <1>6, <1>1

LEMMA ChangedOutKeeps ==
  ASSUME Protocol, ctl.st = "DATA_IN", ep.ovf, flags \cap {"in", "out", "setup", "unf"} = {},
         ctl' = ZlpOut(ctl), ep' = EpZlpOut(ep), flags' = flags \ {"ovf"},
         UNCHANGED << dev, short, host, accepted, foreign, strayed >>, alien' = alien \ {"ovf"}
  PROVE  Typed' /\ Transfers' /\ (Quiet' => Steady')
<1>1. Asked' = Asked /\ Quiet' = Quiet /\ ~Asked
  BY DEF Asked, Quiet
<1>2. Typed /\ Transfers
  BY DEF Protocol
<1>3. ctl' \in Machines /\ ctl'.st = "WAIT_OUT_ZLP" /\ ctl'.req = ctl.req /\ ctl'.cb = ctl.cb
  BY <1>2 DEF Typed, ZlpOut, Machines, States
<1>4. /\ ep' \in Controllers /\ ep'.inNak = ep.inNak /\ ep'.stall = ep.stall
      /\ ep'.got = ep.got /\ ep'.unf = ep.unf /\ ep'.ovf = ep.ovf /\ ep'.err = ep.err
  BY <1>2 DEF Typed, EpZlpOut, Controllers
<1>5. Typed' /\ Transfers'
  BY <1>1, <1>2, <1>3, <1>4 DEF Typed, Transfers
<1>6. ASSUME Quiet PROVE Steady'
  <2>1. Steady
    BY <1>6 DEF Protocol
  <2>2. host.phase = "status_out" /\ ~ep.stall /\ IsIn(ctl.req)
    BY <1>1, <2>1 DEF Steady, Marks, Endpoint
  <2>3. Silenced' /\ Marks' /\ Follows' /\ Endpoint'
    BY <1>1, <1>3, <1>4, <2>1, <2>2 DEF Steady, Silenced, Marks, Follows, Endpoint, Busy
  <2>4. Stalls' /\ DataIn' /\ DataOut' /\ WholeAnswer' /\ Addressed'
    BY <1>1, <1>2, <1>3, <1>4, <2>1, <2>2
    DEF Steady, Stalls, DataIn, DataOut, WholeAnswer, Addressed, Busy, Transfers
  <2> QED
    BY <2>3, <2>4 DEF Steady
<1> QED
  BY <1>5, <1>6, <1>1

\* A packet refused after the data phase, by this endpoint or by another one.
LEMMA StalledKeeps ==
  ASSUME Protocol, NEW f \in {"unf", "ovf"}, f \in flags,
         flags \cap {"in", "out", "setup"} = {},
         \/ f = "unf" /\ ep.unf /\ ctl.st = "WAIT_OUT_ZLP"
         \/ f = "ovf" /\ ep.ovf /\ ctl.st = "WAIT_IN_ZLP",
         ep' = [ep EXCEPT !.stall = TRUE], flags' = flags \ {f},
         alien' = alien \ {f}, foreign' = (f \in alien),
         UNCHANGED << ctl, dev, short, host, accepted, strayed >>
  PROVE  Typed' /\ Transfers' /\ (Quiet' => Steady')
<1>1. Asked' = Asked /\ Quiet' = Quiet /\ ~Asked
  BY DEF Asked, Quiet
<1>2. Typed /\ Transfers
  BY DEF Protocol
<1>3. /\ ep' \in Controllers /\ ep'.inNak = ep.inNak /\ ep'.outNak = ep.outNak /\ ep'.stall
      /\ ep'.got = ep.got /\ ep'.unf = ep.unf /\ ep'.ovf = ep.ovf /\ ep'.err = ep.err
  BY <1>2 DEF Typed, Controllers
<1>4. Typed' /\ Transfers'
  BY <1>1, <1>2, <1>3 DEF Typed, Transfers
<1>5. ASSUME Quiet PROVE Steady'
  <2>1. Steady
    BY <1>5 DEF Protocol
  <2>2. ~host.cut => f \in alien
    BY <1>1, <2>1 DEF Steady, Stalls
  <2>3. Silenced' /\ Marks' /\ Follows' /\ Endpoint'
    BY <1>1, <1>3, <2>1 DEF Steady, Silenced, Marks, Follows, Endpoint, Busy
  <2>4. Stalls' /\ DataIn' /\ DataOut' /\ WholeAnswer' /\ Addressed'
    BY <1>1, <1>2, <1>3, <2>1, <2>2
    DEF Steady, Stalls, DataIn, DataOut, WholeAnswer, Addressed, Busy
  <2> QED
    BY <2>3, <2>4 DEF Steady
<1> QED
  BY <1>4, <1>5, <1>1

\* An underflow or an overflow, whatever the driver makes of it.
LEMMA ErrorsKeep ==
  ASSUME Protocol, Underflow \/ Overflow
  PROVE  Typed' /\ Transfers' /\ (Quiet' => Steady')
<1>1. PICK f \in {"unf", "ovf"} :
        /\ f \in flags /\ alien' = alien \ {f} /\ host' = host
        /\ f = "ovf" => "unf" \notin flags
        /\ \/ /\ flags' = flags \ {f}
              /\ UNCHANGED << ctl, dev, ep, short, accepted, foreign, strayed >>
           \/ /\ flags' = flags \ {f, "setup"} /\ SetupReceived /\ "setup" \in flags
              /\ flags \cap {"in", "out"} = {}
           \/ /\ flags' = flags \ {f} /\ flags \cap {"in", "out", "setup"} = {}
              /\ UNCHANGED << dev, short, accepted, strayed >>
              /\ \/ /\ f = "unf" /\ ep.unf /\ ctl.st = "DATA_OUT"
                    /\ ctl' = ZlpIn(ctl) /\ ep' = EpZlpIn(ep) /\ UNCHANGED foreign
                 \/ /\ f = "ovf" /\ ep.ovf /\ ctl.st = "DATA_IN"
                    /\ ctl' = ZlpOut(ctl) /\ ep' = EpZlpOut(ep) /\ UNCHANGED foreign
                 \/ /\ \/ f = "unf" /\ ep.unf /\ ctl.st = "WAIT_OUT_ZLP"
                       \/ f = "ovf" /\ ep.ovf /\ ctl.st = "WAIT_IN_ZLP"
                    /\ ep' = [ep EXCEPT !.stall = TRUE] /\ UNCHANGED ctl
                    /\ foreign' = (f \in alien)
                 \/ UNCHANGED << ctl, ep, foreign >>
  <2>1. CASE Underflow
    BY <2>1 DEF Underflow, BusError, Pending, ChangesPhase
  <2>2. CASE Overflow
    BY <2>2 DEF Overflow, BusError, Pending, ChangesPhase
  <2> QED
    BY <2>1, <2>2
<1>2. CASE /\ flags' = flags \ {f}
           /\ UNCHANGED << ctl, dev, ep, short, accepted, foreign, strayed >>
  BY <1>1, <1>2, IgnoredKeeps
<1>3. CASE /\ flags' = flags \ {f, "setup"} /\ SetupReceived /\ "setup" \in flags
           /\ flags \cap {"in", "out"} = {}
  <2>1. Asked /\ Quiet' = Quiet /\ flags' \subseteq flags \ {"setup"}
    BY <1>3 DEF Asked, Quiet
  <2> QED
    BY <1>1, <1>3, <2>1, DecodedKeeps
<1>4. CASE /\ flags' = flags \ {f} /\ flags \cap {"in", "out", "setup"} = {}
           /\ UNCHANGED << dev, short, accepted, strayed >>
           /\ \/ /\ f = "unf" /\ ep.unf /\ ctl.st = "DATA_OUT"
                 /\ ctl' = ZlpIn(ctl) /\ ep' = EpZlpIn(ep) /\ UNCHANGED foreign
              \/ /\ f = "ovf" /\ ep.ovf /\ ctl.st = "DATA_IN"
                 /\ ctl' = ZlpOut(ctl) /\ ep' = EpZlpOut(ep) /\ UNCHANGED foreign
              \/ /\ \/ f = "unf" /\ ep.unf /\ ctl.st = "WAIT_OUT_ZLP"
                    \/ f = "ovf" /\ ep.ovf /\ ctl.st = "WAIT_IN_ZLP"
                 /\ ep' = [ep EXCEPT !.stall = TRUE] /\ UNCHANGED ctl
                 /\ foreign' = (f \in alien)
              \/ UNCHANGED << ctl, ep, foreign >>
  <2>1. CASE f = "unf" /\ ep.unf /\ ctl.st = "DATA_OUT" /\ ctl' = ZlpIn(ctl)
             /\ ep' = EpZlpIn(ep) /\ UNCHANGED foreign
    BY <1>1, <1>4, <2>1, ChangedInKeeps
  <2>2. CASE f = "ovf" /\ ep.ovf /\ ctl.st = "DATA_IN" /\ ctl' = ZlpOut(ctl)
             /\ ep' = EpZlpOut(ep) /\ UNCHANGED foreign
    BY <1>1, <1>4, <2>2, ChangedOutKeeps
  <2>3. CASE /\ \/ f = "unf" /\ ep.unf /\ ctl.st = "WAIT_OUT_ZLP"
                \/ f = "ovf" /\ ep.ovf /\ ctl.st = "WAIT_IN_ZLP"
             /\ ep' = [ep EXCEPT !.stall = TRUE] /\ UNCHANGED ctl
             /\ foreign' = (f \in alien)
    BY <1>1, <1>4, <2>3, StalledKeeps
  <2>4. CASE UNCHANGED << ctl, ep, foreign >>
    BY <1>1, <1>4, <2>4, IgnoredKeeps
  <2> QED
    BY <1>4, <2>1, <2>2, <2>3, <2>4
<1> QED
  BY <1>1, <1>2, <1>3, <1>4

\* The other interrupts.
LEMMA CompletionKeeps ==
  ASSUME Protocol, InComplete \/ OutComplete \/ SetupComplete
  PROVE  Typed' /\ Transfers' /\ (Quiet' => Steady')
<1>1. Quiet /\ ~(ep.err /\ Errors # {}) /\ host' = host
  BY DEF InComplete, OutComplete, SetupComplete, Urgent, Quiet
<1>2. CASE InComplete
  <2>1. "in" \in flags /\ UNCHANGED << host, aux >>
    BY <1>2 DEF InComplete
  <2>2. CASE ctl.st = "WAIT_IN_ZLP" /\ Finish
    BY <1>1, <2>1, <2>2, FinishKeeps
  <2>3. CASE ctl.st = "DATA_IN" /\ InSent(ctl, ep) /\ flags' = flags \ {"in"} /\ UNCHANGED dev
    BY <1>1, <2>1, <2>3, InSentKeeps
  <2>4. CASE /\ ctl.st \notin {"WAIT_IN_ZLP", "DATA_IN"}
             /\ flags' = flags \ {"in"} /\ UNCHANGED << ctl, dev, ep, short >>
    BY <1>1, <2>1, <2>4, DropKeeps
  <2> QED
    BY <1>2, <2>2, <2>3, <2>4 DEF InComplete
<1>3. CASE OutComplete
  <2>1. "out" \in flags /\ UNCHANGED << host, aux >>
    BY <1>3 DEF OutComplete
  <2>2. CASE ctl.st = "WAIT_OUT_ZLP" /\ Finish
    BY <1>1, <2>1, <2>2, FinishKeeps
  <2>3. CASE ctl.st = "DATA_OUT" /\ flags' = flags \ {"out"} /\ OutReceived
    BY <1>1, <2>1, <2>3, OutReceivedKeeps
  <2>4. CASE /\ ctl.st \notin {"WAIT_OUT_ZLP", "DATA_OUT"}
             /\ flags' = flags \ {"out"} /\ UNCHANGED << ctl, dev, ep, short >>
    BY <1>1, <2>1, <2>4, DropKeeps
  <2> QED
    BY <1>3, <2>2, <2>3, <2>4 DEF OutComplete
<1>4. CASE SetupComplete
  <2>1. Asked /\ flags' = flags \ {"setup"} /\ SetupReceived /\ flags \cap {"in", "out"} = {}
    BY <1>4 DEF SetupComplete, Asked
  <2>2. Quiet' = Quiet
    BY <2>1 DEF Quiet
  <2> QED
    BY <1>1, <2>1, <2>2, DecodedKeeps
<1> QED
  BY <1>2, <1>3, <1>4

\* A reset of the bus ends everything but a setup packet.
LEMMA ResetHandledKeeps ==
  ASSUME Protocol, BusReset
  PROVE  Typed' /\ Transfers' /\ (Quiet' => Steady')
<1>1. /\ ctl' = CtlIdle /\ ep' = EpIdle /\ short' = FALSE /\ host' = host
      /\ flags' = flags \cap {"setup"} /\ "reset" \in flags
      /\ accepted' = FALSE /\ foreign' = FALSE /\ strayed' \in BOOLEAN
  BY DEF BusReset, CtrlInit
<1>2. dev'.addr = 0
  <2>1. Shape(DevReset(dev))
    BY ResetEmpties DEF Protocol, IInv, Whole
  <2> QED
    BY <2>1 DEF BusReset, Shape
<1>3. ctl' \in Machines /\ ctl'.st = "SETUP" /\ ctl'.cb = Callback(ctl'.req)
  BY <1>1 DEF CtlIdle, Machines, States, AnyRequest, Callback, NoRequest, Request
<1>4. /\ ep' \in Controllers /\ ep'.inNak /\ ep'.outNak /\ ~ep'.stall /\ ~ep'.unf /\ ~ep'.ovf
      /\ ep'.got = 0
  BY <1>1 DEF EpIdle, Controllers
<1>5. Typed /\ Transfers /\ host.phase = "idle" /\ ~host.stalled /\ host.addr = 0 /\ host.n = 0
  BY <1>1 DEF Protocol, Transfers, Quiet
<1>6. Typed'
  <2>1. 0 <= Packet
    BY ControlAssumption
  <2>2. accepted' \in BOOLEAN /\ foreign' \in BOOLEAN /\ short' \in BOOLEAN
    BY <1>1
  <2>3. host' \in Hosts
    BY <1>1, <1>5 DEF Typed
  <2> QED
    BY <1>1, <1>2, <1>3, <1>4, <2>1, <2>2, <2>3 DEF Typed
<1>7. Transfers'
  BY <1>1, <1>5 DEF Transfers, Asked
<1>8. Silenced' /\ Marks' /\ Follows' /\ Endpoint'
  BY <1>1, <1>3, <1>4, <1>5 DEF Silenced, Marks, Follows, Endpoint, Busy
<1>9. Stalls' /\ DataIn' /\ DataOut' /\ WholeAnswer' /\ Addressed'
  BY <1>1, <1>2, <1>3, <1>4, <1>5 DEF Stalls, DataIn, DataOut, WholeAnswer, Addressed, Busy
<1> QED
  BY <1>6, <1>7, <1>8, <1>9 DEF Steady

\* The host begins a transfer, after the last one or in its place.
LEMMA SetupSentKeeps ==
  ASSUME Protocol, NEW rq \in Requests, Setup(rq, host), foreign' = FALSE,
         strayed' \in BOOLEAN, strayed => strayed',
         host.phase = "idle" \/ flags = {}
  PROVE  Typed' /\ Transfers' /\ (Quiet' => Steady')
<1>1. /\ Quiet /\ Quiet' /\ Asked' /\ flags' = flags \cup {"setup"} /\ accepted' = FALSE
      /\ ctl' = ctl /\ short' = short /\ dev' = dev
  BY DEF Setup, Reached, Quiet, Asked
<1>2. Typed /\ Transfers /\ Steady
  BY <1>1 DEF Protocol
<1>3. /\ host' \in Hosts /\ host'.phase = "setup" /\ host'.req = rq /\ host'.n = 0
      /\ host'.addr = host.addr /\ ~host'.cut /\ ~host'.stalled
  BY <1>2 DEF Setup, Typed, Hosts, Phases, AnyRequest
<1>4. /\ ep' \in Controllers /\ ep'.inNak /\ ep'.outNak /\ ~ep'.stall
      /\ ep'.got = ep.got /\ ep'.unf = ep.unf /\ ep'.ovf = ep.ovf /\ ep'.err = ep.err
  BY <1>2 DEF Setup, Typed, Controllers
<1>5. Typed'
  BY <1>1, <1>2, <1>3, <1>4 DEF Typed
<1>6. Transfers'
  BY <1>1, <1>3 DEF Transfers
<1>7. Silenced'
  BY <1>1, <1>3, <1>4 DEF Silenced
<1>8. Marks'
  BY <1>1, <1>2, <1>3, <1>4 DEF Steady, Marks, Asked
<1>9. Follows' /\ Endpoint'
  BY <1>1, <1>2, <1>3, <1>4 DEF Steady, Follows, Endpoint, Busy
<1>10. Stalls' /\ DataIn' /\ DataOut' /\ WholeAnswer'
  BY <1>1, <1>3 DEF Stalls, DataIn, DataOut, WholeAnswer, Busy
<1>11. Addressed'
  BY <1>1, <1>2, <1>3 DEF Steady, Addressed
<1> QED
  BY <1>5, <1>6, <1>7, <1>8, <1>9, <1>10, <1>11 DEF Steady

\* The host goes on from the setup packet, or ends a data phase early.
LEMMA PhaseKeeps ==
  ASSUME Protocol, Enter \/ Cut
  PROVE  Typed' /\ Transfers' /\ (Quiet' => Steady')
<1>1. /\ ctl' = ctl /\ ep' = ep /\ short' = short /\ dev' = dev /\ flags' = flags /\ alien' = alien
      /\ accepted' = accepted /\ foreign' = foreign /\ strayed' = strayed
      /\ Asked' = Asked /\ Quiet' = Quiet
  BY DEF Enter, Cut, aux, Asked, Quiet
<1>2. Quiet /\ Typed /\ Transfers /\ Steady
  BY DEF Protocol, Transfers, Enter, Cut
<1>3. host \in Hosts /\ host.req.len \in Nat
  BY <1>2, RequestFields DEF Typed, Hosts
<1>4. /\ host' \in Hosts /\ host'.req = host.req /\ host'.n = host.n
      /\ host'.addr = host.addr /\ host'.stalled = host.stalled
      /\ \/ /\ host.phase = "setup" /\ host'.cut = host.cut
            /\ host'.phase = IF IsIn(host.req) THEN "data_in"
                             ELSE IF host.req.len = 0 THEN "status_in" ELSE "data_out"
         \/ /\ host.phase \in {"data_in", "data_out"} /\ host'.cut
            /\ host'.phase = IF host.phase = "data_in" THEN "status_out" ELSE "status_in"
  <2>1. CASE Enter
    BY <1>3, <2>1 DEF Enter, Hosts, Phases
  <2>2. CASE Cut
    BY <1>3, <2>2 DEF Cut, Hosts, Phases
  <2> QED
    BY <2>1, <2>2
<1>5. Typed'
  BY <1>1, <1>2, <1>4 DEF Typed
<1>6. Transfers'
  BY <1>1, <1>2, <1>3, <1>4 DEF Transfers
<1>7. Silenced' /\ Marks'
  BY <1>1, <1>2, <1>4 DEF Steady, Silenced, Marks
<1>8. Follows' /\ Endpoint'
  BY <1>1, <1>2, <1>4 DEF Steady, Follows, Endpoint, Busy
<1>9. Stalls' /\ WholeAnswer' /\ Addressed'
  BY <1>1, <1>2, <1>4 DEF Steady, Stalls, WholeAnswer, Addressed, Transfers
<1>10. DataIn'
  BY <1>1, <1>2, <1>4 DEF Steady, DataIn, Busy
<1>11. DataOut'
  BY <1>1, <1>2, <1>4 DEF Steady, DataOut, Follows, Busy
<1> QED
  BY <1>5, <1>6, <1>7, <1>8, <1>9, <1>10, <1>11 DEF Steady

\* The events of other endpoints, and a reset of the bus.
LEMMA OutsideKeeps ==
  ASSUME Protocol, Other \/ Reset
  PROVE  Typed' /\ Transfers' /\ (Quiet' => Steady')
<1>1. /\ ctl' = ctl /\ ep' = ep /\ short' = short /\ dev' = dev /\ Asked' = Asked
      /\ accepted' = accepted /\ foreign' = foreign /\ strayed' = strayed
  BY DEF Other, Reset, Asked
<1>2. Typed /\ Transfers
  BY DEF Protocol
<1>3. CASE Other
  <2>1. PICK f \in {"unf", "ovf"} : flags' = flags \cup {f} /\ alien' = alien \cup {f}
    BY <1>3 DEF Other
  <2>2. host' = host /\ Quiet' = Quiet
    BY <1>3, <2>1 DEF Other, Quiet
  <2>3. Typed' /\ Transfers'
    BY <1>1, <1>2, <2>2 DEF Typed, Transfers
  <2>4. ASSUME Steady PROVE Steady'
    <3>1. Silenced' /\ Marks' /\ Follows' /\ Endpoint'
      BY <1>1, <2>1, <2>2, <2>4 DEF Steady, Silenced, Marks, Follows, Endpoint, Busy
    <3>2. Stalls' /\ WholeAnswer' /\ Addressed'
      BY <1>1, <2>1, <2>2, <2>4 DEF Steady, Stalls, WholeAnswer, Addressed
    <3>3. DataIn' /\ DataOut'
      BY <1>1, <2>1, <2>2, <2>4 DEF Steady, DataIn, DataOut, Busy
    <3> QED
      BY <3>1, <3>2, <3>3 DEF Steady
  <2> QED
    BY <2>2, <2>3, <2>4 DEF Protocol
<1>4. CASE Reset
  <2>1. ~Quiet' /\ (host' = [HostIdle EXCEPT !.req = host.req] \/ (host' = HostIdle /\ ~Asked))
    BY <1>4 DEF Reset, Quiet, Asked
  <2>2. /\ host' \in Hosts /\ host'.phase = "idle" /\ ~host'.stalled /\ host'.addr = 0
        /\ host'.n = 0 /\ (Asked => host'.req = host.req)
    <3>1. host.req \in AnyRequest /\ NoRequest \in AnyRequest
      BY <1>2 DEF Hosts, Typed, AnyRequest
    <3>2. CASE host' = [HostIdle EXCEPT !.req = host.req]
      BY <3>1, <3>2 DEF HostIdle, Hosts, Phases
    <3>3. CASE host' = HostIdle /\ ~Asked
      BY <3>1, <3>3 DEF HostIdle, Hosts, Phases
    <3> QED
      BY <2>1, <3>2, <3>3
  <2>3. Typed' /\ Transfers'
    BY <1>1, <1>2, <2>2 DEF Typed, Transfers
  <2> QED
    BY <2>1, <2>3
<1> QED
  BY <1>3, <1>4

\* The host sees a stall, which ends its transfer.
LEMMA StallSeenKeeps ==
  ASSUME Protocol, Reached, host.phase # "idle", ep.stall, Done("stall"),
         UNCHANGED << flags, ep, ctl, short, dev, aux >>
  PROVE  Typed' /\ Transfers' /\ (Quiet' => Steady')
<1>1. /\ ctl' = ctl /\ ep' = ep /\ short' = short /\ dev' = dev /\ flags' = flags /\ alien' = alien
      /\ accepted' = accepted /\ foreign' = foreign /\ strayed' = strayed
      /\ Asked' = Asked /\ Quiet' = Quiet /\ Quiet /\ host.addr = dev.addr
  BY DEF aux, Asked, Quiet, Reached
<1>2. Typed /\ Transfers /\ Steady
  BY <1>1 DEF Protocol
<1>3. /\ host' \in Hosts /\ host'.phase = "idle" /\ host'.stalled
      /\ host'.cut = host.cut /\ host'.addr = host.addr
  BY <1>2 DEF Done, HostIdle, Typed, Hosts, Phases, AnyRequest
<1>4. ~Asked /\ Busy /\ flags \cap {"in", "out"} = {} /\ ctl.st \notin {"DATA_IN", "DATA_OUT", "SETUP"}
  BY <1>2 DEF Steady, Silenced, Endpoint, Marks, Busy
<1>5. Typed' /\ Transfers'
  BY <1>1, <1>2, <1>3, <1>4 DEF Typed, Transfers
<1>6. Silenced' /\ Marks' /\ Follows' /\ Endpoint'
  BY <1>1, <1>2, <1>3, <1>4 DEF Steady, Silenced, Marks, Follows, Endpoint, Busy
<1>7. Stalls' /\ DataIn' /\ DataOut' /\ WholeAnswer' /\ Addressed'
  BY <1>1, <1>2, <1>3, <1>4 DEF Steady, Stalls, DataIn, DataOut, WholeAnswer, Addressed, Busy
<1> QED
  BY <1>5, <1>6, <1>7 DEF Steady

\* The controller refuses a packet, and marks it.
LEMMA RefusedKeeps ==
  ASSUME Protocol, Quiet, NEW f \in {"unf", "ovf"}, Refused(f),
         \/ f = "unf" /\ host.phase \in {"data_in", "status_in"}
         \/ f = "ovf" /\ host.phase \in {"data_out", "status_out"},
         UNCHANGED << ctl, short, dev, aux >>
  PROVE  Typed' /\ Transfers' /\ (Quiet' => Steady')
<1>1. /\ ctl' = ctl /\ short' = short /\ dev' = dev /\ host' = host /\ alien' = alien
      /\ accepted' = accepted /\ foreign' = foreign /\ strayed' = strayed
      /\ flags' = flags \cup {f} /\ Asked' = Asked /\ Quiet' = Quiet
  BY DEF aux, Asked, Quiet, Refused
<1>2. Typed /\ Transfers /\ Steady
  BY DEF Protocol
<1>3. /\ ep' \in Controllers /\ ep'.inNak = ep.inNak /\ ep'.outNak = ep.outNak
      /\ ep'.stall = ep.stall /\ ep'.cnt = ep.cnt /\ ep'.got = ep.got /\ ep'.err = ep.err
      /\ f = "unf" => ep'.ovf = ep.ovf
      /\ f = "ovf" => ep'.unf = ep.unf
  <2>1. CASE f = "unf"
    BY <1>2, <2>1 DEF Refused, Typed, Controllers
  <2>2. CASE f = "ovf"
    BY <1>2, <2>2 DEF Refused, Typed, Controllers
  <2> QED
    BY <2>1, <2>2
<1>4. Typed' /\ Transfers'
  BY <1>1, <1>2, <1>3 DEF Typed, Transfers
<1>5. Silenced' /\ Marks'
  BY <1>1, <1>2, <1>3 DEF Steady, Silenced, Marks, Follows, Busy
<1>6. Follows' /\ Endpoint'
  BY <1>1, <1>2, <1>3 DEF Steady, Follows, Endpoint, Busy
<1>7. Stalls'
  BY <1>1, <1>2, <1>3 DEF Steady, Stalls, Follows, Busy
<1>8. DataIn' /\ DataOut' /\ WholeAnswer' /\ Addressed'
  BY <1>1, <1>2, <1>3 DEF Steady, DataIn, DataOut, WholeAnswer, Addressed, Busy
<1> QED
  BY <1>4, <1>5, <1>6, <1>7, <1>8 DEF Steady

\* The handshake of a request, which the machine has offered.
LEMMA HandshakeKeeps ==
  ASSUME Protocol, Reached, ~ep.stall, Done("ok"),
         \/ /\ host.phase = "status_in" /\ ~ep.inNak /\ flags' = flags \cup {"in"}
            /\ ep' = [ep EXCEPT !.inNak = TRUE, !.cnt = 0]
         \/ /\ host.phase = "status_out" /\ ~ep.outNak /\ flags' = flags \cup {"out"}
            /\ ep' = [ep EXCEPT !.outNak = TRUE, !.got = 0],
         UNCHANGED << ctl, short, dev, aux >>
  PROVE  Typed' /\ Transfers' /\ (Quiet' => Steady')
<1>1. /\ ctl' = ctl /\ short' = short /\ dev' = dev /\ alien' = alien
      /\ accepted' = accepted /\ foreign' = foreign /\ strayed' = strayed
      /\ Asked' = Asked /\ Quiet' = Quiet /\ Quiet /\ host.addr = dev.addr
  BY DEF aux, Asked, Quiet, Reached
<1>2. Typed /\ Transfers /\ Steady
  BY <1>1 DEF Protocol
<1>3. host.req \in AnyRequest /\ 0 <= Packet
  BY <1>2, ControlAssumption DEF Typed, Hosts
<1>4. /\ host' \in Hosts /\ host'.phase = "idle" /\ ~host'.stalled /\ ~host'.cut
      /\ host'.addr = IF host.req.kind = "address" THEN Address ELSE host.addr
  <2>1. host.req.kind = "address" => host.req.arg = Address
    BY <1>3, RequestFields
  <2> QED
    BY <1>2, <2>1 DEF Done, HostIdle, Typed, Hosts, Phases, AnyRequest
<1>5. /\ ep' \in Controllers /\ ep'.stall = ep.stall /\ ep'.got <= Packet
      /\ ep'.unf = ep.unf /\ ep'.ovf = ep.ovf /\ ep'.err = ep.err
  <2>1. ep \in Controllers /\ ep.got <= Packet
    BY <1>2 DEF Typed
  <2>2. CASE ep' = [ep EXCEPT !.inNak = TRUE, !.cnt = 0]
    BY <2>1, <2>2 DEF Controllers
  <2>3. CASE ep' = [ep EXCEPT !.outNak = TRUE, !.got = 0]
    BY <1>3, <2>1, <2>3 DEF Controllers
  <2> QED
    BY <2>2, <2>3
<1>6. ~Asked /\ Busy
  BY <1>2 DEF Steady, Silenced, Busy
<1>7. /\ ctl.req = host.req
      /\ \/ host.phase = "status_in" /\ ctl.st = "WAIT_IN_ZLP" /\ "in" \in flags'
         \/ host.phase = "status_out" /\ ctl.st = "WAIT_OUT_ZLP" /\ "out" \in flags'
      /\ flags' = flags \cup {"in"} \/ flags' = flags \cup {"out"}
  BY <1>2, <1>6 DEF Steady, Follows, Endpoint
<1>8. Typed' /\ Transfers'
  BY <1>1, <1>2, <1>4, <1>5, <1>6, <1>7 DEF Typed, Transfers
<1>9. Silenced' /\ Marks' /\ Follows' /\ Endpoint'
  BY <1>1, <1>2, <1>4, <1>5, <1>6, <1>7 DEF Steady, Silenced, Marks, Follows, Endpoint, Busy
<1>10. Stalls' /\ DataIn' /\ DataOut' /\ WholeAnswer'
  BY <1>1, <1>2, <1>4, <1>5, <1>6, <1>7 DEF Steady, Stalls, DataIn, DataOut, WholeAnswer, Busy
<1>11. Addressed'
  <2>1. ctl.cb = "address" <=> host.req.kind = "address"
    BY <1>2, <1>7 DEF Typed, Callback
  <2>2. host.req.kind = "address" => ~IsIn(host.req)
    BY <1>3, RequestFields
  <2>3. host.phase = "status_out" => host.req.kind # "address"
    BY <1>2, <2>2 DEF Transfers
  <2> QED
    BY <1>1, <1>4, <1>7, <2>1, <2>3 DEF Addressed
<1> QED
  BY <1>8, <1>9, <1>10, <1>11 DEF Steady

\* The host takes a packet of a data phase, whose last one is short or ends
\* what it asked for.
LEMMA PacketTaken ==
  ASSUME Protocol, Reached, host.phase = "data_in", ~ep.stall, ~ep.inNak,
         NEW n, n = host.n + ep.cnt,
         flags' = flags \cup {"in"}, ep' = [ep EXCEPT !.inNak = TRUE, !.cnt = 0],
         host' = [host EXCEPT !.n = n,
                    !.phase = IF ep.cnt < Packet \/ n = host.req.len THEN "status_out" ELSE @],
         UNCHANGED << ctl, short, dev, aux >>
  PROVE  Typed' /\ Transfers' /\ (Quiet' => Steady')
<1>1. /\ ctl' = ctl /\ short' = short /\ dev' = dev /\ alien' = alien
      /\ accepted' = accepted /\ foreign' = foreign /\ strayed' = strayed
      /\ Asked' = Asked /\ Quiet' = Quiet /\ Quiet
  BY DEF aux, Asked, Quiet, Reached
<1>2. Typed /\ Transfers /\ Steady
  BY <1>1 DEF Protocol
<1>3. ~Asked /\ Busy /\ IsIn(host.req) /\ ~host.cut /\ ~host.stalled
  BY <1>2 DEF Steady, Silenced, Busy, Transfers
<1>4. ctl.st = "DATA_IN" /\ ctl.req = host.req /\ "in" \notin flags
  BY <1>2, <1>3 DEF Steady, Follows, Endpoint
<1>5. /\ n = ctl.nb /\ ctl.size = host.req.size /\ ctl.size <= host.req.len
      /\ (short <=> ep.cnt < Packet) /\ (short => ctl.nb = ctl.size) /\ (ctl.prev # 0 => short)
  BY <1>2, <1>3, <1>4 DEF Steady, DataIn
<1>6. ctl.nb \in Nat /\ ctl.size \in Nat /\ ctl.nb <= ctl.size
  BY <1>2, <1>4 DEF Typed, Machines
<1>7. host.req \in AnyRequest /\ host.req.len \in Nat
  BY <1>2, RequestFields DEF Typed, Hosts
<1>8. /\ ep' \in Controllers /\ ep'.inNak /\ ep'.outNak = ep.outNak /\ ep'.stall = ep.stall
      /\ ep'.got = ep.got /\ ep'.unf = ep.unf /\ ep'.ovf = ep.ovf /\ ep'.err = ep.err
  BY <1>2 DEF Typed, Controllers
<1>9. /\ host' \in Hosts /\ host'.n = n /\ host'.req = host.req /\ host'.addr = host.addr
      /\ host'.cut = host.cut /\ host'.stalled = host.stalled
      /\ \/ host'.phase = "status_out" /\ (ep.cnt < Packet \/ n = host.req.len)
         \/ host'.phase = "data_in" /\ ~(ep.cnt < Packet) /\ n # host.req.len
  BY <1>2, <1>5, <1>6 DEF Typed, Hosts, Phases
<1>10. Typed'
  BY <1>1, <1>2, <1>8, <1>9 DEF Typed
<1>11. Transfers'
  BY <1>1, <1>2, <1>3, <1>9 DEF Transfers
<1>12. Silenced' /\ Marks'
  BY <1>1, <1>2, <1>3, <1>4, <1>8, <1>9 DEF Steady, Silenced, Marks
<1>13. Follows' /\ Endpoint'
  BY <1>1, <1>2, <1>3, <1>4, <1>8, <1>9 DEF Steady, Follows, Endpoint, Busy
<1>14. Stalls' /\ DataOut' /\ Addressed'
  BY <1>1, <1>2, <1>3, <1>4, <1>8, <1>9 DEF Steady, Stalls, DataOut, Addressed
<1>15. DataIn'
  BY <1>1, <1>4, <1>5, <1>6, <1>8, <1>9 DEF DataIn, Busy
<1>16. WholeAnswer'
  BY <1>5, <1>6, <1>7, <1>9 DEF WholeAnswer
<1> QED
  BY <1>10, <1>11, <1>12, <1>13, <1>14, <1>15, <1>16 DEF Steady

\* The host sends a packet of a data phase, full unless it is the last one.
LEMMA PacketSent ==
  ASSUME Protocol, Reached, host.phase = "data_out", ~ep.stall, ~ep.outNak,
         NEW n, n = Fewest(Packet, host.req.len - host.n),
         flags' = flags \cup {"out"}, ep' = [ep EXCEPT !.outNak = TRUE, !.got = n],
         host' = [host EXCEPT !.n = @ + n,
                    !.phase = IF host.n + n = host.req.len THEN "status_in" ELSE @],
         UNCHANGED << ctl, short, dev, aux >>
  PROVE  Typed' /\ Transfers' /\ (Quiet' => Steady')
<1> DEFINE m == host.n + n
<1>1. /\ ctl' = ctl /\ short' = short /\ dev' = dev /\ alien' = alien
      /\ accepted' = accepted /\ foreign' = foreign /\ strayed' = strayed
      /\ Asked' = Asked /\ Quiet' = Quiet /\ Quiet
  BY DEF aux, Asked, Quiet, Reached
<1>2. Typed /\ Transfers /\ Steady
  BY <1>1 DEF Protocol
<1>3. /\ ~Asked /\ Busy /\ ~IsIn(host.req) /\ ~host.cut /\ ~host.stalled
      /\ host.n < host.req.len
  BY <1>2 DEF Steady, Silenced, Busy, Transfers
<1>4. ctl.st = "DATA_OUT" /\ ctl.req = host.req /\ "out" \notin flags
  BY <1>2, <1>3 DEF Steady, Follows, Endpoint
<1>6. host.n \in Nat /\ ctl.nb \in Nat
  BY <1>2 DEF Typed, Hosts, Machines
<1>5. ctl.prev = 0 /\ ctl.size = host.req.len /\ host.n = ctl.nb
  BY <1>2, <1>3, <1>4, <1>6 DEF Steady, DataOut
<1>7. host.req \in AnyRequest /\ host.req.len \in Nat
  BY <1>2, RequestFields DEF Typed, Hosts
<1>8. /\ n \in Nat /\ n <= Packet /\ m \in Nat /\ m <= host.req.len
      /\ (m # host.req.len => n = Packet)
  <2>1. Packet \in Nat /\ host.req.len - host.n \in Nat
    BY <1>3, <1>6, <1>7, ControlAssumption
  <2> QED
    BY <1>6, <1>7, <2>1, FewestOf
<1>9. /\ ep' \in Controllers /\ ep'.inNak = ep.inNak /\ ep'.outNak /\ ep'.stall = ep.stall
      /\ ep'.got = n /\ ep'.unf = ep.unf /\ ep'.ovf = ep.ovf /\ ep'.err = ep.err
  BY <1>2, <1>8 DEF Typed, Controllers
<1>10. host' = [host EXCEPT !.n = m, !.phase = IF m = host.req.len THEN "status_in" ELSE @]
  BY <1>2 DEF Typed, Hosts
<1> HIDE DEF m
<1>11. /\ host' \in Hosts /\ host'.n = m /\ host'.req = host.req /\ host'.addr = host.addr
       /\ host'.cut = host.cut /\ host'.stalled = host.stalled
       /\ \/ host'.phase = "status_in" /\ m = host.req.len
          \/ host'.phase = "data_out" /\ m # host.req.len
  BY <1>2, <1>8, <1>10 DEF Typed, Hosts, Phases
<1>12. Typed'
  BY <1>1, <1>2, <1>8, <1>9, <1>11 DEF Typed
<1>13. Transfers'
  BY <1>1, <1>2, <1>3, <1>7, <1>8, <1>11 DEF Transfers
<1>14. Silenced' /\ Marks'
  BY <1>1, <1>2, <1>3, <1>4, <1>9, <1>11 DEF Steady, Silenced, Marks
<1>15. Follows' /\ Endpoint'
  BY <1>1, <1>2, <1>3, <1>4, <1>9, <1>11 DEF Steady, Follows, Endpoint, Busy
<1>16. Stalls' /\ DataIn' /\ WholeAnswer' /\ Addressed'
  BY <1>1, <1>2, <1>3, <1>4, <1>9, <1>11 DEF Steady, Stalls, DataIn, WholeAnswer, Addressed
<1>17. DataOut'
  <2>1. m = ctl.nb + n
    BY <1>5 DEF m
  <2> QED
    BY <1>1, <1>3, <1>4, <1>5, <1>7, <1>8, <1>9, <1>11, <2>1 DEF DataOut
<1> QED
  BY <1>12, <1>13, <1>14, <1>15, <1>16, <1>17 DEF Steady

\* The host asks for a packet, or sends one.
LEMMA TokenKeeps ==
  ASSUME Protocol, TokenIn \/ TokenOut
  PROVE  Typed' /\ Transfers' /\ (Quiet' => Steady')
<1>1. Quiet /\ Reached /\ UNCHANGED << ctl, short, dev, aux >>
  BY DEF TokenIn, TokenOut, Reached, Quiet
<1>2. CASE TokenIn
  <2>1. host.phase \in {"data_in", "status_in"}
    BY <1>2 DEF TokenIn
  <2>2. CASE ep.stall
    BY <1>1, <1>2, <2>1, <2>2, StallSeenKeeps DEF TokenIn
  <2>3. CASE ~ep.stall /\ ep.inNak
    <3>1. Refused("unf")
      BY <1>2, <2>3 DEF TokenIn
    <3> QED
      BY <1>1, <2>1, <3>1, RefusedKeeps
  <2>4. CASE ~ep.stall /\ ~ep.inNak /\ host.phase = "status_in"
    <3>1. Done("ok") /\ flags' = flags \cup {"in"} /\ ep' = [ep EXCEPT !.inNak = TRUE, !.cnt = 0]
      BY <1>2, <2>4 DEF TokenIn
    <3> QED
      BY <1>1, <2>4, <3>1, HandshakeKeeps
  <2>5. CASE ~ep.stall /\ ~ep.inNak /\ host.phase = "data_in"
    <3> DEFINE n == host.n + ep.cnt
    <3>1. /\ flags' = flags \cup {"in"} /\ ep' = [ep EXCEPT !.inNak = TRUE, !.cnt = 0]
          /\ host' = [host EXCEPT !.n = n,
                    !.phase = IF ep.cnt < Packet \/ n = host.req.len THEN "status_out" ELSE @]
      BY <1>2, <2>5 DEF TokenIn
    <3> QED
      BY <1>1, <2>5, <3>1, PacketTaken
  <2> QED
    BY <2>1, <2>2, <2>3, <2>4, <2>5
<1>3. CASE TokenOut
  <2>1. host.phase \in {"data_out", "status_out"}
    BY <1>3 DEF TokenOut
  <2>2. CASE ep.stall
    BY <1>1, <1>3, <2>1, <2>2, StallSeenKeeps DEF TokenOut
  <2>3. CASE ~ep.stall /\ ep.outNak
    <3>1. Refused("ovf")
      BY <1>3, <2>3 DEF TokenOut
    <3> QED
      BY <1>1, <2>1, <3>1, RefusedKeeps
  <2>4. CASE ~ep.stall /\ ~ep.outNak /\ host.phase = "status_out"
    <3>1. Done("ok") /\ flags' = flags \cup {"out"} /\ ep' = [ep EXCEPT !.outNak = TRUE, !.got = 0]
      BY <1>3, <2>4 DEF TokenOut
    <3> QED
      BY <1>1, <2>4, <3>1, HandshakeKeeps
  <2>5. CASE ~ep.stall /\ ~ep.outNak /\ host.phase = "data_out"
    <3> DEFINE n == Fewest(Packet, host.req.len - host.n)
    <3>1. /\ flags' = flags \cup {"out"} /\ ep' = [ep EXCEPT !.outNak = TRUE, !.got = n]
          /\ host' = [host EXCEPT !.n = @ + n,
                    !.phase = IF host.n + n = host.req.len THEN "status_in" ELSE @]
      BY <1>3, <2>5 DEF TokenOut
    <3> HIDE DEF n
    <3>2. n = Fewest(Packet, host.req.len - host.n)
      BY DEF n
    <3> QED
      BY <1>1, <2>5, <3>1, <3>2, PacketSent
  <2> QED
    BY <2>1, <2>2, <2>3, <2>4, <2>5
<1> QED
  BY <1>2, <1>3

\* Every step keeps the invariant.
LEMMA NextKeepsProtocol == Protocol /\ [Next]_vars => Protocol'
<1> SUFFICES ASSUME Protocol, [Next]_vars PROVE Typed' /\ Transfers' /\ (Quiet' => Steady')
  BY NextKeeps DEF Protocol
<1>1. CASE UNCHANGED vars
  <2>1. /\ ctl' = ctl /\ ep' = ep /\ short' = short /\ dev' = dev /\ flags' = flags /\ alien' = alien
        /\ accepted' = accepted /\ foreign' = foreign /\ strayed' = strayed
        /\ Asked' = Asked /\ Quiet' = Quiet /\ host' = host /\ Busy' = Busy
    BY <1>1 DEF vars, aux, Asked, Quiet, Busy
  <2>2. Typed' /\ Transfers'
    BY <2>1 DEF Protocol, Typed, Transfers
  <2>3. ASSUME Steady PROVE Steady'
    <3>1. Silenced' /\ Marks' /\ Follows' /\ Endpoint'
      BY <2>1, <2>3 DEF Steady, Silenced, Marks, Follows, Endpoint
    <3>2. Stalls' /\ DataIn' /\ DataOut' /\ WholeAnswer' /\ Addressed'
      BY <2>1, <2>3 DEF Steady, Stalls, DataIn, DataOut, WholeAnswer, Addressed
    <3> QED
      BY <3>1, <3>2 DEF Steady
  <2> QED
    BY <2>1, <2>2, <2>3 DEF Protocol
<1>2. CASE InComplete \/ OutComplete \/ SetupComplete
  BY <1>2, CompletionKeeps
<1>3. CASE Underflow \/ Overflow
  BY <1>3, ErrorsKeep
<1>4. CASE BusReset
  BY <1>4, ResetHandledKeeps
<1>5. CASE Begin
  <2>1. PICK rq \in Requests : Setup(rq, host)
    BY <1>5 DEF Begin
  <2>2. foreign' = FALSE /\ strayed' = strayed /\ host.phase = "idle"
    BY <1>5 DEF Begin
  <2>3. strayed' \in BOOLEAN
    BY <2>2 DEF Protocol, Typed
  <2> QED
    BY <2>1, <2>2, <2>3, SetupSentKeeps
<1>6. CASE GiveUp
  <2>1. PICK rq \in Requests : Setup(rq, host)
    BY <1>6 DEF GiveUp
  <2>2. foreign' = FALSE /\ flags = {} /\ strayed' \in BOOLEAN /\ (strayed => strayed')
    BY <1>6 DEF GiveUp
  <2> QED
    BY <2>1, <2>2, SetupSentKeeps
<1>7. CASE Enter \/ Cut
  BY <1>7, PhaseKeeps
<1>8. CASE TokenIn \/ TokenOut
  BY <1>8, TokenKeeps
<1>9. CASE Other \/ Reset
  BY <1>9, OutsideKeeps
<1> QED
  BY <1>1, <1>2, <1>3, <1>4, <1>5, <1>6, <1>7, <1>8, <1>9 DEF Next, Interrupt, Transfer

\* At its start the device waits for a request, and the host makes none.
LEMMA InitProtocol == Init => Protocol
<1> SUFFICES ASSUME Init PROVE Protocol
  OBVIOUS
<1>1. /\ ctl = CtlIdle /\ ep = EpIdle /\ short = FALSE /\ host = HostIdle /\ flags = {}
      /\ accepted = FALSE /\ foreign = FALSE /\ strayed = FALSE
      /\ dev.addr = 0
  BY DEF Init, DevIdle
<1>2. ctl \in Machines /\ ctl.st = "SETUP" /\ ctl.cb = Callback(ctl.req)
  BY <1>1 DEF CtlIdle, Machines, States, AnyRequest, Callback, NoRequest, Request
<1>3. ep \in Controllers /\ ep.inNak /\ ep.outNak /\ ~ep.stall /\ ~ep.unf /\ ~ep.ovf /\ ep.got = 0
  BY <1>1 DEF EpIdle, Controllers
<1>4. /\ host \in Hosts /\ host.phase = "idle" /\ ~host.stalled /\ ~host.cut /\ host.n = 0
      /\ host.addr = 0
  BY <1>1 DEF HostIdle, Hosts, Phases, AnyRequest
<1>5. Typed
  <2>1. 0 <= Packet
    BY ControlAssumption
  <2>2. short \in BOOLEAN /\ accepted \in BOOLEAN /\ foreign \in BOOLEAN /\ strayed \in BOOLEAN
    BY <1>1
  <2> QED
    BY <1>1, <1>2, <1>3, <1>4, <2>1, <2>2 DEF Typed
<1>6. Transfers
  BY <1>1, <1>4 DEF Transfers, Asked, Quiet
<1>7. Silenced /\ Marks /\ Follows /\ Endpoint
  BY <1>1, <1>2, <1>3, <1>4 DEF Silenced, Marks, Follows, Endpoint, Busy, Asked
<1>8. Stalls /\ DataIn /\ DataOut /\ WholeAnswer /\ Addressed
  BY <1>1, <1>2, <1>3, <1>4 DEF Stalls, DataIn, DataOut, WholeAnswer, Addressed, Busy
<1> QED
  BY <1>5, <1>6, <1>7, <1>8, InitInvariant DEF Protocol, Steady

(***************************************************************************)
(* The theorems of the protocol.                                           *)
(***************************************************************************)
\* Host and device keep to the protocol.
LEMMA ProtocolKept == Spec => []Protocol
BY InitProtocol, NextKeepsProtocol, PTL DEF Spec

\* A host that does not cut its data phases never sees a request stalled that
\* the device supports, whatever flags are left from the transfers before,
\* unless another endpoint's flag was taken for its own (usb_device.c:1196, 1213).
THEOREM NeverFalseStall == Spec => []NoFalseStall
<1>1. Protocol => NoFalseStall
  BY DEF Protocol, Transfers, Steady, Stalls, NoFalseStall
<1> QED
  BY <1>1, ProtocolKept, PTL

\* A data phase that the host does not cut ends with all the bytes that the
\* device had for the request, whatever the packet size and the length asked
\* for, so a short or an empty packet is sent where one is needed and only
\* there (udd_ctrl_in_sent).
THEOREM AnswersWhole == Spec => []WholeAnswer
<1>1. Protocol => WholeAnswer
  BY DEF Protocol, Transfers, Steady, WholeAnswer
<1> QED
  BY <1>1, ProtocolKept, PTL

\* Between transfers host and device have the same address, after transfers
\* given up and resets of the bus too, unless the host gave up a SET_ADDRESS
\* that the device had taken (udd_ctrl_endofrequest).
THEOREM AddressesAgree == Spec => []AddressAgreed
<1>1. Protocol => AddressAgreed
  BY DEF Protocol, Transfers, Quiet, Steady, Addressed, AddressAgreed
<1> QED
  BY <1>1, ProtocolKept, PTL
-----------------------------------------------------------------------------
(***************************************************************************)
(* The sleep manager and the supply of the USB, module Power: the types,   *)
(* the count of the lock of IDLE, and how deep the CPU sleeps.             *)
(***************************************************************************)
\* A remainder is below its divisor.
LEMMA ModRange ==
  ASSUME NEW x \in Int, NEW m \in Nat \ {0}
  PROVE  x % m \in 0..(m - 1)
OBVIOUS

\* Numbers below the divisor are their own remainders.
LEMMA ModSmall ==
  ASSUME NEW m \in Nat \ {0}, NEW x \in 0..(m - 1)
  PROVE  x % m = x
OBVIOUS

\* There is only one remainder.
LEMMA ModUnique ==
  ASSUME NEW m \in Nat \ {0}, NEW q \in Int, NEW s \in 0..(m - 1)
  PROVE  (m * q + s) % m = s
<1> DEFINE a == m * q + s
           p == a \div m
           t == a % m
<1>1. a \in Int /\ p \in Int /\ t \in 0..(m - 1) /\ a = m * p + t
  OBVIOUS
<1>2. m * q + s = m * p + t
  BY <1>1
<1> HIDE DEF a, p, t
<1>3. m * (q - p) = t - s
  BY <1>1, <1>2
<1>4. CASE q - p >= 1
  <2>1. m * (q - p) >= m
    BY <1>4, <1>1
  <2> QED
    BY <2>1, <1>3, <1>1
<1>5. CASE q - p <= -1
  <2>1. m * (q - p) <= -m
    BY <1>5, <1>1
  <2> QED
    BY <2>1, <1>3, <1>1
<1>6. CASE q - p = 0
  <2>1. t = s
    BY <1>6, <1>3, <1>1
  <2> QED
    BY <2>1 DEF a, t
<1> QED
  BY <1>1, <1>4, <1>5, <1>6

\* A number is a multiple of the divisor and its remainder.
LEMMA ModSplit ==
  ASSUME NEW m \in Nat \ {0}, NEW x \in Int
  PROVE  \E q \in Int : x = m * q + (x % m)
<1>1. x \div m \in Int /\ x = m * (x \div m) + (x % m)
  OBVIOUS
<1> QED
  BY <1>1

\* A multiple of the divisor may be added.
LEMMA ModShift ==
  ASSUME NEW m \in Nat \ {0}, NEW x \in Int, NEW k \in Int
  PROVE  (x + m * k) % m = x % m
<1>1. PICK q \in Int : x = m * q + (x % m)
  BY ModSplit
<1>2. x % m \in 0..(m - 1)
  BY ModRange
<1>3. x + m * k = m * (q + k) + (x % m)
  BY <1>1, <1>2
<1>4. (m * (q + k) + (x % m)) % m = x % m
  BY <1>2, ModUnique
<1> QED
  BY <1>3, <1>4

\* A sum may be reduced before one is added to it.
LEMMA ModAdd ==
  ASSUME NEW m \in Nat \ {0}, NEW x \in Int, NEW n \in Int
  PROVE  ((x % m) + n) % m = (x + n) % m
<1> DEFINE t == x % m
<1>1. PICK q \in Int : x = m * q + t
  BY ModSplit
<1>2. t \in Int /\ t + n \in Int /\ m * q \in Int
  BY ModRange
<1> HIDE DEF t
<1>3. x + n = (t + n) + m * q
  BY <1>1, <1>2
<1>4. ((t + n) + m * q) % m = (t + n) % m
  BY <1>2, ModShift
<1> QED
  BY <1>3, <1>4 DEF t

\* The arithmetic of a lock and of an unlock.
LEMMA ModUp ==
  ASSUME NEW x \in Int, NEW n \in Nat
  PROVE  ((x % Word) + n) % Word = (x + n) % Word
<1>1. Word \in Nat \ {0} /\ n \in Int
  BY PowerAssumption
<1> QED
  BY <1>1, ModAdd

\* Taking one away is adding Word - 1.
LEMMA ModDown ==
  ASSUME NEW x \in Int
  PROVE  ((x % Word) + Word - 1) % Word = (x - 1) % Word
<1> DEFINE y == x - 1
           t == x % Word
<1>1. Word \in Nat \ {0} /\ Word - 1 \in Int /\ y \in Int /\ t \in Int
  BY PowerAssumption, ModRange
<1>2. (t + (Word - 1)) % Word = (x + (Word - 1)) % Word
  BY <1>1, ModAdd
<1>3. x + (Word - 1) = y + Word * 1
  BY <1>1
<1>4. t + Word - 1 = t + (Word - 1)
  BY <1>1
<1> HIDE DEF y, t
<1>5. \A k \in Int : (y + Word * k) % Word = y % Word
  BY <1>1, ModShift
<1>6. 1 \in Int
  OBVIOUS
<1>7. (y + Word * 1) % Word = y % Word
  BY <1>5, <1>6, Zenon
<1> QED
  BY <1>2, <1>3, <1>4, <1>7 DEF y, t

(***************************************************************************)
(* The invariant.                                                          *)
(***************************************************************************)
\* Who is inside VBusMon_check, and that the guard says so.
Inside ==
  /\ r <=> at # "none"
  /\ isr => r
  /\ main = "checking" <=> (r /\ ~isr)

\* What the lock counts become.
LEMMA CountsStay ==
  ASSUME NEW l \in [Modes -> 0..(Word - 1)], NEW n \in Nat, NEW m \in Modes
  PROVE  /\ Lock(l, m, n) \in [Modes -> 0..(Word - 1)]
         /\ Unlock(l, m) \in [Modes -> 0..(Word - 1)]
         /\ \A was, idle \in BOOLEAN : UsbLock(l, was, idle) \in [Modes -> 0..(Word - 1)]
<1>1. Word \in Nat \ {0}
  BY PowerAssumption
<1>2. \A k \in Modes : l[k] \in 0..(Word - 1)
  OBVIOUS
<1>3. \A k \in Modes : /\ (l[k] + n) % Word \in 0..(Word - 1)
                        /\ (l[k] + 1) % Word \in 0..(Word - 1)
                        /\ (l[k] + Word - 1) % Word \in 0..(Word - 1)
  <2> SUFFICES ASSUME NEW k \in Modes
               PROVE  /\ (l[k] + n) % Word \in 0..(Word - 1)
                      /\ (l[k] + 1) % Word \in 0..(Word - 1)
                      /\ (l[k] + Word - 1) % Word \in 0..(Word - 1)
    OBVIOUS
  <2>1. l[k] + n \in Int /\ l[k] + 1 \in Int /\ l[k] + Word - 1 \in Int
    BY <1>1, <1>2
  <2> QED
    BY <1>1, <2>1, ModRange
<1>4. "IDLE" \in Modes
  BY DEF Modes
<1> QED
  BY <1>3, <1>4 DEF Lock, Unlock, UsbLock

\* The lock of IDLE that the USB holds, and no other, follows udd_b_idle.
LEMMA UsbLockCounts ==
  ASSUME NEW l \in [Modes -> 0..(Word - 1)], NEW n \in Nat,
         NEW was \in BOOLEAN, NEW idle \in BOOLEAN,
         l["IDLE"] = (n + Holds(was)) % Word
  PROVE  UsbLock(l, was, idle)["IDLE"] = (n + Holds(idle)) % Word
<1>1. "IDLE" \in Modes
  BY DEF Modes
<1>2. n + 0 = n /\ n \in Int /\ n + 1 \in Int /\ (n + 1) - 1 = n
  OBVIOUS
<1>3. CASE was = idle
  BY <1>3 DEF UsbLock
<1>4. CASE was = FALSE /\ idle = TRUE
  <2>1. l["IDLE"] = n % Word
    BY <1>4, <1>2 DEF Holds
  <2>2. ((n % Word) + 1) % Word = (n + 1) % Word
    BY <1>2, ModUp
  <2> QED
    BY <1>1, <1>4, <2>1, <2>2 DEF UsbLock, Lock, Holds
<1>5. CASE was = TRUE /\ idle = FALSE
  <2>1. l["IDLE"] = (n + 1) % Word
    BY <1>5 DEF Holds
  <2>2. (((n + 1) % Word) + Word - 1) % Word = ((n + 1) - 1) % Word
    BY <1>2, ModDown
  <2> QED
    BY <1>1, <1>2, <1>5, <2>1, <2>2 DEF UsbLock, Unlock, Holds
<1> QED
  BY <1>3, <1>4, <1>5

PowerInv == PowerTypeOK /\ Inside /\ IdleExact

\* The state after reset satisfies the invariant: no lock, nobody inside.
LEMMA PowerInitInvariant == PowerInit => PowerInv
<1> SUFFICES ASSUME PowerInit PROVE PowerInv
  OBVIOUS
<1> USE PowerAssumption
<1>1. PowerTypeOK
  <2>1. usb \in [clock : BOOLEAN, on : BOOLEAN, attached : BOOLEAN, idle : BOOLEAN]
    BY DEF PowerInit
  <2>2. locks \in [Modes -> 0..(Word - 1)]
    BY DEF PowerInit, Modes
  <2>3. edges \in 0..MaxEdges /\ leaks \in Nat
    BY DEF PowerInit
  <2>4. /\ missed \in BOOLEAN
        /\ plugged \in BOOLEAN /\ edge \in BOOLEAN /\ isr \in BOOLEAN /\ r \in BOOLEAN
        /\ main \in MainAt /\ at \in Steps /\ dfll \in {"frames", "crystal"}
        /\ asleep \in Modes \cup {"no"}
    BY DEF PowerInit, MainAt, Steps
  <2> QED
    BY <2>1, <2>2, <2>3, <2>4 DEF PowerTypeOK
<1>2. Inside
  BY DEF PowerInit, Inside
<1>3. locks["IDLE"] = 0 /\ Holders + Holds(usb.idle) + leaks = 0
  BY DEF PowerInit, Modes, Holders, Holds
<1>4. 0 % Word = 0
  BY ModSmall
<1> QED
  BY <1>1, <1>2, <1>3, <1>4 DEF PowerInv, IdleExact

\* IdleExact with the holders other than the USB put together.
LEMMA IdleForm ==
  ASSUME PowerTypeOK
  PROVE  /\ Holders + leaks \in Nat /\ Holders \in 0..4
         /\ IdleExact <=> locks["IDLE"] = ((Holders + leaks) + Holds(usb.idle)) % Word
<1>1. Holders \in 0..4
  BY DEF Holders
<1>2. leaks \in Nat /\ Holds(usb.idle) \in 0..1
  BY DEF PowerTypeOK, Holds
<1>3. Holders + Holds(usb.idle) + leaks = (Holders + leaks) + Holds(usb.idle)
  BY <1>1, <1>2
<1> QED
  BY <1>1, <1>2, <1>3 DEF IdleExact

\* The same after a step.
LEMMA IdleFormNext ==
  ASSUME PowerTypeOK'
  PROVE  /\ Holders' + leaks' \in Nat /\ Holders' \in 0..4
         /\ IdleExact' <=> locks'["IDLE"] = ((Holders' + leaks') + Holds(usb'.idle)) % Word
<1>1. Holders' \in 0..4
  BY DEF Holders
<1>2. leaks' \in Nat /\ Holds(usb'.idle) \in 0..1
  BY DEF PowerTypeOK, Holds
<1>3. Holders' + Holds(usb'.idle) + leaks' = (Holders' + leaks') + Holds(usb'.idle)
  BY <1>1, <1>2
<1>4. IdleExact' <=> locks'["IDLE"] = (Holders' + Holds(usb'.idle) + leaks') % Word
  BY DEF IdleExact, Holds
<1>5. \A a \in 0..4, b \in Nat : a + b \in Nat
  OBVIOUS
<1>6. Holders' + leaks' \in Nat
  BY <1>1, <1>2, <1>5, Zenon
<1> QED
  BY <1>1, <1>3, <1>4, <1>6

\* A step that adds n to the other holders and to the count keeps IdleExact.
LEMMA IdleAdd ==
  ASSUME PowerTypeOK, PowerTypeOK', IdleExact, NEW n \in Nat, usb' = usb,
         Holders' + leaks' = (Holders + leaks) + n,
         locks' = Lock(locks, "IDLE", n)
  PROVE  IdleExact'
<1> DEFINE x == (Holders + leaks) + Holds(usb.idle)
<1>1. Holders + leaks \in Nat /\ locks["IDLE"] = x % Word
  BY IdleForm
<1>2. Holds(usb.idle) \in 0..1
  BY DEF PowerTypeOK, Holds
<1>3. x \in Int
  BY <1>1, <1>2
<1>4. ((Holders + leaks) + n) + Holds(usb.idle) = x + n
  BY <1>1, <1>2
<1>5. "IDLE" \in Modes /\ locks \in [Modes -> 0..(Word - 1)]
  BY DEF Modes, PowerTypeOK
<1>6. locks'["IDLE"] = (locks["IDLE"] + n) % Word
  BY <1>5 DEF Lock
<1> HIDE DEF x
<1>7. locks'["IDLE"] = (x + n) % Word
  BY <1>1, <1>3, <1>6, ModUp
<1>8. IdleExact' <=> locks'["IDLE"] = ((Holders' + leaks') + Holds(usb'.idle)) % Word
  BY IdleFormNext
<1> QED
  BY <1>4, <1>7, <1>8

\* A step that changes what the USB holds and nothing else of the count keeps
\* IdleExact, wherever the lock it starts from stands.
LEMMA IdleUsb ==
  ASSUME PowerTypeOK, PowerTypeOK', IdleExact, NEW idle \in BOOLEAN,
         Holders' + leaks' = Holders + leaks, usb'.idle = idle,
         locks'["IDLE"] = UsbLock(locks, usb.idle, idle)["IDLE"]
  PROVE  IdleExact'
<1>1. /\ Holders + leaks \in Nat /\ locks \in [Modes -> 0..(Word - 1)] /\ usb.idle \in BOOLEAN
      /\ locks["IDLE"] = ((Holders + leaks) + Holds(usb.idle)) % Word
  BY IdleForm DEF PowerTypeOK
<1>2. UsbLock(locks, usb.idle, idle)["IDLE"] = ((Holders + leaks) + Holds(idle)) % Word
  BY <1>1, UsbLockCounts
<1> QED
  BY <1>2, IdleFormNext

\* A step that leaves the count and its holders alone keeps IdleExact.
LEMMA IdleStays ==
  ASSUME IdleExact, Holders' = Holders, leaks' = leaks, usb'.idle = usb.idle,
         locks'["IDLE"] = locks["IDLE"]
  PROVE  IdleExact'
BY DEF IdleExact, Holds

(***************************************************************************)
(* Every step keeps the invariant.                                         *)
(***************************************************************************)
\* An edge of the cable sets the interrupt's flag only.
LEMMA EdgeKeeps == PowerInv /\ Edge => PowerInv'
<1> SUFFICES ASSUME PowerInv, Edge PROVE PowerInv'
  OBVIOUS
<1>1. PowerTypeOK'
  <2>1. edges' \in 0..MaxEdges
    BY PowerAssumption DEF PowerInv, PowerTypeOK, Edge
  <2>2. plugged' \in BOOLEAN /\ edge' \in BOOLEAN
    BY DEF PowerInv, PowerTypeOK, Edge
  <2> QED
    BY <2>1, <2>2 DEF PowerInv, PowerTypeOK, Edge
<1>2. Inside'
  BY DEF PowerInv, Inside, Edge
<1>3. IdleExact'
  BY IdleStays DEF PowerInv, Edge, Holders
<1> QED
  BY <1>1, <1>2, <1>3 DEF PowerInv

\* The interrupt enters VBusMon_check or is turned away by its guard.
LEMMA CableInterruptKeeps == PowerInv /\ CableInterrupt => PowerInv'
<1> SUFFICES ASSUME PowerInv, CableInterrupt PROVE PowerInv'
  OBVIOUS
<1>1. PowerTypeOK'
  BY DEF PowerInv, PowerTypeOK, CableInterrupt, Steps
<1>2. Inside'
  BY DEF PowerInv, PowerTypeOK, Inside, CableInterrupt
<1>3. IdleExact'
  BY IdleStays DEF PowerInv, CableInterrupt, Holders
<1> QED
  BY <1>1, <1>2, <1>3 DEF PowerInv

\* The steps of VBusMon_check that leave the lock counts alone.
LEMMA CheckStepKeeps ==
  ASSUME PowerInv,
         ReadPin \/ Detach \/ Uncalibrated \/ Calibrated \/ Clock \/ Return
  PROVE  PowerInv'
<1> USE DEF Step, Stay, Calibrate
<1>1. PowerTypeOK'
  <2>1. CASE ReadPin \/ Uncalibrated \/ Calibrated
    BY <2>1 DEF PowerInv, PowerTypeOK, Steps, ReadPin, Uncalibrated, Calibrated
  <2>2. CASE Detach \/ Clock
    <3>1. usb' \in [clock : BOOLEAN, on : BOOLEAN, attached : BOOLEAN, idle : BOOLEAN]
      BY <2>2 DEF PowerInv, PowerTypeOK, Detach, Clock
    <3> QED
      BY <2>2, <3>1 DEF PowerInv, PowerTypeOK, Steps, Detach, Clock
  <2>3. CASE Return
    BY <2>3 DEF PowerInv, PowerTypeOK, Steps, MainAt, Return
  <2> QED
    BY <2>1, <2>2, <2>3
<1>2. Inside'
  BY DEF PowerInv, PowerTypeOK, Inside, ReadPin, Detach, Uncalibrated, Calibrated, Clock, Return
<1>3. Holders' = Holders
  BY DEF PowerInv, Inside, ReadPin, Detach, Uncalibrated, Calibrated, Clock, Return, Holders
<1>4. usb'.idle = usb.idle
  BY DEF PowerInv, PowerTypeOK, ReadPin, Detach, Uncalibrated, Calibrated, Clock, Return
<1>5. locks' = locks /\ leaks' = leaks
  BY DEF ReadPin, Detach, Uncalibrated, Calibrated, Clock, Return
<1>6. IdleExact'
  BY <1>3, <1>4, <1>5, IdleStays DEF PowerInv
<1> QED
  BY <1>1, <1>2, <1>6 DEF PowerInv

\* udd_disable gives back the locks of PDOWN and of IDLE.
LEMMA StopKeeps == PowerInv /\ Stop => PowerInv'
<1> SUFFICES ASSUME PowerInv, Stop PROVE PowerInv'
  OBVIOUS
<1> DEFINE l == UsbLock(locks, usb.idle, FALSE)
<1>1. l \in [Modes -> 0..(Word - 1)] /\ locks' = Unlock(l, "PDOWN") /\ usb'.idle = FALSE
  BY CountsStay DEF PowerInv, PowerTypeOK, Stop, Modes
<1> HIDE DEF l
<1>2. locks' \in [Modes -> 0..(Word - 1)]
  BY <1>1, CountsStay DEF Modes
<1>3. usb' \in [clock : BOOLEAN, on : BOOLEAN, attached : BOOLEAN, idle : BOOLEAN]
  BY DEF Stop
<1>4. PowerTypeOK'
  BY <1>2, <1>3 DEF PowerInv, PowerTypeOK, Stop, Step, Stay, Steps
<1>5. Inside'
  BY DEF PowerInv, Inside, Stop, Step, Stay
<1>6. locks'["IDLE"] = l["IDLE"]
  BY <1>1 DEF Unlock, Modes
<1>7. Holders' + leaks' = Holders + leaks
  BY DEF Stop, Stay, Holders
<1>8. IdleExact'
  BY <1>1, <1>4, <1>6, <1>7, IdleUsb DEF PowerInv, l
<1> QED
  BY <1>4, <1>5, <1>8 DEF PowerInv

\* udd_attach takes the lock of IDLE, if the driver does not hold it.
LEMMA AttachKeeps == PowerInv /\ Attach => PowerInv'
<1> SUFFICES ASSUME PowerInv, Attach PROVE PowerInv'
  OBVIOUS
<1>1. locks' = UsbLock(locks, usb.idle, TRUE) /\ usb'.idle = TRUE
  BY DEF PowerInv, PowerTypeOK, Attach
<1>2. locks' \in [Modes -> 0..(Word - 1)]
  BY <1>1, CountsStay DEF PowerInv, PowerTypeOK, Modes
<1>3. usb' \in [clock : BOOLEAN, on : BOOLEAN, attached : BOOLEAN, idle : BOOLEAN]
  BY DEF PowerInv, PowerTypeOK, Attach
<1>4. PowerTypeOK'
  BY <1>2, <1>3 DEF PowerInv, PowerTypeOK, Attach, Step, Stay, Steps
<1>5. Inside'
  BY DEF PowerInv, Inside, Attach, Step, Stay
<1>6. Holders' + leaks' = Holders + leaks
  BY DEF Attach, Stay, Holders
<1>7. IdleExact'
  BY <1>1, <1>4, <1>6, IdleUsb DEF PowerInv
<1> QED
  BY <1>4, <1>5, <1>7 DEF PowerInv

\* Suspend and resume give back and take the lock of IDLE.
LEMMA BusEventKeeps == PowerInv /\ BusEvent => PowerInv'
<1> SUFFICES ASSUME PowerInv, BusEvent PROVE PowerInv'
  OBVIOUS
<1>1. PICK idle \in BOOLEAN : SetIdle(idle)
  BY DEF BusEvent
<1>2. locks' = UsbLock(locks, usb.idle, idle) /\ usb' = [usb EXCEPT !.idle = idle]
  BY <1>1 DEF SetIdle
<1>3. usb'.idle = idle /\ usb' \in [clock : BOOLEAN, on : BOOLEAN, attached : BOOLEAN, idle : BOOLEAN]
  BY <1>2 DEF PowerInv, PowerTypeOK
<1>4. locks' \in [Modes -> 0..(Word - 1)]
  BY <1>2, CountsStay DEF PowerInv, PowerTypeOK, Modes
<1>5. PowerTypeOK'
  BY <1>3, <1>4 DEF PowerInv, PowerTypeOK, BusEvent
<1>6. Inside'
  BY DEF PowerInv, Inside, BusEvent
<1>7. Holders' + leaks' = Holders + leaks
  BY DEF BusEvent, Holders
<1>8. IdleExact'
  BY <1>2, <1>3, <1>5, <1>7, IdleUsb DEF PowerInv
<1> QED
  BY <1>5, <1>6, <1>8 DEF PowerInv

\* The start of a USB device that is started already counts its lock of IDLE
\* as leaked and takes it again.
LEMMA EnableKeeps == PowerInv /\ UddEnable => PowerInv'
<1> SUFFICES ASSUME PowerInv, UddEnable PROVE PowerInv'
  OBVIOUS
<1> DEFINE l == Lock(locks, "PDOWN", 1)
           n == Holders + leaks + Holds(usb.idle)
<1>1. l \in [Modes -> 0..(Word - 1)] /\ locks' = UsbLock(l, FALSE, TRUE)
  BY CountsStay DEF PowerInv, PowerTypeOK, UddEnable, Modes
<1>2. l["IDLE"] = locks["IDLE"]
  BY DEF Lock, Modes, PowerInv, PowerTypeOK
<1>3. usb'.idle = TRUE /\ usb' \in [clock : BOOLEAN, on : BOOLEAN, attached : BOOLEAN, idle : BOOLEAN]
  BY DEF PowerInv, PowerTypeOK, UddEnable
<1> HIDE DEF l
<1>4. locks' \in [Modes -> 0..(Word - 1)]
  BY <1>1, CountsStay DEF Modes
<1>5. leaks' = leaks + Holds(usb.idle) /\ leaks \in Nat /\ Holds(usb.idle) \in 0..1
  BY DEF PowerInv, PowerTypeOK, UddEnable, Holds
<1>6. PowerTypeOK'
  <2>1. leaks' \in Nat
    BY <1>5
  <2> QED
    BY <1>3, <1>4, <2>1 DEF PowerInv, PowerTypeOK, UddEnable, Step, Stay, Steps
<1>7. Inside'
  BY DEF PowerInv, Inside, UddEnable, Step, Stay
<1>8. Holders' = Holders
  BY DEF UddEnable, Stay, Holders
<1>9. Holders + leaks \in Nat /\ locks["IDLE"] = n % Word
  BY IdleForm DEF PowerInv
<1>10. n \in Nat /\ Holders' + leaks' = n /\ n + 0 = n
  BY <1>5, <1>8, <1>9, IdleForm DEF PowerInv
<1> HIDE DEF n
<1>11. l["IDLE"] = (n + Holds(FALSE)) % Word
  BY <1>2, <1>9, <1>10 DEF Holds
<1>12. locks'["IDLE"] = (n + Holds(TRUE)) % Word
  BY <1>1, <1>10, <1>11, UsbLockCounts
<1>13. IdleExact'
  BY <1>3, <1>6, <1>10, <1>12, IdleFormNext
<1> QED
  BY <1>6, <1>7, <1>13 DEF PowerInv

\* The steps of main, and of the sleep of its loop.
LEMMA MainKeeps ==
  PowerInv /\ (Main \/ EnterSleep \/ Alarm \/ AdcEnable) => PowerInv'
<1> SUFFICES ASSUME PowerInv, Main \/ EnterSleep \/ Alarm \/ AdcEnable PROVE PowerInv'
  OBVIOUS
<1> USE DEF Goto
<1>1. CASE MainCheck
  <2>1. PowerTypeOK' /\ Inside'
    BY <1>1 DEF PowerInv, PowerTypeOK, Inside, MainCheck, MainAt, Steps
  <2>2. IdleExact'
    BY <1>1, IdleStays DEF PowerInv, MainCheck, Holders
  <2> QED
    BY <2>1, <2>2 DEF PowerInv
<1>2. CASE EnableInterrupts \/ EnterSleep \/ Alarm
  <2>1. asleep' \in Modes \cup {"no"}
    BY <1>2 DEF PowerInv, PowerTypeOK, EnableInterrupts, EnterSleep, SleepMode, Alarm, Modes
  <2>2. PowerTypeOK'
    BY <1>2, <2>1 DEF PowerInv, PowerTypeOK, EnableInterrupts, EnterSleep, Alarm, MainAt
  <2>3. Inside'
    BY <1>2 DEF PowerInv, Inside, EnableInterrupts, EnterSleep, Alarm
  <2>4. IdleExact'
    BY <1>2, IdleStays DEF PowerInv, EnableInterrupts, EnterSleep, Alarm, Holders
  <2> QED
    BY <2>2, <2>3, <2>4 DEF PowerInv
<1>3. ASSUME NEW n \in Nat, locks' = Lock(locks, "IDLE", n), Holders' = Holders + n,
             GaugeInit \/ TimersEnable \/ AdcEnable
      PROVE  PowerInv'
  <2>1. locks' \in [Modes -> 0..(Word - 1)]
    BY <1>3, CountsStay DEF PowerInv, PowerTypeOK, Modes
  <2>2. PowerTypeOK'
    BY <1>3, <2>1 DEF PowerInv, PowerTypeOK, GaugeInit, TimersEnable, AdcEnable, MainAt
  <2>3. Inside'
    BY <1>3 DEF PowerInv, Inside, GaugeInit, TimersEnable, AdcEnable
  <2>4. usb' = usb /\ leaks' = leaks
    BY <1>3 DEF GaugeInit, TimersEnable, AdcEnable
  <2>5. Holders' + leaks' = (Holders + leaks) + n
    BY <1>3, <2>4, IdleForm DEF PowerInv, PowerTypeOK
  <2>6. IdleExact'
    BY <1>3, <2>2, <2>4, <2>5, IdleAdd DEF PowerInv
  <2> QED
    BY <2>2, <2>3, <2>6 DEF PowerInv
<1>4. CASE GaugeInit
  BY <1>3, <1>4 DEF GaugeInit, Holders
<1>5. CASE TimersEnable
  BY <1>3, <1>5 DEF TimersEnable, Holders
<1>6. CASE AdcEnable
  BY <1>3, <1>6 DEF AdcEnable, Holders
<1>7. CASE AdcDisable
  <2> DEFINE x == (Holders + leaks) + Holds(usb.idle)
  <2>1. locks' = Unlock(locks, "IDLE") /\ usb' = usb /\ leaks' = leaks
    BY <1>7 DEF AdcDisable
  <2>2. locks' \in [Modes -> 0..(Word - 1)]
    BY <2>1, CountsStay DEF PowerInv, PowerTypeOK, Modes
  <2>3. PowerTypeOK'
    BY <1>7, <2>2 DEF PowerInv, PowerTypeOK, AdcDisable, MainAt
  <2>4. Inside'
    BY <1>7 DEF PowerInv, Inside, AdcDisable
  <2>5. Holders = 4 /\ Holders' = 3
    BY <1>7 DEF AdcDisable, Holders
  <2>6. leaks \in Nat /\ Holds(usb.idle) \in 0..1
    BY DEF PowerInv, PowerTypeOK, Holds
  <2>7. x \in Int /\ (Holders' + leaks') + Holds(usb'.idle) = x - 1
    BY <2>1, <2>5, <2>6
  <2>8. locks["IDLE"] = x % Word
    BY IdleForm DEF PowerInv
  <2> HIDE DEF x
  <2>9. locks'["IDLE"] = (locks["IDLE"] + Word - 1) % Word
    BY <2>1 DEF Unlock, Modes, PowerInv, PowerTypeOK
  <2>10. locks'["IDLE"] = (x - 1) % Word
    BY <2>7, <2>8, <2>9, ModDown
  <2>11. IdleExact'
    BY <2>3, <2>7, <2>10, IdleFormNext
  <2> QED
    BY <2>3, <2>4, <2>11 DEF PowerInv
<1> QED
  BY <1>1, <1>2, <1>4, <1>5, <1>6, <1>7 DEF Main

\* Every step keeps the invariant.
LEMMA PowerNextKeeps == PowerInv /\ [PowerNext]_powerVars => PowerInv'
<1> SUFFICES ASSUME PowerInv, [PowerNext]_powerVars PROVE PowerInv'
  OBVIOUS
<1>1. CASE UNCHANGED powerVars
  <2>1. PowerTypeOK' /\ Inside'
    BY <1>1 DEF PowerInv, PowerTypeOK, Inside, powerVars
  <2>2. IdleExact'
    BY <1>1, IdleStays DEF PowerInv, powerVars, Holders
  <2> QED
    BY <2>1, <2>2 DEF PowerInv
<1>2. CASE Check
  BY <1>2, CheckStepKeeps, StopKeeps, EnableKeeps, AttachKeeps DEF Check
<1>3. CASE Main \/ EnterSleep \/ Alarm \/ AdcEnable
  BY <1>3, MainKeeps
<1> QED
  BY <1>1, <1>2, <1>3, EdgeKeeps, CableInterruptKeeps, BusEventKeeps DEF PowerNext

(***************************************************************************)
(* The theorems.                                                           *)
(***************************************************************************)
\* The invariant holds in every state.
LEMMA PowerInvariant == PowerSafetySpec => []PowerInv
<1> QED
  BY PowerInitInvariant, PowerNextKeeps, PTL DEF PowerSafetySpec

\* Every variable keeps its type; a lock count stays a number of Word values.
THEOREM PowerTypesHold == PowerSafetySpec => []PowerTypeOK
<1>1. PowerInv => PowerTypeOK
  BY DEF PowerInv
<1> QED
  BY <1>1, PowerInvariant, PTL

\* Wherever the cable's interrupt and the bus events of the USB fall, the count
\* of IDLE is the number of its holders and of the forgotten locks, modulo Word
\* (sleepmgr.h:132, usb_device.c:164, 490).
THEOREM IdleCounted == PowerSafetySpec => []IdleExact
<1>1. PowerInv => IdleExact
  BY DEF PowerInv
<1> QED
  BY <1>1, PowerInvariant, PTL

\* Once the forgotten locks nearly fill a count they do so for ever.
LEMMA LeaksGrow ==
  ASSUME NEW a \in Nat, NEW b \in Nat, b >= a, a + 4 >= Word
  PROVE  b + 4 >= Word
BY PowerAssumption

\* The loop sleeps in IDLE only, until the forgotten locks nearly fill a count.
LEMMA TimersStep == PowerInv /\ TimersRun /\ [PowerNext]_powerVars => TimersRun'
<1> SUFFICES ASSUME PowerInv, TimersRun, [PowerNext]_powerVars PROVE TimersRun'
  OBVIOUS
<1>1. leaks \in Nat /\ leaks' \in Nat /\ leaks' >= leaks
  <2>1. leaks \in Nat
    BY DEF PowerInv, PowerTypeOK
  <2>2. leaks' = leaks \/ leaks' = leaks + 1
    BY DEF PowerNext, powerVars, Edge, CableInterrupt, Check, ReadPin, Detach, Stop, Uncalibrated,
       Calibrated, Calibrate, Clock, UddEnable, Attach, Return, BusEvent, Main,
       EnableInterrupts, MainCheck, GaugeInit, TimersEnable, AdcDisable, EnterSleep, Alarm,
       AdcEnable, Goto
  <2> QED
    BY <2>1, <2>2
<1>2. CASE EnterSleep /\ leaks + 4 < Word
  <2> DEFINE x == (Holders + leaks) + Holds(usb.idle)
  <2>1. Holders = 3 /\ Holds(usb.idle) \in 0..1
    BY <1>2 DEF EnterSleep, Goto, Holders, Holds
  <2>2. x \in 0..(Word - 1) /\ x # 0 /\ Word \in Nat \ {0}
    BY <1>1, <1>2, <2>1, PowerAssumption
  <2>3. locks["IDLE"] = x % Word
    BY IdleForm DEF PowerInv
  <2> HIDE DEF x
  <2>4. locks["IDLE"] # 0
    BY <2>2, <2>3, ModSmall
  <2> QED
    BY <1>2, <2>4 DEF EnterSleep, SleepMode, TimersRun
<1>3. CASE ~EnterSleep
  <2>1. asleep' \in {asleep, "no"}
    BY <1>3 DEF PowerNext, powerVars, Edge, CableInterrupt, Check, ReadPin, Detach, Stop,
       Uncalibrated, Calibrated, Calibrate, Clock, UddEnable, Attach, Return, BusEvent, Main,
       EnableInterrupts, MainCheck, GaugeInit, TimersEnable, AdcDisable, Alarm,
       AdcEnable, Goto, Step
  <2>2. leaks + 4 >= Word => leaks' + 4 >= Word
    BY <1>1, LeaksGrow
  <2> QED
    BY <2>1, <2>2 DEF TimersRun
<1>4. CASE leaks + 4 >= Word
  <2>1. leaks' + 4 >= Word
    BY <1>1, <1>4, LeaksGrow
  <2> QED
    BY <2>1 DEF TimersRun
<1> QED
  BY <1>1, <1>2, <1>3, <1>4, PowerAssumption

\* The timers of the rain gauge never stop while fewer than Word - 4 locks have
\* been forgotten (sleepmgr.h:185).
THEOREM TimersKeepRunning == PowerSafetySpec => []TimersRun
<1>1. PowerInit => TimersRun
  BY DEF PowerInit, TimersRun
<1> QED
  BY <1>1, TimersStep, PowerInvariant, PTL DEF PowerSafetySpec
============================================================================
