--------------------------- MODULE UdiCdcProofs ---------------------------
(***************************************************************************)
(* The three safety properties of the serial port, for every size of the   *)
(* buffers and every length of the exchange.                               *)
(***************************************************************************)
EXTENDS UdiCdc, SequenceTheorems, TLAPS

(***************************************************************************)
(* The inductive invariant.                                                *)
(***************************************************************************)
Pcs == {"idle", "sample", "check", "load", "advance", "start", "arm", "ready",
        "copy", "room", "put", "mark", "notify", "tell", "store"}

Buffers == [Two -> [0..(Size - 1) -> Nat]]
RxType == [buf : Buffers, nb : [Two -> 0..Size], sel : Two, pos : Nat, on : BOOLEAN]

AppType == [pc : Pcs, left : Nat, sel : Two, pos : Nat, n : Nat]

\* A reader that waits for bytes and a putc have something left to do.
Asks(a) == a.pc \in {"sample", "check", "room", "put"} => a.left >= 1

RxTyped ==
  /\ running \in BOOLEAN
  /\ rx \in RxType
  /\ rxJob \in Two \cup {None}
  /\ app \in AppType
  /\ Asks(app)

\* When no transfer is under way the reader has something to read, or it is on
\* its way to start one.  Unless a transfer went astray, the OUT endpoint fills
\* the buffer that the reader does not use.
Served ==
  /\ rxJob # None => running
  /\ running /\ rx.on /\ rxJob = None => app.pc = "arm"
  /\ running /\ ~rx.on /\ rxJob = None =>
       rx.pos < rx.nb[rx.sel] \/ app.pc = "start"
  /\ ~stray =>
       /\ rxJob # None => rx.on /\ rxJob = Other(rx.sel)
       /\ app.pc = "arm" /\ running /\ rx.on /\ rxJob = None =>
            app.sel = Other(rx.sel)

\* Between its copy and the move of the position a reader is ahead of it.
Copied == app.pc \in {"load", "advance"}
ReadTo == IF Copied /\ ~Torn THEN rx.pos + app.n ELSE rx.pos

\* Sequence d is the rest of the buffer in use of r from position p, then the
\* other buffer if it has been filled.
Rest(r, p) == IF p < r.nb[r.sel] THEN r.nb[r.sel] - p ELSE 0
More(r) == IF r.on THEN 0 ELSE r.nb[Other(r.sel)]
Holds(r, p, d) ==
  /\ d \in Seq(Nat) /\ Len(d) = Rest(r, p) + More(r)
  /\ \A i \in 1..Rest(r, p) : d[i] = r.buf[r.sel][p + i - 1]
  /\ \A i \in 1..More(r) : d[Rest(r, p) + i] = r.buf[Other(r.sel)][i - 1]

Ahead == ~stray => Holds(rx, ReadTo, due)

\* What the reader saw of the indices still holds, or a single packet came and
\* exchanged the buffers, and then the reader saw that it had nothing to read.
Watched ==
  ~Torn =>
    /\ app.pc = "check" =>
         \/ app.sel = rx.sel /\ app.pos = rx.pos
         \/ /\ hits = 1 /\ rx.on
            /\ app.sel = Other(rx.sel) /\ app.pos >= rx.nb[app.sel]
    /\ Copied => rx.pos < rx.nb[rx.sel]
    /\ app.pc = "advance" => app.pos = rx.pos

Reading ==
  /\ hostSent \in Nat /\ hits \in 0..2 /\ stray \in BOOLEAN /\ wrong = FALSE
  /\ Ahead /\ Watched

TxType == [nb : [Two -> Int], sel : Two, both : BOOLEAN, on : BOOLEAN,
           sof : Nat, zlp : Nat]

TxTyped ==
  /\ tx \in TxType /\ frame \in Nat
  /\ mem \in [0..(3 * Size - 1) -> Int] /\ wrote \in Int
  /\ overrun \in BOOLEAN

\* The transmit buffers t, unless putc wrote past the end of one: when memory m
\* holds them, w bytes are written and k taken, the buffer to be sent first
\* begins with byte k + 1 and the other one goes on where it ends.
First(t) == Other(t.sel)
Place(b) == IF b = 0 THEN 0 ELSE Size
Stored(t, m, w, k) ==
  /\ w \in Nat /\ k \in Nat
  /\ \A b \in Two : t.nb[b] \in 0..Size
  /\ t.nb[First(t)] + t.nb[t.sel] = w - k
  /\ \A i \in 0..(Size - 1) :
       i < t.nb[First(t)] => m[Place(First(t)) + i] = k + 1 + i
  /\ \A i \in 0..(Size - 1) :
       i < t.nb[t.sel] => m[Place(t.sel) + i] = k + t.nb[First(t)] + 1 + i
  /\ ~t.on /\ ~t.both => t.nb[First(t)] = 0

Packed ==
  /\ Stored(tx, mem, wrote, taken)
  /\ txJob # None => txJob = First(tx) /\ tx.on

RxSide == RxTyped /\ Served /\ Reading
TxSide == TxTyped /\ (overrun \/ Packed)
IInv == RxSide /\ TxSide

(***************************************************************************)
(* The buffers.                                                            *)
(***************************************************************************)
\* A buffer holds at least one byte.
LEMMA Sizes == Size \in Nat /\ Size >= 1
BY CdcAssumption

\* The two buffers of a direction.
LEMMA Others ==
  /\ \A b \in Two : Other(b) \in Two /\ Other(b) # b /\ Other(Other(b)) = b
  /\ \A b \in Two : \A c \in Two : c = b \/ c = Other(b)
  /\ None \notin Two
BY DEF Other, Two, None

\* A record of the receive buffers, field by field.
LEMMA RxFields ==
  ASSUME NEW r \in RxType
  PROVE  /\ r.buf \in Buffers /\ r.nb \in [Two -> 0..Size] /\ r.sel \in Two
         /\ r.pos \in Nat /\ r.on \in BOOLEAN
         /\ Other(r.sel) \in Two /\ Other(r.sel) # r.sel
         /\ Other(Other(r.sel)) = r.sel
         /\ \A b \in Two : r.nb[b] \in 0..Size
BY Others DEF RxType

\* The buffers are exchanged: the reader gets the other one, from its start.
LEMMA Exchanges ==
  ASSUME NEW r \in RxType
  PROVE  /\ Exchange(r) \in RxType
         /\ Exchange(r).buf = r.buf /\ Exchange(r).nb = r.nb
         /\ Exchange(r).sel = Other(r.sel) /\ Exchange(r).pos = 0
         /\ Exchange(r).on = TRUE
<1>1. Other(r.sel) \in Two
  BY RxFields
<1> QED
  BY <1>1 DEF Exchange, RxType

\* A transfer of n bytes has ended.
LEMMA Fills ==
  ASSUME NEW r \in RxType, NEW n \in 0..Size
  PROVE  /\ Filled(r, n) \in RxType
         /\ Filled(r, n).buf = r.buf /\ Filled(r, n).sel = r.sel
         /\ Filled(r, n).pos = r.pos /\ Filled(r, n).on = FALSE
         /\ Filled(r, n).nb[r.sel] = r.nb[r.sel]
         /\ Filled(r, n).nb[Other(r.sel)] = n
<1>1. Other(r.sel) \in Two /\ Other(r.sel) # r.sel /\ r.sel \in Two
  BY RxFields
<1> QED
  BY <1>1 DEF Filled, RxType

\* A packet is put into buffer b.
PutIn(r, b, n, h) ==
  [r EXCEPT !.buf[b] =
     [i \in 0..(Size - 1) |-> IF i < n THEN h + i + 1 ELSE @[i]]]

\* The other buffer and the indices do not change.
LEMMA Packets ==
  ASSUME NEW r \in RxType, NEW b \in Two, NEW n \in 0..Size, NEW h \in Nat,
         NEW s, s = PutIn(r, b, n, h)
  PROVE  /\ s \in RxType
         /\ s.nb = r.nb /\ s.sel = r.sel /\ s.pos = r.pos /\ s.on = r.on
         /\ s.buf[Other(b)] = r.buf[Other(b)]
         /\ \A i \in 0..(Size - 1) : i < n => s.buf[b][i] = h + i + 1
<1> DEFINE f == [i \in 0..(Size - 1) |-> IF i < n THEN h + i + 1 ELSE r.buf[b][i]]
<1>1. r.buf[b] \in [0..(Size - 1) -> Nat]
  BY DEF RxType, Buffers
<1>2. f \in [0..(Size - 1) -> Nat]
  BY <1>1, Sizes
<1>3. \A i \in 0..(Size - 1) : i < n => f[i] = h + i + 1
  OBVIOUS
<1>4. s = [r EXCEPT !.buf[b] = f]
  BY DEF PutIn
<1> HIDE DEF f
<1>5. Other(b) \in Two /\ Other(b) # b
  BY Others
<1>6. s = [r EXCEPT !.buf = [r.buf EXCEPT ![b] = f]]
  BY <1>4
<1>7. [r.buf EXCEPT ![b] = f] \in Buffers
  BY <1>2 DEF RxType, Buffers
<1>8. /\ [r.buf EXCEPT ![b] = f][b] = f
      /\ [r.buf EXCEPT ![b] = f][Other(b)] = r.buf[Other(b)]
  BY <1>5 DEF RxType, Buffers
<1>9. /\ s \in RxType /\ s.nb = r.nb /\ s.sel = r.sel /\ s.pos = r.pos /\ s.on = r.on
      /\ s.buf = [r.buf EXCEPT ![b] = f]
  BY <1>6, <1>7 DEF RxType
<1> QED
  BY <1>3, <1>8, <1>9

\* What follows a transfer: the buffer waits, or a new transfer begins.
LEMMA RxStarts ==
  ASSUME NEW r \in RxType, RxStart(r)
  PROVE  /\ rx' \in RxType /\ rx'.buf = r.buf /\ rx'.nb = r.nb
         /\ r.on \/ r.pos < r.nb[r.sel] => rx' = r /\ rxJob' = None
         /\ ~(r.on \/ r.pos < r.nb[r.sel]) =>
              /\ rx'.sel = Other(r.sel) /\ rx'.pos = 0 /\ rx'.on = TRUE
              /\ rxJob' = r.sel
<1>1. CASE Blocked(r)
  BY <1>1 DEF RxStart, Blocked
<1>2. CASE ~Blocked(r)
  <2>1. rx' = Exchange(r) /\ rxJob' = r.sel
    BY <1>2 DEF RxStart
  <2> QED
    BY <1>2, <2>1, Exchanges DEF Blocked
<1> QED
  BY <1>1, <1>2

\* A packet of n bytes.
LEMMA DataReceivedSteps ==
  ASSUME RxTyped, Served, ~stray, hostSent \in Nat, NEW n \in 0..Size,
         DataReceived(n)
  PROVE  /\ running /\ rx.on /\ rxJob = Other(rx.sel)
         /\ rx' \in RxType
         /\ \A i \in 0..(Size - 1) :
              i < n => rx'.buf[Other(rx.sel)][i] = hostSent + i + 1
         /\ rx'.buf[rx.sel] = rx.buf[rx.sel]
         /\ rx'.nb[rx.sel] = rx.nb[rx.sel]
         /\ n = 0 => /\ rx'.nb = rx.nb /\ rx'.sel = rx.sel /\ rx'.pos = rx.pos
                     /\ rx'.on = TRUE /\ rxJob' = rxJob
         /\ n > 0 => rx'.nb[Other(rx.sel)] = n
         /\ n > 0 /\ rx.pos < rx.nb[rx.sel] =>
              /\ rx'.sel = rx.sel /\ rx'.pos = rx.pos /\ rx'.on = FALSE
              /\ rxJob' = None
         /\ n > 0 /\ ~(rx.pos < rx.nb[rx.sel]) =>
              /\ rx'.sel = Other(rx.sel) /\ rx'.pos = 0 /\ rx'.on = TRUE
              /\ rxJob' = rx.sel
<1> DEFINE r == [rx EXCEPT !.buf[rxJob] =
                   [i \in 0..(Size - 1) |->
                      IF i < n THEN hostSent + i + 1 ELSE @[i]]]
<1>1. running /\ rx.on /\ rxJob = Other(rx.sel)
  BY DEF DataReceived, Served
<1>2. rx \in RxType
  BY DEF RxTyped
<1>3. /\ Other(rx.sel) \in Two /\ Other(rx.sel) # rx.sel /\ rx.sel \in Two
      /\ Other(Other(rx.sel)) = rx.sel
  BY <1>2, RxFields
<1>4. /\ r \in RxType
      /\ r.nb = rx.nb /\ r.sel = rx.sel /\ r.pos = rx.pos /\ r.on = rx.on
      /\ r.buf[rx.sel] = rx.buf[rx.sel]
      /\ \A i \in 0..(Size - 1) : i < n => r.buf[Other(rx.sel)][i] = hostSent + i + 1
  <2> DEFINE b == Other(rx.sel)
  <2>1. r = PutIn(rx, b, n, hostSent)
    BY <1>1 DEF PutIn
  <2>2. b \in Two /\ Other(b) = rx.sel
    BY <1>3
  <2> HIDE DEF r, b
  <2>3. /\ r \in RxType
        /\ r.nb = rx.nb /\ r.sel = rx.sel /\ r.pos = rx.pos /\ r.on = rx.on
        /\ r.buf[Other(b)] = rx.buf[Other(b)]
        /\ \A i \in 0..(Size - 1) : i < n => r.buf[b][i] = hostSent + i + 1
    BY <1>2, <2>1, <2>2, Packets
  <2> QED
    BY <2>2, <2>3 DEF b
<1>5. IF n = 0 THEN rx' = r /\ rxJob' = Other(rx.sel) ELSE RxStart(Filled(r, n))
  BY DEF DataReceived
<1> HIDE DEF r
<1>6. CASE n = 0
  <2>1. rx' = r /\ rxJob' = Other(rx.sel) /\ rx.on = TRUE /\ ~(n > 0)
    BY <1>1, <1>2, <1>5, <1>6, RxFields
  <2> QED
    BY <1>1, <1>4, <1>6, <2>1
<1>7. CASE n > 0
  <2>1. RxStart(Filled(r, n))
    BY <1>5, <1>7
  <2>2. /\ Filled(r, n) \in RxType
        /\ Filled(r, n).buf = r.buf /\ Filled(r, n).sel = rx.sel
        /\ Filled(r, n).pos = rx.pos /\ Filled(r, n).on = FALSE
        /\ Filled(r, n).nb[rx.sel] = rx.nb[rx.sel]
        /\ Filled(r, n).nb[Other(rx.sel)] = n
    <3>1. r \in RxType /\ r.sel = rx.sel /\ r.pos = rx.pos /\ r.nb = rx.nb
      BY <1>4
    <3>2. /\ Filled(r, n) \in RxType
          /\ Filled(r, n).buf = r.buf /\ Filled(r, n).sel = r.sel
          /\ Filled(r, n).pos = r.pos /\ Filled(r, n).on = FALSE
          /\ Filled(r, n).nb[r.sel] = r.nb[r.sel]
          /\ Filled(r, n).nb[Other(r.sel)] = n
      BY <3>1, Fills
    <3> QED
      BY <3>1, <3>2
  <2> DEFINE q == Filled(r, n)
  <2> HIDE DEF q
  <2>3. /\ rx' \in RxType /\ rx'.buf = q.buf /\ rx'.nb = q.nb
        /\ q.on \/ q.pos < q.nb[q.sel] => rx' = q /\ rxJob' = None
        /\ ~(q.on \/ q.pos < q.nb[q.sel]) =>
              /\ rx'.sel = Other(q.sel) /\ rx'.pos = 0 /\ rx'.on = TRUE
              /\ rxJob' = q.sel
    BY <2>1, <2>2, RxStarts DEF q
  <2>4. /\ q.buf = r.buf /\ q.sel = rx.sel /\ q.pos = rx.pos /\ q.on = FALSE
        /\ q.nb[rx.sel] = rx.nb[rx.sel] /\ q.nb[Other(rx.sel)] = n
    BY <2>2 DEF q
  <2>5. n # 0
    BY <1>7
  <2> QED
    BY <1>1, <1>4, <1>7, <2>3, <2>4, <2>5
<1>8. n = 0 \/ n > 0
  BY Sizes
<1> QED
  BY <1>6, <1>7, <1>8

\* A packet that a transfer astray receives.
LEMMA StrayReceivedSteps ==
  ASSUME RxTyped, hostSent \in Nat, NEW n \in 0..Size, DataReceived(n)
  PROVE  /\ rx' \in RxType /\ running
         /\ \/ rxJob' \in Two
            \/ rxJob' = None /\ ~rx'.on /\ rx'.pos < rx'.nb[rx'.sel]
<1> DEFINE r == [rx EXCEPT !.buf[rxJob] =
                   [i \in 0..(Size - 1) |->
                      IF i < n THEN hostSent + i + 1 ELSE @[i]]]
<1>1. running /\ rxJob \in Two /\ rx \in RxType
  BY DEF DataReceived, RxTyped
<1>2. IF n = 0 THEN rx' = r /\ rxJob' = Other(rx.sel) ELSE RxStart(Filled(r, n))
  BY DEF DataReceived
<1>3. r = PutIn(rx, rxJob, n, hostSent)
  BY DEF PutIn
<1> HIDE DEF r
<1>4. r \in RxType
  BY <1>1, <1>3, Packets
<1>5. CASE n = 0
  BY <1>1, <1>2, <1>4, <1>5, RxFields
<1>6. CASE n # 0
  <2> DEFINE q == Filled(r, n)
  <2>1. q \in RxType /\ q.on = FALSE /\ RxStart(q)
    BY <1>2, <1>4, <1>6, Fills
  <2> HIDE DEF q
  <2>2. q.sel \in Two
    BY <2>1, RxFields
  <2>3. /\ rx' \in RxType
        /\ q.on \/ q.pos < q.nb[q.sel] => rx' = q /\ rxJob' = None
        /\ ~(q.on \/ q.pos < q.nb[q.sel]) => rxJob' = q.sel
    BY <2>1, RxStarts
  <2> QED
    BY <1>1, <2>1, <2>2, <2>3
<1> QED
  BY <1>5, <1>6

\* A new session: the first buffer is emptied and the second one is read.
LEMMA EnableSteps ==
  ASSUME RxTyped, Enable
  PROVE  /\ rx' \in RxType /\ rx'.nb[1] = rx.nb[1] /\ rx'.buf = rx.buf
         /\ rx'.sel = 1 /\ rx'.pos = 0 /\ rx'.on = TRUE /\ rxJob' = 0
<1>1. rx \in RxType
  BY DEF RxTyped
<1>2. RxStart(RxReset)
  BY DEF Enable
<1>3. rx.nb \in [Two -> 0..Size] /\ 0 \in Two /\ 1 \in Two /\ 0 \in 0..Size
  BY <1>1, RxFields, Sizes DEF Two
<1>4. RxReset = [rx EXCEPT !.nb = [rx.nb EXCEPT ![0] = 0], !.sel = 0, !.pos = 0,
                           !.on = FALSE]
  BY DEF RxReset
<1>5. /\ [rx.nb EXCEPT ![0] = 0] \in [Two -> 0..Size]
      /\ [rx.nb EXCEPT ![0] = 0][0] = 0
      /\ [rx.nb EXCEPT ![0] = 0][1] = rx.nb[1]
  BY <1>3
<1> DEFINE f == [rx.nb EXCEPT ![0] = 0]
<1> HIDE DEF f
<1>6. RxReset = [rx EXCEPT !.nb = f, !.sel = 0, !.pos = 0, !.on = FALSE]
  BY <1>4 DEF f
<1>7. f \in [Two -> 0..Size] /\ f[0] = 0 /\ f[1] = rx.nb[1]
  BY <1>5 DEF f
<1>8. /\ RxReset \in RxType /\ RxReset.buf = rx.buf /\ RxReset.nb = f
      /\ RxReset.sel = 0 /\ RxReset.pos = 0 /\ RxReset.on = FALSE
  BY <1>1, <1>3, <1>6, <1>7 DEF RxType
<1>9. Other(0) = 1 /\ ~(RxReset.on \/ RxReset.pos < RxReset.nb[RxReset.sel])
  BY <1>7, <1>8 DEF Other
<1> HIDE DEF RxReset
<1> QED
  BY <1>2, <1>7, <1>8, <1>9, RxStarts

(***************************************************************************)
(* Types.                                                                  *)
(***************************************************************************)
\* The application waits for nothing.
LEMMA AppIdle == Idle \in AppType /\ Idle.pc = "idle" /\ Idle.left = 0
BY DEF Idle, AppType, Pcs, Two

\* The application goes to another of its points.
LEMMA AppGoes ==
  ASSUME app \in AppType, NEW p \in Pcs, Go(p)
  PROVE  /\ app' \in AppType /\ app'.pc = p
         /\ app'.left = app.left /\ app'.sel = app.sel
         /\ app'.pos = app.pos /\ app'.n = app.n
BY DEF Go, AppType

\* It begins again if there is something left, or returns.
LEMMA AppAgain ==
  ASSUME app \in AppType, NEW p \in Pcs, Again(p)
  PROVE  /\ app' \in AppType /\ (app'.pc = p \/ app'.pc = "idle")
         /\ app'.pc = p /\ p # "idle" => app'.left = app.left /\ app.left >= 1
<1>1. CASE app.left = 0
  BY <1>1, AppIdle DEF Again, Return
<1>2. CASE app.left # 0
  <2>1. Go(p) /\ app.left \in Nat
    BY <1>2 DEF Again, AppType
  <2>2. app.left >= 1
    BY <1>2, <2>1
  <2> QED
    BY <2>1, <2>2, AppGoes
<1> QED
  BY <1>1, <1>2

\* The smaller of two numbers.
LEMMA Fewer ==
  ASSUME NEW a \in Int, NEW b \in Int
  PROVE  Fewest(a, b) \in Int /\ Fewest(a, b) <= a /\ Fewest(a, b) <= b
         /\ (a >= 0 /\ b >= 0 => Fewest(a, b) >= 0)
BY DEF Fewest

\* A reader takes what it saw of the buffer.
LEMMA CheckSteps ==
  ASSUME RxTyped, Check
  PROVE  /\ app.pc = "check" /\ app' \in AppType /\ Asks(app')
         /\ app.pos >= rx.nb[app.sel] =>
              due' = due /\ wrong' = wrong /\ app'.pc \in {"sample", "idle"}
         /\ ~(app.pos >= rx.nb[app.sel]) =>
              /\ app'.pc \in {"load", "advance"}
              /\ app'.pos = app.pos
              /\ app'.n <= rx.nb[app.sel] - app.pos
              /\ due' = IF Torn THEN due ELSE SubSeq(due, app'.n + 1, Len(due))
              /\ wrong' <=> \/ wrong
                            \/ /\ ~Torn
                               /\ ~IsPrefix([i \in 1..app'.n |->
                                     rx.buf[app.sel][app.pos + i - 1]], due)
<1>1. /\ app \in AppType /\ app.pc = "check" /\ app.pos \in Nat /\ app.left \in Nat
      /\ app.sel \in Two /\ rx.nb[app.sel] \in 0..Size
  BY RxFields DEF RxTyped, AppType, Check, At
<1>2. CASE app.pos >= rx.nb[app.sel]
  <2>1. due' = due /\ wrong' = wrong /\ (Go("sample") \/ Return)
    BY <1>2 DEF Check
  <2>2. CASE Go("sample")
    <3>1. "sample" \in Pcs
      BY DEF Pcs
    <3>2. app' \in AppType /\ app'.pc = "sample" /\ app'.left = app.left
      BY <1>1, <2>2, <3>1, AppGoes
    <3> QED
      BY <1>1, <1>2, <2>1, <3>2 DEF RxTyped, Asks
  <2>3. CASE Return
    BY <1>1, <1>2, <2>1, <2>3, AppIdle DEF Return, Asks
  <2> QED
    BY <2>1, <2>2, <2>3
<1>3. CASE ~(app.pos >= rx.nb[app.sel])
  <2> DEFINE d == rx.nb[app.sel] - app.pos
             n == IF use = "getc" THEN 1 ELSE Fewest(d, app.left)
             l == app.left - n
             p == IF use = "getc" THEN "advance" ELSE "load"
  <2>1. /\ app' = [app EXCEPT !.pc = p, !.n = n, !.left = l]
        /\ wrong' = (wrong \/ (~Torn /\ ~IsPrefix(
              [i \in 1..n |-> rx.buf[app.sel][app.pos + i - 1]], due)))
        /\ due' = IF Torn THEN due ELSE SubSeq(due, n + 1, Len(due))
    BY <1>3 DEF Check
  <2>2. d \in Nat /\ d >= 1
    BY <1>1, <1>3, Sizes
  <2>3. app.left >= 1
    BY <1>1 DEF RxTyped, Asks
  <2> HIDE DEF d
  <2>4. n \in Nat /\ n <= d /\ l \in Nat
    <3>1. CASE use = "getc"
      BY <1>1, <2>2, <2>3, <3>1
    <3>2. CASE use # "getc"
      <4>1. d \in Int /\ d >= 0 /\ app.left \in Int /\ app.left >= 0
        BY <1>1, <2>2
      <4>2. /\ Fewest(d, app.left) \in Int /\ Fewest(d, app.left) <= d
            /\ Fewest(d, app.left) <= app.left /\ Fewest(d, app.left) >= 0
        BY <4>1, Fewer
      <4>3. n = Fewest(d, app.left)
        BY <3>2
      <4> HIDE DEF n
      <4>4. n \in Int /\ n >= 0 /\ n <= d /\ n <= app.left
        BY <4>2, <4>3
      <4> QED
        BY <4>1, <4>4
    <3> QED
      BY <3>1, <3>2
  <2>5. p \in {"load", "advance"}
    OBVIOUS
  <2> HIDE DEF n, l, p
  <2>6. app' \in AppType /\ app'.pc = p /\ app'.n = n /\ app'.pos = app.pos
    BY <1>1, <2>1, <2>4, <2>5 DEF AppType, Pcs
  <2> QED
    BY <1>1, <1>3, <2>1, <2>4, <2>5, <2>6 DEF d, Asks
<1> QED
  BY <1>2, <1>3

\* A reader reads the position to add to it.
LEMMA LoadSteps ==
  ASSUME RxTyped, Load
  PROVE  /\ app.pc = "load" /\ app' \in AppType /\ app'.pc = "advance"
         /\ app'.n = app.n /\ app'.pos = rx.pos
<1>1. rx.pos \in Nat
  BY RxFields DEF RxTyped
<1> QED
  BY <1>1 DEF RxTyped, AppType, Load, At, Pcs

\* A reader looks at the indices.
LEMMA SampleSteps ==
  ASSUME RxTyped, Sample
  PROVE  /\ app.pc = "sample" /\ app' \in AppType /\ app'.pc = "check"
         /\ app'.sel = rx.sel /\ app'.pos = rx.pos /\ Asks(app')
<1>1. rx.pos \in Nat /\ rx.sel \in Two
  BY RxFields DEF RxTyped
<1> QED
  BY <1>1 DEF RxTyped, AppType, Sample, At, Pcs, Asks

\* A reader moves the read position.
LEMMA AdvanceSteps ==
  ASSUME RxTyped, Advance
  PROVE  /\ app.pc = "advance" /\ app' \in AppType /\ app'.pc = "start"
         /\ rx' \in RxType /\ rx'.buf = rx.buf /\ rx'.nb = rx.nb
         /\ rx'.sel = rx.sel /\ rx'.on = rx.on /\ rx'.pos = app.pos + app.n
<1> DEFINE p == app.pos + app.n
<1>1. rx' = [rx EXCEPT !.pos = p] /\ Go("start") /\ app.pc = "advance"
  BY DEF Advance, At
<1>2. p \in Nat /\ rx \in RxType /\ app \in AppType
  BY RxFields DEF RxTyped, AppType
<1>3. "start" \in Pcs
  BY DEF Pcs
<1> HIDE DEF p
<1>4. /\ rx' \in RxType /\ rx'.buf = rx.buf /\ rx'.nb = rx.nb
      /\ rx'.sel = rx.sel /\ rx'.on = rx.on /\ rx'.pos = p
  BY <1>1, <1>2 DEF RxType
<1> QED
  BY <1>1, <1>2, <1>3, <1>4, AppGoes DEF p

\* A reader exchanges the buffers, unless one is in use or not read to its end.
LEMMA StartSteps ==
  ASSUME RxTyped, Start
  PROVE  /\ app.pc = "start" /\ app' \in AppType /\ Asks(app')
         /\ rx' \in RxType /\ rx'.buf = rx.buf /\ rx'.nb = rx.nb
         /\ \/ /\ rx.on \/ rx.pos < rx.nb[rx.sel]
               /\ rx' = rx /\ app'.pc \in {"sample", "idle"}
            \/ /\ ~rx.on /\ ~(rx.pos < rx.nb[rx.sel])
               /\ app'.pc = "arm" /\ app'.sel = rx.sel
               /\ rx'.sel = Other(rx.sel) /\ rx'.pos = 0 /\ rx'.on = TRUE
<1>1. rx \in RxType /\ app \in AppType /\ rx.sel \in Two /\ app.pc = "start"
  BY RxFields DEF RxTyped, Start, At
<1>2. CASE Blocked(rx)
  <2>1. "sample" \in Pcs /\ Again("sample") /\ rx' = rx
    BY <1>2 DEF Pcs, Start
  <2>2. app' \in AppType /\ app'.pc \in {"sample", "idle"} /\ Asks(app')
    BY <1>1, <2>1, AppAgain DEF Asks
  <2> QED
    BY <1>1, <1>2, <2>1, <2>2 DEF Blocked
<1>3. CASE ~Blocked(rx)
  <2>1. app' = [app EXCEPT !.pc = "arm", !.sel = rx.sel] /\ rx' = Exchange(rx)
    BY <1>3 DEF Start
  <2>2. app' \in AppType /\ app'.pc = "arm" /\ app'.sel = rx.sel
    BY <1>1, <2>1 DEF AppType, Pcs
  <2>3. /\ rx' \in RxType /\ rx'.buf = rx.buf /\ rx'.nb = rx.nb
        /\ rx'.sel = Other(rx.sel) /\ rx'.pos = 0 /\ rx'.on = TRUE
    BY <1>1, <2>1, Exchanges
  <2> QED
    BY <1>1, <1>3, <2>2, <2>3 DEF Blocked, Asks
<1> QED
  BY <1>2, <1>3

\* A reader hands the buffer to the endpoint.
LEMMA ArmSteps ==
  ASSUME RxTyped, Arm
  PROVE  app.pc = "arm" /\ app' \in AppType /\ app'.pc \in {"sample", "idle"}
         /\ rx' = rx /\ Asks(app')
BY AppAgain DEF RxTyped, Arm, At, Pcs, Asks

\* A call of one of the functions.
LEMMA CallSteps ==
  ASSUME RxTyped, Call
  PROVE  /\ app.pc = "idle" /\ app' \in AppType
         /\ app'.pc \in {"sample", "ready", "room", "mark"} /\ Asks(app')
<1>1. app.pc = "idle"
  BY DEF Call, At
<1>2. PICK n \in 1..(2 * Size) :
        \/ app' = [Idle EXCEPT !.pc = "sample", !.left = n]
        \/ app' = [Idle EXCEPT !.pc = "ready", !.left = n]
        \/ app' = [Idle EXCEPT !.pc = "room", !.left = n]
        \/ app' = [Idle EXCEPT !.pc = "mark"]
  BY DEF Call
<1>3. n \in Nat /\ n >= 1
  BY Sizes
<1>4. Idle \in AppType
  BY AppIdle
<1>5. ASSUME NEW p \in {"sample", "ready", "room"},
             app' = [Idle EXCEPT !.pc = p, !.left = n]
      PROVE  app' \in AppType /\ app'.pc = p /\ app'.left >= 1
  BY <1>3, <1>4, <1>5 DEF AppType, Pcs
<1>6. ASSUME app' = [Idle EXCEPT !.pc = "mark"]
      PROVE  app' \in AppType /\ app'.pc = "mark"
  BY <1>4, <1>6 DEF AppType, Pcs
<1> QED
  BY <1>1, <1>2, <1>5, <1>6 DEF Asks

\* A writer waits for room.
LEMMA ReadySteps ==
  ASSUME RxTyped, Ready
  PROVE  /\ app.pc \in {"ready", "room"} /\ app' \in AppType
         /\ app'.pc \in {"copy", "put", "idle", app.pc}
         /\ Asks(app') /\ tx' = Moved(tx)
<1>1. app \in AppType /\ app.pc \in {"ready", "room"} /\ tx' = Moved(tx)
  BY DEF RxTyped, Ready
<1>2. CASE Go(IF At("ready") THEN "copy" ELSE "put")
  <2>1. CASE app.pc = "ready"
    <3>1. Go("copy") /\ "copy" \in Pcs
      BY <1>2, <2>1 DEF At, Pcs
    <3> QED
      BY <1>1, <3>1, AppGoes DEF Asks
  <2>2. CASE app.pc = "room"
    <3>1. Go("put") /\ "put" \in Pcs /\ app.left >= 1
      BY <1>2, <2>2 DEF At, Pcs, RxTyped, Asks
    <3> QED
      BY <1>1, <3>1, AppGoes DEF Asks
  <2> QED
    BY <1>1, <2>1, <2>2
<1>3. CASE app' = app
  BY <1>1, <1>3 DEF RxTyped
<1>4. CASE Return
  BY <1>1, <1>4, AppIdle DEF Return, Asks
<1> QED
  BY <1>2, <1>3, <1>4 DEF Ready

\* A writer copies what there is room for.
LEMMA CopySteps ==
  ASSUME RxTyped, TxTyped, Copy
  PROVE  /\ app.pc = "copy" /\ app' \in AppType /\ app'.pc \in {"idle", "ready"}
         /\ overrun' = overrun /\ Asks(app')
         /\ \E n \in Int : n <= Size - tx.nb[tx.sel] /\ Store(n)
                           /\ (tx.nb[tx.sel] <= Size => n >= 0)
<1> DEFINE n == Fewest(Size - tx.nb[tx.sel], app.left)
           l == app.left - n
           d == Size - tx.nb[tx.sel]
<1>1. /\ Store(n) /\ overrun' = overrun /\ app.pc = "copy"
      /\ app' = IF app.left = n THEN Idle ELSE [app EXCEPT !.pc = "ready", !.left = l]
  BY DEF Copy, At
<1>2. app \in AppType /\ app.left \in Nat /\ tx.nb[tx.sel] \in Int
  BY DEF RxTyped, AppType, TxTyped, TxType
<1>3. d \in Int /\ app.left \in Int /\ app.left >= 0
      /\ (tx.nb[tx.sel] <= Size => d >= 0)
  BY <1>2, Sizes
<1> HIDE DEF d
<1>4. /\ n \in Int /\ n <= d /\ n <= app.left
      /\ d >= 0 => n >= 0
  <2>1. /\ Fewest(d, app.left) \in Int /\ Fewest(d, app.left) <= d
        /\ Fewest(d, app.left) <= app.left /\ (d >= 0 => Fewest(d, app.left) >= 0)
    BY <1>3, Fewer
  <2> QED
    BY <2>1 DEF d
<1> HIDE DEF n
<1>5. l \in Nat
  BY <1>2, <1>4
<1> HIDE DEF l
<1>6. app' \in AppType /\ app'.pc \in {"idle", "ready"}
  <2>1. CASE app.left = n
    BY <1>1, <2>1, AppIdle
  <2>2. CASE app.left # n
    BY <1>1, <1>2, <1>5, <2>2 DEF AppType, Pcs
  <2> QED
    BY <2>1, <2>2
<1>7. n <= Size - tx.nb[tx.sel] /\ (tx.nb[tx.sel] <= Size => n >= 0)
  BY <1>3, <1>4 DEF d
<1> QED
  BY <1>1, <1>4, <1>6, <1>7 DEF Asks

\* A character is written, whether there is room or not.
LEMMA PutSteps ==
  ASSUME RxTyped, Put
  PROVE  /\ app.pc = "put" /\ app' \in AppType /\ app'.pc \in {"idle", "room"}
         /\ Asks(app')
         /\ Store(1) /\ overrun' = (overrun \/ tx.nb[tx.sel] >= Size)
<1> DEFINE l == app.left - 1
<1>1. /\ Store(1) /\ overrun' = (overrun \/ tx.nb[tx.sel] >= Size)
      /\ app.pc = "put"
      /\ app' = IF app.left = 1 THEN Idle ELSE [app EXCEPT !.pc = "room", !.left = l]
  BY DEF Put, At
<1>2. app \in AppType /\ app.left \in Nat /\ app.left >= 1
  BY <1>1 DEF RxTyped, AppType, Asks
<1>3. CASE app.left = 1
  BY <1>1, <1>3, AppIdle DEF Asks
<1>4. CASE app.left # 1
  <2>1. l \in Nat /\ l >= 1
    BY <1>2, <1>4
  <2> HIDE DEF l
  <2> QED
    BY <1>1, <1>2, <1>4, <2>1 DEF AppType, Pcs, Asks
<1> QED
  BY <1>3, <1>4

\* A change of the serial state does not concern the buffers.
LEMMA SignalSteps ==
  ASSUME RxTyped, Mark \/ Announce \/ Tell \/ SetOngoing
  PROVE  /\ app.pc \in {"mark", "notify", "tell", "store"} /\ app' \in AppType
         /\ app'.pc \in {"notify", "tell", "store", "idle"} /\ Asks(app')
<1>1. app \in AppType
  BY DEF RxTyped
<1>2. CASE Mark
  <2>1. "notify" \in Pcs /\ app.pc = "mark" /\ Go("notify")
    BY <1>2 DEF Pcs, Mark, At
  <2> QED
    BY <1>1, <2>1, AppGoes DEF Asks
<1>3. CASE Announce
  <2>1. app.pc = "notify" /\ "tell" \in Pcs /\ (Return \/ Go("tell"))
    BY <1>3 DEF Announce, At, Pcs
  <2>2. CASE Return
    BY <2>1, <2>2, AppIdle DEF Return, Asks
  <2>3. CASE Go("tell")
    BY <1>1, <2>1, <2>3, AppGoes DEF Asks
  <2> QED
    BY <2>1, <2>2, <2>3
<1>4. CASE Tell
  <2>1. PICK k \in {0, 1} : app' = [app EXCEPT !.pc = "store", !.n = k]
    BY <1>4 DEF Tell
  <2>2. k \in Nat
    OBVIOUS
  <2> QED
    BY <1>1, <1>4, <2>1, <2>2 DEF AppType, Pcs, Tell, At, Asks
<1>5. CASE SetOngoing
  BY <1>5, AppIdle DEF SetOngoing, At, Return, Asks
<1> QED
  BY <1>2, <1>3, <1>4, <1>5

(***************************************************************************)
(* Sequences of bytes.                                                     *)
(***************************************************************************)
\* A function on 1..n is a sequence of n elements.
LEMMA Tuples ==
  ASSUME NEW S, NEW n \in Nat, NEW f \in [1..n -> S]
  PROVE  f \in Seq(S) /\ Len(f) = n
<1>1. f \in Seq(S)
  BY SeqDef
<1>2. Len(f) \in Nat /\ DOMAIN f = 1..Len(f)
  BY <1>1, LenProperties
<1>3. 1..n = 1..Len(f)
  BY <1>2
<1> QED
  BY <1>1, <1>2, <1>3

\* The first n elements are taken away.
LEMMA Drops ==
  ASSUME NEW S, NEW s \in Seq(S), NEW n \in Nat, n <= Len(s)
  PROVE  /\ SubSeq(s, n + 1, Len(s)) \in Seq(S)
         /\ Len(SubSeq(s, n + 1, Len(s))) = Len(s) - n
         /\ \A i \in 1..(Len(s) - n) : SubSeq(s, n + 1, Len(s))[i] = s[n + i]
<1>1. Len(s) \in Nat
  BY LenProperties
<1>2. n + 1 \in Int /\ \A i \in (n + 1)..Len(s) : s[i] \in S
  <2>1. \A i \in (n + 1)..Len(s) : i \in 1..Len(s)
    BY <1>1
  <2> QED
    BY <1>1, <2>1, ElementOfSeq
<1> DEFINE t == SubSeq(s, n + 1, Len(s))
<1>3. /\ t \in Seq(S)
      /\ Len(t) = IF n + 1 <= Len(s) THEN Len(s) - (n + 1) + 1 ELSE 0
      /\ \A i \in 1..(Len(s) - (n + 1) + 1) : t[i] = s[(n + 1) + i - 1]
  BY <1>1, <1>2, SubSeqProperties
<1> HIDE DEF t
<1>4. Len(s) - (n + 1) + 1 = Len(s) - n
  BY <1>1
<1>5. Len(t) = Len(s) - n
  BY <1>1, <1>3
<1>6. \A i \in 1..(Len(s) - n) : t[i] = s[n + i]
  <2>1. \A i \in 1..(Len(s) - n) : (n + 1) + i - 1 = n + i
    BY <1>1
  <2> QED
    BY <1>3, <1>4, <2>1
<1> QED
  BY <1>3, <1>5, <1>6 DEF t

\* A sequence that another one begins with, element by element.
LEMMA BeginsWith ==
  ASSUME NEW S, NEW s \in Seq(S), NEW t \in Seq(S), Len(s) <= Len(t),
         \A i \in 1..Len(s) : s[i] = t[i]
  PROVE  IsPrefix(s, t)
<1>1. Len(s) \in Nat /\ Len(t) \in Nat
  <2>1. Len(s) \in Nat
    BY LenProperties
  <2>2. Len(t) \in Nat
    BY LenProperties
  <2> QED
    BY <2>1, <2>2
<1>2. ASSUME NEW q \in Seq(S), Len(s) <= Len(q)
      PROVE  /\ SubSeq(q, 1, Len(s)) \in Seq(S)
             /\ Len(SubSeq(q, 1, Len(s))) = Len(s)
             /\ \A i \in 1..Len(s) : SubSeq(q, 1, Len(s))[i] = q[i]
  <2> DEFINE k == Len(s)
             u == SubSeq(q, 1, k)
  <2>1. k \in Nat /\ Len(q) \in Nat /\ k <= Len(q)
    BY <1>1, <1>2, LenProperties
  <2>2. \A i \in 1..k : q[i] \in S
    <3>1. \A i \in 1..k : i \in 1..Len(q)
      BY <2>1
    <3> QED
      BY <1>2, <3>1, ElementOfSeq
  <2> HIDE DEF k
  <2>3. /\ u \in Seq(S) /\ Len(u) = IF 1 <= k THEN k - 1 + 1 ELSE 0
        /\ \A i \in 1..(k - 1 + 1) : u[i] = q[1 + i - 1]
    BY <2>1, <2>2, SubSeqProperties
  <2> HIDE DEF u
  <2>4. Len(u) = k
    BY <2>1, <2>3
  <2>5. k - 1 + 1 = k /\ \A i \in 1..k : 1 + i - 1 = i
    BY <2>1
  <2>6. \A i \in 1..k : u[i] = q[i]
    BY <2>3, <2>5
  <2> QED
    BY <2>3, <2>4, <2>6 DEF u, k
<1>3. /\ SubSeq(s, 1, Len(s)) \in Seq(S) /\ Len(SubSeq(s, 1, Len(s))) = Len(s)
      /\ \A i \in 1..Len(s) : SubSeq(s, 1, Len(s))[i] = s[i]
  BY <1>1, <1>2
<1>4. /\ SubSeq(t, 1, Len(s)) \in Seq(S) /\ Len(SubSeq(t, 1, Len(s))) = Len(s)
      /\ \A i \in 1..Len(s) : SubSeq(t, 1, Len(s))[i] = t[i]
  BY <1>1, <1>2
<1>5. SubSeq(s, 1, Len(s)) = SubSeq(t, 1, Len(s))
  <2> DEFINE a == SubSeq(s, 1, Len(s))
             b == SubSeq(t, 1, Len(s))
  <2>1. a \in Seq(S) /\ b \in Seq(S) /\ Len(a) = Len(b)
        /\ \A i \in 1..Len(a) : a[i] = b[i]
    BY <1>3, <1>4
  <2> HIDE DEF a, b
  <2>2. a = b
    BY <2>1, SeqEqual
  <2> QED
    BY <2>2 DEF a, b
<1> QED
  BY <1>5 DEF IsPrefix

(***************************************************************************)
(* The receiving side.                                                     *)
(***************************************************************************)
\* The bytes that are due, as numbers.
LEMMA Lengths ==
  ASSUME NEW r \in RxType, NEW p \in Nat
  PROVE  /\ r.nb[r.sel] \in Nat /\ r.nb[Other(r.sel)] \in Nat
         /\ r.nb[r.sel] <= Size /\ r.nb[Other(r.sel)] <= Size
         /\ Rest(r, p) \in Nat /\ More(r) \in Nat
         /\ p <= r.nb[r.sel] => Rest(r, p) = r.nb[r.sel] - p
         /\ p >= r.nb[r.sel] => Rest(r, p) = 0
<1>1. /\ r.nb[r.sel] \in 0..Size /\ r.nb[Other(r.sel)] \in 0..Size
  BY RxFields
<1> QED
  BY <1>1, Sizes DEF Rest, More

\* The position up to which the reader has taken bytes.
LEMMA ReadToType ==
  ASSUME RxTyped
  PROVE  ReadTo \in Nat /\ rx.pos \in Nat /\ app.n \in Nat /\ app.pos \in Nat
BY RxFields DEF RxTyped, AppType, ReadTo

\* Sequences one after the other.
LEMMA Joins ==
  ASSUME NEW s \in Seq(Nat), NEW t \in Seq(Nat)
  PROVE  /\ s \o t \in Seq(Nat) /\ Len(s \o t) = Len(s) + Len(t)
         /\ \A i \in 1..Len(s) : (s \o t)[i] = s[i]
         /\ \A i \in 1..Len(t) : (s \o t)[Len(s) + i] = t[i]
<1> DEFINE a == Len(s)
           b == Len(t)
<1>1. a \in Nat /\ b \in Nat
  BY LenProperties
<1>2. /\ s \o t \in Seq(Nat) /\ Len(s \o t) = a + b
      /\ \A i \in 1..(a + b) : (s \o t)[i] = IF i <= a THEN s[i] ELSE t[i - a]
  BY ConcatProperties
<1> HIDE DEF a, b
<1>3. \A i \in 1..a : i \in 1..(a + b) /\ i <= a
  BY <1>1
<1>4. \A i \in 1..b : a + i \in 1..(a + b) /\ ~(a + i <= a) /\ (a + i) - a = i
  BY <1>1
<1>5. \A i \in 1..b : (s \o t)[a + i] = t[i]
  BY <1>2, <1>4
<1>6. \A i \in 1..a : (s \o t)[i] = s[i]
  BY <1>2, <1>3
<1> QED
  BY <1>2, <1>5, <1>6 DEF a, b

\* Unread is what the buffers hold from the position.
LEMMA UnreadHolds == ASSUME NEW r \in RxType PROVE Holds(r, r.pos, Unread(r))
<1> DEFINE p == r.pos
           a == Rest(r, p)
           b == More(r)
           o == Other(r.sel)
           s == Held(r, r.sel, p)
           t == IF r.on THEN << >> ELSE Held(r, o, 0)
<1>1. /\ p \in Nat /\ r.sel \in Two /\ o \in Two /\ r.on \in BOOLEAN
      /\ r.buf[r.sel] \in [0..(Size - 1) -> Nat] /\ r.buf[o] \in [0..(Size - 1) -> Nat]
      /\ r.nb[r.sel] \in 0..Size /\ r.nb[o] \in 0..Size
  BY RxFields DEF Buffers
<1>2. a \in Nat /\ b \in Nat
  BY <1>1, Lengths
<1>3. /\ s \in Seq(Nat) /\ Len(s) = a
      /\ \A i \in 1..a : s[i] = r.buf[r.sel][p + i - 1]
  <2>1. 1..(r.nb[r.sel] - p) = 1..a
    BY <1>1, Sizes DEF Rest
  <2>2. s = [i \in 1..a |-> r.buf[r.sel][p + i - 1]]
    BY <2>1 DEF Held
  <2>3. a = 0 \/ a = r.nb[r.sel] - p
    BY DEF Rest
  <2> DEFINE h == r.nb[r.sel]
             f == r.buf[r.sel]
  <2>4. /\ h \in 0..Size /\ (a = 0 \/ a = h - p) /\ f \in [0..(Size - 1) -> Nat]
        /\ s = [i \in 1..a |-> f[p + i - 1]]
    BY <1>1, <2>2, <2>3
  <2> HIDE DEF a, p, h, f, s
  <2>5. \A i \in 1..a : p + i - 1 \in 0..(Size - 1)
    BY <1>1, <1>2, <2>4, Sizes
  <2>6. s \in [1..a -> Nat]
    BY <2>4, <2>5
  <2>7. s \in Seq(Nat) /\ Len(s) = a
    BY <1>2, <2>6, Tuples
  <2> QED
    BY <2>4, <2>7 DEF f
<1>4. /\ t \in Seq(Nat) /\ Len(t) = b /\ \A i \in 1..b : t[i] = r.buf[o][i - 1]
  <2>1. CASE r.on
    <3>1. b = 0 /\ t = << >> /\ 1..0 = {}
      BY <2>1 DEF More
    <3> QED
      BY <3>1, EmptySeq
  <2>2. CASE ~r.on
    <3>1. b = r.nb[o] /\ t = [i \in 1..(b - 0) |-> r.buf[o][0 + i - 1]]
      BY <2>2 DEF More, Held
    <3> HIDE DEF b, o
    <3>2. b - 0 = b /\ \A i \in 1..b : 0 + i - 1 = i - 1 /\ i - 1 \in 0..(Size - 1)
      BY <1>1, <1>2, <3>1, Sizes
    <3>3. t = [i \in 1..b |-> r.buf[o][i - 1]]
      BY <3>1, <3>2
    <3> HIDE DEF t
    <3>4. t \in [1..b -> Nat] /\ \A i \in 1..b : t[i] = r.buf[o][i - 1]
      BY <1>1, <3>2, <3>3
    <3> QED
      BY <1>2, <3>4, Tuples
  <2> QED
    BY <2>1, <2>2
<1>5. Unread(r) = s \o t
  BY DEF Unread
<1> HIDE DEF s, t, a, b, o
<1>6. /\ s \o t \in Seq(Nat) /\ Len(s \o t) = a + b
      /\ \A i \in 1..a : (s \o t)[i] = s[i]
      /\ \A i \in 1..b : (s \o t)[a + i] = t[i]
  <2>1. s \in Seq(Nat) /\ t \in Seq(Nat) /\ Len(s) = a /\ Len(t) = b
    BY <1>3, <1>4
  <2> QED
    BY <1>2, <2>1, Joins
<1>7. Holds(r, p, s \o t)
  BY <1>3, <1>4, <1>6 DEF Holds, a, b, o
<1> QED
  BY <1>5, <1>7

\* Bytes are added at the end of a sequence.
LEMMA Adds ==
  ASSUME NEW s \in Seq(Nat), NEW h \in Nat, NEW n \in Nat
  PROVE  /\ s \o [i \in 1..n |-> h + i] \in Seq(Nat)
         /\ Len(s \o [i \in 1..n |-> h + i]) = Len(s) + n
         /\ \A i \in 1..Len(s) : (s \o [j \in 1..n |-> h + j])[i] = s[i]
         /\ \A i \in 1..n : (s \o [j \in 1..n |-> h + j])[Len(s) + i] = h + i
<1> DEFINE t == [i \in 1..n |-> h + i]
<1>1. t \in [1..n -> Nat] /\ \A i \in 1..n : t[i] = h + i
  OBVIOUS
<1> HIDE DEF t
<1>2. t \in Seq(Nat) /\ Len(t) = n /\ Len(s) \in Nat
  BY <1>1, Tuples, LenProperties
<1>3. /\ s \o t \in Seq(Nat) /\ Len(s \o t) = Len(s) + Len(t)
      /\ \A i \in 1..(Len(s) + Len(t)) :
           (s \o t)[i] = IF i <= Len(s) THEN s[i] ELSE t[i - Len(s)]
  BY <1>2, ConcatProperties
<1>4. \A i \in 1..Len(s) : (s \o t)[i] = s[i]
  <2>1. \A i \in 1..Len(s) : i \in 1..(Len(s) + Len(t)) /\ i <= Len(s)
    BY <1>2
  <2> QED
    BY <1>3, <2>1
<1>5. \A i \in 1..n : (s \o t)[Len(s) + i] = h + i
  <2> TAKE i \in 1..n
  <2> DEFINE k == Len(s) + i
  <2>1. k \in 1..(Len(s) + Len(t)) /\ ~(k <= Len(s)) /\ k - Len(s) = i
    BY <1>2
  <2> HIDE DEF k
  <2>2. (s \o t)[k] = t[i]
    BY <1>3, <2>1
  <2> QED
    BY <1>1, <2>2 DEF k
<1> QED
  BY <1>2, <1>3, <1>4, <1>5 DEF t

\* A packet that a transfer astray receives.
LEMMA AfterStrayReceived ==
  ASSUME RxSide, NEW n \in 0..Size, DataReceived(n), stray
  PROVE  RxSide'
<1>1. /\ RxTyped /\ Served /\ hostSent \in Nat /\ hits \in 0..2 /\ wrong = FALSE
      /\ stray \in BOOLEAN
  BY DEF RxSide, Reading
<1>2. /\ rx' \in RxType /\ running
      /\ \/ rxJob' \in Two
         \/ rxJob' = None /\ ~rx'.on /\ rx'.pos < rx'.nb[rx'.sel]
  BY <1>1, StrayReceivedSteps
<1>3. /\ running' = running /\ app' = app /\ hostSent' = hostSent + n
      /\ wrong' = wrong /\ stray' = stray
      /\ hits' = IF n > 0 /\ Amid /\ hits < 2 THEN hits + 1 ELSE hits
  BY DEF DataReceived
<1>4. RxTyped'
  BY <1>1, <1>2, <1>3 DEF RxTyped
<1>5. Served'
  BY <1>2, <1>3, Others DEF Served
<1>6. hostSent' \in Nat /\ hits' \in 0..2
  BY <1>1, <1>3, Sizes
<1>7. Ahead' /\ Watched'
  BY <1>3 DEF Ahead, Watched, Torn
<1> QED
  BY <1>1, <1>3, <1>4, <1>5, <1>6, <1>7 DEF RxSide, Reading

\* A packet that the endpoint receives.
LEMMA AfterDataReceived ==
  ASSUME RxSide, NEW n \in 0..Size, DataReceived(n), ~stray
  PROVE  RxSide'
<1>1. /\ RxTyped /\ Served /\ hostSent \in Nat /\ hits \in 0..2 /\ wrong = FALSE
      /\ Ahead /\ Watched /\ stray \in BOOLEAN
  BY DEF RxSide, Reading
<1> DEFINE o == Other(rx.sel)
<1>2. /\ running /\ rx.on /\ rxJob = o
      /\ rx' \in RxType
      /\ \A i \in 0..(Size - 1) : i < n => rx'.buf[o][i] = hostSent + i + 1
      /\ rx'.buf[rx.sel] = rx.buf[rx.sel]
      /\ rx'.nb[rx.sel] = rx.nb[rx.sel]
      /\ n = 0 => /\ rx'.nb = rx.nb /\ rx'.sel = rx.sel /\ rx'.pos = rx.pos
                  /\ rx'.on = TRUE /\ rxJob' = rxJob
      /\ n > 0 => rx'.nb[o] = n
      /\ n > 0 /\ rx.pos < rx.nb[rx.sel] =>
           /\ rx'.sel = rx.sel /\ rx'.pos = rx.pos /\ rx'.on = FALSE
           /\ rxJob' = None
      /\ n > 0 /\ ~(rx.pos < rx.nb[rx.sel]) =>
           /\ rx'.sel = o /\ rx'.pos = 0 /\ rx'.on = TRUE
           /\ rxJob' = rx.sel
  BY <1>1, DataReceivedSteps
<1>3. /\ running' = running /\ app' = app /\ hostSent' = hostSent + n
      /\ wrong' = wrong /\ stray' = stray
      /\ hits' = IF n > 0 /\ Amid /\ hits < 2 THEN hits + 1 ELSE hits
      /\ due' = IF stray \/ hits' = 2 THEN Unread(rx')
                ELSE due \o [i \in 1..n |-> hostSent + i]
  BY DEF DataReceived
<1>4. /\ o \in Two /\ rx.sel \in Two /\ Other(o) = rx.sel /\ o # rx.sel
      /\ None \notin Two
  BY <1>1, RxFields, Others DEF RxTyped
<1>5. /\ ReadTo \in Nat /\ rx.nb[rx.sel] \in 0..Size /\ app.n \in Nat
      /\ app.pos \in Nat /\ rx.pos \in Nat /\ Rest(rx, ReadTo) \in Nat
      /\ rx \in RxType
  BY <1>1, RxFields, ReadToType, Lengths DEF RxTyped
<1> HIDE DEF o
<1>6. n \in Nat /\ n <= Size /\ (n = 0 \/ n > 0)
  BY Sizes
<1>8. RxTyped'
  BY <1>1, <1>2, <1>3, <1>4, <1>6 DEF RxTyped
<1>9. Served'
  <2>1. CASE n = 0
    BY <1>2, <1>3, <1>4, <2>1 DEF Served, o
  <2>2. CASE n > 0 /\ rx.pos < rx.nb[rx.sel]
    BY <1>2, <1>3, <1>4, <2>2 DEF Served, o
  <2>3. CASE n > 0 /\ ~(rx.pos < rx.nb[rx.sel])
    BY <1>2, <1>3, <1>4, <2>3 DEF Served, o
  <2> QED
    BY <1>6, <2>1, <2>2, <2>3
<1>10. hostSent' \in Nat /\ hits' \in 0..2 /\ wrong' = FALSE
  BY <1>1, <1>3, <1>6
<1>11. Ahead'
  <2>1. CASE hits' = 2
    <3>1. due' = Unread(rx') /\ ReadTo' = rx'.pos
      BY <1>3, <2>1 DEF ReadTo, Torn
    <3>2. Holds(rx', rx'.pos, Unread(rx'))
      BY <1>2, UnreadHolds
    <3>3. Holds(rx', ReadTo', due')
      BY <3>1, <3>2
    <3> QED
      BY <3>3 DEF Ahead
  <2>2. CASE hits' < 2
    <3> DEFINE k == Rest(rx, ReadTo)
    <3>1. ~Torn /\ ~Torn' /\ due' = due \o [i \in 1..n |-> hostSent + i]
      BY <1>1, <1>3, <2>2 DEF Torn
    <3>2. /\ due \in Seq(Nat) /\ Len(due) = k
          /\ \A i \in 1..k : due[i] = rx.buf[rx.sel][ReadTo + i - 1]
      <4>1. More(rx) = 0 /\ Holds(rx, ReadTo, due)
        BY <1>1, <1>2 DEF More, Ahead
      <4> QED
        BY <1>5, <4>1 DEF Holds
    <3> HIDE DEF k
    <3>3. /\ due' \in Seq(Nat) /\ Len(due') = k + n
          /\ \A i \in 1..k : due'[i] = due[i]
          /\ \A i \in 1..n : due'[k + i] = hostSent + i
      BY <1>1, <1>6, <3>1, <3>2, Adds
    <3>4. \A i \in 1..n : /\ i - 1 \in 0..(Size - 1) /\ i - 1 < n
                          /\ hostSent + (i - 1) + 1 = hostSent + i
                          /\ 0 + i = i /\ 0 + i - 1 = i - 1
      BY <1>1, <1>6, Sizes
    <3>5. \A i \in 1..n : due'[k + i] = rx'.buf[o][i - 1]
      BY <1>2, <3>3, <3>4
    <3>6. CASE ~(n > 0 /\ ~(rx.pos < rx.nb[rx.sel]))
      <4>1. /\ rx'.sel = rx.sel /\ rx'.pos = rx.pos /\ rx'.nb[rx.sel] = rx.nb[rx.sel]
            /\ Other(rx'.sel) = o
        BY <1>2, <1>6, <3>6 DEF o
      <4>2. ReadTo' = ReadTo
        BY <1>3, <3>1, <4>1 DEF ReadTo, Copied
      <4>3. Rest(rx', ReadTo') = k
        BY <4>1, <4>2 DEF Rest, k
      <4>4. More(rx') = n
        BY <1>2, <1>6, <3>6, <4>1 DEF More
      <4>5. \A i \in 1..k : due'[i] = rx'.buf[rx'.sel][ReadTo' + i - 1]
        BY <1>2, <3>2, <3>3, <4>1, <4>2
      <4>6. Holds(rx', ReadTo', due')
        BY <3>3, <3>5, <4>1, <4>3, <4>4, <4>5 DEF Holds
      <4> QED
        BY <4>6 DEF Ahead
    <3>7. CASE n > 0 /\ ~(rx.pos < rx.nb[rx.sel])
      <4>1. ~Copied
        BY <1>1, <3>1, <3>7 DEF Watched
      <4>2. k = 0
        BY <1>5, <3>7, <4>1 DEF ReadTo, Rest, k
      <4>3. ReadTo' = 0
        BY <1>2, <1>3, <3>7, <4>1 DEF ReadTo, Copied
      <4>4. Rest(rx', ReadTo') = n /\ More(rx') = 0
        BY <1>2, <1>6, <3>7, <4>3 DEF Rest, More
      <4>5. \A i \in 1..n : due'[i] = rx'.buf[rx'.sel][0 + i - 1]
        BY <1>2, <3>4, <3>5, <3>7, <4>2
      <4>6. Holds(rx', ReadTo', due')
        BY <1>6, <3>3, <4>2, <4>3, <4>4, <4>5 DEF Holds
      <4> QED
        BY <4>6 DEF Ahead
    <3> QED
      BY <3>6, <3>7
  <2> QED
    BY <1>10, <2>1, <2>2
<1>12. Watched'
  <2> SUFFICES ASSUME ~Torn' PROVE Watched'
    BY DEF Watched
  <2>1. ~Torn /\ (n > 0 /\ Amid => hits = 0 /\ hits' = 1)
    BY <1>1, <1>3 DEF Torn
  <2>2. CASE ~(n > 0 /\ ~(rx.pos < rx.nb[rx.sel]))
    <3>1. /\ rx'.sel = rx.sel /\ rx'.pos = rx.pos /\ rx'.nb[rx.sel] = rx.nb[rx.sel]
      BY <1>2, <1>6, <2>2
    <3>2. CASE n = 0
      <4>1. hits' = hits /\ rx'.nb = rx.nb /\ rx'.on = rx.on
        BY <1>1, <1>2, <1>3, <3>2, RxFields DEF RxTyped
      <4> QED
        BY <1>1, <1>3, <2>1, <3>1, <4>1 DEF Watched, Copied
    <3>3. CASE n > 0
      BY <1>1, <1>3, <2>1, <3>1, <3>3 DEF Watched, Copied, Amid
    <3> QED
      BY <1>6, <3>2, <3>3
  <2>3. CASE n > 0 /\ ~(rx.pos < rx.nb[rx.sel])
    <3>1. ~Copied
      BY <1>1, <2>1, <2>3 DEF Watched
    <3>2. CASE app.pc = "check"
      <4>1. hits = 0 /\ hits' = 1
        BY <2>1, <2>3, <3>2 DEF Amid
      <4>2. app.sel = rx.sel /\ app.pos = rx.pos
        BY <1>1, <2>1, <3>2, <4>1 DEF Watched
      <4>3. rx'.on /\ app'.sel = Other(rx'.sel) /\ app'.pos >= rx'.nb[app'.sel]
        BY <1>2, <1>3, <1>4, <1>5, <2>3, <4>2, Sizes
      <4> QED
        BY <1>3, <3>1, <3>2, <4>1, <4>3 DEF Watched, Copied
    <3>3. CASE app.pc # "check"
      BY <1>3, <3>1, <3>3 DEF Watched, Copied
    <3> QED
      BY <3>2, <3>3
  <2> QED
    BY <2>2, <2>3
<1> QED
  BY <1>1, <1>3, <1>8, <1>9, <1>10, <1>11, <1>12 DEF RxSide, Reading

\* A new session begins, wherever the reader is.
LEMMA AfterEnable ==
  ASSUME RxSide, Enable
  PROVE  RxSide'
<1>1. RxTyped /\ hostSent \in Nat /\ wrong = FALSE
  BY DEF RxSide, Reading
<1>2. /\ rx' \in RxType /\ rx'.nb[1] = rx.nb[1] /\ rx'.buf = rx.buf
      /\ rx'.sel = 1 /\ rx'.pos = 0 /\ rx'.on = TRUE /\ rxJob' = 0
  BY <1>1, EnableSteps
<1>3. /\ running' = TRUE /\ app' = app /\ stray' = FALSE /\ wrong' = wrong
      /\ hits' = (IF Amid THEN 2 ELSE 0)
      /\ hostSent' = hostSent /\ due' = Unread(rx')
  BY DEF Enable
<1>4. 0 \in Two /\ 1 \in Two /\ Other(1) = 0 /\ None # 0
  BY DEF Two, Other, None
<1>5. RxTyped'
  BY <1>1, <1>2, <1>3, <1>4 DEF RxTyped
<1>6. Served'
  BY <1>2, <1>3, <1>4 DEF Served
<1>7. Ahead'
  <2>1. ReadTo' = rx'.pos
    BY <1>3 DEF ReadTo, Copied, Amid, Torn
  <2>2. Holds(rx', rx'.pos, Unread(rx'))
    BY <1>2, UnreadHolds
  <2>3. Holds(rx', ReadTo', due')
    BY <1>3, <2>1, <2>2
  <2> QED
    BY <2>3 DEF Ahead
<1>8. Watched'
  BY <1>3 DEF Watched, Torn, Copied, Amid
<1>9. hits' \in 0..2
  BY <1>3
<1>10. stray' \in BOOLEAN
  <2>1. stray' = FALSE
    BY <1>3
  <2> QED
    BY <2>1, Zenon
<1> QED
  BY <1>1, <1>3, <1>5, <1>6, <1>7, <1>8, <1>9, <1>10 DEF RxSide, Reading

\* The session ends: what was received stays, no transfer is under way.
LEMMA AfterDisable ==
  ASSUME RxSide, Disable
  PROVE  RxSide'
<1>1. /\ running' = FALSE /\ rxJob' = None /\ rx' = rx /\ app' = app
      /\ hostSent' = hostSent /\ due' = due /\ hits' = hits /\ wrong' = wrong
      /\ stray' = stray
  BY DEF Disable
<1>2. RxTyped'
  BY <1>1 DEF RxSide, RxTyped
<1>3. Served'
  BY <1>1 DEF Served
<1>4. Ahead' /\ Watched'
  BY <1>1 DEF RxSide, Reading, Ahead, ReadTo, Copied, Torn, Watched
<1> QED
  BY <1>1, <1>2, <1>3, <1>4 DEF RxSide, Reading

\* The reader looks at the indices.
LEMMA AfterSample ==
  ASSUME RxSide, Sample
  PROVE  RxSide'
<1>1. RxTyped /\ Served /\ Ahead
  BY DEF RxSide, Reading
<1>2. /\ app.pc = "sample" /\ app' \in AppType /\ app'.pc = "check"
      /\ app'.sel = rx.sel /\ app'.pos = rx.pos /\ Asks(app')
  BY <1>1, SampleSteps
<1>3. /\ hits' = 0
      /\ UNCHANGED << running, rx, rxJob, hostSent, due, stray, wrong >>
  BY DEF Sample
<1>4. RxTyped'
  BY <1>1, <1>2, <1>3 DEF RxTyped
<1>5. Served'
  BY <1>1, <1>2, <1>3 DEF Served
<1>6. ReadTo' = ReadTo
  BY <1>2, <1>3 DEF ReadTo, Copied
<1>7. Ahead'
  BY <1>1, <1>3, <1>6 DEF Ahead
<1>8. Watched'
  BY <1>2, <1>3 DEF Watched, Copied
<1> QED
  BY <1>3, <1>4, <1>5, <1>7, <1>8 DEF RxSide, Reading

\* What a reader copies of the buffer in use is what is due first.
LEMMA Copies ==
  ASSUME NEW r \in RxType, NEW p \in Nat, NEW d, Holds(r, p, d),
         NEW n \in Nat, n <= r.nb[r.sel] - p
  PROVE  /\ IsPrefix([i \in 1..n |-> r.buf[r.sel][p + i - 1]], d)
         /\ Holds(r, p + n, SubSeq(d, n + 1, Len(d)))
<1> DEFINE k == Rest(r, p)
           m == More(r)
           q == p + n
           e == SubSeq(d, n + 1, Len(d))
           got == [i \in 1..n |-> r.buf[r.sel][p + i - 1]]
<1>1. /\ k \in Nat /\ m \in Nat /\ n <= k /\ q \in Nat
      /\ k = r.nb[r.sel] - p /\ r.nb[r.sel] \in Nat
  BY Lengths
<1>2. Rest(r, q) = k - n
  BY <1>1, Lengths
<1> HIDE DEF k, m, q
<1>3. /\ d \in Seq(Nat) /\ Len(d) = k + m
      /\ \A i \in 1..k : d[i] = r.buf[r.sel][p + i - 1]
      /\ \A i \in 1..m : d[k + i] = r.buf[Other(r.sel)][i - 1]
  BY DEF Holds, k, m
<1>0. k \in Nat /\ m \in Nat /\ n <= k /\ Len(d) = k + m
  BY <1>1, <1>3
<1>4. n <= Len(d)
  BY <1>0
<1>5. IsPrefix(got, d)
  <2>1. \A i \in 1..n : i \in 1..Len(d) /\ i \in 1..k
    BY <1>0
  <2>2. \A i \in 1..n : got[i] = d[i]
    BY <1>3, <2>1
  <2>3. got \in [1..n -> Nat]
    BY <1>3, <2>1, <2>2, ElementOfSeq
  <2> HIDE DEF got
  <2>4. got \in Seq(Nat) /\ Len(got) = n
    BY <2>3, Tuples
  <2> QED
    BY <1>3, <1>4, <2>2, <2>4, BeginsWith
<1>6. /\ e \in Seq(Nat) /\ Len(e) = Len(d) - n
      /\ \A i \in 1..(Len(d) - n) : e[i] = d[n + i]
  BY <1>3, <1>4, Drops
<1> HIDE DEF e
<1>7. Len(e) = (k - n) + m
  BY <1>1, <1>3, <1>6
<1>8. \A i \in 1..(k - n) : e[i] = r.buf[r.sel][q + i - 1]
  <2>1. \A i \in 1..(k - n) : /\ i \in 1..(Len(d) - n) /\ n + i \in 1..k
                              /\ p + (n + i) - 1 = q + i - 1
    BY <1>0 DEF q
  <2> QED
    BY <1>3, <1>6, <2>1
<1>9. \A i \in 1..m : e[(k - n) + i] = r.buf[Other(r.sel)][i - 1]
  <2>1. \A i \in 1..m : (k - n) + i \in 1..(Len(d) - n) /\ n + ((k - n) + i) = k + i
    BY <1>0
  <2> QED
    BY <1>3, <1>6, <2>1
<1>10. Holds(r, q, e)
  BY <1>2, <1>6, <1>7, <1>8, <1>9 DEF Holds, m
<1> QED
  BY <1>5, <1>10 DEF q, e, got

\* The reader copies what it saw.
LEMMA AfterCheck ==
  ASSUME RxSide, Check
  PROVE  RxSide'
<1>1. /\ RxTyped /\ Served /\ hits \in 0..2 /\ Ahead /\ Watched /\ wrong = FALSE
      /\ hostSent \in Nat /\ stray \in BOOLEAN
  BY DEF RxSide, Reading
<1>2. UNCHANGED << running, rx, rxJob, hostSent, hits, stray >>
  BY DEF Check
<1>3. /\ app.pc = "check" /\ app' \in AppType /\ Asks(app')
      /\ app.pos >= rx.nb[app.sel] =>
           due' = due /\ wrong' = wrong /\ app'.pc \in {"sample", "idle"}
      /\ ~(app.pos >= rx.nb[app.sel]) =>
           /\ app'.pc \in {"load", "advance"}
           /\ app'.pos = app.pos
           /\ app'.n <= rx.nb[app.sel] - app.pos
           /\ due' = IF Torn THEN due ELSE SubSeq(due, app'.n + 1, Len(due))
           /\ wrong' <=> \/ wrong
                         \/ /\ ~Torn
                            /\ ~IsPrefix([i \in 1..app'.n |->
                                  rx.buf[app.sel][app.pos + i - 1]], due)
  BY <1>1, CheckSteps
<1>4. app'.pc \in {"sample", "idle", "load", "advance"}
  BY <1>3
<1>5. RxTyped'
  BY <1>1, <1>2, <1>3 DEF RxTyped
<1>6. Served'
  BY <1>1, <1>2, <1>3, <1>4 DEF Served
<1>7. (Torn' <=> Torn) /\ ~Copied
  BY <1>2, <1>3 DEF Torn, Copied
<1>8. CASE app.pos >= rx.nb[app.sel]
  <2>1. ~Copied' /\ app'.pc # "check" /\ due' = due /\ wrong' = FALSE
    BY <1>1, <1>3, <1>8 DEF Copied
  <2>2. ReadTo' = ReadTo
    BY <1>2, <1>7, <2>1 DEF ReadTo
  <2>3. Ahead'
    BY <1>1, <1>2, <2>1, <2>2 DEF Ahead
  <2>4. Watched'
    BY <2>1 DEF Watched, Copied
  <2> QED
    BY <1>1, <1>2, <1>5, <1>6, <2>1, <2>3, <2>4 DEF RxSide, Reading
<1>9. CASE ~(app.pos >= rx.nb[app.sel]) /\ Torn
  <2>1. due' = due /\ wrong' = FALSE
    BY <1>1, <1>3, <1>9
  <2>2. ReadTo' = ReadTo
    BY <1>2, <1>7, <1>9 DEF ReadTo
  <2>3. Ahead'
    BY <1>1, <1>2, <2>1, <2>2 DEF Ahead
  <2>4. Watched'
    BY <1>7, <1>9 DEF Watched
  <2> QED
    BY <1>1, <1>2, <1>5, <1>6, <2>1, <2>3, <2>4 DEF RxSide, Reading
<1>10. CASE ~(app.pos >= rx.nb[app.sel]) /\ ~Torn
  <2> DEFINE n == app'.n
  <2>1. /\ app'.pc \in {"load", "advance"} /\ app'.pos = app.pos /\ n \in Nat
        /\ n <= rx.nb[app.sel] - app.pos
        /\ due' = SubSeq(due, n + 1, Len(due))
    BY <1>3, <1>10 DEF AppType
  <2>2. app.sel = rx.sel /\ app.pos = rx.pos
    BY <1>1, <1>3, <1>10 DEF Watched
  <2>3. ReadTo = rx.pos /\ ReadTo' = rx.pos + n
    BY <1>2, <1>7, <1>10, <2>1 DEF ReadTo, Copied
  <2>4. ~stray /\ Holds(rx, rx.pos, due)
    BY <1>1, <1>10, <2>3 DEF Ahead, Torn
  <2>5. rx \in RxType /\ rx.pos \in Nat /\ rx.nb[rx.sel] \in Nat
    BY <1>1, RxFields, Sizes DEF RxTyped
  <2>6. /\ IsPrefix([i \in 1..n |-> rx.buf[rx.sel][rx.pos + i - 1]], due)
        /\ Holds(rx, rx.pos + n, SubSeq(due, n + 1, Len(due)))
    <3> HIDE DEF n
    <3> QED
      BY <2>1, <2>2, <2>4, <2>5, Copies
  <2>7. wrong' = FALSE
    BY <1>1, <1>3, <1>10, <2>2, <2>6
  <2>8. Ahead'
    BY <1>2, <2>1, <2>3, <2>6 DEF Ahead
  <2>9. Watched'
    BY <1>2, <1>10, <2>1, <2>2, <2>5 DEF Watched, Copied
  <2> QED
    BY <1>1, <1>2, <1>5, <1>6, <2>7, <2>8, <2>9 DEF RxSide, Reading
<1> QED
  BY <1>8, <1>9, <1>10

\* The reader reads the position.
LEMMA AfterLoad ==
  ASSUME RxSide, Load
  PROVE  RxSide'
<1>1. RxTyped /\ Served /\ Ahead /\ Watched
  BY DEF RxSide, Reading
<1>2. /\ app.pc = "load" /\ app' \in AppType /\ app'.pc = "advance"
      /\ app'.n = app.n /\ app'.pos = rx.pos
  BY <1>1, LoadSteps
<1>3. UNCHANGED << running, rx, rxJob, hostSent, due, hits, stray, wrong >>
  BY DEF Load, rxVars
<1>4. RxTyped'
  BY <1>1, <1>2, <1>3 DEF RxTyped, Asks
<1>5. Served'
  BY <1>1, <1>2, <1>3 DEF Served
<1>6. ReadTo' = ReadTo
  BY <1>2, <1>3 DEF ReadTo, Copied, Torn
<1>7. Ahead'
  BY <1>1, <1>3, <1>6 DEF Ahead
<1>8. Watched'
  BY <1>1, <1>2, <1>3 DEF Watched, Copied, Torn
<1> QED
  BY <1>3, <1>4, <1>5, <1>7, <1>8 DEF RxSide, Reading

\* The reader writes its position down.
LEMMA AfterAdvance ==
  ASSUME RxSide, Advance
  PROVE  RxSide'
<1>1. RxTyped /\ Served /\ Ahead /\ Watched /\ hits \in 0..2
  BY DEF RxSide, Reading
<1>2. /\ app.pc = "advance" /\ app' \in AppType /\ app'.pc = "start"
      /\ rx' \in RxType /\ rx'.buf = rx.buf /\ rx'.nb = rx.nb
      /\ rx'.sel = rx.sel /\ rx'.on = rx.on /\ rx'.pos = app.pos + app.n
  BY <1>1, AdvanceSteps
<1>3. /\ UNCHANGED << running, rxJob, hostSent, hits, stray, wrong >>
      /\ due' = IF Torn THEN Unread(rx') ELSE due
  BY DEF Advance
<1>4. RxTyped'
  BY <1>1, <1>2, <1>3 DEF RxTyped, Asks
<1>5. Served'
  BY <1>1, <1>2, <1>3 DEF Served
<1>6. ReadTo' = rx'.pos
  BY <1>2 DEF ReadTo, Copied
<1>7. Ahead'
  <2>1. CASE Torn
    <3>1. Holds(rx', rx'.pos, Unread(rx'))
      BY <1>2, UnreadHolds
    <3>2. Holds(rx', ReadTo', due')
      BY <1>3, <1>6, <2>1, <3>1
    <3> QED
      BY <3>2 DEF Ahead
  <2>2. CASE ~Torn
    <3>1. ReadTo = rx.pos + app.n /\ app.pos = rx.pos /\ ~stray
      BY <1>1, <1>2, <2>2 DEF ReadTo, Watched, Copied, Torn
    <3>2. Holds(rx, rx'.pos, due) /\ due' = due
      BY <1>1, <1>2, <1>3, <2>2, <3>1 DEF Ahead
    <3>3. Rest(rx', rx'.pos) = Rest(rx, rx'.pos) /\ More(rx') = More(rx)
      BY <1>2 DEF Rest, More
    <3>4. Holds(rx', rx'.pos, due)
      BY <1>2, <3>2, <3>3 DEF Holds
    <3> QED
      BY <1>6, <3>2, <3>4 DEF Ahead
  <2> QED
    BY <2>1, <2>2
<1>8. Watched'
  BY <1>2 DEF Watched, Copied
<1> QED
  BY <1>3, <1>4, <1>5, <1>7, <1>8 DEF RxSide, Reading

\* The reader tries to start a transfer.
LEMMA AfterStart ==
  ASSUME RxSide, Start
  PROVE  RxSide'
<1>1. RxTyped /\ Served /\ Ahead
  BY DEF RxSide, Reading
<1>2. UNCHANGED << running, rxJob, hostSent, due, hits, stray, wrong >>
  BY DEF Start
<1>3. /\ app.pc = "start" /\ app' \in AppType /\ Asks(app')
      /\ rx' \in RxType /\ rx'.buf = rx.buf /\ rx'.nb = rx.nb
      /\ \/ /\ rx.on \/ rx.pos < rx.nb[rx.sel]
            /\ rx' = rx /\ app'.pc \in {"sample", "idle"}
         \/ /\ ~rx.on /\ ~(rx.pos < rx.nb[rx.sel])
            /\ app'.pc = "arm" /\ app'.sel = rx.sel
            /\ rx'.sel = Other(rx.sel) /\ rx'.pos = 0 /\ rx'.on = TRUE
  BY <1>1, StartSteps
<1>4. /\ rx.sel \in Two /\ Other(Other(rx.sel)) = rx.sel /\ rx.pos \in Nat
      /\ rx.nb[rx.sel] \in 0..Size /\ rx.nb[Other(rx.sel)] \in 0..Size
  BY <1>1, RxFields DEF RxTyped
<1>5. RxTyped'
  BY <1>1, <1>2, <1>3 DEF RxTyped
<1>6. Watched'
  BY <1>3 DEF Watched, Copied
<1>7. ReadTo = rx.pos /\ ReadTo' = rx'.pos
  BY <1>3 DEF ReadTo, Copied
<1>8. CASE rx' = rx /\ app'.pc \in {"sample", "idle"} /\ (rx.on \/ rx.pos < rx.nb[rx.sel])
  <2>1. Served'
    BY <1>1, <1>2, <1>3, <1>8 DEF Served
  <2>2. Ahead'
    BY <1>1, <1>2, <1>7, <1>8 DEF Ahead
  <2> QED
    BY <1>2, <1>5, <1>6, <2>1, <2>2 DEF RxSide, Reading
<1>9. CASE /\ ~rx.on /\ ~(rx.pos < rx.nb[rx.sel])
           /\ app'.pc = "arm" /\ app'.sel = rx.sel
           /\ rx'.sel = Other(rx.sel) /\ rx'.pos = 0 /\ rx'.on = TRUE
  <2>1. Served'
    BY <1>1, <1>2, <1>4, <1>9 DEF Served
  <2>2. Ahead'
    <3> SUFFICES ASSUME ~stray PROVE Ahead'
      BY <1>2 DEF Ahead
    <3> DEFINE k == rx.nb[Other(rx.sel)]
    <3>1. Holds(rx, rx.pos, due)
      BY <1>1, <1>7 DEF Ahead
    <3>2. Rest(rx, rx.pos) = 0 /\ More(rx) = k
      BY <1>9 DEF Rest, More
    <3>3. k \in Nat
      BY <1>4, Sizes
    <3>4. rx'.nb[rx'.sel] = k /\ ReadTo' = 0
      BY <1>3, <1>7, <1>9
    <3>5. Rest(rx', 0) = k /\ More(rx') = 0
      BY <1>9, <3>3, <3>4 DEF Rest, More
    <3>6. /\ due \in Seq(Nat) /\ Len(due) = 0 + k
          /\ \A i \in 1..k : due[0 + i] = rx.buf[Other(rx.sel)][i - 1]
      BY <3>1, <3>2 DEF Holds
    <3> HIDE DEF k
    <3>7. Len(due) = k + 0 /\ \A i \in 1..k : 0 + i = i /\ 0 + i - 1 = i - 1
      BY <3>3, <3>6
    <3>8. \A i \in 1..k : due[i] = rx'.buf[rx'.sel][0 + i - 1]
      BY <1>3, <1>9, <3>6, <3>7
    <3>9. Holds(rx', 0, due)
      BY <3>5, <3>6, <3>7, <3>8 DEF Holds
    <3> QED
      BY <1>2, <3>4, <3>9 DEF Ahead
  <2> QED
    BY <1>2, <1>5, <1>6, <2>1, <2>2 DEF RxSide, Reading
<1> QED
  BY <1>3, <1>8, <1>9

\* The reader arms the endpoint.
LEMMA AfterArm ==
  ASSUME RxSide, Arm
  PROVE  RxSide'
<1>1. RxTyped /\ Served /\ Ahead /\ stray \in BOOLEAN
  BY DEF RxSide, Reading
<1>2. /\ app.pc = "arm" /\ app' \in AppType /\ app'.pc \in {"sample", "idle"}
      /\ rx' = rx /\ Asks(app')
  BY <1>1, ArmSteps
<1>3. /\ UNCHANGED << running, hostSent, due, hits, wrong >>
      /\ rxJob' = IF running /\ rxJob = None THEN app.sel ELSE rxJob
      /\ stray' = (stray \/ (running /\ rxJob = None /\ ~rx.on))
  BY DEF Arm
<1>4. app.sel \in Two /\ None \notin Two
  BY <1>1, Others DEF RxTyped, AppType
<1>5. RxTyped'
  BY <1>1, <1>2, <1>3, <1>4 DEF RxTyped
<1>6. Served'
  BY <1>1, <1>2, <1>3, <1>4 DEF Served
<1>7. ReadTo' = ReadTo
  BY <1>2 DEF ReadTo, Copied
<1>8. Ahead'
  BY <1>1, <1>2, <1>3, <1>7 DEF Ahead
<1>9. Watched'
  BY <1>2 DEF Watched, Copied
<1>10. stray' \in BOOLEAN
  BY <1>1, <1>3
<1> QED
  BY <1>3, <1>5, <1>6, <1>8, <1>9, <1>10 DEF RxSide, Reading

\* The points of a reader.
Reader == {"sample", "check", "load", "advance", "start", "arm"}

\* Everything else leaves the receive buffers, and the application is not at a
\* point of a reader, but for a call that begins.
LEMMA Aside ==
  ASSUME RxSide, UNCHANGED << running, rxVars >>,
         \/ app' = app
         \/ /\ app.pc \notin Reader /\ app'.pc \notin Reader \ {"sample"}
            /\ app' \in AppType /\ Asks(app')
  PROVE  RxSide'
<1>1. UNCHANGED << running, rx, rxJob, hostSent, due, hits, stray, wrong >>
  BY DEF rxVars
<1>2. RxTyped /\ Served /\ Reading
  BY DEF RxSide
<1>3. RxTyped'
  BY <1>1, <1>2 DEF RxTyped
<1>4. Served'
  BY <1>1, <1>2 DEF Served, Reader
<1>5. ReadTo' = ReadTo
  BY <1>1 DEF ReadTo, Copied, Torn, Reader
<1>6. Ahead'
  BY <1>1, <1>2, <1>5 DEF Reading, Ahead
<1>7. Watched'
  BY <1>1, <1>2 DEF Reading, Watched, Copied, Torn, Reader
<1> QED
  BY <1>1, <1>2, <1>3, <1>4, <1>6, <1>7 DEF RxSide, Reading

\* Every step keeps the receiving side.
LEMMA RxStep ==
  ASSUME RxSide, TxTyped, [Next]_vars
  PROVE  RxSide'
<1>1. RxTyped
  BY DEF RxSide
<1>2. ASSUME NEW n \in 0..Size, DataReceived(n) PROVE RxSide'
  BY <1>2, AfterDataReceived, AfterStrayReceived
<1>3. CASE Enable
  BY <1>3, AfterEnable
<1>4. CASE Disable
  BY <1>4, AfterDisable
<1>5. CASE Sample
  BY <1>5, AfterSample
<1>6. CASE Check
  BY <1>6, AfterCheck
<1>7. CASE Load \/ Advance
  BY <1>7, AfterLoad, AfterAdvance
<1>8. CASE Start
  BY <1>8, AfterStart
<1>9. CASE Arm
  BY <1>9, AfterArm
<1>10. CASE Sof \/ DataSent \/ CommSent \/ UNCHANGED vars
  <2>1. UNCHANGED << running, rxVars, app >>
    BY <1>10 DEF Sof, DataSent, CommSent, vars
  <2> QED
    BY <2>1, Aside
<1>11. CASE Call
  <2>1. UNCHANGED << running, rxVars >>
    BY <1>11 DEF Call
  <2>2. /\ app.pc = "idle" /\ app' \in AppType
        /\ app'.pc \in {"sample", "ready", "room", "mark"} /\ Asks(app')
    BY <1>1, <1>11, CallSteps
  <2> QED
    BY <2>1, <2>2, Aside DEF Reader
<1>12. CASE Ready
  <2>1. UNCHANGED << running, rxVars >>
    BY <1>12 DEF Ready
  <2>2. /\ app.pc \in {"ready", "room"} /\ app' \in AppType
        /\ app'.pc \in {"copy", "put", "idle", app.pc}
        /\ Asks(app')
    BY <1>1, <1>12, ReadySteps
  <2> QED
    BY <2>1, <2>2, Aside DEF Reader
<1>13. CASE Copy
  <2>1. UNCHANGED << running, rxVars >>
    BY <1>13 DEF Copy, Store
  <2>2. app.pc = "copy" /\ app' \in AppType /\ app'.pc \in {"idle", "ready"}
        /\ Asks(app')
    BY <1>1, <1>13, CopySteps
  <2> QED
    BY <2>1, <2>2, Aside DEF Reader
<1>14. CASE Put
  <2>1. UNCHANGED << running, rxVars >>
    BY <1>14 DEF Put, Store
  <2>2. /\ app.pc = "put" /\ app' \in AppType /\ app'.pc \in {"idle", "room"}
        /\ Asks(app')
    BY <1>1, <1>14, PutSteps
  <2> QED
    BY <2>1, <2>2, Aside DEF Reader
<1>15. CASE Mark \/ Announce \/ Tell \/ SetOngoing
  <2>1. UNCHANGED << running, rxVars >>
    BY <1>15 DEF Mark, Announce, Tell, SetOngoing, rxVars
  <2>2. /\ app.pc \in {"mark", "notify", "tell", "store"} /\ app' \in AppType
        /\ app'.pc \in {"notify", "tell", "store", "idle"} /\ Asks(app')
    BY <1>1, <1>15, SignalSteps
  <2> QED
    BY <2>1, <2>2, Aside DEF Reader
<1> QED
  BY <1>2, <1>3, <1>4, <1>5, <1>6, <1>7, <1>8, <1>9, <1>10, <1>11, <1>12,
     <1>13, <1>14, <1>15 DEF Next, Step

(***************************************************************************)
(* The sending side.                                                       *)
(***************************************************************************)
\* A record of the transmit buffers, field by field.
LEMMA TxFields ==
  ASSUME NEW t \in TxType
  PROVE  /\ t.nb \in [Two -> Int] /\ t.sel \in Two /\ t.both \in BOOLEAN
         /\ t.on \in BOOLEAN /\ t.sof \in Nat /\ t.zlp \in Nat
         /\ First(t) \in Two /\ First(t) # t.sel /\ Other(First(t)) = t.sel
BY Others DEF TxType, First

\* The buffers change places.
LEMMA Swaps ==
  ASSUME NEW t \in TxType, NEW u \in TxType, NEW m, NEW w, NEW k,
         Stored(t, m, w, k), t.nb[First(t)] = 0,
         u.nb = t.nb, u.sel = First(t), u.on = TRUE \/ u.both = TRUE
  PROVE  Stored(u, m, w, k)
<1>1. First(u) = t.sel /\ t.sel \in Two
  BY TxFields DEF First
<1>2. /\ w \in Nat /\ k \in Nat
      /\ t.nb[t.sel] \in 0..Size /\ t.nb[t.sel] = w - k
      /\ \A i \in 0..(Size - 1) : i < t.nb[t.sel] => m[Place(t.sel) + i] = k + 0 + 1 + i
  BY <1>1, Sizes DEF Stored
<1>3. \A i \in 0..(Size - 1) : k + 0 + 1 + i = k + 1 + i
  BY <1>2
<1>4. u.nb[First(u)] + u.nb[u.sel] = w - k
  BY <1>1, <1>2, Sizes
<1>5. \A i \in 0..(Size - 1) :
        i < u.nb[First(u)] => m[Place(First(u)) + i] = k + 1 + i
  BY <1>1, <1>2, <1>3
<1>6. \A i \in 0..(Size - 1) : ~(i < u.nb[u.sel])
  BY Sizes
<1>7. \A b \in Two : u.nb[b] \in 0..Size
  BY DEF Stored
<1> QED
  BY <1>2, <1>4, <1>5, <1>6, <1>7 DEF Stored

\* A transfer that ends or a new frame may begin the next transfer.
LEMMA TxSends ==
  ASSUME NEW t \in TxType, frame' \in Nat, TxSend(t)
  PROVE  /\ tx' \in TxType /\ tx'.nb = t.nb /\ tx'.both = t.both
         /\ \/ tx'.sel = t.sel /\ tx'.on = t.on /\ txJob' = None
            \/ /\ ~t.on /\ tx'.on = TRUE
               /\ txJob' = ToSend(t) /\ tx'.sel = Other(ToSend(t))
<1>1. CASE Waits(t)
  BY <1>1 DEF TxSend
<1>2. CASE ~Waits(t) /\ Starved(t)
  <2> DEFINE z == t.zlp + 1
  <2>1. tx' = [t EXCEPT !.zlp = z] /\ txJob' = None
    BY <1>2 DEF TxSend
  <2>2. z \in Nat
    BY TxFields
  <2> HIDE DEF z
  <2> QED
    BY <2>1, <2>2 DEF TxType
<1>3. CASE ~Waits(t) /\ ~Starved(t)
  <2> DEFINE s == IF t.nb[ToSend(t)] # Size THEN frame' ELSE 0
             o == Other(ToSend(t))
  <2>1. /\ tx' = [t EXCEPT !.zlp = 0, !.on = TRUE, !.sel = o, !.sof = s]
        /\ txJob' = ToSend(t) /\ ~t.on
    BY <1>3 DEF TxSend, Launch, Waits
  <2>2. s \in Nat /\ o \in Two
    BY TxFields, Others DEF ToSend
  <2> HIDE DEF s, o
  <2>3. /\ tx' \in TxType /\ tx'.nb = t.nb /\ tx'.both = t.both /\ tx'.on = TRUE
        /\ tx'.sel = o
    BY <2>1, <2>2 DEF TxType
  <2> QED
    BY <2>1, <2>3 DEF o
<1> QED
  BY <1>1, <1>2, <1>3

\* The next transfer, if any, is of the buffer that begins with the oldest byte.
LEMMA SendsInOrder ==
  ASSUME NEW t \in TxType, frame' \in Nat, TxSend(t),
         NEW m, NEW w, NEW k, Stored(t, m, w, k)
  PROVE  /\ Stored(tx', m, w, k)
         /\ txJob' # None => txJob' = First(tx') /\ tx'.on
<1>1. /\ tx' \in TxType /\ tx'.nb = t.nb /\ tx'.both = t.both
      /\ \/ tx'.sel = t.sel /\ tx'.on = t.on /\ txJob' = None
         \/ /\ ~t.on /\ tx'.on = TRUE
            /\ txJob' = ToSend(t) /\ tx'.sel = Other(ToSend(t))
  BY TxSends
<1>2. CASE tx'.sel = t.sel /\ tx'.on = t.on /\ txJob' = None
  BY <1>1, <1>2 DEF Stored, First
<1>3. CASE /\ ~t.on /\ tx'.on = TRUE
           /\ txJob' = ToSend(t) /\ tx'.sel = Other(ToSend(t))
  <2>1. ToSend(t) \in Two /\ txJob' = First(tx')
    BY <1>3, TxFields, Others DEF ToSend, First
  <2>2. CASE t.both
    <3>1. tx'.sel = t.sel
      BY <1>3, <2>2, TxFields DEF ToSend, First
    <3> QED
      BY <1>1, <1>3, <2>1, <3>1 DEF Stored, First
  <2>3. CASE ~t.both
    <3>1. tx'.sel = First(t) /\ t.nb[First(t)] = 0
      BY <1>3, <2>3 DEF ToSend, First, Stored
    <3> QED
      BY <1>1, <1>3, <2>1, <3>1, Swaps
  <2> QED
    BY <2>2, <2>3
<1> QED
  BY <1>1, <1>2, <1>3

\* The buffer that was sent is empty.
LEMMA SentFields ==
  ASSUME NEW t \in TxType
  PROVE  /\ Sent(t) \in TxType /\ Sent(t).sel = t.sel
         /\ Sent(t).both = FALSE /\ Sent(t).on = FALSE
         /\ Sent(t).nb[First(t)] = 0 /\ Sent(t).nb[t.sel] = t.nb[t.sel]
<1> DEFINE f == [t.nb EXCEPT ![Other(t.sel)] = 0]
<1>1. Sent(t) = [t EXCEPT !.nb = f, !.both = FALSE, !.on = FALSE]
  BY DEF Sent
<1>2. f \in [Two -> Int] /\ f[First(t)] = 0 /\ f[t.sel] = t.nb[t.sel]
  BY TxFields DEF First
<1> HIDE DEF f
<1>3. /\ Sent(t) \in TxType /\ Sent(t).nb = f /\ Sent(t).sel = t.sel
      /\ Sent(t).both = FALSE /\ Sent(t).on = FALSE
  BY <1>1, <1>2 DEF TxType
<1> QED
  BY <1>2, <1>3

\* Where the last byte of a buffer is.
LEMMA Places == \A b \in Two : b * Size = Place(b) /\ Place(b) \in Nat /\ Place(b) <= Size
BY Sizes DEF Two, Place

\* The last byte of the buffer that was sent.
LEMMA LastSent ==
  ASSUME Stored(tx, mem, wrote, taken), tx \in TxType
  PROVE  LET b == First(tx)
         IN  (IF tx.nb[b] = 0 THEN taken ELSE Contents(b)[tx.nb[b]])
               = taken + tx.nb[b]
<1> DEFINE b == First(tx)
           n == tx.nb[b]
<1>1. b \in Two /\ n \in 0..Size /\ taken \in Nat
  BY TxFields DEF Stored
<1>2. n \in Nat /\ n <= Size
  BY <1>1, Sizes
<1>3. CASE n = 0
  BY <1>1, <1>3
<1>4. CASE n # 0
  <2>1. n \in 1..n /\ n - 1 \in 0..(Size - 1) /\ n - 1 < n
    BY <1>2, <1>4, Sizes
  <2>2. mem[Place(b) + (n - 1)] = taken + 1 + (n - 1)
    BY <2>1 DEF Stored
  <2>3. Contents(b)[n] = mem[b * Size + n - 1]
    BY <2>1 DEF Contents
  <2>4. b * Size + n - 1 = Place(b) + (n - 1) /\ taken + 1 + (n - 1) = taken + n
    BY <1>1, <1>2, Places
  <2> QED
    BY <1>4, <2>2, <2>3, <2>4
<1> QED
  BY <1>3, <1>4

\* The buffer that was sent leaves the other one, which comes next.
LEMMA SentInOrder ==
  ASSUME tx \in TxType, Stored(tx, mem, wrote, taken)
  PROVE  Stored(Sent(tx), mem, wrote, taken + tx.nb[First(tx)])
<1> DEFINE n == tx.nb[First(tx)]
           k == taken + n
           s == Sent(tx)
<1>1. /\ s \in TxType /\ s.sel = tx.sel
      /\ s.both = FALSE /\ s.on = FALSE
      /\ s.nb[First(tx)] = 0 /\ s.nb[tx.sel] = tx.nb[tx.sel]
  BY SentFields
<1>2. /\ First(tx) \in Two /\ tx.sel \in Two /\ First(s) = First(tx)
      /\ \A b \in Two : b = tx.sel \/ b = First(tx)
  BY <1>1, TxFields, Others DEF First
<1>3. /\ wrote \in Nat /\ taken \in Nat /\ n \in 0..Size
      /\ tx.nb[tx.sel] \in 0..Size /\ n + tx.nb[tx.sel] = wrote - taken
      /\ \A i \in 0..(Size - 1) : i < tx.nb[tx.sel] => mem[Place(tx.sel) + i] = taken + n + 1 + i
  BY <1>2 DEF Stored
<1> HIDE DEF n, s
<1>4. n \in Nat /\ k \in Nat
  BY <1>3, Sizes
<1>5. \A b \in Two : s.nb[b] \in 0..Size
  BY <1>1, <1>2, <1>3, Sizes
<1>6. s.nb[First(s)] + s.nb[s.sel] = wrote - k
  BY <1>1, <1>2, <1>3, <1>4, Sizes
<1>7. \A i \in 0..(Size - 1) : ~(i < s.nb[First(s)])
  BY <1>1, <1>2, Sizes
<1>8. \A i \in 0..(Size - 1) :
        i < s.nb[s.sel] => mem[Place(s.sel) + i] = k + s.nb[First(s)] + 1 + i
  <2>1. \A i \in 0..(Size - 1) : k + s.nb[First(s)] + 1 + i = taken + n + 1 + i
    BY <1>1, <1>2, <1>3, <1>4, Sizes
  <2> QED
    BY <1>1, <1>3, <2>1
<1>9. s.nb[First(s)] = 0
  BY <1>1, <1>2
<1> HIDE DEF k
<1>10. Stored(s, mem, wrote, k)
  BY <1>3, <1>4, <1>5, <1>6, <1>7, <1>8, <1>9 DEF Stored
<1> QED
  BY <1>10 DEF k, n, s

\* A new session forgets what was not sent.
LEMMA ResetFields ==
  ASSUME tx \in TxType
  PROVE  /\ TxReset \in TxType /\ TxReset.nb = [b \in Two |-> 0]
         /\ TxReset.sel = 0 /\ TxReset.both = FALSE /\ TxReset.on = FALSE
<1>1. [b \in Two |-> 0] \in [Two -> Int] /\ 0 \in Two
  BY DEF Two
<1> QED
  BY <1>1 DEF TxReset, TxType

\* A new session holds nothing of what was written before.
LEMMA ResetInOrder ==
  ASSUME tx \in TxType, NEW w \in Nat
  PROVE  Stored(TxReset, mem, w, w)
<1>1. /\ TxReset \in TxType /\ TxReset.nb = [b \in Two |-> 0]
      /\ TxReset.sel = 0 /\ TxReset.both = FALSE /\ TxReset.on = FALSE
  BY ResetFields
<1>2. First(TxReset) \in Two /\ TxReset.sel \in Two
  BY <1>1, TxFields
<1>3. \A b \in Two : TxReset.nb[b] = 0
  BY <1>1
<1> HIDE DEF TxReset
<1>4. \A i \in 0..(Size - 1) : ~(i < 0)
  BY Sizes
<1> QED
  BY <1>1, <1>2, <1>3, <1>4, Sizes DEF Stored

\* The application moves on to the other buffer.
LEMMA MovedFields ==
  ASSUME NEW t \in TxType
  PROVE  /\ Moved(t) \in TxType /\ Moved(t).nb = t.nb /\ Moved(t).on = t.on
         /\ \/ Moved(t) = t
            \/ /\ ~t.on /\ ~t.both
               /\ Moved(t).sel = First(t) /\ Moved(t).both = TRUE
<1>1. CASE ~Moves(t)
  BY <1>1 DEF Moved
<1>2. CASE Moves(t)
  <2>1. Moved(t) = [t EXCEPT !.both = TRUE, !.sel = First(t)]
    BY <1>2 DEF Moved, First
  <2>2. First(t) \in Two
    BY TxFields
  <2> QED
    BY <1>2, <2>1, <2>2 DEF Moves, TxType
<1> QED
  BY <1>1, <1>2

\* Moving on keeps the order, the other buffer is empty.
LEMMA MovedInOrder ==
  ASSUME NEW t \in TxType, NEW m, NEW w, NEW k, Stored(t, m, w, k)
  PROVE  Stored(Moved(t), m, w, k)
<1> DEFINE u == Moved(t)
<1>1. /\ u \in TxType /\ u.nb = t.nb /\ u.on = t.on
      /\ \/ u = t
         \/ ~t.on /\ ~t.both /\ u.sel = First(t) /\ u.both = TRUE
  BY MovedFields
<1> HIDE DEF u
<1>2. CASE u = t
  BY <1>2 DEF u
<1>3. CASE ~t.on /\ ~t.both /\ u.sel = First(t) /\ u.both = TRUE
  <2>1. t.nb[First(t)] = 0
    BY <1>3 DEF Stored
  <2>2. Stored(u, m, w, k)
    BY <1>1, <1>3, <2>1, Swaps
  <2> QED
    BY <2>2 DEF u
<1> QED
  BY <1>1, <1>2, <1>3

\* Bytes are written behind those of the buffer in use.
LEMMA StoreTypes ==
  ASSUME TxTyped, NEW n \in Int, Store(n)
  PROVE  /\ tx' \in TxType /\ wrote' = wrote + n /\ wrote' \in Int
         /\ mem' \in [0..(3 * Size - 1) -> Int]
         /\ tx'.sel = tx.sel /\ tx'.on = tx.on /\ tx'.both = tx.both
         /\ tx'.nb[tx.sel] = tx.nb[tx.sel] + n
         /\ tx'.nb[First(tx)] = tx.nb[First(tx)]
<1> DEFINE c == tx.nb[tx.sel] + n
           f == [tx.nb EXCEPT ![tx.sel] = c]
           at == tx.sel * Size + tx.nb[tx.sel]
<1>1. /\ tx' = [tx EXCEPT !.nb = f] /\ wrote' = wrote + n
      /\ mem' = [i \in DOMAIN mem |->
                   IF i \in at..(at + n - 1) THEN wrote + 1 + i - at ELSE mem[i]]
  BY DEF Store
<1>2. /\ tx \in TxType /\ mem \in [0..(3 * Size - 1) -> Int] /\ wrote \in Int
      /\ tx.nb[tx.sel] \in Int /\ tx.sel \in Two /\ First(tx) \in Two
      /\ First(tx) # tx.sel
  BY TxFields DEF TxTyped
<1>3. c \in Int /\ at \in Int
  <2>1. tx.sel * Size \in Int
    BY <1>2, Places, Sizes
  <2> QED
    BY <1>2, <2>1
<1> HIDE DEF c, at
<1>4. f \in [Two -> Int] /\ f[tx.sel] = c /\ f[First(tx)] = tx.nb[First(tx)]
  BY <1>2, <1>3, TxFields
<1> HIDE DEF f
<1>5. /\ tx' \in TxType /\ tx'.nb = f /\ tx'.sel = tx.sel /\ tx'.on = tx.on
      /\ tx'.both = tx.both
  BY <1>1, <1>2, <1>4 DEF TxType
<1>6. mem' \in [0..(3 * Size - 1) -> Int]
  <2>1. \A i \in 0..(3 * Size - 1) : wrote + 1 + i - at \in Int /\ mem[i] \in Int
    BY <1>2, <1>3, Sizes
  <2>2. DOMAIN mem = 0..(3 * Size - 1)
    BY <1>2
  <2> QED
    BY <1>1, <2>1, <2>2
<1> QED
  BY <1>1, <1>2, <1>4, <1>5, <1>6 DEF c

\* A write that has room continues the order.
LEMMA StoreInOrder ==
  ASSUME TxTyped, Stored(tx, mem, wrote, taken), NEW n \in Nat, Store(n),
         n <= Size - tx.nb[tx.sel]
  PROVE  Stored(tx', mem', wrote', taken)
<1> DEFINE a == tx.nb[tx.sel]
           o == First(tx)
           b == tx.nb[o]
           at == tx.sel * Size + a
<1>1. /\ tx' \in TxType /\ wrote' = wrote + n
      /\ tx'.sel = tx.sel /\ tx'.on = tx.on /\ tx'.both = tx.both
      /\ tx'.nb[tx.sel] = a + n /\ tx'.nb[o] = b
  BY StoreTypes
<1>2. /\ tx \in TxType /\ mem \in [0..(3 * Size - 1) -> Int]
      /\ tx.sel \in Two /\ o \in Two /\ o # tx.sel /\ First(tx') = o
      /\ \A c \in Two : c = tx.sel \/ c = o
  BY <1>1, TxFields, Others DEF TxTyped, First
<1>3. /\ wrote \in Nat /\ taken \in Nat /\ a \in 0..Size /\ b \in 0..Size
      /\ b + a = wrote - taken
      /\ \A i \in 0..(Size - 1) : i < b => mem[Place(o) + i] = taken + 1 + i
      /\ \A i \in 0..(Size - 1) : i < a => mem[Place(tx.sel) + i] = taken + b + 1 + i
      /\ ~tx.on /\ ~tx.both => b = 0
  BY <1>2 DEF Stored
<1>4. /\ mem' = [i \in DOMAIN mem |->
                   IF i \in at..(at + n - 1) THEN wrote + 1 + i - at ELSE mem[i]]
      /\ DOMAIN mem = 0..(3 * Size - 1)
  BY <1>2 DEF Store
<1>5. n <= Size - a
  OBVIOUS
<1>6. /\ Place(tx.sel) \in Nat /\ Place(o) \in Nat
      /\ \/ Place(tx.sel) = 0 /\ Place(o) = Size
         \/ Place(tx.sel) = Size /\ Place(o) = 0
      /\ at = Place(tx.sel) + a
  BY <1>2, Places DEF Place, Two
<1> DEFINE p == Place(tx.sel)
           q == Place(o)
<1> HIDE DEF a, o, b, at, p, q
<1>7. a \in Nat /\ b \in Nat /\ a <= Size /\ b <= Size /\ p \in Nat /\ q \in Nat
      /\ ((p = 0 /\ q = Size) \/ (p = Size /\ q = 0)) /\ at = p + a
  <2>1. a \in Nat /\ b \in Nat /\ a <= Size /\ b <= Size
    BY <1>3, Sizes
  <2>2. /\ p \in Nat /\ q \in Nat /\ at = p + a
        /\ (p = 0 /\ q = Size) \/ (p = Size /\ q = 0)
    BY <1>6 DEF p, q
  <2> QED
    BY <2>1, <2>2
<1>8. \A i \in 0..(Size - 1) : i < b => mem'[q + i] = taken + 1 + i
  <2> TAKE i \in 0..(Size - 1)
  <2> SUFFICES ASSUME i < b PROVE mem'[q + i] = taken + 1 + i
    OBVIOUS
  <2>1. q + i \in 0..(3 * Size - 1) /\ q + i \notin at..(at + n - 1)
    BY <1>5, <1>7, Sizes
  <2>2. mem'[q + i] = mem[q + i]
    BY <1>4, <2>1
  <2> QED
    BY <1>3, <2>2 DEF q
<1>9. \A i \in 0..(Size - 1) : i < a + n => mem'[p + i] = taken + b + 1 + i
  <2> TAKE i \in 0..(Size - 1)
  <2> SUFFICES ASSUME i < a + n PROVE mem'[p + i] = taken + b + 1 + i
    OBVIOUS
  <2>1. p + i \in 0..(3 * Size - 1)
    BY <1>7, Sizes
  <2>2. CASE i < a
    <3>1. p + i \notin at..(at + n - 1)
      BY <1>7, <2>2, Sizes
    <3>2. mem'[p + i] = mem[p + i]
      BY <1>4, <2>1, <3>1
    <3> QED
      BY <1>3, <2>2, <3>2 DEF p
  <2>3. CASE ~(i < a)
    <3>1. p + i \in at..(at + n - 1)
      BY <1>7, <2>3, Sizes
    <3>2. mem'[p + i] = wrote + 1 + (p + i) - at
      BY <1>4, <2>1, <3>1
    <3>3. wrote + 1 + (p + i) - at = taken + b + 1 + i
      BY <1>3, <1>7, Sizes
    <3> QED
      BY <3>2, <3>3
  <2> QED
    BY <2>2, <2>3
<1>10. \A c \in Two : tx'.nb[c] \in 0..Size
  <2>1. a + n \in 0..Size
    BY <1>5, <1>7, Sizes
  <2> QED
    BY <1>1, <1>2, <1>3, <2>1
<1>11. wrote' \in Nat /\ b + (a + n) = wrote' - taken
  BY <1>1, <1>3, <1>7
<1> QED
  BY <1>1, <1>2, <1>3, <1>8, <1>9, <1>10, <1>11 DEF Stored, p, q

(***************************************************************************)
(* Every step.                                                             *)
(***************************************************************************)
\* Every step keeps the sending side.
LEMMA TxStep ==
  ASSUME TxSide, RxTyped, [Next]_vars
  PROVE  TxSide'
<1>1. /\ TxTyped /\ tx \in TxType /\ frame \in Nat /\ wrote \in Int
      /\ mem \in [0..(3 * Size - 1) -> Int] /\ overrun \in BOOLEAN
      /\ overrun \/ Packed
  BY DEF TxSide, TxTyped
<1>2. ASSUME frame' \in Nat, UNCHANGED << mem, wrote, overrun >>,
             NEW t \in TxType, TxSend(t),
             overrun \/ Stored(t, mem, wrote, taken')
      PROVE  TxSide'
  <2>1. tx' \in TxType
    BY <1>2, TxSends
  <2>2. CASE overrun
    BY <1>1, <1>2, <2>1, <2>2 DEF TxSide, TxTyped
  <2>3. CASE Stored(t, mem, wrote, taken')
    <3>1. /\ Stored(tx', mem, wrote, taken')
          /\ txJob' # None => txJob' = First(tx') /\ tx'.on
      BY <1>2, <2>3, SendsInOrder
    <3> QED
      BY <1>1, <1>2, <2>1, <3>1 DEF TxSide, TxTyped, Packed
  <2> QED
    BY <1>2, <2>2, <2>3
<1>3. ASSUME UNCHANGED << txVars, frame >> PROVE TxSide'
  BY <1>1, <1>3 DEF txVars, TxSide, TxTyped, Packed
<1>4. CASE Sof
  <2>1. frame' \in Nat
    <3>1. Frames \in Nat \ {0} /\ frame + 1 \in Int
      BY <1>1, CdcAssumption
    <3>2. frame' = (frame + 1) % Frames
      BY <1>4 DEF Sof
    <3> QED
      BY <3>1, <3>2
  <2>2. UNCHANGED << mem, wrote, taken, overrun >>
    BY <1>4 DEF Sof
  <2>3. CASE TxSend(tx)
    BY <1>1, <1>2, <2>1, <2>2, <2>3 DEF Packed
  <2>4. CASE UNCHANGED << tx, txJob >>
    BY <1>1, <2>1, <2>2, <2>4 DEF TxSide, TxTyped, Packed
  <2> QED
    BY <1>4, <2>3, <2>4 DEF Sof
<1>5. CASE DataSent
  <2>1. /\ txJob # None /\ frame' = frame /\ TxSend(Sent(tx))
        /\ taken' = IF tx.nb[txJob] = 0 THEN taken ELSE Contents(txJob)[tx.nb[txJob]]
        /\ UNCHANGED << mem, wrote, overrun >>
    BY <1>5 DEF DataSent
  <2>2. Sent(tx) \in TxType
    BY <1>1, SentFields
  <2>3. ASSUME Packed PROVE Stored(Sent(tx), mem, wrote, taken')
    <3>1. txJob = First(tx) /\ Stored(tx, mem, wrote, taken)
      BY <2>1, <2>3 DEF Packed
    <3>2. taken' = taken + tx.nb[First(tx)]
      BY <1>1, <2>1, <3>1, LastSent
    <3> QED
      BY <1>1, <3>1, <3>2, SentInOrder
  <2> QED
    BY <1>1, <1>2, <2>1, <2>2, <2>3
<1>6. CASE Enable
  <2>1. /\ frame' = frame /\ TxSend(TxReset) /\ taken' = wrote
        /\ UNCHANGED << mem, wrote, overrun >>
    BY <1>6 DEF Enable
  <2>2. TxReset \in TxType
    BY <1>1, ResetFields
  <2>3. ASSUME Packed PROVE Stored(TxReset, mem, wrote, taken')
    <3>1. wrote \in Nat
      BY <2>3 DEF Packed, Stored
    <3> QED
      BY <1>1, <2>1, <3>1, ResetInOrder
  <2> QED
    BY <1>1, <1>2, <2>1, <2>2, <2>3
<1>7. CASE Disable
  <2>1. txJob' = None /\ UNCHANGED << frame, tx, mem, wrote, taken, overrun >>
    BY <1>7 DEF Disable
  <2> QED
    BY <1>1, <2>1 DEF TxSide, TxTyped, Packed
<1>8. CASE Ready
  <2>1. tx' = Moved(tx) /\ UNCHANGED << frame, mem, txJob, wrote, taken, overrun >>
    BY <1>8 DEF Ready
  <2>2. /\ tx' \in TxType
        /\ tx' = tx \/ ~tx.on
    BY <1>1, <2>1, MovedFields
  <2>3. ASSUME Packed PROVE Packed'
    <3>1. Stored(tx', mem, wrote, taken)
      BY <1>1, <2>1, <2>3, MovedInOrder DEF Packed
    <3>2. txJob # None => tx' = tx
      BY <2>2, <2>3 DEF Packed
    <3> QED
      BY <2>1, <2>3, <3>1, <3>2 DEF Packed
  <2> QED
    BY <1>1, <2>1, <2>2, <2>3 DEF TxSide, TxTyped
<1>9. ASSUME NEW n \in Int, Store(n), UNCHANGED frame, overrun' \in BOOLEAN,
             (n >= 0 /\ n <= Size - tx.nb[tx.sel]) \/ overrun',
             overrun => overrun'
      PROVE  TxSide'
  <2>1. /\ tx' \in TxType /\ wrote' \in Int /\ mem' \in [0..(3 * Size - 1) -> Int]
        /\ tx'.sel = tx.sel /\ tx'.on = tx.on
    BY <1>1, <1>9, StoreTypes
  <2>2. txJob' = txJob /\ taken' = taken
    BY <1>9 DEF Store
  <2>3. ASSUME ~overrun' PROVE Packed'
    <3>1. Packed /\ n \in Nat /\ n <= Size - tx.nb[tx.sel]
      BY <1>1, <1>9, <2>3
    <3>2. Stored(tx', mem', wrote', taken)
      BY <1>1, <1>9, <3>1, StoreInOrder DEF Packed
    <3> QED
      BY <2>1, <2>2, <3>1, <3>2 DEF Packed, First
  <2> QED
    BY <1>1, <1>9, <2>1, <2>3 DEF TxSide, TxTyped
<1>10. CASE Copy
  <2>1. PICK n \in Int : /\ n <= Size - tx.nb[tx.sel] /\ Store(n)
                         /\ tx.nb[tx.sel] <= Size => n >= 0
    BY <1>1, <1>10, CopySteps
  <2>2. overrun' = overrun /\ frame' = frame
    BY <1>10, <2>1 DEF Copy, Store
  <2>3. Packed => tx.nb[tx.sel] <= Size
    <3>1. Packed => tx.nb[tx.sel] \in 0..Size
      BY <1>1, TxFields DEF Packed, Stored
    <3> QED
      BY <3>1, Sizes
  <2> QED
    BY <1>1, <1>9, <2>1, <2>2, <2>3
<1>11. CASE Put
  <2>1. Store(1) /\ overrun' = (overrun \/ tx.nb[tx.sel] >= Size)
    BY <1>11, PutSteps
  <2>2. frame' = frame
    BY <2>1 DEF Store
  <2>3. tx.nb[tx.sel] \in Int
    BY <1>1, TxFields
  <2>4. 1 <= Size - tx.nb[tx.sel] \/ tx.nb[tx.sel] >= Size
    BY <2>3, Sizes
  <2>5. overrun' \in BOOLEAN /\ (overrun => overrun')
    BY <2>1
  <2>6. 1 \in Int /\ ((1 >= 0 /\ 1 <= Size - tx.nb[tx.sel]) \/ overrun')
    <3>1. tx.nb[tx.sel] >= Size => overrun'
      BY <2>1
    <3> QED
      BY <2>4, <3>1
  <2> QED
    BY <1>9, <2>1, <2>2, <2>5, <2>6
<1>12. CASE \E n \in 0..Size : DataReceived(n)
  BY <1>3, <1>12 DEF DataReceived
<1>13. CASE CommSent \/ Call \/ UNCHANGED vars
  BY <1>3, <1>13 DEF CommSent, Call, vars
<1>14. CASE Sample \/ Check \/ Load \/ Advance \/ Start \/ Arm
  BY <1>3, <1>14 DEF Sample, Check, Load, Advance, Start, Arm
<1>15. CASE Mark \/ Announce \/ Tell \/ SetOngoing
  BY <1>3, <1>15 DEF Mark, Announce, Tell, SetOngoing
<1> QED
  BY <1>4, <1>5, <1>6, <1>7, <1>8, <1>10, <1>11, <1>12, <1>13, <1>14, <1>15
     DEF Next, Step

(***************************************************************************)
(* The invariant, and the theorems.                                        *)
(***************************************************************************)
\* The invariant holds initially.
LEMMA InitHolds == Init => IInv
<1> SUFFICES ASSUME Init PROVE RxSide /\ TxSide
  BY DEF IInv
<1>1. RxSide
  <2>1. /\ rx = [buf |-> rx.buf, nb |-> rx.nb, sel |-> rx.sel, pos |-> rx.pos,
                 on |-> rx.on]
        /\ rx.buf = [b \in Two |-> [i \in 0..(Size - 1) |-> 0]]
        /\ rx.nb = [b \in Two |-> 0] /\ rx.sel = 0 /\ rx.pos = 0 /\ rx.on = FALSE
    BY DEF Init
  <2>2. rx.buf \in Buffers /\ rx.nb \in [Two -> 0..Size] /\ rx.sel \in Two
    BY <2>1, Sizes DEF Buffers, Two
  <2>3. rx \in RxType
    <3>1. rx.pos \in Nat /\ rx.on \in BOOLEAN
      <4>1. rx.on = FALSE
        BY <2>1, Zenon
      <4>2. rx.on \in BOOLEAN
        BY <4>1, Zenon
      <4> QED
        BY <2>1, <4>2
    <3> HIDE DEF Init
    <3> DEFINE f == rx.buf
               g == rx.nb
               s == rx.sel
               p == rx.pos
               o == rx.on
    <3>2. rx = [buf |-> f, nb |-> g, sel |-> s, pos |-> p, on |-> o]
      BY <2>1
    <3>3. f \in Buffers /\ g \in [Two -> 0..Size] /\ s \in Two /\ p \in Nat
          /\ o \in BOOLEAN
      BY <2>2, <3>1
    <3> HIDE DEF f, g, s, p, o
    <3> QED
      BY <3>2, <3>3 DEF RxType
  <2>4. /\ app \in AppType /\ app.pc = "idle" /\ running = FALSE /\ rxJob = None
        /\ hostSent = 0 /\ due = << >> /\ hits = 0 /\ stray = FALSE /\ wrong = FALSE
    BY AppIdle DEF Init
  <2>5. rx.nb[rx.sel] = 0 /\ rx.nb[Other(rx.sel)] = 0
    BY <2>1, <2>3, RxFields
  <2>6. ReadTo = 0 /\ Rest(rx, 0) = 0 /\ More(rx) = 0
    BY <2>1, <2>4, <2>5 DEF ReadTo, Copied, Rest, More
  <2>7. Ahead
    <3>1. due \in Seq(Nat) /\ Len(due) = 0
      BY <2>4, EmptySeq
    <3>2. Holds(rx, 0, due)
      BY <2>6, <3>1 DEF Holds
    <3> QED
      BY <2>6, <3>2 DEF Ahead
  <2>8. RxTyped /\ Served /\ Watched
    BY <2>3, <2>4, <2>5, <2>1 DEF RxTyped, Served, Watched, Copied, Asks
  <2>9. stray \in BOOLEAN
    <3>1. stray = FALSE
      BY <2>4
    <3> QED
      BY <3>1, Zenon
  <2> QED
    BY <2>4, <2>7, <2>8, <2>9 DEF RxSide, Reading
<1>2. TxSide
  <2>1. /\ tx = [nb |-> [b \in Two |-> 0], sel |-> 0, both |-> FALSE, on |-> FALSE,
                 sof |-> 0, zlp |-> 0]
        /\ mem = [i \in 0..(3 * Size - 1) |-> 0] /\ frame = 0
        /\ txJob = None /\ wrote = 0 /\ taken = 0 /\ overrun = FALSE
    BY DEF Init
  <2>2. [b \in Two |-> 0] \in [Two -> Int] /\ 0 \in Two
    BY DEF Two
  <2>3. tx \in TxType
    BY <2>1, <2>2 DEF TxType
  <2>4. TxTyped
    <3>1. mem \in [0..(3 * Size - 1) -> Int]
      BY <2>1
    <3>2. frame \in Nat /\ wrote \in Int /\ overrun \in BOOLEAN
      <4>1. overrun = FALSE
        BY <2>1, Zenon
      <4>2. overrun \in BOOLEAN
        BY <4>1, Zenon
      <4> QED
        BY <2>1, <4>2
    <3> QED
      BY <2>3, <3>1, <3>2 DEF TxTyped
  <2>5. \A b \in Two : tx.nb[b] = 0
    BY <2>1
  <2>6. First(tx) \in Two /\ tx.sel \in Two
    BY <2>3, TxFields
  <2>7. Stored(tx, mem, wrote, taken)
    <3>1. tx.nb[First(tx)] = 0 /\ tx.nb[tx.sel] = 0 /\ wrote = 0 /\ taken = 0
      BY <2>1, <2>5, <2>6
    <3>2. \A i \in 0..(Size - 1) : ~(i < 0)
      BY Sizes
    <3>3. \A b \in Two : tx.nb[b] \in 0..Size
      BY <2>5, Sizes
    <3> QED
      BY <3>1, <3>2, <3>3 DEF Stored
  <2> QED
    BY <2>1, <2>4, <2>7 DEF TxSide, Packed
<1> QED
  BY <1>1, <1>2

\* The invariant holds in every state of the specification.
LEMMA Invariant == Spec => []IInv
<1>1. Init => IInv
  BY InitHolds
<1>2. IInv /\ [Next]_vars => IInv'
  <2> SUFFICES ASSUME RxSide, TxSide, [Next]_vars PROVE RxSide' /\ TxSide'
    BY DEF IInv
  <2>1. RxTyped /\ TxTyped
    BY DEF RxSide, TxSide
  <2> QED
    BY <2>1, RxStep, TxStep
<1> QED
  BY <1>1, <1>2, PTL DEF Spec

\* A reader gets the bytes of the host in order, none twice and none skipped,
\* for buffers of any size and any interrupts between its steps, in every read
\* during which fewer than two packets arrive and no session begins, as long as
\* no transfer overwrites a buffer with bytes to read.
THEOREM ReadersServedInOrder == Spec => []ReadsInOrder
<1>1. IInv => ReadsInOrder
  BY DEF IInv, RxSide, Reading, ReadsInOrder
<1> QED
  BY <1>1, Invariant, PTL

\* The receiver never stops listening for good: while the device is configured
\* the endpoint fills the buffer that is not read (or one of the two after such
\* a transfer), or there is something to read, or the reader is about to start
\* a transfer.
THEOREM AlwaysListening == Spec => []RxServed
<1>1. IInv => RxServed
  BY DEF IInv, RxSide, RxTyped, Served, RxServed
<1> QED
  BY <1>1, Invariant, PTL

\* The two transmit buffers hold exactly the bytes that are written and not
\* taken, in order, and the endpoint sends the one that begins with the oldest,
\* unless putc has written past the end of a buffer.
THEOREM SentAsWritten == Spec => []TxInOrder
<1>1. IInv => TxInOrder
  <2> SUFFICES ASSUME TxTyped, Packed PROVE TxInOrder
    BY DEF IInv, TxSide, TxInOrder
  <2> DEFINE o == First(tx)
             c == Contents(o)
             d == Contents(tx.sel)
             a == tx.nb[o]
             b == tx.nb[tx.sel]
             n == wrote - taken
             e == [i \in 1..n |-> taken + i]
  <2>1. /\ tx \in TxType /\ o \in Two /\ tx.sel \in Two
        /\ mem \in [0..(3 * Size - 1) -> Int]
    BY TxFields DEF TxTyped
  <2>2. /\ wrote \in Nat /\ taken \in Nat /\ a \in 0..Size /\ b \in 0..Size
        /\ a + b = n
        /\ \A i \in 0..(Size - 1) : i < a => mem[Place(o) + i] = taken + 1 + i
        /\ \A i \in 0..(Size - 1) : i < b => mem[Place(tx.sel) + i] = taken + a + 1 + i
    BY <2>1 DEF Packed, Stored
  <2>3. a \in Nat /\ b \in Nat /\ n \in Nat /\ a <= Size /\ b <= Size
    BY <2>2, Sizes
  <2>4. c = [i \in 1..a |-> mem[o * Size + i - 1]]
    BY DEF Contents
  <2>5. d = [i \in 1..b |-> mem[tx.sel * Size + i - 1]]
    BY DEF Contents
  <2>6. /\ o * Size = Place(o) /\ Place(o) \in Nat
        /\ tx.sel * Size = Place(tx.sel) /\ Place(tx.sel) \in Nat
    BY <2>1, Places
  <2> HIDE DEF o, c, d, a, b, n
  <2>7. c \in [1..a -> Nat] /\ \A i \in 1..a : c[i] = taken + i
    <3>1. ASSUME NEW i \in 1..a PROVE mem[o * Size + i - 1] = taken + i
      <4>1. i - 1 \in 0..(Size - 1) /\ i - 1 < a
        BY <2>3, Sizes
      <4>2. o * Size + i - 1 = Place(o) + (i - 1) /\ taken + 1 + (i - 1) = taken + i
        BY <2>2, <2>3, <2>6
      <4> QED
        BY <2>2, <4>1, <4>2
    <3>2. \A i \in 1..a : taken + i \in Nat
      BY <2>2, <2>3
    <3> QED
      BY <2>4, <3>1, <3>2
  <2>8. d \in [1..b -> Nat] /\ \A i \in 1..b : d[i] = taken + a + i
    <3>1. ASSUME NEW i \in 1..b PROVE mem[tx.sel * Size + i - 1] = taken + a + i
      <4>1. i - 1 \in 0..(Size - 1) /\ i - 1 < b
        BY <2>3, Sizes
      <4>2. /\ tx.sel * Size + i - 1 = Place(tx.sel) + (i - 1)
            /\ taken + a + 1 + (i - 1) = taken + a + i
        BY <2>2, <2>3, <2>6
      <4> QED
        BY <2>2, <4>1, <4>2
    <3>2. \A i \in 1..b : taken + a + i \in Nat
      BY <2>2, <2>3
    <3> QED
      BY <2>5, <3>1, <3>2
  <2>9. c \in Seq(Nat) /\ Len(c) = a /\ d \in Seq(Nat) /\ Len(d) = b
    BY <2>3, <2>7, <2>8, Tuples
  <2>10. e \in [1..n -> Nat] /\ \A i \in 1..n : e[i] = taken + i
    BY <2>2, <2>3
  <2> HIDE DEF e
  <2>11. e \in Seq(Nat) /\ Len(e) = n
    BY <2>3, <2>10, Tuples
  <2>12. /\ c \o d \in Seq(Nat) /\ Len(c \o d) = a + b
         /\ \A i \in 1..(a + b) : (c \o d)[i] = IF i <= a THEN c[i] ELSE d[i - a]
    BY <2>9, ConcatProperties
  <2>13. ASSUME NEW i \in 1..n PROVE (c \o d)[i] = e[i]
    <3>1. i \in 1..(a + b)
      BY <2>2
    <3>2. CASE i <= a
      <4>1. i \in 1..a
        BY <2>3, <3>2
      <4> QED
        BY <2>7, <2>10, <2>12, <3>1, <3>2, <4>1
    <3>3. CASE ~(i <= a)
      <4>1. i - a \in 1..b /\ taken + a + (i - a) = taken + i
        BY <2>2, <2>3, <3>1, <3>3
      <4> QED
        BY <2>8, <2>10, <2>12, <3>1, <3>3, <4>1
    <3> QED
      BY <3>2, <3>3
  <2>14. c \o d = e
    BY <2>2, <2>11, <2>12, <2>13, SeqEqual
  <2>15. Contents(Other(tx.sel)) \o Contents(tx.sel)
           = [i \in 1..(wrote - taken) |-> taken + i]
    BY <2>14 DEF c, d, e, n, o, First
  <2> QED
    BY <2>15 DEF Packed, First, TxInOrder
<1> QED
  BY <1>1, Invariant, PTL
=============================================================================
