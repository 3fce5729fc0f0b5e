-------------------------- MODULE ModemStartProofs --------------------------
(***************************************************************************)
(* Theorems about ModemStart, for any number of tries, rounds, codes and   *)
(* faults: what the success of the start and of the opening of the bearer  *)
(* says of the module.                                                     *)
(***************************************************************************)
EXTENDS ModemStart, SequenceTheorems, TLAPS

Commands == Twice \cup Once
InitSteps == {"off", "toggle", "AT", "ATE0", "CREG=0", "GSN=?", "GSN", "GSN ok", "CPIN=?",
              "CPIN?", "PIN", "CREG?", "idle"}
OpenSteps == {"bearer?", "bearer ok", "contype", "apn", "SAPBR=1", "again?", "again ok", "idle"}
CloseSteps == {"SAPBR=0", "idle"}

(***************************************************************************)
(* The invariant.                                                          *)
(***************************************************************************)
\* The types that the argument needs.
Typed ==
  /\ on \in BOOLEAN /\ waiting \in BOOLEAN /\ calm \in BOOLEAN
  /\ asks \in Words \cup {"none"} /\ lock \in Words \cup {"none"}
  /\ waiting => step \notin {"off", "toggle", "idle"}
  /\ \/ op = "init" /\ step \in InitSteps
     \/ op = "open" /\ step \in OpenSteps
     \/ op = "close" /\ step \in CloseSteps

\* A module without power hears nothing and says nothing, so that the start
\* passes AT only when the module is on.
Powered ==
  /\ ~on => inbox = << >>
  /\ op = "init" /\ step \notin {"off", "toggle", "AT", "idle"} => on
  /\ op = "init" /\ step = "AT" /\ waiting /\ rx # << >> => on
  /\ op = "init" /\ step = "idle" /\ result = 0 => on

\* The answer to the command of step s.
Reply(s, lines) ==
  CASE s = "GSN" -> lines = << "IMEI", "OK" >>
    [] s = "CPIN=?" -> lines = IF lock = "none" THEN << "ERROR" >> ELSE << "OK" >>
    [] s = "CPIN?" -> lines = IF lock = "none" THEN << "ERROR" >> ELSE << lock, "OK" >>
    [] s = "PIN" -> lines = << "ERROR" >> \/ (lines = << "OK" >> /\ lock = "READY")
    [] s = "CREG?" -> \E x \in {"registered", "unregistered"} : lines = << x, "OK" >>
    [] s \in {"bearer?", "again?"} -> lines = << seen, "OK" >> /\ seen \in Bearers
    [] OTHER -> lines = << "OK" >> \/ lines = << "ERROR" >>

Replied == Reply(step, rx)

\* While nothing is lost, late or unasked, at most one command is on its way,
\* and what comes is its answer.
Asking == waiting /\ step \in Commands /\ inbox = << step >> /\ rx = << >>
Answered ==
  /\ inbox = << >>
  /\ waiting /\ step \in Commands => (rx = << >> /\ ~on) \/ Replied
  /\ step \in Listening => rx = << "OK" >>
Dialogue == calm => step = "off" \/ Asking \/ Answered

\* What the driver has learnt of the lock.
LockKnown ==
  calm /\ op = "init" =>
    /\ step \in {"CPIN?", "PIN"} => lock # "none"
    /\ step = "CREG?" => lock = "READY"
    /\ step = "idle" /\ result = 0 => lock = "READY"

\* What it has learnt of the bearer.
BearerKnown ==
  calm /\ op = "open" =>
    /\ step \in {"bearer ok", "again ok"} => status = seen /\ seen \in Bearers
    /\ step = "idle" /\ result = 0 => seen \in {"connecting", "open"}

IInv == Typed /\ Powered /\ Dialogue /\ LockKnown /\ BearerKnown

\* The bearer's state is one of four.
BearerOk == bearer \in Bearers

\* The words of a lock, spelt out.
LEMMA WordSet ==
  /\ DOMAIN Blocked = {"SIM PIN", "PH_SIM PIN", "SIM PIN2"}
  /\ \A l \in DOMAIN Blocked : Blocked[l] \in Words
  /\ Words = {"SIM PIN", "PH_SIM PIN", "SIM PIN2", "SIM PUK", "PH_SIM PUK", "SIM PUK2", "READY"}
<1>1. /\ DOMAIN Blocked = {"SIM PIN", "PH_SIM PIN", "SIM PIN2"}
      /\ Blocked["SIM PIN"] = "SIM PUK" /\ Blocked["PH_SIM PIN"] = "PH_SIM PUK"
      /\ Blocked["SIM PIN2"] = "SIM PUK2"
  BY DEF Blocked
<1>2. {Blocked[l] : l \in DOMAIN Blocked} = {"SIM PUK", "PH_SIM PUK", "SIM PUK2"}
  BY <1>1
<1> QED
  BY <1>1, <1>2 DEF Words

\* Sequences of one and of two lines.
LEMMA Lines ==
  /\ \A x : << >> \o << x >> = << x >> /\ Append(<< >>, x) = << x >>
  /\ \A x, y : << >> \o << x, y >> = << x, y >>
  /\ \A x, y : Head(<< x, y >>) = x /\ Tail(<< x, y >>) = << y >> /\ << x, y >> # << >>
  /\ \A x : Head(<< x >>) = x /\ Tail(<< x >>) = << >> /\ << x >> # << >>
OBVIOUS

\* The station starts.
LEMMA InitInvariant == Init => IInv
<1> SUFFICES ASSUME Init PROVE IInv
  OBVIOUS
<1>1. Typed
  BY ModemStartAssumption, WordSet DEF Init, Typed, InitSteps
<1> QED
  BY <1>1 DEF Init, IInv, Powered, Dialogue, LockKnown, BearerKnown

(***************************************************************************)
(* Every step keeps the invariant.                                         *)
(***************************************************************************)
\* What the answer to step s means to the driver.
Means(s, x, lines) ==
  /\ s = "CPIN=?" /\ x = "OK" => lock # "none"
  /\ s = "CPIN?" => lock # "none" /\ (x \notin {"SIM PIN", "SIM PUK"} => lock = "READY")
  /\ s = "PIN" /\ x = "OK" => lock = "READY"
  /\ s = "CREG?" => lock = "READY"
  /\ s = "GSN" => lines = << "OK" >>
  /\ s \in {"bearer?", "again?"} /\ x # "none" =>
        x = seen /\ seen \in Bearers /\ lines = << "OK" >>

\* The driver goes on to a step that sends a command or listens, when nothing
\* that contradicts the invariant is known of it.
LEMMA GotoKeeps ==
  ASSUME IInv, NEW s, Goto(s), on' = on, asks' = asks, lock' = lock, inbox' = inbox,
         seen' = seen, calm' \in BOOLEAN, calm' => calm /\ inbox = << >>, s # "idle",
         op = "init" => s \in InitSteps /\ (s \notin {"off", "toggle", "AT"} => on),
         op = "open" => s \in OpenSteps \ {"bearer ok", "again ok"},
         op # "close",
         s \in Listening /\ calm' => rx' = << "OK" >>,
         op = "init" /\ s \in {"CPIN?", "PIN"} /\ calm' => lock # "none",
         op = "init" /\ s = "CREG?" /\ calm' => lock = "READY"
  PROVE  IInv'
<1>1. step' = s /\ waiting' = FALSE /\ op' = op /\ status' = status /\ result' = result
  BY DEF Goto
<1>2. Typed'
  BY <1>1 DEF IInv, Typed
<1>3. Powered'
  BY <1>1 DEF IInv, Powered
<1>4. Dialogue'
  BY <1>1 DEF Dialogue, Answered
<1>5. LockKnown' /\ BearerKnown'
  BY <1>1 DEF LockKnown, BearerKnown
<1> QED
  BY <1>2, <1>3, <1>4, <1>5 DEF IInv

\* It returns.
LEMMA ReturnKeeps ==
  ASSUME IInv, NEW code, Return(code), on' = on, asks' = asks, lock' = lock, inbox' = inbox,
         seen' = seen, calm' \in BOOLEAN, calm' => calm /\ inbox = << >>,
         op = "init" /\ code = 0 => on,
         op = "init" /\ code = 0 /\ calm' => lock = "READY",
         op = "open" /\ code = 0 /\ calm' => seen \in {"connecting", "open"}
  PROVE  IInv'
<1>1. step' = "idle" /\ waiting' = FALSE /\ op' = op /\ status' = status /\ result' = code
  BY DEF Return
<1>2. Typed'
  BY <1>1 DEF IInv, Typed, InitSteps, OpenSteps, CloseSteps
<1>3. Powered'
  BY <1>1 DEF IInv, Powered
<1>4. Dialogue'
  BY <1>1 DEF Dialogue, Answered, Listening
<1>5. LockKnown' /\ BearerKnown'
  BY <1>1 DEF LockKnown, BearerKnown
<1> QED
  BY <1>2, <1>3, <1>4, <1>5 DEF IInv

\* It sends the command of the step again.
LEMMA RetryKeeps ==
  ASSUME IInv, Retry, step \notin Listening, on' = on, asks' = asks, lock' = lock, inbox' = inbox,
         seen' = seen, calm' \in BOOLEAN, calm' => calm /\ inbox = << >>
  PROVE  IInv'
<1>1. step' = step /\ waiting' = FALSE /\ op' = op /\ status' = status /\ result' = result
  BY DEF Retry
<1>2. Typed'
  BY <1>1 DEF IInv, Typed
<1>3. Powered'
  BY <1>1 DEF IInv, Powered
<1>4. Dialogue'
  BY <1>1 DEF Dialogue, Answered
<1>5. LockKnown' /\ BearerKnown'
  BY <1>1 DEF IInv, LockKnown, BearerKnown
<1> QED
  BY <1>2, <1>3, <1>4, <1>5 DEF IInv

\* The start goes on after an answer or a timeout.
LEMMA InitGoesOnKeeps ==
  ASSUME IInv, NEW x, op = "init", step \notin {"off", "toggle", "idle"},
         InitGoesOn(step, x), x = "OK" => on, on' = on, asks' = asks, lock' = lock,
         inbox' = inbox, seen' = seen, calm' \in BOOLEAN,
         calm' => calm /\ inbox = << >> /\ Means(step, x, rx')
  PROVE  IInv'
<1>1. CASE step = "AT"
  <2>1. (Goto("ATE0") /\ x = "OK") \/ Retry \/ Goto("toggle") \/ Return(-1)
    BY <1>1 DEF InitGoesOn, Unless, NoAnswer
  <2>2. CASE Goto("ATE0") /\ x = "OK"
    BY <2>2, GotoKeeps DEF InitSteps, Listening
  <2>3. CASE Goto("toggle")
    BY <2>3, GotoKeeps DEF InitSteps, Listening
  <2>4. CASE Retry
    BY <1>1, <2>4, RetryKeeps DEF Listening
  <2>5. CASE Return(-1)
    BY <2>5, ReturnKeeps
  <2> QED
    BY <2>1, <2>2, <2>3, <2>4, <2>5
<1>2. step # "AT" => on
  BY DEF IInv, Powered
<1>3. CASE step \in {"ATE0", "CREG=0", "GSN=?"}
  <2>1. Goto("CREG=0") \/ Goto("GSN=?") \/ Goto("GSN")
    BY <1>3 DEF InitGoesOn
  <2> QED
    BY <1>2, <1>3, <2>1, GotoKeeps DEF InitSteps, Listening
<1>4. CASE step = "GSN"
  <2>1. Goto("GSN ok")
    BY <1>4 DEF InitGoesOn
  <2> QED
    BY <1>2, <1>4, <2>1, GotoKeeps DEF InitSteps, Listening, Means
<1>5. CASE step = "GSN ok"
  <2>1. Goto("CPIN=?")
    BY <1>5 DEF InitGoesOn
  <2> QED
    BY <1>2, <1>5, <2>1, GotoKeeps DEF InitSteps, Listening
<1>6. CASE step = "CPIN=?"
  <2>1. (Goto("CPIN?") /\ x = "OK") \/ Return(1)
    BY <1>6 DEF InitGoesOn, Unless
  <2>2. CASE Goto("CPIN?") /\ x = "OK"
    BY <1>2, <1>6, <2>2, GotoKeeps DEF InitSteps, Listening, Means
  <2> QED
    BY <2>1, <2>2, ReturnKeeps
<1>7. CASE step = "CPIN?"
  <2>1. \/ Goto("PIN")
        \/ Goto("CREG?") /\ x \notin {"SIM PIN", "SIM PUK"}
        \/ Return(3) \/ Return(4)
    BY <1>7 DEF InitGoesOn, Asked
  <2>2. CASE Goto("PIN")
    BY <1>2, <1>7, <2>2, GotoKeeps DEF InitSteps, Listening, Means
  <2>3. CASE Goto("CREG?") /\ x \notin {"SIM PIN", "SIM PUK"}
    BY <1>2, <1>7, <2>3, GotoKeeps DEF InitSteps, Listening, Means
  <2>4. CASE Return(3)
    BY <2>4, ReturnKeeps
  <2>5. CASE Return(4)
    BY <2>5, ReturnKeeps
  <2> QED
    BY <2>1, <2>2, <2>3, <2>4, <2>5
<1>8. CASE step = "PIN"
  <2>1. (Goto("CREG?") /\ x = "OK") \/ Return(3)
    BY <1>8 DEF InitGoesOn, Unless
  <2>2. CASE Goto("CREG?") /\ x = "OK"
    BY <1>2, <1>8, <2>2, GotoKeeps DEF InitSteps, Listening, Means
  <2> QED
    BY <2>1, <2>2, ReturnKeeps
<1>9. CASE step = "CREG?"
  <2>1. Return(0) \/ Round("CREG?") \/ Start("init", "off")
    BY <1>9 DEF InitGoesOn
  <2>2. CASE Return(0)
    BY <1>2, <1>9, <2>2, ReturnKeeps DEF Means
  <2>3. CASE Round("CREG?") /\ ~Return(0)
    <3>1. step' = step /\ waiting' = FALSE /\ op' = op /\ result' = result
      BY <1>9, <2>3 DEF Round
    <3> QED
      BY <1>2, <1>9, <3>1 DEF IInv, Typed, Powered, Dialogue, Answered, LockKnown,
         BearerKnown, Listening, Means
  <2>4. CASE Start("init", "off")
    <3>1. step' = "off" /\ waiting' = FALSE /\ op' = op
      BY <2>4 DEF Start
    <3> QED
      BY <3>1 DEF IInv, Typed, Powered, Dialogue, LockKnown, BearerKnown, InitSteps
  <2> QED
    BY <2>1, <2>2, <2>3, <2>4
<1> QED
  BY <1>1, <1>3, <1>4, <1>5, <1>6, <1>7, <1>8, <1>9 DEF IInv, Typed, InitSteps

\* The opening of the bearer goes on.
LEMMA OpenGoesOnKeeps ==
  ASSUME IInv, NEW x, op = "open", step # "idle", OpenGoesOn(step, x), on' = on, asks' = asks,
         lock' = lock, inbox' = inbox, seen' = seen, calm' \in BOOLEAN,
         calm' => calm /\ inbox = << >> /\ Means(step, x, rx')
  PROVE  IInv'
<1>1. CASE step \in {"bearer?", "again?"}
  <2>1. \/ Return(1)
        \/ ReadStatus(x, "bearer ok") /\ x # "none"
        \/ ReadStatus(x, "again ok") /\ x # "none"
    BY <1>1 DEF OpenGoesOn
  <2>2. CASE Return(1)
    BY <2>2, ReturnKeeps
  <2>3. ASSUME NEW s \in {"bearer ok", "again ok"}, ReadStatus(x, s), x # "none"
        PROVE  IInv'
    <3>1. step' = s /\ waiting' = FALSE /\ op' = op /\ status' = x /\ result' = result
      BY <2>3 DEF ReadStatus
    <3>2. calm' => x = seen /\ seen \in Bearers /\ rx' = << "OK" >> /\ inbox = << >>
      BY <1>1, <2>3 DEF Means
    <3>3. Typed' /\ Powered' /\ LockKnown'
      BY <3>1 DEF IInv, Typed, Powered, LockKnown, OpenSteps
    <3>4. Dialogue' /\ BearerKnown'
      BY <3>1, <3>2 DEF Dialogue, Answered, BearerKnown
    <3> QED
      BY <3>3, <3>4 DEF IInv
  <2> QED
    BY <2>1, <2>2, <2>3
<1>2. CASE step = "bearer ok"
  <2>1. \/ Goto("contype") \/ Return(1) \/ Return(2)
        \/ Return(0) /\ status \notin {"closed", "closing"}
    BY <1>2 DEF OpenGoesOn, Unless
  <2>2. CASE Goto("contype")
    BY <2>2, GotoKeeps DEF OpenSteps, Listening
  <2>3. CASE Return(0) /\ status \notin {"closed", "closing"}
    <3>1. calm' => seen \in {"connecting", "open"}
      BY <1>2, <2>3 DEF IInv, BearerKnown, Bearers
    <3> QED
      BY <2>3, <3>1, ReturnKeeps
  <2>4. CASE Return(1)
    BY <2>4, ReturnKeeps
  <2>5. CASE Return(2)
    BY <2>5, ReturnKeeps
  <2> QED
    BY <2>1, <2>2, <2>3, <2>4, <2>5
<1>3. CASE step \in {"contype", "apn", "SAPBR=1"}
  <2>1. Goto("apn") \/ Goto("SAPBR=1") \/ Goto("again?") \/ Return(1)
    BY <1>3 DEF OpenGoesOn, Unless
  <2>2. CASE Return(1)
    BY <2>2, ReturnKeeps
  <2>3. ASSUME NEW s \in {"apn", "SAPBR=1", "again?"}, Goto(s)
        PROVE  IInv'
    BY <2>3, GotoKeeps DEF OpenSteps, Listening
  <2> QED
    BY <2>1, <2>2, <2>3
<1>4. CASE step = "again ok"
  <2>1. Return(1) \/ (status \notin {"closed", "closing"} /\ (Return(0) \/ Round("again?")))
    BY <1>4 DEF OpenGoesOn, Again, Unless
  <2>2. CASE Return(1)
    BY <2>2, ReturnKeeps
  <2>3. status \notin {"closed", "closing"} /\ calm' => seen \in {"connecting", "open"}
    BY <1>4 DEF IInv, BearerKnown, Bearers
  <2>4. CASE status \notin {"closed", "closing"} /\ Return(0)
    BY <2>3, <2>4, ReturnKeeps
  <2>5. CASE Round("again?") /\ ~Return(0)
    <3>1. step' = "again?" /\ waiting' = FALSE /\ op' = op
      BY <2>5 DEF Round
    <3>2. Typed' /\ Powered' /\ LockKnown' /\ BearerKnown'
      BY <3>1 DEF IInv, Typed, Powered, LockKnown, BearerKnown, OpenSteps
    <3>3. Dialogue'
      BY <3>1 DEF Dialogue, Answered, Listening
    <3> QED
      BY <3>2, <3>3 DEF IInv
  <2> QED
    BY <2>1, <2>2, <2>4, <2>5
<1> QED
  BY <1>1, <1>2, <1>3, <1>4 DEF IInv, Typed, OpenSteps

\* Whatever function runs, it goes on after an answer or a timeout.
LEMMA GoesOnKeeps ==
  ASSUME IInv, NEW x, step \notin {"off", "toggle", "idle"},
         GoesOn(step, x), op = "init" /\ x = "OK" => on, on' = on, asks' = asks, lock' = lock,
         inbox' = inbox, seen' = seen, calm' \in BOOLEAN,
         calm' => calm /\ inbox = << >> /\ Means(step, x, rx')
  PROVE  IInv'
<1>1. CASE op = "init"
  BY <1>1, InitGoesOnKeeps DEF GoesOn
<1>2. CASE op = "open"
  BY <1>2, OpenGoesOnKeeps DEF GoesOn
<1>3. CASE op = "close"
  <2>1. PICK code : Return(code)
    BY <1>3 DEF GoesOn
  <2> QED
    BY <1>3, <2>1, ReturnKeeps
<1> QED
  BY <1>1, <1>2, <1>3 DEF IInv, Typed

\* Only steps that send or listen wait.
LEMMA StepKinds ==
  ASSUME Typed, step \notin {"off", "toggle", "idle"}
  PROVE  /\ step \in Commands \cup Listening /\ (step \in Commands <=> step \notin Listening)
BY DEF Typed, InitSteps, OpenSteps, CloseSteps, Commands, Twice, Once, Listening

\* The word that is found in the answer to AT+CPIN?.
LEMMA FoundWord ==
  /\ \A l \in Words : Found(l) \in Words
  /\ \A l \in Words : Found(l) \notin {"SIM PIN", "SIM PUK"} => l = "READY"
  /\ Found("OK") = "OK" /\ Found("ERROR") = "ERROR"
BY WordSet DEF Found

\* An answer is understood, and means what the invariant says.
LEMMA AnswerMeans ==
  ASSUME IInv, calm, waiting, Answered, rx # << >>, NEW x,
         x = IF step \in Reading THEN Head(rx) ELSE Found(Head(rx))
  PROVE  /\ step \in Reading \/ x \in Dictionary(step)
         /\ Means(step, x, Tail(rx))
<1>1. step \notin {"off", "toggle", "idle"} /\ lock \in Words \cup {"none"}
  BY DEF IInv, Typed
<1>2. CASE step \in Listening
  BY <1>2, Lines, FoundWord DEF Answered, Listening, Reading, Dictionary, Answers, Means
<1>3. CASE step \in Commands
  <2>1. Reply(step, rx)
    BY <1>3 DEF Answered, Replied
  <2>2. CASE step \in {"bearer?", "again?"}
    <3>1. rx = << seen, "OK" >> /\ seen \in Bearers
      BY <2>1, <2>2 DEF Reply
    <3>2. Head(rx) = seen /\ Tail(rx) = << "OK" >>
      BY <3>1, Lines
    <3>3. step \in Reading /\ x = seen
      BY <2>2, <3>2 DEF Reading
    <3> QED
      BY <2>2, <3>1, <3>2, <3>3 DEF Means
  <2>3. CASE step = "GSN"
    BY <2>1, <2>3, Lines DEF Reply, Reading, Means
  <2>4. CASE step = "CREG?"
    <3>1. lock = "READY"
      BY <2>4 DEF IInv, LockKnown, Typed, OpenSteps, CloseSteps
    <3> QED
      BY <2>4, <3>1 DEF Reading, Means
  <2>5. CASE step = "CPIN=?"
    <3>1. rx = << "ERROR" >> \/ (rx = << "OK" >> /\ lock # "none")
      BY <2>1, <2>5 DEF Reply
    <3>2. Head(rx) = "ERROR" \/ (Head(rx) = "OK" /\ lock # "none")
      BY <3>1, Lines
    <3> QED
      BY <2>5, <3>2, FoundWord DEF Reading, Dictionary, Answers, Means
  <2>6. CASE step = "CPIN?"
    <3>1. lock # "none"
      BY <2>6 DEF IInv, LockKnown, Typed, OpenSteps, CloseSteps
    <3>2. Head(rx) = lock
      BY <2>1, <2>6, <3>1, Lines DEF Reply
    <3>3. x = Found(lock) /\ lock \in Words
      BY <1>1, <2>6, <3>1, <3>2 DEF Reading
    <3> QED
      BY <2>6, <3>1, <3>3, FoundWord DEF Dictionary, Means
  <2>7. CASE step = "PIN"
    <3>1. rx = << "ERROR" >> \/ (rx = << "OK" >> /\ lock = "READY")
      BY <2>1, <2>7 DEF Reply
    <3>2. Head(rx) = "ERROR" \/ (Head(rx) = "OK" /\ lock = "READY")
      BY <3>1, Lines
    <3> QED
      BY <2>7, <3>2, FoundWord DEF Reading, Dictionary, Answers, Means
  <2>8. CASE step \notin {"bearer?", "again?", "GSN", "CREG?", "CPIN=?", "CPIN?", "PIN"}
    <3>1. rx = << "ERROR" >> \/ rx = << "OK" >>
      BY <2>1, <2>8 DEF Reply
    <3>2. Head(rx) = "ERROR" \/ Head(rx) = "OK"
      BY <3>1, Lines
    <3> QED
      BY <2>8, <3>2, FoundWord DEF Reading, Dictionary, Answers, Means
  <2> QED
    BY <2>2, <2>3, <2>4, <2>5, <2>6, <2>7, <2>8
<1> QED
  BY <1>1, <1>2, <1>3, StepKinds DEF IInv

\* The driver takes a line.
LEMMA ReceiveKeeps ==
  ASSUME IInv, Receive
  PROVE  IInv'
<1>1. /\ waiting /\ rx # << >> /\ rx' = Tail(rx) /\ on' = on /\ asks' = asks /\ lock' = lock
      /\ inbox' = inbox /\ seen' = seen /\ calm' = calm
  BY DEF Receive, module
<1>2. step \notin {"off", "toggle", "idle"} /\ calm \in BOOLEAN
  BY <1>1 DEF IInv, Typed
<1>3. calm => Answered
  BY <1>1, <1>2 DEF IInv, Dialogue, Asking
<1>4. op = "init" => on
  BY <1>1, <1>2 DEF IInv, Powered
<1> DEFINE x == IF step \in Reading THEN Head(rx) ELSE Found(Head(rx))
<1>5. calm => (step \in Reading \/ x \in Dictionary(step)) /\ Means(step, x, rx')
  BY <1>1, <1>3, AnswerMeans
<1>6. calm => inbox = << >>
  BY <1>3 DEF Answered
<1>7. IF step \in Reading \/ x \in Dictionary(step) THEN GoesOn(step, x) ELSE UNCHANGED driver
  BY DEF Receive
<1> HIDE DEF x
<1>8. CASE GoesOn(step, x)
  BY <1>1, <1>2, <1>4, <1>5, <1>6, <1>8, GoesOnKeeps
<1>9. CASE ~calm /\ UNCHANGED driver
  BY <1>1, <1>4, <1>9 DEF IInv, Typed, Powered, Dialogue, LockKnown, BearerKnown, driver
<1> QED
  BY <1>5, <1>7, <1>8, <1>9

\* Nothing comes.
LEMMA TimeoutKeeps ==
  ASSUME IInv, Timeout
  PROVE  IInv'
<1>1. /\ waiting /\ rx = << >> /\ rx' = rx /\ on' = on /\ asks' = asks /\ lock' = lock
      /\ inbox' = inbox /\ seen' = seen /\ calm' = (calm /\ inbox = << >>)
  BY DEF Timeout, module
<1>2. step \notin {"off", "toggle", "idle"} /\ calm \in BOOLEAN
  BY <1>1 DEF IInv, Typed
<1>3. calm' => Answered
  BY <1>1, <1>2, Lines DEF IInv, Dialogue, Asking
<1>4. calm' => step \in Commands /\ ~on
  <2>1. calm' /\ step \in Listening => FALSE
    BY <1>1, <1>3, Lines DEF Answered
  <2>2. step \in Commands => ~Reply(step, << >>)
    BY Lines DEF Reply
  <2> QED
    BY <1>1, <1>2, <1>3, <2>1, <2>2, StepKinds DEF Answered, Replied, IInv
<1>5. calm' => Means(step, "none", rx')
  BY <1>2, <1>4 DEF Means, IInv, Typed, Powered, OpenSteps, CloseSteps
<1>6. CASE Retry /\ step \in Twice
  <2>1. step \notin Listening
    BY <1>6 DEF Twice, Listening
  <2> QED
    BY <1>1, <1>2, <1>6, <2>1, RetryKeeps
<1>7. CASE GoesOn(step, "none")
  BY <1>1, <1>2, <1>5, <1>7, GoesOnKeeps
<1> QED
  BY <1>6, <1>7 DEF Timeout

\* The driver sends the command of the step, or listens for the next line.
LEMMA SendKeeps ==
  ASSUME IInv, Send
  PROVE  IInv'
<1>1. /\ step \notin {"off", "toggle", "idle"} /\ ~waiting /\ waiting' = TRUE
      /\ rx' = (IF step \in Listening THEN rx ELSE << >>)
      /\ inbox' = (IF step \in Listening \/ ~on THEN inbox ELSE Append(inbox, step))
      /\ op' = op /\ step' = step /\ result' = result /\ status' = status
      /\ on' = on /\ asks' = asks /\ lock' = lock /\ calm' = calm /\ seen' = seen
  BY DEF Send, module
<1>2. Typed' /\ LockKnown' /\ BearerKnown'
  BY <1>1 DEF IInv, Typed, LockKnown, BearerKnown
<1>3. Powered'
  BY <1>1 DEF IInv, Powered, Listening
<1>4. Dialogue'
  <2>1. calm => Answered
    BY <1>1 DEF IInv, Dialogue, Asking
  <2>2. CASE step \in Listening
    BY <1>1, <2>1, <2>2, StepKinds DEF IInv, Dialogue, Answered
  <2>3. CASE step \in Commands
    BY <1>1, <2>1, <2>3, StepKinds, Lines DEF IInv, Dialogue, Answered, Asking
  <2> QED
    BY <1>1, <2>2, <2>3, StepKinds DEF IInv
<1> QED
  BY <1>2, <1>3, <1>4 DEF IInv

\* The two uses of the power pin.
LEMMA PowerKeeps ==
  ASSUME IInv, PowerOff \/ Toggle
  PROVE  IInv'
<1>1. /\ op' = op /\ op = "init" /\ waiting' = FALSE /\ on' \in BOOLEAN /\ inbox' = << >>
      /\ asks' = asks /\ lock' \in {lock, asks} /\ calm' = calm
      /\ step' \in {"toggle", "AT"}
  BY DEF IInv, Typed, Powered, PowerOff, Toggle, Goto, Relock, OpenSteps, CloseSteps
<1>2. Typed'
  BY <1>1 DEF IInv, Typed, InitSteps
<1>3. Powered' /\ LockKnown' /\ BearerKnown'
  BY <1>1 DEF Powered, LockKnown, BearerKnown
<1>4. Dialogue'
  BY <1>1 DEF Dialogue, Answered, Listening
<1> QED
  BY <1>2, <1>3, <1>4 DEF IInv

\* The station calls a function of the driver.
LEMMA CallKeeps ==
  ASSUME IInv, Boot \/ Tasks
  PROVE  IInv'
<1>1. /\ step = "idle" /\ on' = on /\ asks' = asks /\ lock' = lock /\ inbox' = inbox
      /\ rx' = rx
  BY DEF Boot, Tasks, Call, module
<1>2. CASE UNCHANGED << driver, calm, seen >>
  BY <1>1, <1>2 DEF IInv, Typed, Powered, Dialogue, Asking, Answered, Commands, Twice, Once,
     Listening, LockKnown, BearerKnown, driver
<1>3. ASSUME NEW o, NEW s, << o, s >> \in {<< "init", "off" >>, << "open", "bearer?" >>,
                                           << "close", "SAPBR=0" >>},
             Start(o, s), Fresh(o)
      PROVE  IInv'
  <2>1. /\ op' = o /\ step' = s /\ waiting' = FALSE
        /\ calm' \in BOOLEAN /\ (calm' => o = "init" \/ inbox = << >>)
    BY <1>3 DEF Start, Fresh
  <2>2. \/ o = "init" /\ s = "off"
        \/ o = "open" /\ s = "bearer?"
        \/ o = "close" /\ s = "SAPBR=0"
    BY <1>3
  <2>3. Typed'
    BY <1>1, <2>1, <2>2 DEF IInv, Typed, InitSteps, OpenSteps, CloseSteps
  <2>4. Powered' /\ LockKnown' /\ BearerKnown'
    BY <1>1, <2>1, <2>2 DEF IInv, Powered, LockKnown, BearerKnown
  <2>5. Dialogue'
    BY <1>1, <2>1, <2>2 DEF Dialogue, Answered, Listening
  <2> QED
    BY <2>3, <2>4, <2>5 DEF IInv
<1>4. CASE Start("init", "off") /\ Fresh("init")
  BY <1>3, <1>4
<1>5. CASE Tasks
  BY <1>3, <1>5 DEF Tasks, Call
<1> QED
  BY <1>2, <1>4, <1>5 DEF Boot

\* The module answers the command of the step.
LEMMA PerformAnswers ==
  ASSUME IInv, BearerOk, Perform, Asking
  PROVE  inbox' = << >> /\ Replied'
<1>1. on /\ Head(inbox) = step /\ inbox' = << >> /\ rx = << >> /\ step \in Commands
  BY Lines DEF Perform, Asking
<1>2. seen' = (IF step \in {"bearer?", "again?"} THEN bearer ELSE seen) /\ step' = step
  BY <1>1 DEF Perform, driver
<1>3. CASE step \in {"CPIN=?", "CPIN?"}
  <2>1. /\ lock' = lock
        /\ rx' = IF lock = "none" THEN << "ERROR" >>
                 ELSE IF step = "CPIN?" THEN << lock, "OK" >> ELSE << "OK" >>
    BY <1>1, <1>3, Lines DEF Perform, Answer, Keeps, module
  <2> QED
    BY <1>1, <1>2, <1>3, <2>1 DEF Replied, Reply
<1>4. CASE step = "GSN"
  <2>1. rx' = << "IMEI", "OK" >>
    BY <1>1, <1>4, Lines DEF Perform, Answer
  <2> QED
    BY <1>1, <1>2, <1>4, <2>1 DEF Replied, Reply
<1>5. CASE step = "CREG?"
  <2>1. \E x \in {"registered", "unregistered"} : rx' = << x, "OK" >>
    BY <1>1, <1>5, Lines DEF Perform, Answer
  <2> QED
    BY <1>1, <1>2, <1>5, <2>1 DEF Replied, Reply
<1>6. CASE step \in {"bearer?", "again?"}
  <2>1. rx' = << bearer, "OK" >>
    BY <1>1, <1>6, Lines DEF Perform, Answer
  <2> QED
    BY <1>1, <1>2, <1>6, <2>1 DEF Replied, Reply, BearerOk
<1>7. CASE step = "PIN"
  <2>1. EnterPin
    BY <1>1, <1>7 DEF Perform
  <2>2. rx' = << "ERROR" >> \/ (rx' = << "OK" >> /\ lock' = "READY")
    BY <1>1, <2>1, Lines DEF EnterPin, Answer
  <2> QED
    BY <1>1, <1>2, <1>7, <2>2 DEF Replied, Reply
<1>8. CASE step \notin {"CPIN=?", "CPIN?", "GSN", "CREG?", "bearer?", "again?", "PIN"}
  <2>1. rx' = << "OK" >> \/ rx' = << "ERROR" >>
    BY <1>1, <1>8, Lines DEF Perform, Answer
  <2> QED
    BY <1>1, <1>2, <1>8, <2>1 DEF Replied, Reply
<1> QED
  BY <1>1, <1>3, <1>4, <1>5, <1>6, <1>7, <1>8

\* The module performs a command.
LEMMA PerformKeeps ==
  ASSUME IInv, BearerOk, Perform
  PROVE  IInv'
<1>1. /\ on /\ inbox # << >> /\ inbox' = Tail(inbox)
      /\ op' = op /\ step' = step /\ waiting' = waiting /\ result' = result
      /\ status' = status /\ calm' = calm
      /\ seen' = IF Head(inbox) \in {"bearer?", "again?"} THEN bearer ELSE seen
  BY DEF Perform, driver
<1>2. on' = on /\ asks' = asks
  BY DEF Perform, Keeps, module, EnterPin
<1>3. /\ lock' \in Words \cup {"none"} /\ (lock # "none" => lock' # "none")
      /\ Head(inbox) # "PIN" => lock' = lock
  BY WordSet DEF IInv, Typed, Perform, Keeps, module, EnterPin
<1>4. Typed'
  BY <1>1, <1>2, <1>3 DEF IInv, Typed
<1>5. Powered'
  BY <1>1, <1>2 DEF IInv, Powered
<1>6. CASE calm /\ step # "off"
  <2>1. Asking
    BY <1>1, <1>6 DEF IInv, Dialogue, Answered
  <2>2. inbox' = << >> /\ Replied'
    BY <2>1, PerformAnswers
  <2>3. step \in Commands /\ Head(inbox) = step /\ step \notin Listening /\ step # "idle"
    BY <2>1, Lines DEF Asking, Commands, Twice, Once, Listening
  <2>4. Dialogue'
    BY <1>1, <2>2, <2>3 DEF Dialogue, Answered
  <2>5. LockKnown' /\ BearerKnown'
    BY <1>1, <1>3, <2>3 DEF IInv, LockKnown, BearerKnown, Listening
  <2> QED
    BY <1>4, <1>5, <2>4, <2>5 DEF IInv
<1>7. CASE ~(calm /\ step # "off")
  BY <1>1, <1>4, <1>5, <1>7 DEF IInv, Dialogue, LockKnown, BearerKnown
<1> QED
  BY <1>6, <1>7

\* The network changes the bearer, and a disturbance ends the calm.
LEMMA WorldKeeps ==
  ASSUME IInv, Network \/ Disturb
  PROVE  IInv'
<1>1. /\ op' = op /\ step' = step /\ waiting' = waiting /\ result' = result /\ status' = status
      /\ on' = on /\ asks' = asks /\ lock' = lock /\ inbox' = inbox /\ seen' = seen
  BY DEF Network, Disturb, driver, module
<1>2. CASE Network
  <2>1. rx' = rx /\ calm' = calm
    BY <1>2 DEF Network
  <2> QED
    BY <1>1, <2>1 DEF IInv, Typed, Powered, Dialogue, Asking, Answered, Replied, Reply, LockKnown,
       BearerKnown
<1>3. CASE Disturb
  <2>1. calm' = FALSE /\ (rx' # << >> => rx # << >> \/ on)
    BY <1>3 DEF Disturb
  <2> QED
    BY <1>1, <2>1 DEF IInv, Typed, Powered, Dialogue, LockKnown, BearerKnown
<1> QED
  BY <1>2, <1>3

\* Every step keeps the invariant.
LEMMA NextKeeps == IInv /\ BearerOk /\ [Next]_vars => IInv'
<1> SUFFICES ASSUME IInv, BearerOk, [Next]_vars PROVE IInv'
  OBVIOUS
<1>1. CASE UNCHANGED vars
  BY <1>1 DEF IInv, Typed, Powered, Dialogue, Asking, Answered, Replied, Reply, LockKnown, BearerKnown,
     vars, driver, module
<1>2. CASE Driver \/ Tasks
  BY <1>2, PowerKeeps, SendKeeps, ReceiveKeeps, TimeoutKeeps, CallKeeps DEF Driver
<1> QED
  BY <1>1, <1>2, PerformKeeps, WorldKeeps DEF Next

\* The bearer's state stays one of four.
LEMMA BearerKeeps == BearerOk /\ [Next]_vars => BearerOk'
<1> SUFFICES ASSUME BearerOk, [Next]_vars PROVE BearerOk'
  OBVIOUS
<1>1. CASE Network
  BY <1>1 DEF BearerOk, Bearers, Network
<1>2. CASE Perform
  BY <1>2 DEF BearerOk, Bearers, Perform, Keeps, module, EnterPin
<1>3. CASE ~Network /\ ~Perform
  BY <1>3 DEF BearerOk, Bearers, Next, Driver, PowerOff, Toggle, Send, Receive, Timeout, Boot,
     Tasks, Call, Disturb, vars, module
<1> QED
  BY <1>1, <1>2, <1>3

\* The invariant holds in every state.
LEMMA Invariant == Spec => []IInv
<1>1. Init => BearerOk
  BY DEF Init, BearerOk, Bearers
<1> QED
  BY <1>1, InitInvariant, NextKeeps, BearerKeeps, PTL DEF Spec

(***************************************************************************)
(* The theorems.                                                           *)
(***************************************************************************)
\* When the start returns success the module is on, after any toggles of its
\* pin, and its SIM is unlocked unless a line was lost, late or unasked
\* (sim900.c:421, 507).
THEOREM SuccessMeansReady == Spec => []StartedMeansReady
<1>1. IInv => StartedMeansReady
  BY DEF IInv, Powered, LockKnown, StartedMeansReady
<1> QED
  BY <1>1, Invariant, PTL

\* When sim900_GPRS_init returns success the module had a bearer, or was
\* connecting it, when it was last asked, unless a line was lost, late or
\* unasked (sim900.c:685).
THEOREM SuccessMeansBearer == Spec => []BearerTrue
<1>1. IInv => BearerTrue
  BY DEF IInv, BearerKnown, BearerTrue
<1> QED
  BY <1>1, Invariant, PTL

(***************************************************************************)
(* The types: the rounds of each loop, the toggles of the pin and the      *)
(* codes that a lock has left stay within what they were given.            *)
(***************************************************************************)
\* The driver's counters, by the step that uses them up.
Counted ==
  /\ tries \in 1..(AtTries + 2) /\ t \in 0..2 /\ checks \in 1..Checks
  /\ step = "off" => t = 2
  /\ step = "toggle" => t > 0
  /\ status \in Texts \cup {"none"} /\ result \in -1..4

\* A lock that can be blocked has a code left.
CodesLeft ==
  /\ asks \in DOMAIN Blocked \cup {"READY", "none"}
  /\ lock \in Words \cup {"none"} /\ left \in 0..Codes
  /\ lock \in DOMAIN Blocked \cup {"READY"} => left > 0

\* What is under way, and what the station and the network keep.
Carried ==
  /\ rx \in Seq(Texts) /\ inbox \in Seq(Steps)
  /\ phase \in {"boot", "run"} /\ attempt \in 1..MaxAttempts
  /\ pin \in {"none", "right", "wrong"}
  /\ bearer \in Bearers /\ faults \in 0..MaxFaults /\ seen \in Bearers \cup {"none"}

LEMMA Bounds ==
  /\ AtTries \in Nat \ {0} /\ Checks \in Nat \ {0} /\ MaxAttempts \in Nat \ {0}
  /\ Codes \in Nat \ {0} /\ MaxFaults \in Nat
  /\ \A s : Tries(s) \in 1..(AtTries + 2)
BY ModemStartAssumption DEF Tries

\* What an answer, or none, can lead to.
LEMMA Outcomes ==
  ASSUME Typed, step \notin {"off", "toggle", "idle"}, NEW x, GoesOn(step, x)
  PROVE  \/ \E s : Goto(s) /\ s # "off" /\ (s = "toggle" => t > 0)
         \/ \E code \in -1..4 : Return(code)
         \/ tries > 1 /\ Retry
         \/ \E s : Round(s) /\ s \notin {"off", "toggle"}
         \/ Start("init", "off")
         \/ \E s : ReadStatus(x, s) /\ s \notin {"off", "toggle"}
<1>0. /\ \A s : Goto(s) /\ s \notin {"off", "toggle"} => \E r : Goto(r) /\ r \notin {"off", "toggle"}
      /\ \A s : ReadStatus(x, s) /\ s \notin {"off", "toggle"} =>
           \E r : ReadStatus(x, r) /\ r \notin {"off", "toggle"}
  OBVIOUS
<1>1. CASE op = "init"
  <2>1. InitGoesOn(step, x)
    BY <1>1 DEF GoesOn
  <2>2. step \in {"AT", "ATE0", "CREG=0", "GSN=?", "GSN", "GSN ok", "CPIN=?", "CPIN?", "PIN", "CREG?"}
    BY <1>1 DEF Typed, InitSteps
  <2>3. CASE step = "AT"
    <3>1. IF x = "OK" THEN Goto("ATE0") ELSE IF tries > 1 THEN Retry ELSE NoAnswer
      BY <2>1, <2>3 DEF InitGoesOn, Unless
    <3> QED
      BY <3>1 DEF NoAnswer
  <2>4. CASE step \in {"ATE0", "CREG=0", "GSN=?", "GSN", "GSN ok"}
    <3>1. Goto("CREG=0") \/ Goto("GSN=?") \/ Goto("GSN") \/ Goto("GSN ok") \/ Goto("CPIN=?")
      BY <2>1, <2>4 DEF InitGoesOn
    <3>2. \E s : Goto(s) /\ s \notin {"off", "toggle"}
      BY <1>0, <3>1
    <3> QED
      BY <3>2
  <2>5. CASE step \in {"CPIN=?", "CPIN?", "PIN"}
    <3>1. \/ Goto("CPIN?") \/ Goto("PIN") \/ Goto("CREG?")
          \/ Return(1) \/ Return(3) \/ Return(4)
      BY <2>1, <2>5 DEF InitGoesOn, Unless, Asked
    <3> QED
      BY <3>1
  <2>6. CASE step = "CREG?"
    <3>1. Return(0) \/ Round("CREG?") \/ Start("init", "off")
      BY <2>1, <2>6 DEF InitGoesOn
    <3> QED
      BY <3>1
  <2> QED
    BY <2>2, <2>3, <2>4, <2>5, <2>6
<1>2. CASE op = "open"
  <2>1. OpenGoesOn(step, x)
    BY <1>2 DEF GoesOn
  <2>2. step \in {"bearer?", "bearer ok", "contype", "apn", "SAPBR=1", "again?", "again ok"}
    BY <1>2 DEF Typed, OpenSteps
  <2>3. CASE step \in {"bearer?", "again?"}
    <3>1. Return(1) \/ ReadStatus(x, "bearer ok") \/ ReadStatus(x, "again ok")
      BY <2>1, <2>3 DEF OpenGoesOn
    <3>2. Return(1) \/ \E s : ReadStatus(x, s) /\ s \notin {"off", "toggle"}
      BY <1>0, <3>1
    <3> QED
      BY <3>2
  <2>4. CASE step \in {"bearer ok", "contype", "apn", "SAPBR=1"}
    <3>1. \/ Goto("contype") \/ Goto("apn") \/ Goto("SAPBR=1") \/ Goto("again?")
          \/ Return(0) \/ Return(1) \/ Return(2)
      BY <2>1, <2>4 DEF OpenGoesOn, Unless
    <3> QED
      BY <3>1
  <2>5. CASE step = "again ok"
    <3>1. Return(0) \/ Return(1) \/ Round("again?")
      BY <2>1, <2>5 DEF OpenGoesOn, Again, Unless
    <3> QED
      BY <3>1
  <2> QED
    BY <2>2, <2>3, <2>4, <2>5
<1>3. CASE op = "close"
  <2>1. Return(IF x = "OK" THEN 0 ELSE 1)
    BY <1>3 DEF GoesOn
  <2> QED
    BY <2>1
<1> QED
  BY <1>1, <1>2, <1>3 DEF Typed

LEMMA GoesOnCounted ==
  ASSUME Typed, Counted, step \notin {"off", "toggle", "idle"}, NEW x \in Texts \cup {"none"},
         GoesOn(step, x)
  PROVE  Counted'
<1>1. CASE \E s : Goto(s) /\ s # "off" /\ (s = "toggle" => t > 0)
  BY <1>1, Bounds DEF Goto, Counted
<1>2. CASE \E code \in -1..4 : Return(code)
  BY <1>2, Bounds DEF Return, Counted
<1>3. CASE tries > 1 /\ Retry
  BY <1>3, Bounds DEF Retry, Counted
<1>4. CASE \E s : Round(s) /\ s \notin {"off", "toggle"}
  <2>1. PICK s : Round(s) /\ s \notin {"off", "toggle"}
    BY <1>4
  <2>2. CASE checks = 1
    BY <2>1, <2>2, Bounds DEF Round, Return, Counted
  <2>3. CASE checks # 1
    BY <2>1, <2>3, Bounds DEF Round, Counted
  <2> QED
    BY <2>2, <2>3
<1>5. CASE Start("init", "off")
  BY <1>5, Bounds DEF Start, Counted
<1>6. CASE \E s : ReadStatus(x, s) /\ s \notin {"off", "toggle"}
  BY <1>6, Bounds DEF ReadStatus, Counted
<1> QED
  BY <1>1, <1>2, <1>3, <1>4, <1>5, <1>6, Outcomes

LEMMA CountedKept ==
  ASSUME Typed, Counted, Carried, [Next]_vars
  PROVE  Counted'
<1>1. CASE PowerOff
  BY <1>1, Bounds DEF PowerOff, Goto, Counted
<1>2. CASE Toggle
  BY <1>2, Bounds DEF Toggle, Counted
<1>3. CASE Send
  BY <1>3 DEF Send, Counted
<1>4. CASE Receive
  <2>1. PICK x : /\ x = IF step \in Reading THEN Head(rx) ELSE Found(Head(rx))
                 /\ GoesOn(step, x) \/ UNCHANGED driver
    BY <1>4 DEF Receive
  <2>2. Head(rx) \in Texts
    BY <1>4 DEF Receive, Carried
  <2>3. x \in Texts
    BY <2>1, <2>2, WordSet DEF Found, Texts
  <2>4. step \notin {"off", "toggle", "idle"}
    BY <1>4 DEF Receive, Typed
  <2> QED
    BY <2>1, <2>3, <2>4, GoesOnCounted DEF driver, Counted
<1>5. CASE Timeout
  <2>1. step \notin {"off", "toggle", "idle"} /\ ((tries > 1 /\ Retry) \/ GoesOn(step, "none"))
    BY <1>5 DEF Timeout, Typed
  <2>2. CASE tries > 1 /\ Retry
    BY <2>1, <2>2, Bounds DEF Retry, Counted
  <2> QED
    BY <2>1, <2>2, GoesOnCounted
<1>6. CASE Boot
  BY <1>6, Bounds DEF Boot, Start, driver, Counted
<1>7. CASE Tasks
  <2>1. PICK o, s : Start(o, s) /\ s # "toggle"
    BY <1>7 DEF Tasks, Call
  <2> QED
    BY <2>1, Bounds DEF Start, Counted
<1>8. CASE Perform \/ Network \/ Disturb \/ UNCHANGED vars
  <2>1. UNCHANGED driver
    BY <1>8 DEF Perform, Network, Disturb, vars
  <2> QED
    BY <2>1 DEF driver, Counted
<1> QED
  BY <1>1, <1>2, <1>3, <1>4, <1>5, <1>6, <1>7, <1>8 DEF Next, Driver

LEMMA CodesKept ==
  ASSUME Typed, CodesLeft, Carried, [Next]_vars
  PROVE  CodesLeft'
<1>1. CASE PowerOff \/ Toggle
  <2>1. Relock /\ asks' = asks /\ left' = left
    BY <1>1 DEF PowerOff, Toggle
  <2> QED
    BY <2>1, WordSet DEF Relock, CodesLeft
<1>2. CASE Perform
  <2>1. CASE EnterPin /\ asks' = asks
    <3>1. CASE lock = "SIM PIN" /\ pin = "right"
      <4>1. lock' = "READY" /\ left' = Codes
        BY <2>1, <3>1 DEF EnterPin
      <4>2. Codes \in 0..Codes /\ Codes > 0
        BY Bounds
      <4> QED
        BY <2>1, <4>1, <4>2, WordSet DEF CodesLeft
    <3>2. CASE ~(lock = "SIM PIN" /\ pin = "right") /\ lock \in DOMAIN Blocked
      <4>1. left' = left - 1 /\ lock' = IF left = 1 THEN Blocked[lock] ELSE lock
        BY <2>1, <3>2 DEF EnterPin
      <4>2. left \in 1..Codes
        <5>1. left \in 0..Codes /\ left > 0 /\ Codes \in Nat
          BY <3>2, Bounds DEF CodesLeft
        <5> QED
          BY <5>1
      <4>3. Blocked[lock] \in Words /\ Blocked[lock] \notin DOMAIN Blocked \cup {"READY"}
        BY <3>2, WordSet DEF Blocked
      <4>4. left - 1 \in 0..Codes /\ (left # 1 => left - 1 > 0)
        <5>1. Codes \in Nat
          BY Bounds
        <5> QED
          BY <4>2, <5>1
      <4> QED
        BY <2>1, <3>2, <4>1, <4>3, <4>4 DEF CodesLeft
    <3>3. CASE ~(lock = "SIM PIN" /\ pin = "right") /\ lock \notin DOMAIN Blocked
      BY <2>1, <3>3 DEF EnterPin, CodesLeft
    <3> QED
      BY <3>1, <3>2, <3>3
  <2>2. (EnterPin /\ asks' = asks) \/ UNCHANGED << asks, lock, left >>
    BY <1>2 DEF Perform, Keeps, module
  <2> QED
    BY <2>1, <2>2 DEF CodesLeft
<1>3. CASE ~PowerOff /\ ~Toggle /\ ~Perform
  <2>1. UNCHANGED << asks, lock, left >>
    BY <1>3 DEF Next, Driver, Send, Receive, Timeout, Boot, Tasks, Call, Network, Disturb, vars, module
  <2> QED
    BY <2>1 DEF CodesLeft
<1> QED
  BY <1>1, <1>2, <1>3

\* What the module answers are lines.
LEMMA PerformCarries ==
  ASSUME Typed, Carried, Perform
  PROVE  rx' \in Seq(Texts)
<1>1. \E u \in Seq(Texts) : rx' = rx \o u
  <2>1. << "OK" >> \in Seq(Texts) /\ << "ERROR" >> \in Seq(Texts) /\ << "IMEI", "OK" >> \in Seq(Texts)
        /\ \A x \in Texts : << x, "OK" >> \in Seq(Texts)
    BY DEF Texts, Answers
  <2>2. (lock # "none" => lock \in Texts) /\ bearer \in Texts /\ {"registered", "unregistered"} \subseteq Texts
    BY DEF Typed, Carried, Texts
  <2>3. \/ Answer(<< "OK" >>) \/ Answer(<< "ERROR" >>) \/ Answer(<< "IMEI", "OK" >>)
        \/ Answer(<< bearer, "OK" >>)
        \/ lock # "none" /\ Answer(<< lock, "OK" >>)
        \/ \E x \in {"registered", "unregistered"} : Answer(<< x, "OK" >>)
    BY DEF Perform, EnterPin
  <2> QED
    BY <2>1, <2>2, <2>3 DEF Answer
<1> QED
  BY <1>1 DEF Carried

LEMMA CarriedKept ==
  ASSUME Typed, Carried, [Next]_vars
  PROVE  Carried'
<1>1. CASE PowerOff \/ Toggle
  <2>1. inbox' \in Seq(Steps) /\ bearer' \in Bearers
    <3>1. << >> \in Seq(Steps) /\ on \in BOOLEAN
      BY DEF Typed
    <3>2. (inbox' = << >> \/ inbox' = inbox) /\ bearer' = "closed"
      BY <1>1, <3>1 DEF PowerOff, Toggle
    <3> QED
      BY <3>1, <3>2 DEF Carried, Bearers
  <2> QED
    BY <1>1, <2>1 DEF PowerOff, Toggle, station, Carried
<1>2. CASE Send
  <2>1. step \in Steps
    BY DEF Typed, InitSteps, OpenSteps, CloseSteps, Steps, Twice, Once, Listening
  <2>2. rx' \in Seq(Texts) /\ inbox' \in Seq(Steps)
    BY <1>2, <2>1 DEF Send, Carried
  <2> QED
    BY <1>2, <2>2 DEF Send, station, module, Carried
<1>3. CASE Receive
  BY <1>3 DEF Receive, station, module, Carried
<1>4. CASE Timeout
  BY <1>4, Bounds DEF Timeout, station, module, Carried
<1>5. CASE Boot
  <2>1. attempt' \in 1..MaxAttempts
    BY <1>5, Bounds DEF Boot, Carried
  <2> QED
    BY <1>5, <2>1 DEF Boot, Fresh, module, Carried
<1>6. CASE Tasks
  BY <1>6 DEF Tasks, Call, Fresh, station, module, Carried
<1>7. CASE Perform
  <2>1. bearer' \in Bearers /\ seen' \in Bearers \cup {"none"}
    BY <1>7 DEF Perform, Keeps, module, Carried, Bearers
  <2>2. inbox' \in Seq(Steps) /\ UNCHANGED << station, faults >>
    BY <1>7 DEF Perform, Carried
  <2> QED
    BY <1>7, <2>1, <2>2, PerformCarries DEF station, Carried
<1>8. CASE Network
  BY <1>8 DEF Network, station, Carried, Bearers
<1>9. CASE Disturb
  <2>1. rx' \in Seq(Texts)
    BY <1>9 DEF Disturb, Carried, Texts
  <2> QED
    BY <1>9, <2>1, Bounds DEF Disturb, station, module, Carried
<1>10. CASE UNCHANGED vars
  BY <1>10 DEF vars, station, module, Carried
<1> QED
  BY <1>1, <1>2, <1>3, <1>4, <1>5, <1>6, <1>7, <1>8, <1>9, <1>10 DEF Next, Driver

\* Types of the variables hold: each loop of the start ends within its rounds,
\* the pin is toggled twice at most, and no lock is given a code that it has
\* none left for (sim900.c:419, 422, 501).
THEOREM TypesHold == Spec => []TypeOK
<1> DEFINE Inv == Counted /\ CodesLeft /\ Carried
<1>1. Init => Inv
  <2> SUFFICES ASSUME Init PROVE Inv
    OBVIOUS
  <2>1. Counted
    <3>1. 1 \in 1..(AtTries + 2) /\ Checks \in 1..Checks /\ -1 \in -1..4 /\ 2 \in 0..2
      BY Bounds
    <3> QED
      BY <3>1 DEF Init, Counted
  <2>2. CodesLeft
    <3>1. asks \in DOMAIN Blocked \cup {"READY", "none"} /\ lock = asks /\ left = Codes
      BY ModemStartAssumption DEF Init
    <3>2. Codes \in 0..Codes /\ Codes > 0
      BY Bounds
    <3> QED
      BY <3>1, <3>2, WordSet DEF CodesLeft
  <2>3. Carried
    BY Bounds DEF Init, Carried, Bearers
  <2> QED
    BY <2>1, <2>2, <2>3
<1>2. IInv /\ Inv /\ [Next]_vars => Inv'
  BY CountedKept, CodesKept, CarriedKept DEF IInv
<1>3. IInv /\ Inv => TypeOK
  <2> SUFFICES ASSUME IInv, Inv PROVE TypeOK
    OBVIOUS
  <2>1. step \in Steps /\ op \in {"init", "open", "close"}
    BY DEF IInv, Typed, InitSteps, OpenSteps, CloseSteps, Steps, Twice, Once, Listening
  <2>2. asks \in Words \cup {"none"}
    BY DEF IInv, Typed
  <2> QED
    BY <2>1, <2>2 DEF IInv, Typed, Counted, CodesLeft, Carried, TypeOK
<1> QED
  BY <1>1, <1>2, <1>3, Invariant, PTL DEF Spec
=============================================================================
