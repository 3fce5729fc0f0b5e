---------------------------- MODULE Sim900Proofs ----------------------------
(***************************************************************************)
(* Theorems about Sim900, for any number of requests and of lines that are *)
(* lost: what the result of a request says of the server, and that its     *)
(* session is closed.                                                      *)
(***************************************************************************)
EXTENDS Sim900, SequenceTheorems, TLAPS

Requested == Steps \X {"post", "get"} \X Ids

\* The types that the arguments need.
Typed ==
  /\ op \in {"post", "get"} /\ id \in Ids /\ step \in Steps
  /\ waiting \in BOOLEAN /\ (waiting => step # "idle") /\ tries \in 1..3
  /\ inbox \in Seq(Requested) /\ rx \in Seq(Tokens)
  /\ slow \in Nat /\ lost \in Nat

\* The steps by name.
LEMMA StepNames ==
  /\ Steps = {"AT", "HTTPINIT", "CID", "HTTPACTION", "HTTPTERM", "close", "URL", "data",
                   "HTTPDATA", "HTTPREAD", "status", "length", "text", "wait", "idle"}
  /\ Listening = {"status", "length", "text", "wait"}
BY DEF Steps, Twice, Once, Worded, Listening, Lines

\* Where a step can lead.
LEMMA Follows ==
  ASSUME step \in Steps, step # "idle", NEW s \in Follow(step)
  PROVE  /\ s \in Steps
         /\ s \in {"idle", "close"} => step \in {"HTTPTERM", "close"}
         /\ s = "HTTPACTION" => step \in {"URL", "data"}
         /\ s = "wait" <=> step = "HTTPACTION"
         /\ s = "status" <=> step = "wait"
         /\ s = "HTTPTERM" => step = "text"
         /\ Tries(s) \in 1..3
BY StepNames DEF Follow, Tries, Twice

\* The ways in which the driver's step moves on.
LEMMA Moves ==
  ASSUME Typed, step # "idle", Proceed \/ GiveUp
  PROVE  /\ waiting' = FALSE /\ tries' \in 1..3 /\ step' \in Steps /\ UNCHANGED << op, id >>
         /\ step' \in {"idle", "close"} => step \in {"HTTPTERM", "close"}
         /\ step' = "HTTPTERM" => tries' = 2
         /\ \/ Proceed /\ step' \in Follow(step)
            \/ GiveUp /\ step' = "HTTPTERM"
<1>1. CASE Proceed
  <2>1. PICK s \in Follow(step) : Goto(s)
    BY <1>1 DEF Proceed
  <2>2. step' = s /\ tries' = Tries(s) /\ waiting' = FALSE /\ UNCHANGED << op, id >>
    BY <1>1, <2>1 DEF Goto, Proceed
  <2>3. Tries("HTTPTERM") = 2
    BY DEF Tries, Twice
  <2> QED
    BY <1>1, <2>2, <2>3, Follows DEF Typed
<1>2. CASE GiveUp
  BY <1>2, StepNames DEF GiveUp, Goto, Tries, Twice
<1> QED
  BY <1>1, <1>2

\* Sequences of elements of a set.
LEMMA SeqFacts ==
  ASSUME NEW S
  PROVE  /\ << >> \in Seq(S)
         /\ \A x \in S : << x >> \in Seq(S)
         /\ \A s \in Seq(S), x \in S :
              /\ Append(s, x) \in Seq(S) /\ Append(s, x) # << >>
              /\ Append(s, x)[Len(Append(s, x))] = x
         /\ \A s \in Seq(S) : s # << >> =>
              /\ Tail(s) \in Seq(S) /\ Head(s) \in S
              /\ Len(s) = 1 => Tail(s) = << >> /\ Head(s) = s[Len(s)]
              /\ Len(s) # 1 => Tail(s) # << >> /\ Tail(s)[Len(Tail(s))] = s[Len(s)]
<1>1. << >> \in Seq(S) /\ \A x \in S : << x >> \in Seq(S)
  OBVIOUS
<1>2. ASSUME NEW s \in Seq(S), NEW x \in S
      PROVE  /\ Append(s, x) \in Seq(S) /\ Append(s, x) # << >>
             /\ Append(s, x)[Len(Append(s, x))] = x
  OBVIOUS
<1>3. ASSUME NEW s \in Seq(S), s # << >>
      PROVE  /\ Tail(s) \in Seq(S) /\ Head(s) \in S
             /\ Len(s) = 1 => Tail(s) = << >> /\ Head(s) = s[Len(s)]
             /\ Len(s) # 1 => Tail(s) # << >> /\ Tail(s)[Len(Tail(s))] = s[Len(s)]
  <2>1. Len(s) \in Nat \ {0}
    BY <1>3, EmptySeq
  <2>2. Tail(s) \in Seq(S) /\ Head(s) \in S /\ Head(s) = s[1] /\ Len(Tail(s)) = Len(s) - 1
    BY <1>3, HeadTailProperties
  <2>3. Tail(s) = << >> <=> Len(Tail(s)) = 0
    BY <2>2, EmptySeq
  <2>4. ASSUME Len(s) # 1 PROVE Tail(s)[Len(s) - 1] = s[Len(s)]
    <3>1. Len(s) - 1 \in 1..Len(Tail(s)) /\ (Len(s) - 1) + 1 = Len(s)
      BY <2>1, <2>2, <2>4
    <3>2. Tail(s)[Len(s) - 1] = s[(Len(s) - 1) + 1]
      BY <1>3, <3>1, HeadTailProperties
    <3> QED
      BY <3>1, <3>2
  <2> QED
    BY <2>1, <2>2, <2>3, <2>4
<1> QED
  BY <1>1, <1>2, <1>3

LEMMA InitTyped == Init => Typed
<1> SUFFICES ASSUME Init PROVE Typed
  OBVIOUS
<1>1. id \in Ids /\ slow \in Nat /\ lost \in Nat /\ tries \in 1..3
  BY Sim900Assumption DEF Init, Ids
<1>2. inbox \in Seq(Requested) /\ rx \in Seq(Tokens)
  BY SeqFacts DEF Init
<1> QED
  BY <1>1, <1>2, StepNames DEF Init, Typed

\* What the modem answers.
LEMMA Replies ==
  ASSUME NEW c
  PROVE  /\ Reply(c) \in {<< "OK" >>, << "ERROR" >>, << "DOWNLOAD" >>,
                               << "+HTTPREAD", "length", "text", "OK" >>}
         /\ Reply(c) \in Seq(Tokens)
         /\ << >> \o Reply(c) = Reply(c)
         /\ Reply(c) = << "DOWNLOAD" >> => ~data /\ c = "HTTPDATA"
         /\ c = "HTTPACTION" => Reply(c) \in {<< "OK" >>, << "ERROR" >>}
<1>1. Reply(c) \in {<< "OK" >>, << "ERROR" >>, << "DOWNLOAD" >>,
                         << "+HTTPREAD", "length", "text", "OK" >>}
  BY DEF Reply
<1>2. Reply(c) \in Seq(Tokens)
  <2>1. /\ << "OK" >> \in Seq(Tokens) /\ << "ERROR" >> \in Seq(Tokens)
        /\ << "DOWNLOAD" >> \in Seq(Tokens)
        /\ << "+HTTPREAD", "length", "text", "OK" >> \in Seq(Tokens)
    BY DEF Tokens, Answers
  <2> QED
    BY <1>1, <2>1
<1>3. << >> \o Reply(c) = Reply(c)
  BY <1>2, ConcatEmptySeq
<1>4. Reply(c) = << "DOWNLOAD" >> => ~data /\ c = "HTTPDATA"
  BY DEF Reply
<1>5. c = "HTTPACTION" => Reply(c) \in {<< "OK" >>, << "ERROR" >>}
  BY DEF Reply
<1> QED
  BY <1>1, <1>2, <1>3, <1>4, <1>5

LEMMA TypesKept ==
  ASSUME Typed, [Next]_vars
  PROVE  Typed'
<1> USE DEF Typed
<1>1. ASSUME NEW o \in {"post", "get"}, Begin(o) PROVE Typed'
  <2>1. (id % Requests) + 1 \in Ids
    BY Sim900Assumption DEF Ids
  <2>2. id' \in Ids
    BY <1>1, <2>1 DEF Begin
  <2>3. /\ op' \in {"post", "get"} /\ step' = "AT" /\ tries' = 2 /\ waiting' = FALSE
        /\ UNCHANGED << rx, inbox, slow, lost >>
    BY <1>1 DEF Begin
  <2>4. inbox' \in Seq(Requested) /\ rx' \in Seq(Tokens)
    BY <2>3
  <2>5. slow' \in Nat /\ lost' \in Nat /\ tries' \in 1..3
    BY <2>3
  <2> QED
    BY <2>2, <2>3, <2>4, <2>5, StepNames
<1>2. CASE Send
  <2>1. IF step = "close" THEN "HTTPTERM" \in Steps ELSE step \in Steps
    BY StepNames
  <2>2. << IF step = "close" THEN "HTTPTERM" ELSE step, op, id >> \in Requested
    BY <2>1 DEF Requested
  <2>3. inbox' \in Seq(Requested)
    <3>1. Append(inbox, << IF step = "close" THEN "HTTPTERM" ELSE step, op, id >>) \in Seq(Requested)
      BY <2>2, SeqFacts
    <3> QED
      BY <1>2, <3>1 DEF Send
  <2>4. rx' \in Seq(Tokens)
    <3>1. << >> \in Seq(Tokens)
      BY SeqFacts
    <3> QED
      BY <1>2, <3>1 DEF Send
  <2> QED
    BY <1>2, <2>3, <2>4 DEF Send, modem
<1>3. CASE Receive
  <2>1. step # "idle" /\ rx' \in Seq(Tokens)
    BY <1>3 DEF Receive
  <2>2. UNCHANGED << inbox, slow, lost >> /\ (UNCHANGED driver \/ Proceed \/ GiveUp)
    BY <1>3 DEF Receive
  <2> QED
    BY <2>1, <2>2, Moves DEF driver
<1>4. CASE Timeout
  <2>1. step # "idle" /\ UNCHANGED << rx, inbox, lost >> /\ slow' \in Nat
    BY <1>4 DEF Timeout
  <2>2. \/ tries > 1 /\ tries' = tries - 1 /\ waiting' = FALSE /\ UNCHANGED << op, id, step >>
        \/ Proceed \/ GiveUp
    BY <1>4 DEF Timeout
  <2>3. tries > 1 => tries - 1 \in 1..3
    OBVIOUS
  <2>4. /\ op' \in {"post", "get"} /\ id' \in Ids /\ step' \in Steps
        /\ waiting' = FALSE /\ tries' \in 1..3
    BY <2>1, <2>2, <2>3, Moves
  <2> QED
    BY <2>1, <2>4
<1>5. CASE Perform
  <2>1. inbox' \in Seq(Requested)
    BY <1>5 DEF Perform
  <2>2. rx' \in Seq(Tokens)
    BY <1>5, Replies DEF Perform
  <2> QED
    BY <1>5, <2>1, <2>2 DEF Perform, driver
<1>6. ASSUME NEW code \in Codes, Done(code) PROVE Typed'
  <2>1. << "+HTTPACTION", code >> \in Seq(Tokens)
    BY DEF Tokens
  <2>2. rx' \in Seq(Tokens)
    BY <1>6, <2>1 DEF Done
  <2> QED
    BY <1>6, <2>2 DEF Done, driver
<1>7. CASE Lose
  BY <1>7 DEF Lose, driver
<1>8. CASE UNCHANGED vars
  BY <1>8 DEF vars, driver
<1> QED
  BY <1>1, <1>2, <1>3, <1>4, <1>5, <1>6, <1>7, <1>8 DEF Next

(***************************************************************************)
(* The session (SessionClosed).  A driver without a request has sent       *)
(* HTTPTERM last; what it sent is what the modem performs last.            *)
(***************************************************************************)
Closing == step \in {"idle", "close"} \/ (step = "HTTPTERM" /\ (waiting \/ tries = 1))

ClosedLast ==
  Closing =>
    IF inbox = << >> THEN ~data /\ (~http \/ body = Junk)
    ELSE inbox[Len(inbox)][1] = "HTTPTERM"

LEMMA ClosingKept ==
  ASSUME Typed, ClosedLast, [Next]_vars
  PROVE  ClosedLast'
<1> USE DEF ClosedLast, Closing
<1>1. ASSUME NEW o \in {"post", "get"}, Begin(o) PROVE ClosedLast'
  BY <1>1 DEF Begin
<1>2. CASE Send
  <2>1. CASE step \in {"HTTPTERM", "close"}
    <3>1. inbox' = Append(inbox, << "HTTPTERM", op, id >>)
      BY <1>2, <2>1, StepNames DEF Send
    <3>2. inbox' # << >> /\ inbox'[Len(inbox')] = << "HTTPTERM", op, id >>
      BY <3>1 DEF Typed
    <3> QED
      BY <3>2
  <2>2. CASE step \notin {"HTTPTERM", "close"}
    BY <1>2, <2>2 DEF Send
  <2> QED
    BY <2>1, <2>2
<1>3. CASE Receive \/ Timeout
  <2>1. /\ step # "idle" /\ waiting /\ UNCHANGED << inbox, http, data, body >>
        /\ \/ UNCHANGED << step, waiting, tries >>
           \/ tries' = tries - 1 /\ UNCHANGED step
           \/ Proceed \/ GiveUp
    BY <1>3 DEF Receive, Timeout, driver, modem, Typed
  <2>2. Closing' => Closing
    <3>1. CASE UNCHANGED << step, waiting, tries >>
      BY <3>1
    <3>2. CASE tries' = tries - 1 /\ UNCHANGED step
      BY <2>1, <3>2
    <3>3. CASE Proceed \/ GiveUp
      <4>1. /\ waiting' = FALSE
            /\ step' \in {"idle", "close"} => step \in {"HTTPTERM", "close"}
            /\ step' = "HTTPTERM" => tries' = 2
        BY <2>1, <3>3, Moves
      <4> QED
        BY <2>1, <4>1
    <3> QED
      BY <2>1, <3>1, <3>2, <3>3
  <2> QED
    BY <2>1, <2>2
<1>4. CASE Perform
  <2>1. inbox # << >> /\ inbox' = Tail(inbox) /\ UNCHANGED << step, waiting, tries >>
    BY <1>4 DEF Perform, driver
  <2>2. CASE Len(inbox) = 1
    <3>1. inbox' = << >> /\ Head(inbox) = inbox[Len(inbox)]
      BY <2>1, <2>2, SeqFacts DEF Typed
    <3>2. ASSUME Head(inbox)[1] = "HTTPTERM"
          PROVE  ~data' /\ (~http' \/ body' = Junk)
      <4>1. /\ ~data /\ ~http => Reply("HTTPTERM") = << "ERROR" >>
            /\ ~data /\ http => Reply("HTTPTERM") = << "OK" >>
        BY DEF Reply
      <4>2. << "OK" >> # << "ERROR" >>
        OBVIOUS
      <4> QED
        BY <1>4, <3>2, <4>1, <4>2 DEF Perform
    <3> QED
      BY <2>1, <3>1, <3>2
  <2>3. CASE Len(inbox) # 1
    <3>1. inbox' # << >> /\ inbox'[Len(inbox')] = inbox[Len(inbox)]
      BY <2>1, <2>3, SeqFacts DEF Typed
    <3> QED
      BY <2>1, <3>1
  <2> QED
    BY <2>2, <2>3
<1>5. ASSUME NEW code \in Codes, Done(code) PROVE ClosedLast'
  BY <1>5 DEF Done, driver
<1>6. CASE Lose
  BY <1>6 DEF Lose, driver, modem
<1>7. CASE UNCHANGED vars
  BY <1>7 DEF vars, driver, modem
<1> QED
  BY <1>1, <1>2, <1>3, <1>4, <1>5, <1>6, <1>7 DEF Next

\* Whatever comes late or is lost, after a request the modem's session is
\* closed, unless it took a command for the data of a post (sim900_http_close,
\* sim900.c:1068, called at datalogger.c:1372).
THEOREM SessionsEnd ==
  Spec => []SessionClosed
<1>1. Init => Typed /\ ClosedLast
  <2>1. Init => ClosedLast
    BY DEF Init, ClosedLast
  <2> QED
    BY <2>1, InitTyped
<1>2. (Typed /\ ClosedLast) /\ [Next]_vars => (Typed /\ ClosedLast)'
  BY TypesKept, ClosingKept
<1>3. ClosedLast => SessionClosed
  BY DEF ClosedLast, Closing, SessionClosed
<1> QED
  BY <1>1, <1>2, <1>3, PTL DEF Spec

(***************************************************************************)
(* Requests whose answers come in time (PostTrue, NoFalseFailure).  Until  *)
(* an answer comes after its timeout, at most one command is on its way,   *)
(* and nothing of an earlier request is left when a request begins.        *)
(***************************************************************************)
\* Whose turn it is: nobody's, the modem's, or the server's.
Command == << IF step = "close" THEN "HTTPTERM" ELSE step, op, id >>
Quiet == inbox = << >> /\ action = NoAction
Commanded ==
  /\ waiting /\ step \notin Listening \cup {"idle"}
  /\ inbox = << Command >> /\ rx = << >> /\ action = NoAction
Acting ==
  /\ inbox = << >> /\ action # NoAction /\ action[1] = op
  /\ \/ step = "HTTPACTION" /\ waiting /\ (rx = << "OK" >> \/ (rx = << >> /\ lost > 0))
     \/ step = "wait" /\ rx = << >>
Turns == slow = 0 => Quiet \/ Commanded \/ Acting

\* The line is on its way to the driver.
Has(line) == \E i \in 1..Len(rx) : rx[i] = line

\* The data of a post, from the driver to the server.
Written ==
  slow = 0 /\ op = "post" =>
    /\ step = "HTTPDATA" /\ waiting /\ Has("DOWNLOAD") => data
    /\ step = "data" => tries = 1 /\ (IF waiting /\ inbox = << >> THEN ~data /\ body = id ELSE data)
    /\ step \in {"HTTPACTION", "wait"} => ~data /\ body = id
    /\ action # NoAction => action[2] = id
    /\ step \in {"wait", "status"} \/ (step = "HTTPACTION" /\ waiting) =>
         (Has("200") => id \in server)
    /\ ok => id \in server

\* The server's answer, from the server to the driver.
Heard ==
  /\ Quiet
  /\ \/ step = "HTTPACTION" /\ waiting /\ rx = << "OK", "+HTTPACTION", "200" >>
     \/ step = "wait" /\ rx = << "+HTTPACTION", "200" >>
     \/ step = "status" /\ rx = << "200" >>
Accepted == slow = 0 /\ lost = 0 /\ op = "post" /\ id \in server /\ ~ok => Heard

\* A timeout in time finds neither modem nor server at work.
LEMMA InTime ==
  ASSUME Typed, [Next]_vars
  PROVE  /\ slow' = 0 => slow = 0
         /\ lost' = 0 => lost = 0
         /\ Timeout /\ slow' = 0 => Quiet
<1>1. slow \in Nat /\ lost \in Nat
  BY DEF Typed
<1>2. CASE Timeout
  BY <1>1, <1>2 DEF Timeout, Quiet
<1>3. CASE Lose
  BY <1>1, <1>3 DEF Lose, Timeout
<1>4. CASE ~Timeout /\ ~Lose
  BY <1>1, <1>4 DEF Next, Begin, Send, Receive, Perform, Done, vars
<1> QED
  BY <1>2, <1>3, <1>4

\* One command and its answer.
LEMMA OneOnly ==
  ASSUME NEW x
  PROVE  Append(<< >>, x) = << x >> /\ Head(<< x >>) = x /\ Tail(<< x >>) = << >> /\ << x >> # << >>
OBVIOUS

\* What is performed in time is the command of the driver's step.
LEMMA PerformInTime ==
  ASSUME Typed, Turns, slow = 0, Perform
  PROVE  /\ Commanded /\ Head(inbox) = Command
         /\ inbox' = << >> /\ rx' = Reply(Command[1])
         /\ UNCHANGED << op, id, step, waiting, tries, ok, server, slow, lost >>
<1>1. Commanded /\ inbox = << Command >> /\ rx = << >>
  BY DEF Turns, Quiet, Commanded, Acting, Perform
<1>2. Head(inbox) = Command /\ Tail(inbox) = << >>
  BY <1>1, OneOnly
<1>3. rx' = << >> \o Reply(Command[1]) /\ inbox' = << >>
  BY <1>1, <1>2 DEF Perform
<1> QED
  BY <1>1, <1>2, <1>3, Replies DEF Perform, driver

LEMMA TurnsKept ==
  ASSUME Typed, Turns, [Next]_vars
  PROVE  Turns'
<1> SUFFICES ASSUME slow' = 0 PROVE (Quiet \/ Commanded \/ Acting)'
  BY DEF Turns
<1>1. slow = 0 /\ (Quiet \/ Commanded \/ Acting)
  BY InTime DEF Turns
<1>2. ASSUME NEW o \in {"post", "get"}, Begin(o) PROVE Quiet'
  <2>1. step = "idle" /\ UNCHANGED << inbox, action >>
    BY <1>2 DEF Begin
  <2> QED
    BY <1>1, <2>1 DEF Quiet, Commanded, Acting
<1>3. CASE Send
  <2>1. step # "idle" /\ ~waiting /\ waiting' /\ UNCHANGED << op, id, step, action, lost >>
    BY <1>3 DEF Send, modem
  <2>2. Quiet \/ (Acting /\ step = "wait")
    BY <1>1, <2>1 DEF Commanded, Acting
  <2>3. CASE step \in Listening
    BY <1>3, <2>1, <2>2, <2>3 DEF Send, Quiet, Acting
  <2>4. CASE step \notin Listening
    <3>1. Quiet /\ rx' = << >> /\ inbox' = Append(inbox, Command) /\ Command' = Command
      BY <1>3, <2>1, <2>2, <2>4, StepNames DEF Send, Command
    <3>2. inbox' = << Command >>
      BY <3>1, OneOnly DEF Quiet
    <3> QED
      BY <2>1, <2>4, <3>1, <3>2 DEF Quiet, Commanded
  <2> QED
    BY <2>3, <2>4
<1>4. CASE Receive
  <2>1. /\ waiting /\ rx # << >> /\ rx' = Tail(rx) /\ UNCHANGED << inbox, action >>
        /\ IF Head(rx) \notin Ends(step) THEN UNCHANGED driver
           ELSE IF Good(step, Head(rx)) THEN Proceed ELSE GiveUp
    BY <1>4 DEF Receive, modem
  <2>2. CASE Quiet
    BY <2>1, <2>2 DEF Quiet
  <2>3. CASE Acting
    <3>1. step = "HTTPACTION" /\ rx = << "OK" >> /\ rx' = << >> /\ Head(rx) = "OK"
      <4>1. step = "HTTPACTION" /\ rx = << "OK" >>
        BY <2>1, <2>3 DEF Acting
      <4>2. Head(<< "OK" >>) = "OK" /\ Tail(<< "OK" >>) = << >>
        BY OneOnly
      <4> QED
        BY <2>1, <4>1, <4>2
    <3>2. "OK" \in Ends(step) /\ Good(step, "OK")
      BY <3>1 DEF Ends, Twice, Once, Worded, Lines, Answers, Good
    <3>3. Follow(step) = {"wait"}
      BY <3>1 DEF Follow
    <3>4. step' = "wait" /\ op' = op
      BY <2>1, <3>1, <3>2, <3>3 DEF Proceed, Goto
    <3> QED
      BY <2>1, <2>3, <3>1, <3>4 DEF Acting
  <2> QED
    BY <1>1, <2>1, <2>2, <2>3 DEF Commanded
<1>5. CASE Timeout
  <2>1. Quiet /\ UNCHANGED << inbox, action >>
    BY <1>5, InTime DEF Timeout, modem
  <2> QED
    BY <2>1 DEF Quiet
<1>6. CASE Perform
  <2>1. /\ Commanded /\ Head(inbox) = Command /\ inbox' = << >> /\ rx' = Reply(Command[1])
        /\ UNCHANGED << op, id, step, waiting, lost >>
    BY <1>1, <1>6, PerformInTime DEF Turns
  <2>2. CASE action' = NoAction
    BY <2>1, <2>2 DEF Quiet
  <2>3. CASE action' # NoAction
    <3>1. /\ Command[1] = "HTTPACTION" /\ action' = << op, body >>
          /\ Reply(Command[1]) # << "ERROR" >>
      BY <1>6, <2>1, <2>3 DEF Perform, Commanded, Command
    <3>2. step = "HTTPACTION" /\ rx' = << "OK" >>
      BY <2>1, <3>1, Replies DEF Command
    <3> QED
      BY <2>1, <2>3, <3>1, <3>2 DEF Acting, Commanded
  <2> QED
    BY <2>2, <2>3
<1>7. ASSUME NEW code \in Codes, Done(code) PROVE Quiet'
  BY <1>1, <1>7 DEF Done, Quiet, Commanded, Acting
<1>8. CASE Lose
  <2>1. /\ rx # << >> /\ rx' = Tail(rx) /\ lost' = lost + 1 /\ lost \in Nat
        /\ UNCHANGED << op, id, step, waiting, inbox, action >>
    BY <1>8 DEF Lose, driver, modem, Typed
  <2>2. CASE Quiet
    BY <2>1, <2>2 DEF Quiet
  <2>3. CASE Acting
    <3>1. rx' = << >> /\ lost' > 0
      <4>1. rx = << "OK" >>
        BY <2>1, <2>3 DEF Acting
      <4>2. Tail(<< "OK" >>) = << >>
        BY OneOnly
      <4> QED
        BY <2>1, <4>1, <4>2
    <3> QED
      BY <2>1, <2>3, <3>1 DEF Acting
  <2> QED
    BY <1>1, <2>1, <2>2, <2>3 DEF Commanded
<1>9. CASE UNCHANGED vars
  BY <1>1, <1>9 DEF vars, driver, modem, Quiet, Commanded, Acting, Command
<1> QED
  BY <1>2, <1>3, <1>4, <1>5, <1>6, <1>7, <1>8, <1>9 DEF Next

\* What a line taken off the queue leaves.
LEMMA HasTail ==
  ASSUME Typed, rx # << >>, rx' = Tail(rx), NEW line
  PROVE  Has(Head(rx)) /\ (Has(line)' => Has(line))
<1>1. rx \in Seq(Tokens)
  BY DEF Typed
<1>2. Len(rx) \in Nat \ {0} /\ Head(rx) = rx[1]
  BY <1>1, EmptySeq
<1>3. ASSUME NEW i \in 1..Len(rx'), rx'[i] = line PROVE Has(line)
  <2>1. rx'[i] = rx[i + 1] /\ Len(rx') = Len(rx) - 1
    BY <1>1, <1>3, HeadTailProperties
  <2>2. i + 1 \in 1..Len(rx)
    BY <1>2, <2>1
  <2> QED
    BY <1>3, <2>1, <2>2 DEF Has
<1>4. Has(line)' => \E i \in 1..Len(rx') : rx'[i] = line
  BY DEF Has
<1> QED
  BY <1>2, <1>3, <1>4 DEF Has

\* What the step that the driver ends has heard.
LEMMA Endings ==
  ASSUME step \in Steps, NEW line
  PROVE  /\ step = "HTTPDATA" /\ line \in Ends(step) => line = "DOWNLOAD"
         /\ step = "status" /\ Good(step, line) => line = "200"
         /\ step = "HTTPACTION" => "OK" \in Ends(step) /\ Good(step, "OK")
         /\ step = "wait" => "+HTTPACTION" \in Ends(step) /\ Good(step, "+HTTPACTION")
         /\ step = "status" => "200" \in Ends(step) /\ Good(step, "200")
<1>1. step = "HTTPDATA" => Ends(step) = {"DOWNLOAD"}
  BY DEF Ends, Twice, Once, Lines
<1>2. step = "status" => Ends(step) = Tokens
  BY DEF Ends, Twice, Once, Lines
<1>3. step = "HTTPACTION" => Ends(step) = Answers
  BY DEF Ends, Twice, Once, Lines
<1>4. step = "wait" => Ends(step) = {"+HTTPACTION"}
  BY DEF Ends, Twice, Once, Lines
<1>5. /\ step = "status" => (Good(step, line) <=> line = "200") /\ Good(step, "200")
      /\ step = "HTTPACTION" => Good(step, "OK")
      /\ step = "wait" => Good(step, "+HTTPACTION")
  BY DEF Good
<1> QED
  BY <1>1, <1>2, <1>3, <1>4, <1>5 DEF Answers, Tokens, Codes

\* One line and two more.
LEMMA OneAndTwo ==
  ASSUME NEW a, NEW b, NEW c
  PROVE  << a >> \o << b, c >> = << a, b, c >>
<1> DEFINE S == {a, b, c}
           s == << a >> \o << b, c >>
           line == << a, b, c >>
<1>1. << a >> \in Seq(S) /\ << b, c >> \in Seq(S) /\ line \in Seq(S)
  OBVIOUS
<1>2. s \in Seq(S) /\ Len(s) = 3 /\ s[1] = a /\ s[2] = b /\ s[3] = c
  BY <1>1
<1>3. Len(line) = 3 /\ line[1] = a /\ line[2] = b /\ line[3] = c
  OBVIOUS
<1>4. Len(s) = Len(line) /\ \A i \in 1..Len(s) : s[i] = line[i]
  <2>1. \A i \in 1..3 : i = 1 \/ i = 2 \/ i = 3
    OBVIOUS
  <2> HIDE DEF s, line
  <2> QED
    BY <1>2, <1>3, <2>1
<1> HIDE DEF s, line, S
<1>5. s \in Seq(S) /\ line \in Seq(S)
  BY <1>1, <1>2
<1>6. s = line
  BY <1>4, <1>5, SeqEqual
<1> QED
  BY <1>6 DEF s, line

\* What the server says in time, the driver is waiting for.
LEMMA DoneInTime ==
  ASSUME Typed, Turns, slow = 0, NEW code \in Codes, Done(code)
  PROVE  /\ Acting /\ Quiet'
         /\ rx' = << "+HTTPACTION", code >> \/ rx' = << "OK", "+HTTPACTION", code >>
         /\ step = "wait" => rx' = << "+HTTPACTION", code >>
         /\ step = "HTTPACTION" => rx' = << "OK", "+HTTPACTION", code >> \/ lost > 0
<1>1. Acting /\ rx' = rx \o << "+HTTPACTION", code >> /\ action' = NoAction /\ inbox' = inbox
  BY DEF Turns, Quiet, Commanded, Acting, Done
<1>2. << >> \o << "+HTTPACTION", code >> = << "+HTTPACTION", code >>
  OBVIOUS
<1>3. << "OK" >> \o << "+HTTPACTION", code >> = << "OK", "+HTTPACTION", code >>
  BY OneAndTwo
<1> QED
  BY <1>1, <1>2, <1>3 DEF Acting, Quiet

LEMMA WrittenKept ==
  ASSUME Typed, Turns, Written, [Next]_vars
  PROVE  Written'
<1> SUFFICES ASSUME slow' = 0, op' = "post" PROVE Written'
  BY DEF Written
<1>1. slow = 0 /\ (Quiet \/ Commanded \/ Acting)
  BY InTime DEF Turns
<1>2. ASSUME NEW o \in {"post", "get"}, Begin(o) PROVE Written'
  <2>1. step' = "AT" /\ ok' = FALSE /\ action' = action /\ step = "idle"
    BY <1>2 DEF Begin
  <2>2. action = NoAction
    BY <1>1, <2>1 DEF Quiet, Commanded, Acting
  <2> QED
    BY <2>1, <2>2 DEF Written
<1>3. CASE Send
  <2>1. /\ step # "idle" /\ ~waiting /\ UNCHANGED << op, id, step, tries, ok, data, body, action, server >>
        /\ IF step \in Listening THEN UNCHANGED << rx, inbox >>
           ELSE rx' = << >> /\ \E c : inbox' = Append(inbox, c)
    BY <1>3 DEF Send, modem
  <2>2. CASE step \in Listening
    BY <1>1, <2>1, <2>2, StepNames DEF Written, Has
  <2>3. CASE step \notin Listening
    <3>1. ASSUME NEW line PROVE ~Has(line)'
      BY <2>1, <2>3 DEF Has
    <3>2. inbox' # << >>
      <4>1. inbox = << >>
        BY <1>1, <2>1, <2>3, StepNames DEF Quiet, Commanded, Acting
      <4>2. PICK c : inbox' = Append(inbox, c)
        BY <2>1, <2>3
      <4> QED
        BY <4>1, <4>2, OneOnly
    <3> QED
      BY <1>1, <2>1, <2>3, <3>1, <3>2, StepNames DEF Written
  <2> QED
    BY <2>2, <2>3
<1>4. CASE Receive
  <2>1. /\ waiting /\ rx # << >> /\ rx' = Tail(rx) /\ step # "idle" /\ step \in Steps
        /\ UNCHANGED << inbox, data, body, action, server >>
        /\ \/ UNCHANGED << op, id, step, waiting, tries, ok >>
           \/ Head(rx) \in Ends(step) /\ Good(step, Head(rx)) /\ Proceed
           \/ GiveUp
    BY <1>4 DEF Receive, driver, modem, Typed
  <2>2. op = "post" /\ id' = id
    BY <2>1 DEF Proceed, GiveUp
  <2>3. ASSUME NEW line, Has(line)' PROVE Has(line)
    BY <2>1, <2>3, HasTail
  <2>4. inbox = << >>
    BY <1>1, <2>1 DEF Quiet, Commanded, Acting
  <2>5. CASE UNCHANGED << op, id, step, waiting, tries, ok >>
    BY <1>1, <2>1, <2>2, <2>3, <2>5 DEF Written
  <2>6. CASE Head(rx) \in Ends(step) /\ Good(step, Head(rx)) /\ Proceed
    <3>1. PICK s \in Follow(step) : step' = s /\ tries' = Tries(s) /\ waiting' = FALSE
      BY <2>6 DEF Proceed, Goto
    <3>2. /\ step' = "data" => step = "HTTPDATA"
          /\ step' = "HTTPACTION" => step = "data"
          /\ step' = "wait" => step = "HTTPACTION"
          /\ step' = "status" => step = "wait"
      BY <2>1, <2>2, <3>1, StepNames DEF Follow
    <3>3. ok' => ok \/ step = "status"
      BY <2>2, <2>6 DEF Proceed, Returns
    <3>4. /\ step = "HTTPDATA" => Has("DOWNLOAD")
          /\ step = "status" => Has("200")
      BY <2>1, <2>6, HasTail, Endings
    <3>5. step' = "data" => tries' = 1
      BY <3>1 DEF Tries, Twice
    <3> QED
      BY <1>1, <2>1, <2>2, <2>3, <2>4, <3>1, <3>2, <3>3, <3>4, <3>5 DEF Written
  <2>7. CASE GiveUp
    BY <1>1, <2>1, <2>2, <2>7 DEF Written, GiveUp, Goto
  <2> QED
    BY <2>1, <2>5, <2>6, <2>7
<1>5. CASE Timeout
  <2>1. /\ waiting /\ rx = << >> /\ rx' = << >> /\ step # "idle" /\ step \in Steps
        /\ UNCHANGED << inbox, data, body, action, server >>
        /\ \/ tries > 1 /\ waiting' = FALSE /\ UNCHANGED << op, id, step, ok >>
           \/ step \in Unchecked /\ Proceed
           \/ GiveUp
    BY <1>5 DEF Timeout, modem, Typed
  <2>2. Quiet /\ op = "post" /\ id' = id
    BY <1>5, <2>1, InTime DEF Proceed, GiveUp
  <2>3. ASSUME NEW line PROVE ~Has(line)'
    BY <2>1 DEF Has
  <2>4. CASE tries > 1 /\ waiting' = FALSE /\ UNCHANGED << op, id, step, ok >>
    BY <1>1, <2>1, <2>2, <2>3, <2>4 DEF Written
  <2>5. CASE step \in Unchecked /\ Proceed
    <3>1. PICK s \in Follow(step) : step' = s /\ waiting' = FALSE
      BY <2>5 DEF Proceed, Goto
    <3>2. /\ step' = "HTTPACTION" => step = "data"
          /\ step' \notin {"data", "wait", "status"}
      BY <2>1, <2>2, <2>5, <3>1, StepNames DEF Follow, Unchecked
    <3>3. ok' => ok
      BY <2>2, <2>5 DEF Proceed, Returns, Unchecked
    <3> QED
      BY <1>1, <2>1, <2>2, <2>3, <3>1, <3>2, <3>3 DEF Written, Quiet
  <2>6. CASE GiveUp
    BY <1>1, <2>1, <2>2, <2>6 DEF Written, GiveUp, Goto
  <2> QED
    BY <2>1, <2>4, <2>5, <2>6
<1>6. CASE Perform
  <2> DEFINE c == Command[1]
             reply == Reply(c)
             done == ~data /\ reply # << "ERROR" >>
  <2>1. /\ Commanded /\ Head(inbox) = Command /\ inbox' = << >> /\ rx' = reply
        /\ UNCHANGED << op, id, step, waiting, tries, ok, server >>
    BY <1>1, <1>6, PerformInTime
  <2>2. Command = << c, op, id >> /\ c = IF step = "close" THEN "HTTPTERM" ELSE step
    BY DEF Command
  <2>3. /\ data' = (done /\ c = "HTTPDATA")
        /\ body' = IF data THEN IF c = "data" THEN id ELSE Junk
                   ELSE IF done /\ c = "HTTPTERM" THEN NoBody ELSE body
        /\ action' = IF done /\ c = "HTTPACTION" THEN << op, body >>
                     ELSE IF done /\ c = "HTTPTERM" /\ Cancels THEN NoAction
                     ELSE action
    BY <1>6, <2>1, <2>2 DEF Perform
  <2>4. ~Has("200")' /\ (Has("DOWNLOAD")' => reply = << "DOWNLOAD" >>)
    <3>1. rx' \in {<< "OK" >>, << "ERROR" >>, << "DOWNLOAD" >>,
                   << "+HTTPREAD", "length", "text", "OK" >>}
      BY <2>1, Replies
    <3> QED
      BY <2>1, <3>1 DEF Has
  <2>5. reply = << "DOWNLOAD" >> => done /\ c = "HTTPDATA"
    BY Replies
  <2>6. waiting /\ step # "idle" /\ step \notin Listening /\ action = NoAction /\ inbox # << >>
    BY <2>1, OneOnly DEF Commanded
  <2> HIDE DEF c, reply, done
  <2> QED
    BY <1>1, <2>1, <2>2, <2>3, <2>4, <2>5, <2>6, StepNames DEF Written
<1>7. ASSUME NEW code \in Codes, Done(code) PROVE Written'
  <2>1. /\ Acting /\ Quiet' /\ op = "post"
        /\ rx' = << "+HTTPACTION", code >> \/ rx' = << "OK", "+HTTPACTION", code >>
    BY <1>1, <1>7, DoneInTime DEF Done, driver
  <2>2. /\ UNCHANGED << op, id, step, waiting, tries, ok, data, body, inbox >>
        /\ server \subseteq server' /\ (code = "200" => id \in server')
    <3>1. action[1] = "post" /\ action[2] = id /\ id \in Ids
      BY <1>1, <2>1 DEF Written, Acting, Typed
    <3> QED
      BY <1>7, <3>1 DEF Done, driver
  <2>3. Has("200")' => code = "200"
    BY <2>1 DEF Has
  <2>4. step \in {"HTTPACTION", "wait"} /\ action' = NoAction
    BY <2>1 DEF Acting, Quiet
  <2> QED
    BY <1>1, <2>1, <2>2, <2>3, <2>4 DEF Written
<1>8. CASE Lose
  <2>1. /\ rx # << >> /\ rx' = Tail(rx)
        /\ UNCHANGED << op, id, step, waiting, tries, ok, inbox, data, body, action, server >>
    BY <1>8 DEF Lose, driver, modem
  <2>2. ASSUME NEW line, Has(line)' PROVE Has(line)
    BY <2>1, <2>2, HasTail
  <2> QED
    BY <1>1, <2>1, <2>2 DEF Written
<1>9. CASE UNCHANGED vars
  BY <1>1, <1>9 DEF vars, driver, modem, Written, Has
<1> QED
  BY <1>2, <1>3, <1>4, <1>5, <1>6, <1>7, <1>8, <1>9 DEF Next

LEMMA AcceptedKept ==
  ASSUME Typed, Turns, Accepted, [Next]_vars
  PROVE  Accepted'
<1> SUFFICES ASSUME slow' = 0, lost' = 0, op' = "post", (id \in server)', ~ok' PROVE Heard'
  BY DEF Accepted
<1>1. /\ slow = 0 /\ lost = 0 /\ (Quiet \/ Commanded \/ Acting)
      /\ op = "post" /\ id \in server /\ ~ok => Heard
  BY InTime DEF Turns, Accepted
<1>2. ASSUME NEW o \in {"post", "get"} PROVE ~Begin(o)
  BY DEF Begin
<1>3. CASE Send
  <2>1. Heard /\ ~waiting /\ UNCHANGED << step, action >>
    BY <1>1, <1>3 DEF Send, modem
  <2>2. step \in Listening
    BY <2>1, StepNames DEF Heard
  <2>3. UNCHANGED << rx, inbox >>
    BY <1>3, <2>2 DEF Send
  <2> QED
    BY <2>1, <2>2, <2>3 DEF Heard, Quiet
<1>4. CASE Receive
  <2>1. /\ waiting /\ rx # << >> /\ rx' = Tail(rx) /\ UNCHANGED << inbox, action, server >>
        /\ IF Head(rx) \notin Ends(step) THEN UNCHANGED << op, id, step, waiting, tries, ok >>
           ELSE IF Good(step, Head(rx)) THEN Proceed ELSE GiveUp
    BY <1>4 DEF Receive, modem, driver
  <2>2. UNCHANGED << op, id >> /\ ~ok
    BY <2>1 DEF Proceed, GiveUp
  <2>3. Heard /\ Quiet'
    BY <1>1, <2>1, <2>2 DEF Heard, Quiet
  <2>4. CASE step = "HTTPACTION"
    <3>1. rx = << "OK", "+HTTPACTION", "200" >>
      BY <2>3, <2>4 DEF Heard
    <3>2. Head(rx) = "OK" /\ Tail(rx) = << "+HTTPACTION", "200" >>
      BY <3>1
    <3>3. Follow(step) = {"wait"}
      BY <2>4 DEF Follow
    <3>4. step' = "wait"
      BY <2>1, <2>4, <3>2, <3>3, Endings, StepNames DEF Proceed, Goto
    <3> QED
      BY <2>1, <2>3, <3>2, <3>4 DEF Heard
  <2>5. CASE step = "wait"
    <3>1. rx = << "+HTTPACTION", "200" >>
      BY <2>3, <2>5 DEF Heard
    <3>2. Head(rx) = "+HTTPACTION" /\ Tail(rx) = << "200" >>
      BY <3>1
    <3>3. Follow(step) = {"status"}
      BY <2>5 DEF Follow
    <3>4. step' = "status"
      BY <2>1, <2>5, <3>2, <3>3, Endings, StepNames DEF Proceed, Goto
    <3> QED
      BY <2>1, <2>3, <3>2, <3>4 DEF Heard
  <2>6. step # "status"
    <3>1. SUFFICES ASSUME step = "status" PROVE FALSE
      OBVIOUS
    <3>2. rx = << "200" >>
      BY <2>3, <3>1 DEF Heard
    <3>3. Head(rx) = "200"
      BY <3>2
    <3>4. Proceed
      BY <2>1, <3>1, <3>3, Endings, StepNames
    <3> QED
      BY <2>2, <3>1, <3>4 DEF Proceed, Returns
  <2> QED
    BY <2>3, <2>4, <2>5, <2>6 DEF Heard
<1>5. ~Timeout
  <2>1. Timeout => UNCHANGED << op, id, server >> /\ (ok => ok') /\ rx = << >>
    BY DEF Timeout, Proceed, GiveUp, modem
  <2>2. ~(Heard /\ rx = << >>)
    BY DEF Heard
  <2> QED
    BY <1>1, <2>1, <2>2
<1>6. ~Perform
  <2>1. Perform => inbox # << >> /\ UNCHANGED << op, id, ok, server >>
    BY DEF Perform, driver
  <2> QED
    BY <1>1, <2>1 DEF Heard, Quiet
<1>7. ASSUME NEW code \in Codes, Done(code) PROVE Heard'
  <2>1. UNCHANGED << op, id, step, waiting, ok >> /\ action # NoAction
    BY <1>7 DEF Done, driver
  <2>2. id \notin server
    BY <1>1, <2>1 DEF Heard, Quiet
  <2>3. code = "200"
    BY <1>7, <2>1, <2>2 DEF Done
  <2>4. /\ Acting /\ Quiet'
        /\ step = "wait" => rx' = << "+HTTPACTION", code >>
        /\ step = "HTTPACTION" => rx' = << "OK", "+HTTPACTION", code >>
    BY <1>1, <1>7, DoneInTime DEF Typed
  <2> QED
    BY <2>1, <2>3, <2>4 DEF Acting, Heard
<1>8. ~Lose
  BY <1>1 DEF Lose
<1>9. CASE UNCHANGED vars
  BY <1>1, <1>9 DEF vars, driver, modem, Heard, Quiet
<1> QED
  BY <1>2, <1>3, <1>4, <1>5, <1>6, <1>7, <1>8, <1>9 DEF Next

IInv == Typed /\ Turns /\ Written /\ Accepted

LEMMA Invariant ==
  Spec => []IInv
<1>1. Init => IInv
  <2>1. Init => Turns /\ Written /\ Accepted
    BY DEF Init, Turns, Quiet, Written, Accepted
  <2> QED
    BY <2>1, InitTyped DEF IInv
<1>2. IInv /\ [Next]_vars => IInv'
  BY TypesKept, TurnsKept, WrittenKept, AcceptedKept DEF IInv
<1> QED
  BY <1>1, <1>2, PTL DEF Spec

\* When sim900_http_post returns 0 the server has accepted the data of this
\* very post, whatever lines were lost, as long as no answer has come after
\* its timeout (sim900.c:1059).  It is not so for every number of late answers.
THEOREM PostsTrueInTime ==
  Spec => [](slow = 0 => PostTrue)
<1>1. IInv => (slow = 0 => PostTrue)
  BY DEF IInv, Written, PostTrue
<1> QED
  BY <1>1, Invariant, PTL

\* A post that the server accepted is reported as failed, and the records are
\* sent again, only after an answer came late or a line was lost (sim900.c:1033).
THEOREM NoFailureInCalm ==
  Spec => []NoFalseFailure
<1>1. IInv => NoFalseFailure
  <2>1. SUFFICES ASSUME IInv, step = "idle", op = "post", ~ok, id \in server, ~(slow + lost > 0)
                 PROVE  FALSE
    BY DEF NoFalseFailure
  <2>2. slow = 0 /\ lost = 0
    BY <2>1 DEF IInv, Typed
  <2> QED
    BY <2>1, <2>2 DEF IInv, Accepted, Heard
<1> QED
  BY <1>1, Invariant, PTL

(***************************************************************************)
(* Requests whose answers come late (PostTrue).  Commands are performed in *)
(* the order in which they were sent, and that order alone ties what the   *)
(* modem posts to the request whose data it took.  Each answer that comes  *)
(* late lets the modem fall behind by one command more, and the result of  *)
(* an older post can be taken for this one's only while the HTTPTERM that  *)
(* ends the older one is still to be performed, eight commands back.       *)
(***************************************************************************)
\* The step's command has been sent, and is the last that was.
Sent == waiting /\ step \notin Listening

\* What command c leaves behind in the modem, when it is the last performed.
Performed(c) ==
  /\ data => c[1] = "HTTPDATA"
  /\ c[1] = "HTTPDATA" => data \/ ~http
  /\ c[1] \in {"data", "HTTPACTION"} /\ c[2] = "post" => body = c[3] \/ ~http
  /\ action # NoAction =>
       /\ http /\ c[1] \in {"HTTPACTION", "HTTPREAD"}
       /\ c[2] = "post" => action = << "post", c[3] >>

\* Command d may be sent next after c.
Then(c, d) ==
  /\ c[1] = "HTTPDATA" => d[1] \in {"data", "HTTPTERM"}
  /\ c[1] \in {"HTTPACTION", "HTTPREAD"} => d[1] \in {"HTTPACTION", "HTTPREAD", "HTTPTERM"}
  /\ d[1] = "data" => c[1] = "HTTPDATA"
  /\ d[1] = "HTTPACTION" /\ d[2] = "post" => c[1] \in {"data", "HTTPACTION"}
  /\ c[1] # "HTTPTERM" => d[2] = c[2] /\ d[3] = c[3]

\* The commands that may have been the last before step s sends its own.
Before(s) ==
  CASE s = "data" -> {"HTTPDATA"}
    [] s = "HTTPACTION" -> {"data", "HTTPACTION"} \cup (IF op = "post" THEN {} ELSE {"URL"})
    [] s \in Listening \cup {"HTTPREAD"} -> {"HTTPACTION", "HTTPREAD"}
    [] s \in {"close", "idle"} -> {"HTTPTERM"}
    [] s = "HTTPTERM" -> Steps
    [] OTHER -> {"HTTPTERM", "AT", "HTTPINIT", "CID", "URL"}

\* Command c was the last that the driver sent.
LastSent(c) ==
  /\ IF Sent THEN c = Command ELSE c[1] \in Before(step)
  /\ tries > 1 => step \in Twice \cup {"wait"}

\* How many commands a post has sent at least.
Place(s) ==
  CASE s = "AT" -> 0 [] s = "HTTPINIT" -> 1 [] s = "CID" -> 2 [] s = "URL" -> 3
    [] s = "HTTPDATA" -> 4 [] s = "data" -> 5 [] s = "HTTPACTION" -> 6 [] OTHER -> 7
Posting ==
  op = "post" /\ step \in {"AT", "HTTPINIT", "CID", "URL", "HTTPDATA", "data",
                           "HTTPACTION", "wait", "status"}
Count == Place(step) + IF Sent THEN 1 ELSE 0

\* Nothing ended the request of the i-th command of s.
Open(s, i) == \A j \in i..Len(s) : s[j][1] # "HTTPTERM"

\* The sequence s is the command that was performed last and those to come.
Order(s) ==
  /\ s # << >> /\ inbox = Tail(s)
  /\ Performed(s[1])
  /\ \A i \in 1..Len(s) - 1 : Then(s[i], s[i + 1])
  /\ LastSent(s[Len(s)])
  /\ step # "idle" =>
       \A i \in 1..Len(s) : Open(s, i) => s[i][2] = op /\ s[i][3] = id
  /\ Posting =>
       \A i \in 1..Len(s) : s[i][1] = "HTTPTERM" => Len(s) - i >= Count
Ordered == \E s \in Seq(Requested) : Order(s)

\* The sequence without its first command, and with one more.
LEMMA TailOf ==
  ASSUME NEW s \in Seq(Requested), s # << >>, Tail(s) # << >>
  PROVE  LET t == Tail(s)
         IN  /\ t \in Seq(Requested) /\ Len(s) \in Nat /\ Len(t) = Len(s) - 1 /\ Len(t) >= 1
             /\ \A i \in 1..Len(t) : t[i] = s[i + 1] /\ i + 1 \in 2..Len(s)
             /\ t[Len(t)] = s[Len(s)] /\ Head(t) = s[2] /\ t[1] = s[2]
             /\ \A i \in 1..Len(s) : s[i] \in Requested
<1> DEFINE t == Tail(s)
<1>1. Len(s) \in Nat \ {0} /\ t \in Seq(Requested) /\ Len(t) = Len(s) - 1
      /\ \A i \in 1..Len(t) : t[i] = s[i + 1]
  BY EmptySeq, HeadTailProperties
<1>2. Len(t) >= 1
  BY <1>1, EmptySeq
<1>3. Head(t) = t[1]
  BY <1>1, HeadTailProperties
<1>4. \A i \in 1..Len(s) : s[i] \in Requested
  OBVIOUS
<1> HIDE DEF t
<1>5. t[1] = s[2] /\ t[Len(t)] = s[Len(s)]
  BY <1>1, <1>2
<1> QED
  BY <1>1, <1>2, <1>3, <1>4, <1>5 DEF t

LEMMA AppendOf ==
  ASSUME NEW s \in Seq(Requested), s # << >>, NEW c \in Requested
  PROVE  LET t == Append(s, c)
         IN  /\ t \in Seq(Requested) /\ t # << >> /\ Len(s) \in Nat \ {0} /\ Len(t) = Len(s) + 1
             /\ \A i \in 1..Len(s) : t[i] = s[i]
             /\ t[Len(t)] = c
             /\ Tail(t) = Append(Tail(s), c)
<1> DEFINE t == Append(s, c)
           u == Append(Tail(s), c)
<1>1. /\ t \in Seq(Requested) /\ t # << >> /\ Len(s) \in Nat \ {0} /\ Len(t) = Len(s) + 1
      /\ \A i \in 1..Len(s) : t[i] = s[i]
      /\ t[Len(t)] = c
  BY EmptySeq
<1>2. Tail(s) \in Seq(Requested) /\ Len(Tail(s)) = Len(s) - 1
      /\ \A i \in 1..Len(s) - 1 : Tail(s)[i] = s[i + 1]
  BY HeadTailProperties
<1>3. u \in Seq(Requested) /\ Len(u) = Len(s)
      /\ u[Len(s)] = c /\ \A i \in 1..Len(s) - 1 : u[i] = s[i + 1]
  BY <1>1, <1>2
<1>4. Tail(t) \in Seq(Requested) /\ Len(Tail(t)) = Len(s) /\ \A i \in 1..Len(s) : Tail(t)[i] = t[i + 1]
  BY <1>1, HeadTailProperties
<1> HIDE DEF t, u
<1>5. \A i \in 1..Len(s) : Tail(t)[i] = u[i]
  BY <1>1, <1>3, <1>4
<1>6. Tail(t) = u
  BY <1>3, <1>4, <1>5, SeqEqual
<1> QED
  BY <1>1, <1>6 DEF t, u

\* What the modem's answers say of it.
LEMMA Refusals ==
  /\ Reply("HTTPDATA") = IF data THEN << "OK" >> ELSE IF http THEN << "DOWNLOAD" >> ELSE << "ERROR" >>
  /\ Reply("data") = IF data THEN << "OK" >> ELSE << "ERROR" >>
  /\ Reply("HTTPTERM") = IF data \/ http THEN << "OK" >> ELSE << "ERROR" >>
  /\ Reply("HTTPACTION") = IF data \/ (http /\ action = NoAction) THEN << "OK" >> ELSE << "ERROR" >>
  /\ << "OK" >> # << "ERROR" >> /\ << "DOWNLOAD" >> # << "ERROR" >>
BY DEF Reply

\* A command is performed in its turn.
LEMMA PerformedNext ==
  ASSUME Cancels, NEW c, NEW d \in Requested, Performed(c), Then(c, d), Perform, Head(inbox) = d
  PROVE  Performed(d)'
<1> DEFINE done == ~data /\ Reply(d[1]) # << "ERROR" >>
<1>1. /\ http' = IF ~done THEN http ELSE IF d[1] = "HTTPINIT" THEN TRUE
                 ELSE http /\ d[1] # "HTTPTERM"
      /\ data' = (done /\ d[1] = "HTTPDATA")
      /\ body' = IF data THEN IF d[1] = "data" THEN d[3] ELSE Junk
                 ELSE IF done /\ d[1] = "HTTPTERM" THEN NoBody ELSE body
      /\ action' = IF done /\ d[1] = "HTTPACTION" THEN << d[2], body >>
                   ELSE IF done /\ d[1] = "HTTPTERM" THEN NoAction
                   ELSE action
  BY DEF Perform
<1>2. /\ d[1] = "HTTPDATA" => (done <=> ~data /\ http)
      /\ d[1] = "data" => ~done
      /\ d[1] = "HTTPTERM" => (done <=> ~data /\ http)
      /\ d[1] = "HTTPACTION" => (done <=> ~data /\ http /\ action = NoAction)
  BY Refusals
<1> HIDE DEF done
<1>3. data' => d[1] = "HTTPDATA"
  BY <1>1
<1>4. d[1] = "HTTPDATA" => data' \/ ~http'
  BY <1>1, <1>2 DEF Performed, Then
<1>5. d[1] \in {"data", "HTTPACTION"} /\ d[2] = "post" => body' = d[3] \/ ~http'
  <2>1. CASE d[1] = "data"
    BY <1>1, <1>2, <2>1 DEF Performed, Then
  <2>2. CASE d[1] = "HTTPACTION" /\ d[2] = "post"
    BY <1>1, <1>2, <2>2 DEF Performed, Then
  <2> QED
    BY <2>1, <2>2
<1>6. ASSUME action' # NoAction
      PROVE  /\ http' /\ d[1] \in {"HTTPACTION", "HTTPREAD"}
             /\ d[2] = "post" => action' = << "post", d[3] >>
  <2>1. CASE done /\ d[1] = "HTTPACTION"
    <3>1. http' /\ ~data /\ action' = << d[2], body >>
      BY <1>1, <1>2, <2>1
    <3>2. d[2] = "post" => body = d[3]
      BY <1>2, <2>1, <3>1 DEF Performed, Then
    <3> QED
      BY <2>1, <3>1, <3>2
  <2>2. CASE ~(done /\ d[1] = "HTTPACTION")
    <3>1. action' = action /\ ~(done /\ d[1] = "HTTPTERM")
      BY <1>1, <1>6, <2>2
    <3>2. http /\ c[1] \in {"HTTPACTION", "HTTPREAD"} /\ ~data
          /\ (c[2] = "post" => action = << "post", c[3] >>)
      BY <1>6, <3>1 DEF Performed
    <3>3. d[1] \in {"HTTPACTION", "HTTPREAD"} /\ d[2] = c[2] /\ d[3] = c[3]
      BY <1>2, <3>1, <3>2 DEF Then
    <3>4. http'
      BY <1>1, <3>2, <3>3
    <3> QED
      BY <3>1, <3>2, <3>3, <3>4
  <2> QED
    BY <2>1, <2>2
<1> QED
  BY <1>3, <1>4, <1>5, <1>6 DEF Performed

\* What may come next after the command of a step.
LEMMA Allowed ==
  ASSUME Typed, NEW c \in Requested, LastSent(c), Send, step \notin Listening,
         c[1] # "HTTPTERM" => c[2] = op /\ c[3] = id
  PROVE  Then(c, Command) /\ Command \in Requested
<1>1. step \in Steps \ (Listening \cup {"idle"}) /\ c[1] \in Before(step)
  BY DEF LastSent, Sent, Send, Typed
<1>2. Command[1] = (IF step = "close" THEN "HTTPTERM" ELSE step) /\ Command[2] = op /\ Command[3] = id
  BY DEF Command
<1>3. Command \in Requested
  BY <1>1, StepNames DEF Command, Requested, Typed
<1>4. c[1] = "HTTPDATA" => step \in {"data", "HTTPTERM"}
  BY <1>1, StepNames DEF Before
<1>5. c[1] \in {"HTTPACTION", "HTTPREAD"} => step \in {"HTTPACTION", "HTTPREAD", "HTTPTERM"}
  BY <1>1, StepNames DEF Before
<1>6. step = "data" => c[1] = "HTTPDATA"
  BY <1>1, StepNames DEF Before
<1>7. step = "HTTPACTION" /\ op = "post" => c[1] \in {"data", "HTTPACTION"}
  BY <1>1, StepNames DEF Before
<1>8. c[1] # "HTTPTERM" => Command[2] = c[2] /\ Command[3] = c[3]
  BY <1>2
<1> QED
  BY <1>2, <1>3, <1>4, <1>5, <1>6, <1>7, <1>8 DEF Then

\* Where the driver's step leads, the command it sent last may have been last.
LEMMA LastKept ==
  ASSUME Typed, NEW c \in Requested, LastSent(c), step # "idle", waiting,
         \/ UNCHANGED driver
         \/ tries > 1 /\ tries' = tries - 1 /\ waiting' = FALSE /\ UNCHANGED << op, id, step, ok >>
         \/ Proceed
         \/ GiveUp
  PROVE  LastSent(c)'
<1>1. c[1] \in Steps
  BY DEF Requested
<1>2. Sent => c[1] = IF step = "close" THEN "HTTPTERM" ELSE step
  BY DEF LastSent, Command
<1>3. ~Sent => c[1] \in Before(step)
  BY DEF LastSent
<1>4. CASE UNCHANGED driver
  <2>1. UNCHANGED << op, id, step, waiting, tries >>
    BY <1>4 DEF driver
  <2>2. Sent' = Sent /\ Command' = Command /\ Before(step)' = Before(step)
    BY <2>1 DEF Sent, Command, Before
  <2> QED
    BY <2>1, <2>2 DEF LastSent
<1>5. CASE tries > 1 /\ tries' = tries - 1 /\ waiting' = FALSE /\ UNCHANGED << op, id, step, ok >>
  <2>1. step \in Twice \cup {"wait"} /\ step' = step /\ ~Sent' /\ op' = op
    BY <1>5 DEF LastSent, Sent
  <2>2. c[1] \in Before(step)
    BY <1>1, <1>2, <1>3, <2>1, StepNames DEF Before, Twice, Sent
  <2>3. Before(step)' = Before(step)
    BY <2>1 DEF Before
  <2> QED
    BY <2>1, <2>2, <2>3 DEF LastSent
<1>6. CASE GiveUp
  <2>1. step' = "HTTPTERM" /\ ~Sent'
    BY <1>6 DEF GiveUp, Goto, Sent
  <2>2. Before(step)' = Steps
    BY <2>1, StepNames DEF Before
  <2> QED
    BY <1>1, <2>1, <2>2 DEF LastSent, Twice
<1>7. CASE Proceed
  <2>1. PICK s \in Follow(step) : step' = s /\ tries' = Tries(s) /\ waiting' = FALSE
    BY <1>7 DEF Proceed, Goto
  <2>2. op' = op /\ ~Sent'
    BY <1>7, <2>1 DEF Proceed, Sent
  <2>3. tries' > 1 => step' \in Twice \cup {"wait"}
    BY <2>1 DEF Tries
  <2>4. Before(step)' = Before(s)
    BY <2>1, <2>2 DEF Before
  <2>5. c[1] \in Before(s)
    <3>1. CASE step \in Listening
      BY <1>1, <1>3, <2>1, <3>1, StepNames DEF Before, Follow, Sent
    <3>2. CASE step \notin Listening
      BY <1>1, <1>2, <2>1, <3>2, StepNames DEF Before, Follow, Sent, Typed
    <3> QED
      BY <3>1, <3>2
  <2> QED
    BY <2>1, <2>2, <2>3, <2>4, <2>5 DEF LastSent
<1> QED
  BY <1>4, <1>5, <1>6, <1>7

\* A post that moves on has sent no command more, and none less.
LEMMA CountKept ==
  ASSUME Typed, waiting, step # "idle", Posting',
         \/ UNCHANGED driver
         \/ tries > 1 /\ tries' = tries - 1 /\ waiting' = FALSE /\ UNCHANGED << op, id, step, ok >>
         \/ Proceed
         \/ GiveUp
  PROVE  Posting /\ Count' <= Count /\ Count \in Nat /\ Count' \in Nat
<1>1. Place(step) \in 0..7 /\ Place(step)' \in 0..7
  BY DEF Place
<1>2. CASE UNCHANGED driver
  <2>1. UNCHANGED << op, step, waiting >>
    BY <1>2 DEF driver
  <2>2. Sent' = Sent /\ Place(step)' = Place(step) /\ Posting
    BY <2>1 DEF Sent, Place, Posting
  <2> QED
    BY <1>1, <2>2 DEF Count
<1>3. CASE tries > 1 /\ tries' = tries - 1 /\ waiting' = FALSE /\ UNCHANGED << op, id, step, ok >>
  <2>1. ~Sent' /\ Place(step)' = Place(step) /\ Posting
    BY <1>3 DEF Sent, Place, Posting
  <2> QED
    BY <1>1, <2>1 DEF Count
<1>4. ~GiveUp
  BY DEF GiveUp, Goto, Posting
<1>5. CASE Proceed
  <2>1. PICK s \in Follow(step) : step' = s /\ waiting' = FALSE
    BY <1>5 DEF Proceed, Goto
  <2>2. op = "post" /\ op' = "post" /\ ~Sent'
    BY <1>5, <2>1 DEF Proceed, Posting, Sent
  <2>3. s \in {"AT", "HTTPINIT", "CID", "URL", "HTTPDATA", "data", "HTTPACTION", "wait", "status"}
    BY <2>1 DEF Posting
  <2>4. Posting /\ Place(s) <= Place(step) + IF step \in {"wait"} THEN 0 ELSE 1
    BY <2>1, <2>2, <2>3, StepNames DEF Follow, Place, Posting, Typed
  <2>5. step # "wait" => Sent
    BY <2>1, <2>3, StepNames DEF Follow, Sent, Typed
  <2>6. Place(step)' = Place(s)
    BY <2>1 DEF Place
  <2> QED
    BY <1>1, <2>2, <2>4, <2>5, <2>6 DEF Count
<1> QED
  BY <1>2, <1>3, <1>4, <1>5

\* The parts of Order that only the driver's step changes, after a step of the
\* driver that sends nothing.
LEMMA OrderMoves ==
  ASSUME Typed, NEW s \in Seq(Requested), Order(s), step # "idle", waiting,
         UNCHANGED << inbox, modem >>,
         \/ UNCHANGED driver
         \/ tries > 1 /\ tries' = tries - 1 /\ waiting' = FALSE /\ UNCHANGED << op, id, step, ok >>
         \/ Proceed
         \/ GiveUp
  PROVE  Order(s)'
<1>1. UNCHANGED << op, id >>
  BY DEF driver, Proceed, GiveUp
<1>2. s # << >> /\ inbox' = Tail(s)
  BY DEF Order
<1>3. Len(s) \in Nat \ {0} /\ s[Len(s)] \in Requested
  BY <1>2, EmptySeq
<1>4. Performed(s[1])'
  BY DEF Order, Performed, modem
<1>5. \A i \in 1..Len(s) - 1 : Then(s[i], s[i + 1])
  BY DEF Order
<1>6. LastSent(s[Len(s)])'
  BY <1>3, LastKept DEF Order
<1>7. \A i \in 1..Len(s) : Open(s, i) => s[i][2] = op /\ s[i][3] = id
  BY DEF Order
<1>8. ASSUME Posting', NEW i \in 1..Len(s), s[i][1] = "HTTPTERM"
      PROVE  Len(s) - i >= Count'
  <2>1. Posting /\ Count' <= Count /\ Count \in Nat /\ Count' \in Nat
    BY <1>8, CountKept
  <2>2. Len(s) - i >= Count
    BY <1>8, <2>1 DEF Order
  <2> QED
    BY <1>3, <2>1, <2>2
<1> QED
  BY <1>1, <1>2, <1>4, <1>5, <1>6, <1>7, <1>8 DEF Order, Then, Open

LEMMA OrderKept ==
  ASSUME Cancels, Typed, NEW s \in Seq(Requested), Order(s), [Next]_vars
  PROVE  \E t \in Seq(Requested) : Order(t)'
<1>1. /\ s # << >> /\ inbox = Tail(s) /\ Performed(s[1])
      /\ \A i \in 1..Len(s) - 1 : Then(s[i], s[i + 1])
      /\ LastSent(s[Len(s)])
      /\ step # "idle" => \A i \in 1..Len(s) : Open(s, i) => s[i][2] = op /\ s[i][3] = id
      /\ Posting => \A i \in 1..Len(s) : s[i][1] = "HTTPTERM" => Len(s) - i >= Count
  BY DEF Order
<1>2. Len(s) \in Nat \ {0} /\ \A i \in 1..Len(s) : s[i] \in Requested
  BY <1>1, EmptySeq
<1>3. ASSUME NEW o \in {"post", "get"}, Begin(o) PROVE Order(s)'
  <2>1. /\ step = "idle" /\ step' = "AT" /\ waiting' = FALSE /\ tries' = 2
        /\ UNCHANGED << inbox, http, data, body, action >>
    BY <1>3 DEF Begin
  <2>2. s[Len(s)][1] = "HTTPTERM"
    BY <1>1, <2>1, StepNames DEF LastSent, Sent, Before, Typed
  <2>3. Performed(s[1])'
    BY <1>1, <2>1 DEF Performed
  <2>4. LastSent(s[Len(s)])'
    BY <2>1, <2>2, StepNames DEF LastSent, Sent, Before, Twice
  <2>5. ASSUME NEW i \in 1..Len(s) PROVE ~Open(s, i)
    <3>1. Len(s) \in i..Len(s)
      BY <1>2
    <3> QED
      BY <2>2, <3>1 DEF Open
  <2>6. Count' = 0
    BY <2>1 DEF Count, Place, Sent
  <2>7. \A i \in 1..Len(s) : Len(s) - i >= Count'
    BY <1>2, <2>6
  <2> QED
    BY <1>1, <2>1, <2>3, <2>4, <2>5, <2>7 DEF Order, Then, Open
<1>4. CASE Send /\ step \in Listening
  <2>1. UNCHANGED << op, id, step, tries, inbox, http, data, body, action >> /\ ~Sent /\ ~Sent'
    BY <1>4 DEF Send, modem, Sent
  <2>2. Performed(s[1])' /\ LastSent(s[Len(s)])' /\ Posting' = Posting /\ Count' = Count
    BY <1>1, <2>1 DEF Performed, LastSent, Posting, Count, Before, Place
  <2> QED
    BY <1>1, <2>1, <2>2 DEF Order, Then, Open
<1>5. CASE Send /\ step \notin Listening
  <2>1. /\ step # "idle" /\ ~waiting /\ waiting' = TRUE
        /\ inbox' = Append(inbox, Command)
        /\ UNCHANGED << op, id, step, tries, http, data, body, action >>
    BY <1>5 DEF Send, modem, Command
  <2>2. s[Len(s)][1] # "HTTPTERM" => s[Len(s)][2] = op /\ s[Len(s)][3] = id
    <3>1. s[Len(s)][1] # "HTTPTERM" => Open(s, Len(s))
      BY <1>2 DEF Open
    <3> QED
      BY <1>1, <1>2, <2>1, <3>1
  <2>3. Then(s[Len(s)], Command) /\ Command \in Requested
    BY <1>1, <1>2, <1>5, <2>2, Allowed
  <2>4. PICK e \in Requested : e = Command
    BY <2>3
  <2> DEFINE t == Append(s, e)
  <2>5. /\ t \in Seq(Requested) /\ t # << >> /\ Len(t) = Len(s) + 1
        /\ \A i \in 1..Len(s) : t[i] = s[i]
        /\ t[Len(t)] = e
        /\ Tail(t) = Append(inbox, e)
    BY <1>1, AppendOf
  <2>6. Command[2] = op /\ Command[3] = id /\ Command' = Command
    BY <2>1 DEF Command
  <2> HIDE DEF t
  <2>7. t[1] = s[1] /\ Performed(s[1])'
    BY <1>1, <1>2, <2>1, <2>5 DEF Performed
  <2>8. ASSUME NEW i \in 1..Len(t) - 1 PROVE Then(t[i], t[i + 1])
    BY <1>1, <1>2, <2>3, <2>5, <2>4
  <2>9. LastSent(t[Len(t)])'
    <3>1. Sent'
      BY <1>5, <2>1 DEF Sent
    <3>2. tries > 1 => step \in Twice \cup {"wait"}
      BY <1>1 DEF LastSent
    <3> QED
      BY <2>1, <2>5, <2>6, <2>4, <3>1, <3>2 DEF LastSent
  <2>10. ASSUME NEW i \in 1..Len(t), Open(t, i) PROVE t[i][2] = op /\ t[i][3] = id
    <3>1. CASE i = Len(t)
      BY <2>5, <2>6, <2>4, <3>1
    <3>2. CASE i # Len(t)
      <4>1. i \in 1..Len(s) /\ Open(s, i)
        BY <1>2, <2>5, <2>10, <3>2 DEF Open
      <4> QED
        BY <1>1, <2>1, <2>5, <4>1
    <3> QED
      BY <3>1, <3>2
  <2>11. ASSUME Posting', NEW i \in 1..Len(t), t[i][1] = "HTTPTERM"
         PROVE  Len(t) - i >= Count'
    <3>1. Posting /\ ~Sent /\ Sent' /\ Place(step)' = Place(step) /\ Place(step) \in 0..7
      BY <1>5, <2>1, <2>11 DEF Posting, Sent, Place
    <3>2. Count' = Count + 1 /\ Count \in Nat
      BY <3>1 DEF Count
    <3>3. Command[1] # "HTTPTERM"
      BY <3>1 DEF Command, Posting
    <3>4. i \in 1..Len(s)
      BY <1>2, <2>5, <2>11, <2>4, <3>3
    <3>5. Len(s) - i >= Count
      BY <1>1, <2>5, <2>11, <3>1, <3>4
    <3> QED
      BY <1>2, <2>5, <3>2, <3>4, <3>5
  <2>12. Order(t)'
    BY <2>1, <2>5, <2>7, <2>8, <2>9, <2>10, <2>11, <2>4 DEF Order, Then, Open
  <2> QED
    BY <2>5, <2>12
<1>6. CASE Receive
  <2>1. step # "idle" /\ waiting /\ UNCHANGED << inbox, modem >>
        /\ (UNCHANGED driver \/ Proceed \/ GiveUp)
    BY <1>6 DEF Receive, Typed
  <2> QED
    BY <2>1, OrderMoves
<1>7. CASE Timeout
  <2>1. /\ step # "idle" /\ waiting /\ UNCHANGED << inbox, modem >>
        /\ \/ tries > 1 /\ tries' = tries - 1 /\ waiting' = FALSE /\ UNCHANGED << op, id, step, ok >>
           \/ Proceed
           \/ GiveUp
    BY <1>7 DEF Timeout, Typed
  <2> QED
    BY <2>1, OrderMoves
<1>8. CASE Perform
  <2> DEFINE t == Tail(s)
  <2>1. inbox # << >> /\ inbox' = Tail(inbox)
        /\ UNCHANGED << op, id, step, waiting, tries >>
    BY <1>8 DEF Perform, driver
  <2>2. /\ t \in Seq(Requested) /\ Len(t) = Len(s) - 1 /\ Len(t) >= 1
        /\ \A i \in 1..Len(t) : t[i] = s[i + 1] /\ i + 1 \in 2..Len(s)
        /\ t[Len(t)] = s[Len(s)] /\ Head(t) = s[2] /\ t[1] = s[2]
    BY <1>1, <2>1, TailOf
  <2>3. t # << >> /\ inbox' = Tail(t) /\ Head(inbox) = s[2]
    BY <1>1, <2>1, <2>2
  <2> HIDE DEF t
  <2>4. Performed(t[1])'
    <3>1. Then(s[1], s[2]) /\ s[2] \in Requested
      BY <1>1, <1>2, <2>2
    <3> QED
      BY <1>1, <1>8, <2>2, <2>3, <3>1, PerformedNext
  <2>5. ASSUME NEW i \in 1..Len(t) - 1 PROVE Then(t[i], t[i + 1])
    <3>1. i + 1 \in 1..Len(s) - 1 /\ i \in 1..Len(t) /\ i + 1 \in 1..Len(t)
      BY <1>2, <2>2
    <3> QED
      BY <1>1, <2>2, <3>1
  <2>6. LastSent(t[Len(t)])' /\ Posting' = Posting /\ Count' = Count
    BY <1>1, <2>1, <2>2 DEF LastSent, Sent, Command, Before, Posting, Count, Place
  <2>7. ASSUME step # "idle", NEW i \in 1..Len(t), Open(t, i) PROVE t[i][2] = op /\ t[i][3] = id
    <3>1. ASSUME NEW j \in (i + 1)..Len(s) PROVE s[j][1] # "HTTPTERM"
      <4>1. j - 1 \in i..Len(t) /\ j - 1 \in 1..Len(t) /\ (j - 1) + 1 = j
        BY <1>2, <2>2
      <4> QED
        BY <2>2, <2>7, <4>1 DEF Open
    <3>2. Open(s, i + 1) /\ i + 1 \in 1..Len(s)
      BY <1>2, <2>2, <3>1 DEF Open
    <3> QED
      BY <1>1, <2>2, <2>7, <3>2
  <2>8. ASSUME Posting, NEW i \in 1..Len(t), t[i][1] = "HTTPTERM" PROVE Len(t) - i >= Count
    <3>1. s[i + 1][1] = "HTTPTERM" /\ i + 1 \in 1..Len(s)
      BY <1>2, <2>2, <2>8
    <3>2. Len(s) - (i + 1) >= Count
      BY <1>1, <2>8, <3>1
    <3>3. Len(t) - i = Len(s) - (i + 1)
      BY <1>2, <2>2
    <3> QED
      BY <3>2, <3>3
  <2>9. Order(t)'
    BY <2>1, <2>3, <2>4, <2>5, <2>6, <2>7, <2>8 DEF Order, Then, Open
  <2> QED
    BY <2>2, <2>9
<1>9. ASSUME NEW code \in Codes, Done(code) PROVE Order(s)'
  <2>1. UNCHANGED << op, id, step, waiting, tries, inbox, http, data, body >> /\ action' = NoAction
    BY <1>9 DEF Done, driver
  <2>2. Performed(s[1])' /\ LastSent(s[Len(s)])' /\ Posting' = Posting /\ Count' = Count
    BY <1>1, <2>1 DEF Performed, LastSent, Sent, Command, Before, Posting, Count, Place
  <2> QED
    BY <1>1, <2>1, <2>2 DEF Order, Then, Open
<1>10. CASE Lose \/ UNCHANGED vars
  <2>1. UNCHANGED << op, id, step, waiting, tries, inbox, http, data, body, action >>
    BY <1>10 DEF Lose, driver, modem, vars
  <2>2. Performed(s[1])' /\ LastSent(s[Len(s)])' /\ Posting' = Posting /\ Count' = Count
    BY <1>1, <2>1 DEF Performed, LastSent, Sent, Command, Before, Posting, Count, Place
  <2> QED
    BY <1>1, <2>1, <2>2 DEF Order, Then, Open
<1> QED
  BY <1>3, <1>4, <1>5, <1>6, <1>7, <1>8, <1>9, <1>10 DEF Next

\* The driver's command has an answer already, or needs none.
Answered == Sent => \E i \in 1..Len(rx) : rx[i] \in Ends(step)

\* How far the modem is behind.
Backlog == Len(inbox) <= slow + IF Answered THEN 0 ELSE 1

\* What the driver hears of the server is about its own post.
Told ==
  op = "post" /\ slow <= 7 =>
    /\ step = "HTTPACTION" /\ waiting =>
         \A i, j \in 1..Len(rx) :
           i < j /\ rx[i] \in Answers /\ rx[j] = "200" => id \in server
    /\ step \in {"wait", "status"} /\ Has("200") => id \in server
    /\ ok => id \in server

\* Commands wait for what only the performance of a command brings.
LEMMA CommandEnds ==
  ASSUME step \in Steps \ (Listening \cup {"idle"})
  PROVE  /\ Ends(step) \in {Answers, {"DOWNLOAD"}, {"+HTTPREAD"}}
         /\ "+HTTPACTION" \notin Ends(step) /\ Ends(step) \cap Codes = {}
         /\ step = "HTTPACTION" => Ends(step) = Answers
<1>1. /\ step \in Twice \cup Once => Ends(step) = Answers
      /\ step = "HTTPDATA" => Ends(step) = {"DOWNLOAD"}
      /\ step = "HTTPREAD" => Ends(step) = {"+HTTPREAD"}
  BY DEF Ends, Twice, Once, Lines
<1>2. step \in Twice \cup Once \cup {"HTTPDATA", "HTTPREAD"}
  BY DEF Steps, Worded, Listening
<1> QED
  BY <1>1, <1>2 DEF Answers, Codes, Twice

\* Lines that come after those on their way.
LEMMA Appended ==
  ASSUME Typed, NEW u \in Seq(Tokens), rx' = rx \o u
  PROVE  /\ Len(rx) \in Nat /\ Len(u) \in Nat /\ Len(rx') = Len(rx) + Len(u)
         /\ \A i \in 1..Len(rx) : i \in 1..Len(rx') /\ rx'[i] = rx[i]
         /\ \A i \in 1..Len(rx') : i \in 1..Len(rx) \/ (i - Len(rx) \in 1..Len(u) /\ rx'[i] = u[i - Len(rx)])
<1>1. rx \in Seq(Tokens) /\ Len(rx) \in Nat /\ Len(u) \in Nat
  BY DEF Typed
<1>2. /\ Len(rx') = Len(rx) + Len(u)
      /\ \A i \in 1..Len(rx') : rx'[i] = IF i <= Len(rx) THEN rx[i] ELSE u[i - Len(rx)]
  BY <1>1, ConcatProperties
<1> QED
  BY <1>1, <1>2

\* Lines without the first.
LEMMA Shortened ==
  ASSUME Typed, rx # << >>, rx' = Tail(rx)
  PROVE  /\ Len(rx) \in Nat \ {0} /\ Len(rx') = Len(rx) - 1
         /\ \A i \in 1..Len(rx') : i + 1 \in 1..Len(rx) /\ rx'[i] = rx[i + 1]
         /\ \A i \in 1..Len(rx) : i = 1 \/ (i - 1 \in 1..Len(rx') /\ rx'[i - 1] = rx[i])
         /\ Head(rx) = rx[1]
<1>1. rx \in Seq(Tokens)
  BY DEF Typed
<1>2. Len(rx) \in Nat \ {0} /\ Len(rx') = Len(rx) - 1 /\ Head(rx) = rx[1]
      /\ \A i \in 1..Len(rx') : rx'[i] = rx[i + 1]
  BY <1>1, EmptySeq, HeadTailProperties
<1>3. ASSUME NEW i \in 1..Len(rx), i # 1 PROVE i - 1 \in 1..Len(rx') /\ rx'[i - 1] = rx[i]
  <2>1. i - 1 \in 1..Len(rx') /\ (i - 1) + 1 = i
    BY <1>2, <1>3
  <2> QED
    BY <1>2, <2>1
<1> QED
  BY <1>2, <1>3

LEMMA BacklogKept ==
  ASSUME Typed, Backlog, [Next]_vars
  PROVE  Backlog'
<1>1. inbox \in Seq(Requested) /\ Len(inbox) \in Nat /\ slow \in Nat
  BY DEF Typed
<1>2. Len(inbox) <= slow + 1 /\ (Answered => Len(inbox) <= slow)
  BY <1>1 DEF Backlog
<1>3. ASSUME NEW o \in {"post", "get"}, Begin(o) PROVE Backlog'
  <2>1. UNCHANGED << inbox, slow >> /\ ~Sent /\ ~Sent'
    BY <1>3 DEF Begin, Sent, Typed
  <2> QED
    BY <1>1, <1>2, <2>1 DEF Backlog, Answered
<1>4. CASE Send
  <2>1. ~Sent /\ slow' = slow /\ (step \in Listening => inbox' = inbox /\ ~Sent')
    BY <1>4 DEF Send, Sent
  <2>2. Len(inbox) <= slow
    BY <1>2, <2>1 DEF Answered
  <2>3. CASE step \in Listening
    BY <1>1, <2>1, <2>2, <2>3 DEF Backlog, Answered
  <2>4. CASE step \notin Listening
    <3>1. /\ waiting' = TRUE /\ step' = step /\ rx' = << >>
          /\ \E c : inbox' = Append(inbox, c)
      BY <1>4, <2>4 DEF Send
    <3>2. ~Answered'
      BY <2>4, <3>1 DEF Answered, Sent
    <3>3. Len(inbox') = Len(inbox) + 1
      BY <1>1, <3>1
    <3> QED
      BY <1>1, <2>1, <2>2, <3>2, <3>3 DEF Backlog
  <2> QED
    BY <2>3, <2>4
<1>5. CASE Receive
  <2>1. /\ waiting /\ rx # << >> /\ rx' = Tail(rx) /\ UNCHANGED << inbox, slow >> /\ step # "idle"
        /\ \/ Head(rx) \notin Ends(step) /\ UNCHANGED driver
           \/ Head(rx) \in Ends(step) /\ (Proceed \/ GiveUp)
    BY <1>5 DEF Receive, Typed
  <2>2. CASE Head(rx) \notin Ends(step) /\ UNCHANGED driver
    <3>1. Sent' = Sent /\ Ends(step)' = Ends(step)
      BY <2>2 DEF Sent, driver, Ends
    <3>2. ASSUME NEW i \in 1..Len(rx), rx[i] \in Ends(step)
          PROVE  i - 1 \in 1..Len(rx') /\ rx'[i - 1] \in Ends(step)
      BY <2>1, <2>2, <3>2, Shortened
    <3>3. ASSUME Answered, Sent PROVE \E k \in 1..Len(rx') : rx'[k] \in Ends(step)
      <4>1. PICK i \in 1..Len(rx) : rx[i] \in Ends(step)
        BY <3>3 DEF Answered
      <4> QED
        BY <3>2, <4>1
    <3>4. ASSUME Sent, NEW k \in 1..Len(rx'), rx'[k] \in Ends(step) PROVE Answered
      <4>1. k + 1 \in 1..Len(rx) /\ rx[k + 1] \in Ends(step)
        BY <2>1, <3>4, Shortened
      <4> QED
        BY <4>1 DEF Answered
    <3>5. Answered' <=> Answered
      BY <3>1, <3>3, <3>4 DEF Answered
    <3> QED
      BY <1>1, <1>2, <2>1, <3>5 DEF Backlog
  <2>3. CASE Head(rx) \in Ends(step) /\ (Proceed \/ GiveUp)
    <3>1. Answered
      <4>1. 1 \in 1..Len(rx) /\ rx[1] = Head(rx)
        BY <2>1, Shortened
      <4> QED
        BY <2>3, <4>1 DEF Answered
    <3>2. ~Sent'
      BY <2>1, <2>3, Moves DEF Sent
    <3> QED
      BY <1>1, <1>2, <2>1, <3>1, <3>2 DEF Backlog, Answered
  <2> QED
    BY <2>1, <2>2, <2>3
<1>6. CASE Timeout
  <2>1. /\ waiting' = FALSE /\ inbox' = inbox
        /\ slow' = slow + 1 \/ (inbox = << >> /\ slow' = slow)
    <3>1. step # "idle" /\ (waiting' = FALSE \/ Proceed \/ GiveUp)
      BY <1>6 DEF Timeout, Typed
    <3>2. waiting' = FALSE
      BY <3>1, Moves
    <3> QED
      BY <1>6, <3>2 DEF Timeout
  <2>2. inbox = << >> => Len(inbox) = 0
    OBVIOUS
  <2>3. Len(inbox) <= slow' /\ Answered'
    BY <1>1, <1>2, <2>1, <2>2 DEF Answered, Sent
  <2> QED
    BY <1>1, <2>1, <2>3 DEF Backlog
<1>7. CASE Perform
  <2>1. inbox # << >> /\ inbox' = Tail(inbox) /\ slow' = slow
    BY <1>7 DEF Perform
  <2>2. Len(inbox') = Len(inbox) - 1
    BY <1>1, <2>1, HeadTailProperties
  <2> QED
    BY <1>1, <1>2, <2>1, <2>2 DEF Backlog
<1>8. ASSUME NEW code \in Codes, Done(code) PROVE Backlog'
  <2>1. UNCHANGED << step, waiting, inbox, slow >> /\ rx' = rx \o << "+HTTPACTION", code >>
    BY <1>8 DEF Done, driver
  <2>2. Sent' = Sent /\ Ends(step)' = Ends(step)
    BY <2>1 DEF Sent, Ends
  <2>3. Answered' => Answered
    <3>1. << "+HTTPACTION", code >> \in Seq(Tokens)
      BY DEF Tokens
    <3>2. CASE Sent
      <4>1. step \in Steps \ (Listening \cup {"idle"})
        BY <3>2 DEF Sent, Typed
      <4>2. "+HTTPACTION" \notin Ends(step) /\ code \notin Ends(step)
        BY <4>1, CommandEnds
      <4>3. ASSUME NEW i \in 1..Len(rx'), rx'[i] \in Ends(step) PROVE i \in 1..Len(rx) /\ rx'[i] = rx[i]
        <5> DEFINE u == << "+HTTPACTION", code >>
        <5>1. \A k \in 1..Len(u) : u[k] \notin Ends(step)
          BY <4>2
        <5> HIDE DEF u
        <5>2. u \in Seq(Tokens) /\ rx' = rx \o u
          BY <2>1, <3>1 DEF u
        <5> QED
          BY <4>3, <5>1, <5>2, Appended
      <4> QED
        BY <2>2, <3>2, <4>3 DEF Answered
    <3>3. CASE ~Sent
      BY <3>3 DEF Answered
    <3> QED
      BY <3>2, <3>3
  <2>4. Answered => Answered'
    <3>1. << "+HTTPACTION", code >> \in Seq(Tokens)
      BY DEF Tokens
    <3>2. \A i \in 1..Len(rx) : i \in 1..Len(rx') /\ rx'[i] = rx[i]
      BY <2>1, <3>1, Appended
    <3> QED
      BY <2>2, <3>2 DEF Answered
  <2> QED
    BY <1>1, <2>1, <2>3, <2>4 DEF Backlog
<1>9. CASE Lose
  <2>1. UNCHANGED << step, waiting, inbox, slow >> /\ rx # << >> /\ rx' = Tail(rx)
    BY <1>9 DEF Lose, driver
  <2>2. Answered' => Answered
    BY <2>1, Shortened DEF Answered, Sent, Ends
  <2> QED
    BY <1>1, <1>2, <2>1, <2>2 DEF Backlog
<1>10. CASE UNCHANGED vars
  BY <1>10 DEF vars, driver, Backlog, Answered, Sent, Ends
<1> QED
  BY <1>3, <1>4, <1>5, <1>6, <1>7, <1>8, <1>9, <1>10 DEF Next

\* The result that a post hears of is its own: an older one's would be eight
\* commands back.
LEMMA OwnAction ==
  ASSUME Typed, Ordered, Backlog, Answered, slow <= 7, action # NoAction, op = "post",
         step \in {"wait", "status"} \/ (step = "HTTPACTION" /\ waiting)
  PROVE  action = << "post", id >>
<1>1. PICK s \in Seq(Requested) : Order(s)
  BY DEF Ordered
<1>2. s # << >> /\ inbox = Tail(s) /\ Performed(s[1])
      /\ (step # "idle" => \A i \in 1..Len(s) : Open(s, i) => s[i][2] = op /\ s[i][3] = id)
      /\ (Posting => \A i \in 1..Len(s) : s[i][1] = "HTTPTERM" => Len(s) - i >= Count)
  BY <1>1 DEF Order
<1>3. Posting /\ step # "idle" /\ Count = 7
  BY StepNames DEF Posting, Count, Place, Sent
<1>4. Len(s) \in Nat \ {0} /\ Len(inbox) = Len(s) - 1
  BY <1>2, EmptySeq, HeadTailProperties
<1>5. Len(inbox) <= 7
  BY <1>4 DEF Backlog, Typed
<1>6. s[1][1] # "HTTPTERM" /\ (s[1][2] = "post" => action = << "post", s[1][3] >>)
  BY <1>2 DEF Performed
<1>7. ASSUME NEW j \in 1..Len(s) PROVE s[j][1] # "HTTPTERM"
  <2>1. SUFFICES ASSUME s[j][1] = "HTTPTERM" PROVE FALSE
    OBVIOUS
  <2>2. Len(s) - j >= 7 /\ j # 1
    BY <1>2, <1>3, <1>6, <2>1
  <2> QED
    BY <1>4, <1>5, <2>2
<1>8. Open(s, 1)
  BY <1>7 DEF Open
<1> QED
  BY <1>2, <1>3, <1>4, <1>6, <1>8

LEMMA ToldKept ==
  ASSUME Typed, Ordered, Backlog, Told, [Next]_vars
  PROVE  Told'
<1> SUFFICES ASSUME op' = "post", slow' <= 7 PROVE Told'
  BY DEF Told
<1>1. slow \in Nat /\ slow <= 7
  <2>1. slow \in Nat
    BY DEF Typed
  <2>2. slow' = slow \/ slow' = slow + 1
    BY DEF Next, Begin, Send, Receive, Timeout, Perform, Done, Lose, vars
  <2> QED
    BY <2>1, <2>2
<1>2. op = "post" =>
        /\ step = "HTTPACTION" /\ waiting =>
             \A i, j \in 1..Len(rx) : i < j /\ rx[i] \in Answers /\ rx[j] = "200" => id \in server
        /\ step \in {"wait", "status"} /\ Has("200") => id \in server
        /\ ok => id \in server
  BY <1>1 DEF Told
<1>3. ASSUME NEW o \in {"post", "get"}, Begin(o) PROVE Told'
  BY <1>3 DEF Begin, Told
<1>4. CASE Send
  <2>1. UNCHANGED << op, id, step, ok, server >>
        /\ IF step \in Listening THEN rx' = rx ELSE rx' = << >>
    BY <1>4 DEF Send, modem
  <2>2. CASE step \in Listening
    BY <1>2, <2>1, <2>2, StepNames DEF Told, Has
  <2>3. CASE step \notin Listening
    BY <1>2, <2>1, <2>3, StepNames DEF Told, Has
  <2> QED
    BY <2>2, <2>3
<1>5. CASE Receive
  <2>1. /\ waiting /\ rx # << >> /\ rx' = Tail(rx) /\ step # "idle" /\ server' = server
        /\ \/ UNCHANGED driver
           \/ Head(rx) \in Ends(step) /\ Good(step, Head(rx)) /\ Proceed
           \/ GiveUp
    BY <1>5 DEF Receive, modem, Typed
  <2>2. op = "post" /\ id' = id
    BY <2>1 DEF driver, Proceed, GiveUp
  <2>3. Has("200")' => Has("200")
    BY <2>1, HasTail
  <2>4. CASE UNCHANGED driver
    <3>1. UNCHANGED << op, id, step, waiting, ok >>
      BY <2>4 DEF driver
    <3>2. ASSUME step = "HTTPACTION", waiting, NEW i \in 1..Len(rx'), NEW j \in 1..Len(rx'),
                 i < j, rx'[i] \in Answers, rx'[j] = "200"
          PROVE  id \in server
      <4>1. i + 1 \in 1..Len(rx) /\ j + 1 \in 1..Len(rx) /\ i + 1 < j + 1
            /\ rx[i + 1] \in Answers /\ rx[j + 1] = "200"
        BY <2>1, <3>2, Shortened
      <4> QED
        BY <1>2, <2>2, <3>2, <4>1
    <3> QED
      BY <1>2, <2>1, <2>2, <2>3, <3>1, <3>2 DEF Told
  <2>5. CASE Head(rx) \in Ends(step) /\ Good(step, Head(rx)) /\ Proceed
    <3>1. PICK s \in Follow(step) : step' = s /\ waiting' = FALSE
      BY <2>5 DEF Proceed, Goto
    <3>2. /\ step' = "wait" => step = "HTTPACTION"
          /\ step' = "status" => step = "wait"
      BY <2>1, <3>1, Follows DEF Typed
    <3>3. ok' => ok \/ step = "status"
      BY <2>2, <2>5 DEF Proceed, Returns
    <3>4. step = "status" => Has("200")
      BY <2>1, <2>5, HasTail, Endings DEF Typed
    <3>5. ASSUME step = "HTTPACTION", Has("200")' PROVE id \in server
      <4>1. PICK j \in 1..Len(rx') : rx'[j] = "200"
        BY <3>5 DEF Has
      <4>2. j + 1 \in 1..Len(rx) /\ rx[j + 1] = "200" /\ 1 \in 1..Len(rx) /\ 1 < j + 1 /\ rx[1] = Head(rx)
        BY <2>1, <4>1, Shortened
      <4>3. rx[1] \in Answers
        BY <2>5, <3>5, <4>2, CommandEnds, StepNames
      <4> QED
        BY <1>2, <2>1, <2>2, <3>5, <4>2, <4>3
    <3> QED
      BY <1>2, <2>1, <2>2, <2>3, <3>1, <3>2, <3>3, <3>4, <3>5 DEF Told
  <2>6. CASE GiveUp
    BY <1>2, <2>1, <2>2, <2>6 DEF Told, GiveUp, Goto
  <2> QED
    BY <2>1, <2>4, <2>5, <2>6
<1>6. CASE Timeout
  <2>1. /\ rx' = << >> /\ step # "idle" /\ server' = server
        /\ \/ waiting' = FALSE /\ UNCHANGED << op, id, step, ok >>
           \/ step \in Unchecked /\ Proceed
           \/ GiveUp
    BY <1>6 DEF Timeout, modem, Typed
  <2>2. op = "post" /\ id' = id /\ ~Has("200")'
    BY <2>1 DEF Proceed, GiveUp, Has
  <2>3. ok' => ok
    BY <2>1, <2>2 DEF Proceed, GiveUp, Returns, Unchecked
  <2> QED
    BY <1>2, <2>1, <2>2, <2>3 DEF Told
<1>7. CASE Perform
  <2> DEFINE u == Reply(Head(inbox)[1])
  <2>1. UNCHANGED << op, id, step, waiting, ok, server >> /\ rx' = rx \o u /\ u \in Seq(Tokens)
    BY <1>7, Replies DEF Perform, driver
  <2>2. \A k \in 1..Len(u) : u[k] # "200"
    <3>1. u \in {<< "OK" >>, << "ERROR" >>, << "DOWNLOAD" >>,
                 << "+HTTPREAD", "length", "text", "OK" >>}
      BY Replies
    <3> QED
      BY <3>1
  <2> HIDE DEF u
  <2>3. ASSUME NEW j \in 1..Len(rx'), rx'[j] = "200"
        PROVE  j \in 1..Len(rx) /\ rx[j] = "200"
    BY <2>1, <2>2, <2>3, Appended
  <2>4. Has("200")' => Has("200")
    BY <2>3 DEF Has
  <2>5. ASSUME NEW i \in 1..Len(rx'), NEW j \in 1..Len(rx'), i < j, rx'[i] \in Answers, rx'[j] = "200"
        PROVE  i \in 1..Len(rx) /\ j \in 1..Len(rx) /\ rx[i] \in Answers /\ rx[j] = "200"
    <3>1. j \in 1..Len(rx) /\ rx[j] = "200"
      BY <2>3, <2>5
    <3>2. i \in 1..Len(rx) /\ rx'[i] = rx[i]
      BY <2>1, <2>5, <3>1, Appended
    <3> QED
      BY <2>5, <3>1, <3>2
  <2> QED
    BY <1>2, <2>1, <2>4, <2>5 DEF Told
<1>8. ASSUME NEW code \in Codes, Done(code) PROVE Told'
  <2> DEFINE u == << "+HTTPACTION", code >>
  <2>1. UNCHANGED << op, id, step, waiting, ok >> /\ rx' = rx \o u /\ u \in Seq(Tokens) /\ op = "post"
        /\ action # NoAction /\ server \subseteq server'
        /\ (code = "200" /\ action[1] = "post" /\ action[2] \in Ids => action[2] \in server')
    BY <1>8 DEF Done, driver, Tokens
  <2>2. /\ Len(u) = 2 /\ u[1] = "+HTTPACTION" /\ u[2] = code
        /\ \A k \in 1..Len(u) : u[k] \notin Answers /\ (u[k] = "200" => k = 2 /\ code = "200")
    BY DEF Answers, Codes
  <2> HIDE DEF u
  <2>3. ASSUME code = "200", Answered,
               step \in {"wait", "status"} \/ (step = "HTTPACTION" /\ waiting)
        PROVE  id \in server'
    <3>1. action = << "post", id >>
      BY <1>1, <2>1, <2>3, OwnAction
    <3>2. id \in Ids
      BY DEF Typed
    <3> QED
      BY <2>1, <2>3, <3>1, <3>2
  <2>4. ASSUME step \in {"wait", "status"}, Has("200")' PROVE id \in server'
    <3>1. CASE code = "200"
      <4>1. Answered
        BY <2>4, StepNames DEF Answered, Sent
      <4> QED
        BY <2>3, <2>4, <3>1, <4>1
    <3>2. CASE code # "200"
      <4>1. PICK j \in 1..Len(rx') : rx'[j] = "200"
        BY <2>4 DEF Has
      <4>2. j \in 1..Len(rx) /\ rx[j] = "200"
        BY <2>1, <2>2, <3>2, <4>1, Appended
      <4> QED
        BY <1>2, <2>1, <2>4, <4>2 DEF Has
    <3> QED
      BY <3>1, <3>2
  <2>5. ASSUME step = "HTTPACTION", waiting, NEW i \in 1..Len(rx'), NEW j \in 1..Len(rx'),
               i < j, rx'[i] \in Answers, rx'[j] = "200"
        PROVE  id \in server'
    <3>1. i \in 1..Len(rx) /\ rx[i] \in Answers
      BY <2>1, <2>2, <2>5, Appended
    <3>2. CASE code = "200"
      <4>1. Answered
        BY <2>5, <3>1, CommandEnds, StepNames DEF Answered
      <4> QED
        BY <2>3, <2>5, <3>2, <4>1
    <3>3. CASE code # "200"
      <4>1. j \in 1..Len(rx) /\ rx[j] = "200"
        BY <2>1, <2>2, <2>5, <3>3, Appended
      <4> QED
        BY <1>2, <2>1, <2>5, <3>1, <4>1
    <3> QED
      BY <3>2, <3>3
  <2> QED
    BY <1>2, <2>1, <2>4, <2>5 DEF Told
<1>9. CASE Lose
  <2>1. UNCHANGED << op, id, step, waiting, ok, server >> /\ rx # << >> /\ rx' = Tail(rx)
    BY <1>9 DEF Lose, driver, modem
  <2>2. Has("200")' => Has("200")
    BY <2>1, HasTail
  <2>3. ASSUME NEW i \in 1..Len(rx'), NEW j \in 1..Len(rx'), i < j, rx'[i] \in Answers, rx'[j] = "200"
        PROVE  /\ i + 1 \in 1..Len(rx) /\ j + 1 \in 1..Len(rx) /\ i + 1 < j + 1
               /\ rx[i + 1] \in Answers /\ rx[j + 1] = "200"
    BY <2>1, <2>3, Shortened
  <2> QED
    BY <1>2, <2>1, <2>2, <2>3 DEF Told
<1>10. CASE UNCHANGED vars
  BY <1>2, <1>10 DEF vars, driver, modem, Told, Has
<1> QED
  BY <1>3, <1>4, <1>5, <1>6, <1>7, <1>8, <1>9, <1>10 DEF Next

LEMMA InitOrdered ==
  Init => Ordered /\ Backlog /\ Told
<1> SUFFICES ASSUME Init PROVE Ordered /\ Backlog /\ Told
  OBVIOUS
<1> DEFINE s == << << "HTTPTERM", "post", id >> >>
<1>1. << "HTTPTERM", "post", id >> \in Requested
  BY InitTyped, StepNames DEF Requested, Typed
<1>2. s \in Seq(Requested) /\ s # << >> /\ Tail(s) = << >> /\ Len(s) = 1 /\ s[1] = << "HTTPTERM", "post", id >>
  BY <1>1
<1> HIDE DEF s
<1>3. PICK t \in Seq(Requested) : t = s
  BY <1>2
<1>4. Performed(t[1]) /\ LastSent(t[Len(t)])
  BY <1>2, <1>3, StepNames DEF Init, Performed, LastSent, Sent, Before
<1>5. Order(t)
  BY <1>2, <1>3, <1>4 DEF Init, Order, Posting
<1>6. Backlog
  <2>1. Len(inbox) = 0 /\ slow = 0
    BY DEF Init
  <2>2. Answered
    BY DEF Init, Answered, Sent
  <2> QED
    BY <2>1, <2>2 DEF Backlog
<1> QED
  BY <1>5, <1>6 DEF Ordered, Init, Told

\* When sim900_http_post returns 0 the server has accepted the data of this
\* very post (sim900.c:1059), whatever lines are lost and though up to seven
\* answers come after their timeout, with a modem that drops at HTTPTERM an
\* HTTPACTION in progress.  With nine late answers it is not so (TLC).
THEOREM PostsTrueLate ==
  ASSUME Cancels
  PROVE  Spec => [](slow <= 7 => PostTrue)
<1> DEFINE Inv == Typed /\ Ordered /\ Backlog /\ Told
<1>1. Init => Inv
  BY InitTyped, InitOrdered
<1>2. Inv /\ [Next]_vars => Inv'
  <2> SUFFICES ASSUME Inv, [Next]_vars PROVE Inv'
    OBVIOUS
  <2>1. Ordered'
    <3>1. PICK s \in Seq(Requested) : Order(s)
      BY DEF Ordered
    <3>2. \E t \in Seq(Requested) : Order(t)'
      BY <3>1, OrderKept
    <3> QED
      BY <3>2 DEF Ordered
  <2> QED
    BY <2>1, TypesKept, BacklogKept, ToldKept
<1>3. Inv => (slow <= 7 => PostTrue)
  BY DEF Told, PostTrue
<1> HIDE DEF Inv
<1> QED
  BY <1>1, <1>2, <1>3, PTL DEF Spec

\* So PostTrue holds of every behaviour with no more than seven late answers.
THEOREM PostsTrue ==
  ASSUME Cancels, MaxSlow <= 7
  PROVE  Spec => []PostTrue
<1>1. Init => slow \in 0..MaxSlow
  BY Sim900Assumption DEF Init
<1>2. slow \in 0..MaxSlow /\ [Next]_vars => (slow \in 0..MaxSlow)'
  <2>1. Timeout => slow' <= MaxSlow /\ (slow' = slow \/ slow' = slow + 1)
    BY DEF Timeout
  <2>2. [Next]_vars => Timeout \/ slow' = slow
    BY DEF Next, Begin, Send, Receive, Perform, Done, Lose, vars
  <2> QED
    BY <2>1, <2>2, Sim900Assumption
<1>3. slow \in 0..MaxSlow => slow <= 7
  BY Sim900Assumption
<1> QED
  BY <1>1, <1>2, <1>3, PostsTrueLate, PTL DEF Spec

(***************************************************************************)
(* The types of the modem's state.                                         *)
(***************************************************************************)
\* Types of the variables hold whatever comes late or is lost; the counters
\* stay within their bounds.
THEOREM TypesHold == Spec => []TypeOK
<1>1. Init => TypeOK
  <2> SUFFICES ASSUME Init PROVE TypeOK
    OBVIOUS
  <2>1. Typed
    BY InitTyped
  <2>2. 0 \in 0..MaxSlow /\ 0 \in 0..MaxLost
    BY Sim900Assumption
  <2> QED
    BY <2>1, <2>2 DEF Init, TypeOK, Typed, Requested
<1>3. Typed /\ TypeOK /\ [Next]_vars => TypeOK'
  <2> SUFFICES ASSUME Typed, TypeOK, [Next]_vars PROVE TypeOK'
    OBVIOUS
  <2>1. Typed'
    BY TypesKept
  <2>2. /\ http \in BOOLEAN /\ data \in BOOLEAN /\ body \in Ids \cup {NoBody, Junk}
        /\ action \in ({"post", "get"} \X (Ids \cup {NoBody, Junk})) \cup {NoAction}
        /\ server \subseteq Ids /\ slow \in 0..MaxSlow /\ lost \in 0..MaxLost /\ ok \in BOOLEAN
    BY DEF TypeOK
  <2>3. ok' \in BOOLEAN
    BY <2>2 DEF Next, Begin, Send, Receive, Timeout, Perform, Done, Lose, Proceed, GiveUp, driver, vars
  <2>4. slow' \in 0..MaxSlow /\ lost' \in 0..MaxLost
    <3>1. slow' = slow \/ (slow' = slow + 1 /\ slow' <= MaxSlow)
      BY DEF Next, Begin, Send, Receive, Timeout, Perform, Done, Lose, vars
    <3>2. lost' = lost \/ (lost' = lost + 1 /\ lost < MaxLost)
      BY DEF Next, Begin, Send, Receive, Timeout, Perform, Done, Lose, vars
    <3> QED
      BY <2>2, <3>1, <3>2, Sim900Assumption
  <2>5. /\ http' \in BOOLEAN /\ data' \in BOOLEAN /\ body' \in Ids \cup {NoBody, Junk}
        /\ action' \in ({"post", "get"} \X (Ids \cup {NoBody, Junk})) \cup {NoAction}
    <3>1. CASE Perform
      <4>1. PICK c \in Requested : Head(inbox) = c
        BY <3>1, SeqFacts DEF Perform, Typed
      <4>2. c[2] \in {"post", "get"} /\ c[3] \in Ids
        BY DEF Requested
      <4>3. http' \in BOOLEAN /\ data' \in BOOLEAN
        BY <2>2, <3>1 DEF Perform
      <4>4. body' \in Ids \cup {NoBody, Junk}
        BY <2>2, <3>1, <4>1, <4>2 DEF Perform
      <4>5. action' \in {<< c[2], body >>, NoAction, action}
        BY <3>1, <4>1 DEF Perform
      <4> QED
        BY <2>2, <4>2, <4>3, <4>4, <4>5
    <3>2. CASE ~Perform
      <4>1. UNCHANGED << http, data, body >> /\ (action' = action \/ action' = NoAction)
        BY <3>2 DEF Next, Begin, Send, Receive, Timeout, Done, Lose, modem, vars
      <4> QED
        BY <2>2, <4>1
    <3> QED
      BY <3>1, <3>2
  <2>6. server' \subseteq Ids
    BY <2>2 DEF Next, Begin, Send, Receive, Timeout, Perform, Done, Lose, modem, vars
  <2> QED
    BY <2>1, <2>3, <2>4, <2>5, <2>6 DEF TypeOK, Typed, Requested
<1>4. Init => Typed
  BY InitTyped
<1>5. Typed /\ [Next]_vars => Typed'
  BY TypesKept
<1> QED
  BY <1>1, <1>3, <1>4, <1>5, PTL DEF Spec
=============================================================================
