------------------------------- MODULE Sim900 -------------------------------
(***************************************************************************)
(* The HTTP requests of the SIM900 driver (drivers/sim900): the dialogue   *)
(* of AT commands that posts records or gets a page, its timeouts, its     *)
(* retries, and the modem at the other end of the line, which performs     *)
(* commands in the order they come and may answer late, or not be heard.   *)
(* A command and a line of an answer are the units of communication.       *)
(***************************************************************************)
EXTENDS Integers, Sequences

CONSTANTS
  Requests,  \* number of requests told apart
  Cancels,   \* does the modem drop an HTTPACTION in progress at HTTPTERM?
  MaxSlow,   \* bound: answers that come after a timeout
  MaxLost    \* bound: lines of answers that are lost

ASSUME Sim900Assumption ==
  /\ Cancels \in BOOLEAN
  /\ Requests \in Nat \ {0} /\ MaxSlow \in Nat /\ MaxLost \in Nat

\* Steps that send a command and wait for OK or ERROR (sim900_wait_retstring):
\* those of sim900_cmd_with_retstring are tried twice, the others once.
Twice == {"AT", "HTTPINIT", "CID", "HTTPACTION", "HTTPTERM", "close"}
Once == {"URL", "data"}
\* Steps that send a command and wait for a word (sim900_wait_string).
Worded == {"HTTPDATA", "HTTPREAD"}
\* Steps that wait only: for a word, or for a line (sim900_read_string).
Lines == {"status", "length", "text"}
Listening == Lines \cup {"wait"}
Steps == Twice \cup Once \cup Worded \cup Listening \cup {"idle"}

Answers == {"OK", "ERROR"}
Codes == {"200", "601"}
Tokens == Answers \cup Codes \cup {"DOWNLOAD", "+HTTPACTION", "+HTTPREAD", "length", "text"}

Ids == 1..Requests
NoBody == 0
Junk == -1     \* bytes of a command taken for the data of a post
NoAction == << "none", NoBody >>

VARIABLES
  op, id, step,   \* the driver: the request in progress and its next step
  waiting,        \* has the step sent its command?
  tries,          \* attempts left
  ok,             \* the request returned 0
  rx              \* lines on their way to the driver

VARIABLES
  inbox,    \* commands the modem has not yet performed
  http,     \* between HTTPINIT and HTTPTERM
  data,     \* the modem takes what comes as the data of a post
  body,     \* the data it holds
  action,   \* the HTTPACTION in progress
  server    \* requests whose data the server has accepted

VARIABLES slow, lost     \* counters for the bounds

driver == << op, id, step, waiting, tries, ok >>
modem == << http, data, body, action, server >>
vars == << driver, rx, inbox, modem, slow, lost >>

TypeOK ==
  /\ op \in {"post", "get"} /\ id \in Ids /\ step \in Steps
  /\ waiting \in BOOLEAN /\ tries \in 1..3 /\ ok \in BOOLEAN
  /\ rx \in Seq(Tokens)
  /\ inbox \in Seq(Steps \X {"post", "get"} \X Ids)
  /\ http \in BOOLEAN /\ data \in BOOLEAN /\ body \in Ids \cup {NoBody, Junk}
  /\ action \in ({"post", "get"} \X (Ids \cup {NoBody, Junk})) \cup {NoAction}
  /\ server \subseteq Ids
  /\ slow \in 0..MaxSlow /\ lost \in 0..MaxLost

Init ==
  /\ op = "post" /\ id = Requests /\ step = "idle" /\ waiting = FALSE
  /\ tries = 1 /\ ok = FALSE /\ rx = << >>
  /\ inbox = << >> /\ http = FALSE /\ data = FALSE /\ body = NoBody
  /\ action = NoAction /\ server = {} /\ slow = 0 /\ lost = 0

(***************************************************************************)
(* The driver.                                                             *)
(***************************************************************************)
\* The step after s, when s did what it should
Follow(s) ==
  CASE s = "AT" -> {"HTTPINIT"}
    [] s = "HTTPINIT" -> {"CID"}
    [] s = "CID" -> {"URL"}
    [] s = "URL" -> {IF op = "post" THEN "HTTPDATA" ELSE "HTTPACTION"}
    [] s = "HTTPDATA" -> {"data"}
    [] s = "data" -> {"HTTPACTION"}
    [] s = "HTTPACTION" -> {"wait"}
    [] s = "wait" -> {"status"}
    [] s = "status" -> {"HTTPREAD"}
    [] s = "HTTPREAD" -> {"length"}
    [] s = "length" -> {"text"}
    [] s = "text" -> {"HTTPTERM"}
    [] s = "HTTPTERM" -> IF op = "post" /\ ok THEN {"close", "idle"} ELSE {"idle"}
    [] s = "close" -> {"idle"}

Tries(s) ==
  IF s \in Twice THEN 2 ELSE IF s = "wait" /\ op = "post" THEN 3 ELSE 1

\* What ends the wait of step s
Ends(s) ==
  CASE s \in Twice \cup Once -> Answers
    [] s = "HTTPDATA" -> {"DOWNLOAD"}
    [] s = "HTTPREAD" -> {"+HTTPREAD"}
    [] s = "wait" -> {"+HTTPACTION"}
    [] s \in Lines -> Tokens

\* Mutant: does not look at the status.
GoodAnyStatus(s, t) == s \in {"HTTPINIT", "CID", "HTTPACTION"} => t = "OK"

\* Is the answer t to step s good enough to go on?
Good(s, t) ==
  CASE s \in {"HTTPINIT", "CID", "HTTPACTION"} -> t = "OK"
    [] s = "status" -> t = "200"
    [] OTHER -> TRUE

\* Steps whose result the driver does not look at
Unchecked == {"URL", "data", "text", "HTTPTERM", "close"}

\* sim900_http_post and sim900_http_get return 0 after these steps.
Returns(s) == IF op = "post" THEN s = "status" ELSE s = "text"

Goto(s) == step' = s /\ tries' = Tries(s) /\ waiting' = FALSE

Proceed ==
  /\ \E s \in Follow(step) : Goto(s)
  /\ ok' = (ok \/ Returns(step))
  /\ UNCHANGED << op, id >>

\* Mutant: leaves the session open.
GiveUpSilently == Goto("idle") /\ UNCHANGED << op, id, ok >>

\* The request returns an error, and its caller calls sim900_http_close.
GiveUp == Goto("HTTPTERM") /\ UNCHANGED << op, id, ok >>

Begin(o) ==
  /\ step = "idle"
  /\ op' = o /\ id' = (id % Requests) + 1 /\ ok' = FALSE
  /\ step' = "AT" /\ tries' = 2 /\ waiting' = FALSE
  /\ server' = server \ {id'}
  /\ UNCHANGED << rx, inbox, http, data, body, action, slow, lost >>

\* Mutant: flushes before it listens, too.
SendFlushes ==
  /\ step # "idle" /\ ~waiting
  /\ waiting' = TRUE /\ rx' = << >>
  /\ inbox' = IF step \in Listening THEN inbox
              ELSE Append(inbox, << IF step = "close" THEN "HTTPTERM" ELSE step, op, id >>)
  /\ UNCHANGED << op, id, step, tries, ok, modem, slow, lost >>

\* sim900_put_string, and usart_buffer_flush before the wait.  LITTLE_DELAY
\* (500 ms) comes before a command, so that the flush finds all that is on the
\* line; a step that only listens follows at once on what it read last, whose
\* continuation is still to come, a byte each millisecond.
Send ==
  /\ step # "idle" /\ ~waiting
  /\ waiting' = TRUE
  /\ IF step \in Listening THEN UNCHANGED << rx, inbox >>
     ELSE /\ rx' = << >>
          /\ inbox' = Append(inbox, << IF step = "close" THEN "HTTPTERM" ELSE step, op, id >>)
  /\ UNCHANGED << op, id, step, tries, ok, modem, slow, lost >>

Receive ==
  /\ waiting /\ rx # << >>
  /\ rx' = Tail(rx)
  /\ IF Head(rx) \notin Ends(step) THEN UNCHANGED driver
     ELSE IF Good(step, Head(rx)) THEN Proceed ELSE GiveUp
  /\ UNCHANGED << inbox, modem, slow, lost >>

Timeout ==
  /\ waiting /\ rx = << >>
  /\ slow' = IF inbox = << >> /\ action = NoAction THEN slow ELSE slow + 1
  /\ slow' <= MaxSlow
  /\ IF tries > 1
     THEN /\ tries' = tries - 1 /\ waiting' = FALSE
          /\ UNCHANGED << op, id, step, ok >>
     ELSE IF step \in Unchecked THEN Proceed ELSE GiveUp
  /\ UNCHANGED << rx, inbox, modem, lost >>

(***************************************************************************)
(* The modem, the line and the server.                                     *)
(***************************************************************************)
\* What the modem answers to command c
Reply(c) ==
  CASE data -> << "OK" >>
    [] ~data /\ c = "AT" -> << "OK" >>
    [] ~data /\ c = "HTTPINIT" -> IF http THEN << "ERROR" >> ELSE << "OK" >>
    [] ~data /\ c = "data" -> << "ERROR" >>
    [] ~data /\ c \notin {"AT", "HTTPINIT", "data"} ->
         IF ~http \/ (c = "HTTPACTION" /\ action # NoAction) THEN << "ERROR" >>
         ELSE IF c = "HTTPDATA" THEN << "DOWNLOAD" >>
         ELSE IF c = "HTTPREAD" THEN << "+HTTPREAD", "length", "text", "OK" >>
         ELSE << "OK" >>

Perform ==
  /\ inbox # << >>
  /\ LET c == Head(inbox)[1]
         reply == Reply(c)
         done == ~data /\ reply # << "ERROR" >>
     IN  /\ rx' = rx \o reply
         /\ http' = IF ~done THEN http ELSE IF c = "HTTPINIT" THEN TRUE
                    ELSE http /\ c # "HTTPTERM"
         /\ data' = (done /\ c = "HTTPDATA")
         /\ body' = IF data THEN IF c = "data" THEN Head(inbox)[3] ELSE Junk
                    ELSE IF done /\ c = "HTTPTERM" THEN NoBody ELSE body
         /\ action' = IF done /\ c = "HTTPACTION" THEN << Head(inbox)[2], body >>
                      ELSE IF done /\ c = "HTTPTERM" /\ Cancels THEN NoAction
                      ELSE action
  /\ inbox' = Tail(inbox)
  /\ UNCHANGED << driver, server, slow, lost >>

\* The server has answered, or cannot be reached.
Done(code) ==
  /\ action # NoAction
  /\ action' = NoAction
  /\ server' = IF code = "200" /\ action[1] = "post" THEN server \cup ({action[2]} \cap Ids)
               ELSE server
  /\ rx' = rx \o << "+HTTPACTION", code >>
  /\ UNCHANGED << driver, inbox, http, data, body, slow, lost >>

\* Bytes overrun the receiver while another interrupt holds its level.
Lose ==
  /\ rx # << >> /\ lost < MaxLost
  /\ rx' = Tail(rx) /\ lost' = lost + 1
  /\ UNCHANGED << driver, inbox, modem, slow >>

Next ==
  \/ \E o \in {"post", "get"} : Begin(o)
  \/ Send \/ Receive \/ Timeout
  \/ Perform \/ (\E code \in Codes : Done(code)) \/ Lose

Spec == Init /\ [][Next]_vars

\* The driver polls and its timeouts run; the modem answers at last; requests
\* are made and the server is reached again and again.
Fairness ==
  /\ WF_vars(Send) /\ WF_vars(Receive) /\ WF_vars(Timeout)
  /\ WF_vars(Perform) /\ WF_vars(\E code \in Codes : Done(code))
  /\ SF_vars(Begin("post")) /\ SF_vars(Done("200") /\ action[1] = "post")

LiveSpec == Spec /\ Fairness

(***************************************************************************)
(* Properties.                                                             *)
(***************************************************************************)
\* When sim900_http_post returns 0, and the records are marked as sent, the
\* server has accepted the data of this very post, unless so many answers came
\* late that the modem lags a whole request behind: nine, more than MaxSlow here.
PostTrue == ok /\ op = "post" => id \in server

\* The server is sent again what it has accepted only if an answer came late
\* or was lost.
NoFalseFailure ==
  step = "idle" /\ op = "post" /\ ~ok /\ id \in server => slow + lost > 0

\* After a request, whatever became of it, the modem's session is closed once
\* the modem has caught up, unless it took a command for the data of a post.
SessionClosed ==
  step = "idle" /\ inbox = << >> /\ ~data => ~http \/ body = Junk

\* No mixture of late and lost answers leaves driver and modem out of step
\* for good: posts succeed again.
Recovers == []<>(op = "post" /\ ok)
=============================================================================
