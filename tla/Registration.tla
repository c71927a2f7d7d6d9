---------------------------- MODULE Registration ----------------------------
(***************************************************************************)
(* Registration state, screen state and automatic network selection        *)
(* (u300-ril-network.c, requestScreenState in u300-ril.c).  With the       *)
(* screen off the modem is told not to report changes (+CREG, +CGREG); a   *)
(* registration request turns them on for its own question and off again,  *)
(* under s_screen_state_mutex.  The selection request stays open while an  *)
(* event polls for the operator.  Of a registration only the status and    *)
(* the reason of a denial are kept.                                        *)
(***************************************************************************)
EXTENDS RilTasks

CONSTANT Repolls \* REPOLL_OPERATOR_SELECTED: 30 in the code

ASSUME RepollsAssumption == Repolls \in Nat

VARIABLES
  screen,     \* s_screenState
  screenLock, \* owner of s_screen_state_mutex, or "free"
  reports,    \* per command: the modem reports changes
  denied,     \* s_registrationDeniedReason
  operator,   \* the modem has found an operator
  noisy       \* of the properties only: reports were changed behind the screen state

regVars == <<screen, screenLock, reports, denied, operator, noisy>>

Reporting == {"CREG", "CGREG"}
ReportOf(r) == IF r = "REGISTRATION_STATE" THEN "CREG" ELSE "CGREG"
Registrations == {"REGISTRATION_STATE", "GPRS_REGISTRATION_STATE"}
\* The reasons pollOperatorSelected gives up for, and the others.
Reasons == {"ILLEGAL", "GENERAL"}

Here(p) == At("NORMAL", p)
InHand == task["NORMAL"].req
GoOn(p) == Goto("NORMAL", p)
Lock == screenLock = "free" /\ screenLock' = "NORMAL"
Unlock == screenLock' = "free"

\* AT+CREG=n or AT+CGREG=n with outcome o: the modem may have done what was lost.
SetReports(c, on, o) ==
  /\ \/ o \notin {"refused", "dead"} /\ reports' = [reports EXCEPT ![c] = on]
     \/ o # "ok" /\ UNCHANGED reports
  /\ noisy' = (noisy \/ o # "ok")

-----------------------------------------------------------------------------
(* requestScreenState: n counts the commands, arg is the state asked for.   *)

ScreenCommands(on) == IF on = "on" THEN <<"CREG", "CGREG", "CGEREP", "CMER">>
                      ELSE <<"CREG", "CGREG", "CGEREP">>

StartScreenState ==
  /\ \E on \in {"on", "off", "other"} : Accept("SCREEN_STATE", Task("SCREEN_STATE", "screen", on))
  /\ UNCHANGED regVars

\* A value that is neither on nor off is stored as it is, and is an error.
ScreenBegins ==
  /\ Here("screen")
  /\ screen' = (task["NORMAL"].arg # "off")
  /\ noisy' = FALSE
  /\ IF task["NORMAL"].arg = "other"
     THEN screenLock = "free" /\ UNCHANGED screenLock /\ CompleteAndGoto("NORMAL", "return")
     ELSE Lock /\ GoOn("report")
  /\ UNCHANGED <<radio, closed, alive, due, asked, left, reports, denied, operator>>

(* Only err < 0 is an error. The error path unlocks twice, the second time  *)
(* a mutex that is free: only this runner takes it, so nobody else's lock   *)
(* is lost.                                                                 *)
ScreenCommand(o) ==
  /\ Here("report") /\ Channel("NORMAL", o)
  /\ LET t == task["NORMAL"]
         c == ScreenCommands(t.arg)[t.n]
         last == t.n = Len(ScreenCommands(t.arg)) IN
       /\ IF c \in Reporting THEN SetReports(c, t.arg = "on", o) ELSE UNCHANGED <<reports, noisy>>
       /\ IF Err("plain", o) \/ last
          THEN CompleteAndGoto("NORMAL", "return") /\ Unlock
          ELSE task' = [task EXCEPT !["NORMAL"].n = @ + 1] /\ UNCHANGED screenLock
  /\ UNCHANGED <<due, screen, denied, operator>>

-----------------------------------------------------------------------------
(* requestRegistrationState and requestGprsRegistrationState. *)

StartRegistration ==
  \E r \in Registrations : Accept(r, Task(r, "reg", "none")) /\ UNCHANGED regVars

RegistrationBegins ==
  /\ Here("reg") /\ Lock
  /\ GoOn(IF screen THEN "query" ELSE "on")
  /\ UNCHANGED <<radio, closed, alive, due, asked, left, screen, reports, denied, operator, noisy>>

\* The outcome is not looked at.
ReportsOn(o) ==
  /\ Here("on") /\ Channel("NORMAL", o)
  /\ SetReports(ReportOf(InHand), TRUE, o)
  /\ GoOn("query")
  /\ UNCHANGED <<due, screen, screenLock, denied, operator>>

\* AT+CREG?: denied or not; errors complete the request.
QueryCreg(o) ==
  /\ Here("query") /\ InHand = "REGISTRATION_STATE" /\ Channel("NORMAL", o)
  /\ IF Bad("line", o) \/ o = "malformed" THEN CompleteAndGoto("NORMAL", "off")
     ELSE GoOn("reason?") \/ GoOn("answer")
  /\ UNCHANGED <<due, regVars>>

\* AT+CGREG?: registered or not; errors complete the request.
QueryCgreg(o) ==
  /\ Here("query") /\ InHand = "GPRS_REGISTRATION_STATE" /\ Channel("NORMAL", o)
  /\ IF Bad("line", o) \/ o = "malformed" THEN CompleteAndGoto("NORMAL", "off")
     ELSE GoOn("erinfo") \/ GoOn("answer")
  /\ UNCHANGED <<due, regVars>>

\* Mutation of QueryReason: the error path goes on to the answer.
QueryReasonFallsThrough(o) ==
  /\ Here("reason?") /\ Channel("NORMAL", o)
  /\ IF Bad("line", o) \/ o = "malformed"
     THEN CompleteAndGoto("NORMAL", "answer") /\ UNCHANGED denied
     ELSE GoOn("answer") /\ denied' \in Reasons
  /\ UNCHANGED <<due, screen, screenLock, reports, operator, noisy>>

\* AT*E2REG? after a denial: the reason is stored, the old one kept on an error.
QueryReason(o) ==
  /\ Here("reason?") /\ Channel("NORMAL", o)
  /\ IF Bad("line", o) \/ o = "malformed"
     THEN CompleteAndGoto("NORMAL", "off") /\ UNCHANGED denied
     ELSE GoOn("answer") /\ denied' \in Reasons
  /\ UNCHANGED <<due, screen, screenLock, reports, operator, noisy>>

(* AT*ERINFO? and, in a data call, AT+CGEQNEG when registered. A line that  *)
(* cannot be parsed jumps past the completion.                              *)
QueryRadioInfo(o, inCall) ==
  /\ Here("erinfo") \/ Here("cgeqneg")
  /\ Channel("NORMAL", o)
  /\ IF Bad("line", o) THEN CompleteAndGoto("NORMAL", "off")
     ELSE IF o = "malformed"
     THEN task' = [task EXCEPT !["NORMAL"].pc = "off", !["NORMAL"].arg = "malformed"]
     ELSE IF Here("erinfo") /\ inCall THEN GoOn("cgeqneg") ELSE GoOn("answer")
  /\ UNCHANGED <<due, regVars>>

\* The reason is forgotten before the request is completed, a new one, too.
AnswerRegistration ==
  /\ Here("answer") /\ InHand = "REGISTRATION_STATE"
  /\ denied' = "DEFAULT"
  /\ CompleteAndGoto("NORMAL", "off")
  /\ UNCHANGED <<radio, closed, alive, due, asked, left, screen, screenLock, reports, operator,
                 noisy>>

AnswerGprsRegistration ==
  /\ Here("answer") /\ InHand = "GPRS_REGISTRATION_STATE"
  /\ CompleteAndGoto("NORMAL", "off")
  /\ UNCHANGED <<radio, closed, alive, due, asked, left, regVars>>

\* Mutation: only the paths that completed the request reach the release.
RegistrationEndsIfAnswered(o) ==
  /\ Here("off")
  /\ IF screen THEN o = "ok" /\ UNCHANGED <<radio, closed, alive, asked, left, reports, noisy>>
     ELSE Channel("NORMAL", o) /\ SetReports(ReportOf(InHand), FALSE, o)
  /\ IF task["NORMAL"].done = 0 THEN UNCHANGED screenLock ELSE Unlock
  /\ GoOn("return")
  /\ UNCHANGED <<due, screen, denied, operator>>

\* Mutation: reports stay on after the question.
RegistrationEndsReporting(o) ==
  /\ Here("off") /\ o = "ok"
  /\ Unlock /\ GoOn("return")
  /\ UNCHANGED <<radio, closed, alive, asked, left, due, screen, denied, operator, reports, noisy>>

\* finally: reports off again if the screen is, the lock released.
RegistrationEnds(o) ==
  /\ Here("off")
  /\ IF screen THEN o = "ok" /\ UNCHANGED <<radio, closed, alive, asked, left, reports, noisy>>
     ELSE Channel("NORMAL", o) /\ SetReports(ReportOf(InHand), FALSE, o)
  /\ Unlock /\ GoOn("return")
  /\ UNCHANGED <<due, screen, denied, operator>>

-----------------------------------------------------------------------------
(* Automatic selection. *)

StartSelection ==
  /\ Accept("SET_NETWORK_SELECTION_AUTOMATIC",
            Task("SET_NETWORK_SELECTION_AUTOMATIC", "cops=0", "none"))
  /\ UNCHANGED regVars

requestSetNetworkSelectionAutomatic(o) ==
  /\ Here("cops=0") /\ Channel("NORMAL", o)
  /\ IF Err("plain", o) THEN CompleteAndGoto("NORMAL", "return") /\ UNCHANGED due
     ELSE /\ task' = [task EXCEPT !["NORMAL"].pc = "return", !["NORMAL"].arg = "polling"]
          /\ Enqueue("NORMAL", [req |-> "pollOperatorSelected", n |-> 0])
  /\ UNCHANGED regVars

StartPoll ==
  \E q \in Queues : \E i \in DOMAIN due[q] :
    /\ due[q][i].req = "pollOperatorSelected"
    /\ TakeEvent(q, i, [Task("pollOperatorSelected", "cops?", "none") EXCEPT !.n = due[q][i].n])
    /\ UNCHANGED regVars

\* Poll again later, always on the priority queue.
Repoll(q) ==
  /\ task' = [task EXCEPT ![q].pc = "return", ![q].arg = "polling"]
  /\ Enqueue("PRIO", [req |-> "pollOperatorSelected", n |-> task[q].n + 1])

\* Mutation: the loop counter is never looked at.
pollOperatorSelectedForever(q, o) ==
  /\ At(q, "cops?") /\ Channel(q, o)
  /\ IF Bad("line", o) \/ o = "malformed" \/ operator \/ denied = "ILLEGAL"
     THEN CompleteAndGoto(q, "return") /\ UNCHANGED due
     ELSE /\ task' = [task EXCEPT ![q].pc = "return", ![q].arg = "polling"]
          /\ Enqueue("PRIO", [req |-> "pollOperatorSelected", n |-> 0])
  /\ UNCHANGED regVars

pollOperatorSelected(q, o) ==
  /\ At(q, "cops?")
  /\ IF task[q].n >= Repolls
     THEN /\ o = "ok" /\ UNCHANGED <<radio, closed, alive, asked, left, due>>
          /\ CompleteAndGoto(q, "return")
     ELSE /\ Channel(q, o)
          /\ IF Bad("line", o) \/ o = "malformed" \/ operator \/ denied = "ILLEGAL"
             THEN CompleteAndGoto(q, "return") /\ UNCHANGED due
             ELSE Repoll(q)
  /\ UNCHANGED regVars

-----------------------------------------------------------------------------
(* Around the handlers. *)

OperatorFound ==
  /\ "SET_NETWORK_SELECTION_AUTOMATIC" \in asked
  /\ ~operator /\ operator' = TRUE
  /\ left.events > 0 /\ left' = [left EXCEPT !.events = @ - 1]
  /\ UNCHANGED <<radio, closed, alive, task, due, asked, screen, screenLock, reports, denied, noisy>>

\* The event onSIMReady turns +CREG reports on, whatever the screen is, if the modem obeys.
onSIMReady ==
  /\ IdleAt("PRIO") /\ ~closed["PRIO"] /\ radio = "READY"
  /\ left.events > 0 /\ left' = [left EXCEPT !.events = @ - 1]
  /\ reports' \in {reports, [reports EXCEPT !["CREG"] = TRUE]}
  /\ noisy' = TRUE
  /\ UNCHANGED <<radio, closed, alive, task, due, asked, screen, screenLock, denied, operator>>

\* Opening NORMAL again: initializeChannel turns +CGREG reports on.
RegReopen(q) ==
  /\ IF q = "NORMAL" THEN reports' = [reports EXCEPT !["CGREG"] = TRUE] /\ noisy' = TRUE
     ELSE UNCHANGED <<reports, noisy>>
  /\ UNCHANGED <<screen, screenLock, denied, operator>>

RegInit ==
  /\ screen = TRUE /\ screenLock = "free" /\ reports = [c \in Reporting |-> TRUE]
  /\ denied = "DEFAULT" /\ operator = FALSE /\ noisy = FALSE

RegStep(inCall) ==
  \/ StartScreenState \/ ScreenBegins \/ StartRegistration \/ RegistrationBegins
  \/ AnswerRegistration \/ AnswerGprsRegistration \/ StartSelection \/ StartPoll \/ OperatorFound \/ onSIMReady
  \/ \E o \in Outcomes("line") :
       \/ QueryCreg(o) \/ QueryCgreg(o) \/ QueryReason(o) \/ QueryRadioInfo(o, inCall)
       \/ \E q \in Queues : pollOperatorSelected(q, o)
  \/ \E o \in Outcomes("plain") :
       \/ ScreenCommand(o) \/ ReportsOn(o) \/ RegistrationEnds(o)
       \/ requestSetNetworkSelectionAutomatic(o)

-----------------------------------------------------------------------------
(* s_screen_state_mutex is free whenever the runner is between requests:    *)
(* every path of the three handlers that take it releases it, those that    *)
(* never complete the request included.  Otherwise the next of them would   *)
(* block the runner for good.                                               *)
ScreenLockReleased == Here("idle") \/ Here("return") => screenLock = "free"

(* With the screen off and the runner between requests the modem reports    *)
(* no registration changes, however many registration requests turned them  *)
(* on in between and however those ended.  Excepted: commands that failed   *)
(* (their outcome is ignored), onSIMReady and a restart, which turn reports *)
(* on without looking at the screen state.                                  *)
QuietWhenScreenOff ==
  Here("idle") /\ ~screen /\ ~noisy => \A c \in Reporting : ~reports[c]

\* A selection request that has been accepted and not been completed.
Polling == \E q \in Queues :
  \/ task[q].pc = "cops?"
  \/ \E i \in DOMAIN due[q] : due[q][i].req = "pollOperatorSelected"

(* An automatic selection is answered in the end: the poll stops when an    *)
(* operator is found, the modem refuses to say, or it has been tried        *)
(* REPOLL_OPERATOR_SELECTED times, over all restarts of the channels.       *)
SelectionAnswered == Polling ~> ~Polling
=============================================================================
