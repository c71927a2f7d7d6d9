------------------------------ MODULE DataCall ------------------------------
(***************************************************************************)
(* The data call (u300-ril-pdp.c): set-up and tear-down on the NORMAL      *)
(* runner against the *E2NAP reports of the modem, which AT*E2NAP=1 has    *)
(* turned on for both channels: two reader threads deliver the same        *)
(* reports, each at its own pace.  Addresses and authentication are left   *)
(* out.  A report names the call it is about (call), which only the        *)
(* properties look at.                                                     *)
(***************************************************************************)
EXTENDS RilTasks

CONSTANT EnapWait \* MBM_ENAP_WAIT_TIME: 85 in the code

ASSUME EnapWaitAssumption == EnapWait \in Nat

VARIABLES
  e2nap,    \* s_e2napState, "none" for -1
  cause,    \* s_e2napCause, "none" for -1
  lastFail, \* s_lastPdpFailCause
  iface,    \* the network interface is up
  charset,  \* the character set of the NORMAL channel
  nap,      \* the modem's connection
  inbox,    \* per channel: reports sent and not yet read by its reader thread
  \* Of the properties only:
  call,     \* how many calls the modem has begun
  heard,    \* the states reported of the last call since AT*ENAP=1,1
  verdict,  \* how the last set-up or tear-down ended
  blurred,  \* reports of an earlier call may still be heard in this one
  missed,   \* a report was not stored
  cscsLost  \* the modem refused to change the character set

dataVars == <<e2nap, cause, lastFail, iface, charset, nap, inbox,
              call, heard, verdict, blurred, missed, cscsLost>>
ghosts == <<call, heard, verdict, blurred, missed, cscsLost>>

DISCONNECTED == "DISCONNECTED"
CONNECTED == "CONNECTED"
CONNECTING == "CONNECTING"
NoReports == [q \in Queues |-> << >>]

-----------------------------------------------------------------------------
(* The modem and the reader threads. *)

Report(state, why, c) == [state |-> state, cause |-> why, call |-> c]
Sent(r) == [q \in Queues |-> IF alive[q] THEN Append(inbox[q], r) ELSE inbox[q]]

\* The network answers the attempt, or drops the connection.
NapChanges ==
  \/ /\ nap = "connecting" /\ nap' = "on"
     /\ inbox' = Sent(Report(CONNECTED, "none", call))
     /\ UNCHANGED left
  \/ /\ nap = "connecting" \/ (nap = "on" /\ left.events > 0)
     /\ nap' = "off"
     /\ \E why \in {"other", "protocol"} : inbox' = Sent(Report(DISCONNECTED, why, call))
     /\ left' = [left EXCEPT !.events = IF nap = "on" THEN @ - 1 ELSE @]
NetworkActs ==
  /\ NapChanges
  /\ missed' = (missed \/ \E q \in Queues : ~alive[q])
  /\ UNCHANGED <<radio, closed, alive, task, due, asked, e2nap, cause, lastFail, iface,
                 charset, call, heard, verdict, blurred, cscsLost>>

\* mbm_check_error_cause for state s and cause c: other causes change nothing.
CheckErrorCause(s, c) ==
  IF c = "none" \/ s = CONNECTED THEN "UNSPECIFIED"
  ELSE IF c = "protocol" THEN "PROTOCOL_ERRORS" ELSE lastFail

\* Mutation: a report without a cause is dropped like one without a state.
onConnectionStateChangedCauseNeeded(r) ==
  IF r.cause = "none" THEN UNCHANGED <<e2nap, cause, lastFail, due>>
  ELSE /\ e2nap' = r.state /\ cause' = r.cause
       /\ Enqueue("PRIO", [req |-> "onPDPContextListChanged", n |-> 0])
       /\ lastFail' = CheckErrorCause(r.state, r.cause)

(* onConnectionStateChanged for report r. E2NAP_ST_CONNECTING is 2, above   *)
(* E2NAP_ST_CONNECTED, so the range test drops it.                          *)
onConnectionStateChanged(r) ==
  IF r.state \notin {DISCONNECTED, CONNECTED} THEN UNCHANGED <<e2nap, cause, lastFail, due>>
  ELSE /\ e2nap' = r.state /\ cause' = r.cause
       /\ Enqueue("PRIO", [req |-> "onPDPContextListChanged", n |-> 0])
       /\ lastFail' = CheckErrorCause(r.state, r.cause)

\* The reader thread of channel q handles its next report (onUnsolicited).
ReadReport(q) ==
  /\ alive[q] /\ inbox[q] # << >>
  /\ inbox' = [inbox EXCEPT ![q] = Tail(@)]
  /\ LET r == Head(inbox[q]) IN
       IF radio = "UNAVAILABLE"
       THEN missed' = TRUE /\ UNCHANGED <<e2nap, cause, lastFail, due, heard>>
       ELSE /\ onConnectionStateChanged(r)
            /\ heard' = IF r.call = call THEN heard \cup {r.state} ELSE heard
            /\ UNCHANGED missed
  /\ UNCHANGED <<radio, closed, alive, task, asked, left, iface, charset, nap,
                 call, verdict, blurred, cscsLost>>

\* Mutation: initializeCommon leaves the character set alone.
DataReopenKeepsCharset(q) ==
  /\ inbox' = [inbox EXCEPT ![q] = << >>]
  /\ missed' = (missed \/ inbox[q] # << >>)
  /\ e2nap' = "none" /\ cause' = "none"
  /\ IF q = "NORMAL" THEN cscsLost' = FALSE ELSE UNCHANGED cscsLost
  /\ UNCHANGED <<charset, lastFail, iface, nap, call, heard, verdict, blurred>>

(* Opening channel q again: lines not read are gone, initializeCommon       *)
(* forgets the state, a call of the other runner's included, and sets UTF-8. *)
DataReopen(q) ==
  /\ inbox' = [inbox EXCEPT ![q] = << >>]
  /\ missed' = (missed \/ inbox[q] # << >>)
  /\ e2nap' = "none" /\ cause' = "none"
  /\ IF q = "NORMAL" THEN charset' = "UTF-8" /\ cscsLost' = FALSE
     ELSE UNCHANGED <<charset, cscsLost>>
  /\ UNCHANGED <<lastFail, iface, nap, call, heard, verdict, blurred>>

-----------------------------------------------------------------------------
(* A command of the handler in hand on NORMAL. The reader thread reads the  *)
(* lines before an answer first, so an answer means NORMAL's inbox is empty. *)
Exchange(o) ==
  /\ o \in {"ok", "empty", "malformed", "refused"} => inbox["NORMAL"] = << >>
  /\ Channel("NORMAL", o)

\* Whether the modem carried out a command whose outcome is o.
Done(o, did) == (o = "ok" => did) /\ (o \in {"refused", "dead"} => ~did)

Runs(p) == At("NORMAL", p)
Next1(p) == Goto("NORMAL", p) \* the handler goes on at p
\* ... with p_response holding r, which the error path frees.
Next2(p, r) == task' = [task EXCEPT !["NORMAL"].pc = p, !["NORMAL"].resp = r]

StartSetup ==
  /\ Accept("SETUP_DATA_CALL", Task("SETUP_DATA_CALL", "setup", "none"))
  /\ UNCHANGED dataVars

\* Mutation: the state of the last call is not forgotten.
SetupBeginsKeepsState ==
  /\ Runs("setup")
  /\ lastFail' = "UNSPECIFIED"
  /\ \/ iface' = FALSE /\ Next1("cgdcont")
     \/ UNCHANGED iface /\ Next1("error")
  /\ blurred' = (nap # "off" \/ inbox # NoReports)
  /\ heard' = {} /\ verdict' = "none"
  /\ UNCHANGED <<radio, closed, alive, due, asked, left, charset, nap, inbox, call, missed,
                 cscsLost, e2nap, cause>>

\* requestSetupDefaultPDP up to the first command; ifc_init or ifc_down may fail.
SetupBegins ==
  /\ Runs("setup")
  /\ e2nap' = "none" /\ cause' = "none"
  /\ lastFail' = "UNSPECIFIED"
  /\ \/ iface' = FALSE /\ Next1("cgdcont")
     \/ UNCHANGED iface /\ Next1("error")
  /\ blurred' = (nap # "off" \/ inbox # NoReports)
  /\ heard' = {} /\ verdict' = "none"
  /\ UNCHANGED <<radio, closed, alive, due, asked, left, charset, nap, inbox, call, missed,
                 cscsLost>>

\* AT+CGDCONT=1 and AT+CSCS?: the answer of the latter is kept in arg.
DefineContext(o) ==
  /\ Runs("cgdcont") /\ Exchange(o)
  /\ IF Bad("plain", o) THEN Next2("error", RespAfter("plain", o, "NULL")) ELSE Next1("cscs?")
  /\ UNCHANGED <<due, dataVars>>
ReadCharset(o) ==
  /\ Runs("cscs?") /\ Exchange(o)
  /\ IF Bad("line", o) \/ o = "malformed" THEN Next2("error", RespAfter("line", o, "NULL"))
     ELSE LET set == charset = "UCS2" IN
          task' = [task EXCEPT !["NORMAL"].arg = charset,
                               !["NORMAL"].pc = IF set THEN "eiaauw" ELSE "ucs2",
                               !["NORMAL"].resp = IF set THEN "NULL" ELSE "lines"]
  /\ UNCHANGED <<due, dataVars>>

\* AT+CSCS="c", only err < 0 is an error.
SetCharset(c, o) ==
  /\ \E did \in BOOLEAN : Done(o, did) /\ charset' = IF did THEN c ELSE charset
  /\ cscsLost' = (cscsLost \/ o = "refused")
  /\ UNCHANGED <<due, e2nap, cause, lastFail, iface, nap, inbox, call, heard, verdict, blurred,
                 missed>>
ToUcs2(o) ==
  /\ Runs("ucs2") /\ Exchange(o)
  /\ SetCharset("UCS2", o)
  /\ IF Err("plain", o) THEN Next1("error") ELSE Next2("eiaauw", "NULL")
RestoreCharset(o) ==
  /\ Runs("cscs") /\ Exchange(o)
  /\ SetCharset(task["NORMAL"].arg, o)
  /\ Next1(IF Err("plain", o) THEN "error" ELSE "enap")

\* AT*EIAAUW: only err < 0 is an error, and then the character set stays.
SetUser(o) ==
  /\ Runs("eiaauw") /\ Exchange(o)
  /\ Next1(IF Err("plain", o) THEN "error" ELSE "cscs")
  /\ UNCHANGED <<due, dataVars>>

\* AT*ENAP=1,1: a modem that is not off has nothing to do.
Connect(o) ==
  /\ Runs("enap") /\ Exchange(o)
  /\ \E did \in BOOLEAN :
       /\ Done(o, did)
       /\ IF did /\ nap = "off"
          THEN /\ nap' = "connecting" /\ call' = call + 1 /\ heard' = {}
               /\ inbox' = Sent(Report(CONNECTING, "none", call + 1))
          ELSE UNCHANGED <<nap, call, heard, inbox>>
  /\ IF Bad("plain", o) THEN Next2("error", RespAfter("plain", o, "NULL")) ELSE Next1("wait")
  /\ UNCHANGED <<due, e2nap, cause, lastFail, iface, charset, verdict, blurred, missed, cscsLost>>

\* The loop that looks at the state every 200 ms, and the look after it.
AwaitConnection ==
  /\ Runs("wait")
  /\ \/ /\ e2nap # "none"
        /\ task' = [task EXCEPT !["NORMAL"].pc = IF e2nap = DISCONNECTED THEN "down" ELSE "ipcfg"]
     \/ /\ e2nap = "none"
        /\ task' = IF task["NORMAL"].n <= EnapWait
                   THEN [task EXCEPT !["NORMAL"].n = @ + 1]
                   ELSE [task EXCEPT !["NORMAL"].pc = "ipcfg"]
  /\ UNCHANGED <<radio, closed, alive, due, asked, left, dataVars>>

ReadAddress(o) ==
  /\ Runs("ipcfg") /\ Exchange(o)
  /\ Next2(IF Bad("line", o) \/ o = "malformed" THEN "error" ELSE "config",
           RespAfter("line", o, "NULL"))
  /\ UNCHANGED <<due, dataVars>>

(* The state is looked at before ifc_configure, whose failure is only       *)
(* logged, and after it.                                                    *)
Configure ==
  /\ Runs("config")
  /\ \/ e2nap = DISCONNECTED /\ Next1("down") /\ UNCHANGED iface
     \/ e2nap # DISCONNECTED /\ Next1("recheck") /\ iface' \in {iface, TRUE}
  /\ UNCHANGED <<radio, closed, alive, due, asked, left, e2nap, cause, lastFail, charset, nap,
                 inbox, ghosts>>
SetupEnds ==
  /\ Runs("recheck")
  /\ IF e2nap = DISCONNECTED THEN Next1("down") /\ UNCHANGED verdict
     ELSE /\ CompleteAndGoto("NORMAL", "return")
          /\ verdict' = IF e2nap = CONNECTED THEN "connected" ELSE "not heard of"
  /\ UNCHANGED <<radio, closed, alive, due, asked, left, e2nap, cause, lastFail, iface, charset,
                 nap, inbox, call, heard, blurred, missed, cscsLost>>

\* AT*ENAP=0: the modem gives the call up and says so.
HangUp(o) ==
  \E did \in BOOLEAN :
    /\ Done(o, did)
    /\ nap' = IF did THEN "off" ELSE nap
    /\ inbox' = IF did /\ nap # "off" THEN Sent(Report(DISCONNECTED, "none", call)) ELSE inbox

(* The error path: "down" is the jump after E2NAP_ST_DISCONNECTED was seen. *)
(* p_response is freed before AT*ENAP=0 and again after it, which is once    *)
(* too often when that brings no response of its own.                       *)
SetupFails(o) ==
  /\ Runs("error") \/ Runs("down")
  /\ Exchange(o) /\ HangUp(o)
  /\ lastFail' = CheckErrorCause(e2nap, cause)
  /\ IF task["NORMAL"].resp # "NULL" /\ RespAfter("plain", o, "stale") = "stale"
     THEN task' = [task EXCEPT !["NORMAL"].pc = "crash", !["NORMAL"].arg = o,
                               !["NORMAL"].done = @ + 1]
     ELSE CompleteAndGoto("NORMAL", "return")
  /\ verdict' = IF Runs("down") THEN "disconnected" ELSE "failed"
  /\ UNCHANGED <<due, e2nap, cause, iface, charset, call, heard, blurred, missed, cscsLost>>

-----------------------------------------------------------------------------
(* requestDeactivateDefaultPDP: arg is the last answer of AT*ENAP?.          *)

StartDeactivate ==
  /\ Accept("DEACTIVATE_DATA_CALL", Task("DEACTIVATE_DATA_CALL", "enap?", "none"))
  /\ verdict' = "none"
  /\ UNCHANGED <<e2nap, cause, lastFail, iface, charset, nap, inbox, call, heard, blurred,
                 missed, cscsLost>>

EndDeactivate(v) == CompleteAndGoto("NORMAL", "return") /\ verdict' = v
DeactivateUnchanged == UNCHANGED <<due, e2nap, cause, lastFail, charset, call, heard, blurred,
                                   missed, cscsLost>>

AskConnection(o) ==
  /\ Runs("enap?") /\ Exchange(o)
  /\ IF Bad("line", o) \/ o = "malformed" THEN EndDeactivate("failed")
     ELSE IF nap = "on" THEN Next1("enap=0") /\ UNCHANGED verdict
     ELSE EndDeactivate(IF nap = "off" THEN "deactivated" ELSE "in progress")
  /\ DeactivateUnchanged /\ UNCHANGED <<iface, nap, inbox>>

Disconnect(o) ==
  /\ Runs("enap=0") /\ Exchange(o) /\ HangUp(o)
  /\ IF Err("plain", o) THEN EndDeactivate("failed") ELSE Next1("poll") /\ UNCHANGED verdict
  /\ DeactivateUnchanged /\ UNCHANGED iface

\* Mutation: after the loop the answer is not looked at.
AwaitDisconnectionUnchecked(o) ==
  /\ Runs("poll") /\ Exchange(o)
  /\ IF Bad("line", o) \/ o = "malformed" THEN EndDeactivate("failed")
     ELSE IF nap # "off" /\ task["NORMAL"].n < EnapWait
     THEN task' = [task EXCEPT !["NORMAL"].n = @ + 1] /\ UNCHANGED verdict
     ELSE Next1("ifdown") /\ UNCHANGED verdict
  /\ DeactivateUnchanged /\ UNCHANGED <<iface, nap, inbox>>

\* The loop over AT*ENAP?, and the test after it.
AwaitDisconnection(o) ==
  /\ Runs("poll") /\ Exchange(o)
  /\ IF Bad("line", o) \/ o = "malformed" THEN EndDeactivate("failed")
     ELSE IF nap = "off" THEN Next1("ifdown") /\ UNCHANGED verdict
     ELSE IF task["NORMAL"].n < EnapWait
     THEN task' = [task EXCEPT !["NORMAL"].n = @ + 1] /\ UNCHANGED verdict
     ELSE EndDeactivate("failed")
  /\ DeactivateUnchanged /\ UNCHANGED <<iface, nap, inbox>>

InterfaceDown ==
  /\ Runs("ifdown")
  /\ \/ iface' = FALSE /\ EndDeactivate("torn down")
     \/ UNCHANGED iface /\ EndDeactivate("failed")
  /\ DeactivateUnchanged /\ UNCHANGED <<radio, closed, alive, asked, left, nap, inbox>>

-----------------------------------------------------------------------------
DataInit ==
  /\ e2nap = "none" /\ cause = "none" /\ lastFail = "UNSPECIFIED"
  /\ iface = FALSE /\ charset = "UTF-8" /\ nap = "off" /\ inbox = NoReports
  /\ call = 0 /\ heard = {} /\ verdict = "none"
  /\ blurred = FALSE /\ missed = FALSE /\ cscsLost = FALSE

DataStep ==
  \/ NetworkActs \/ \E q \in Queues : ReadReport(q)
  \/ StartSetup \/ SetupBegins \/ AwaitConnection \/ Configure \/ SetupEnds
  \/ StartDeactivate \/ InterfaceDown
  \/ \E o \in Outcomes("line") :
       \/ ReadCharset(o) \/ ReadAddress(o) \/ AskConnection(o) \/ AwaitDisconnection(o)
  \/ \E o \in Outcomes("plain") :
       \/ DefineContext(o) \/ ToUcs2(o) \/ SetUser(o) \/ RestoreCharset(o) \/ Connect(o)
       \/ SetupFails(o) \/ Disconnect(o)

-----------------------------------------------------------------------------
(* When the NORMAL runner is between requests, on a channel that needs no   *)
(* restart, the channel has the character set initializeCommon gave it,     *)
(* however a data call failed: a set-up that gives up with UCS2 set does so *)
(* because a command was lost, and the restart that follows sets it again.  *)
(* Excepted is a modem that refused AT+CSCS, which the code does not check. *)
CharsetRestored ==
  Runs("idle") /\ ~closed["NORMAL"] /\ ~cscsLost => charset = "UTF-8"

(* A set-up that succeeds because the call is connected, or fails because   *)
(* it is disconnected, has heard so of this very call: the state of an      *)
(* earlier one is forgotten.  Excepted are set-ups that begin while reports *)
(* of an earlier call can still come (a late reader of the other channel):  *)
(* requestSetupDefaultPDP takes those for its own.                          *)
VerdictOfThisCall ==
  ~blurred => /\ verdict = "connected" => CONNECTED \in heard
              /\ verdict = "disconnected" => DISCONNECTED \in heard

(* When both readers have read everything the modem said and nothing was    *)
(* missed, the stored state is the modem's, or not set since the last       *)
(* set-up began: the slower reader does not leave an older state behind.    *)
StateSettles ==
  inbox = NoReports /\ ~missed =>
    /\ nap = "on" => e2nap \in {CONNECTED, "none"}
    /\ nap = "off" => e2nap \in {DISCONNECTED, "none"}

(* A tear-down reported as done means that the modem is not connected, and, *)
(* if it was, that the interface is down.  Excepted is an attempt in        *)
(* progress, which requestDeactivateDefaultPDP reports as done and leaves   *)
(* to itself.                                                               *)
TornDown ==
  /\ verdict \in {"deactivated", "torn down"} => nap = "off"
  /\ verdict = "torn down" => ~iface
=============================================================================
