--------------------------- MODULE SimpleRequests ---------------------------
(***************************************************************************)
(* The request handlers that keep no state: one to three AT commands, the  *)
(* answer taken apart, the request completed.  A handler is the sequence   *)
(* of its commands; a command says what each outcome leads to:             *)
(*   stop   the error path: complete with an error, free the response      *)
(*   go     on to the next command                                         *)
(*   end    complete with success, free the response                       *)
(* uses: p_intermediates->line is read before the handler ends.            *)
(* before: what the response variable holds when the command is sent.      *)
(* What cannot happen to a handler is not in its table: an outcome in none *)
(* of the three sets does not exist for that command.                      *)
(***************************************************************************)
EXTENDS RilTasks

Command(kind, stop, go, end, uses, before) ==
  [kind |-> kind, stop |-> stop, go |-> go, end |-> end, uses |-> uses, before |-> before]

AllBad(kind) == {o \in Outcomes(kind) : Bad(kind, o)}
AllErr(kind) == {o \in Outcomes(kind) : Err(kind, o)}

\* if (err < 0 || atresponse->success == 0) goto error, without a line to read.
Plain == Command("plain", AllBad("plain"), {}, {"ok"}, FALSE, "NULL")
\* The same, then the line is read and parsed.
Query == Command("line", AllBad("line") \cup {"malformed"}, {}, {"ok"}, TRUE, "NULL")
\* at_send_command_numeric: the line is passed on as it is.
Numeric == Command("line", AllBad("line"), {}, {"ok", "malformed"}, TRUE, "NULL")

requestSendSMS == <<Query>>
requestGetSMSCAddress == <<Query>>
requestSetSMSCAddress == <<Plain>>
requestGSMGetBroadcastSMSConfig == <<Query>>
requestGSMSetBroadcastSMSConfig == <<Plain>>
\* The first response is freed, the variable not reset.
requestGSMSMSBroadcastActivation ==
  << [Query EXCEPT !.go = {"ok"}, !.end = {}], [Plain EXCEPT !.before = "stale"] >>

requestSetNetworkSelectionManual == <<Plain>>
requestQueryAvailableNetworks ==
  << Command("multi", AllBad("multi") \cup {"empty", "malformed"}, {}, {"ok"}, TRUE, "NULL") >>
requestSetPreferredNetworkType == <<Plain>>
\* atresponse is not initialised, and success not looked at.
requestGetPreferredNetworkType ==
  << Command("line", AllErr("line") \cup {"malformed"}, {}, {"ok", "refused"}, TRUE, "stale") >>
requestQueryNetworkSelectionMode == <<Query>>
\* Mutation of requestSignalStrength: success is not looked at.
requestSignalStrengthUnchecked ==
  << Command("line", AllErr("line") \cup {"malformed"}, {}, {"ok", "refused"}, TRUE, "NULL"), Query >>

\* AT+CIND? is sent when AT+CSQ brought 99.
requestSignalStrength == << [Query EXCEPT !.go = {"ok"}], Query >>
\* Fewer than three lines are an error as well.
requestOperator ==
  << Command("multi", AllBad("multi") \cup {"empty", "malformed"}, {}, {"ok"}, TRUE, "NULL") >>
\* An event: its indication is sent on both paths.
pollSignalStrength == <<Query>>

\* Lines that are no calls are skipped, no lines are no calls.
requestGetCurrentCalls ==
  << Command("multi", AllBad("multi"), {}, {"ok", "empty", "malformed"}, FALSE, "NULL") >>
requestGetIMSI == <<Numeric>>
requestGetIMEI == <<Numeric>>
SvnFallback == Command("multi", AllBad("multi"), {}, {"ok", "empty", "malformed"}, TRUE, "NULL")
SvnQuery == [SvnFallback EXCEPT !.stop = {}, !.go = AllBad("multi")]
requestGetIMEISV == <<SvnQuery, SvnFallback>>
requestDeviceIdentity ==
  << [Numeric EXCEPT !.go = {"ok", "malformed"}, !.end = {}], SvnQuery, SvnFallback >>
requestBasebandVersion == <<Numeric>>
\* Whatever the final response is, it is the answer.
requestOEMHookStrings ==
  << Command("plain", AllErr("plain"), {}, {"ok", "refused"}, FALSE, "NULL") >>

\* getNumRetries looks at neither err nor success.
getNumRetries == Command("line", {}, {}, Outcomes("line"), TRUE, "NULL")
\* A wrong PIN is refused with a CME error that leads to getNumRetries as well.
requestEnterSimPin ==
  << Command("plain", AllBad("plain"), {"ok", "refused"}, {}, FALSE, "NULL"), getNumRetries >>
requestChangePassword == requestEnterSimPin
\* For this request getNumRetries asks, but does not read the answer.
EnterNetworkDepersonalization ==
  [requestEnterSimPin EXCEPT ![2] = [getNumRetries EXCEPT !.uses = FALSE]]
requestSetFacilityLock == <<Plain>>
requestQueryFacilityLock == <<Query>>

\* requestOrSendPDPContextList, for the request and for the event.
requestOrSendPDPContextList ==
  << Command("multi", AllBad("multi") \cup {"malformed"}, {}, {"ok", "empty"}, TRUE, "NULL") >>

Handler ==
  [ SEND_SMS |-> requestSendSMS,
    GET_SMSC_ADDRESS |-> requestGetSMSCAddress,
    SET_SMSC_ADDRESS |-> requestSetSMSCAddress,
    GSM_GET_BROADCAST_SMS_CONFIG |-> requestGSMGetBroadcastSMSConfig,
    GSM_SET_BROADCAST_SMS_CONFIG |-> requestGSMSetBroadcastSMSConfig,
    GSM_SMS_BROADCAST_ACTIVATION |-> requestGSMSMSBroadcastActivation,
    SET_NETWORK_SELECTION_MANUAL |-> requestSetNetworkSelectionManual,
    QUERY_AVAILABLE_NETWORKS |-> requestQueryAvailableNetworks,
    SET_PREFERRED_NETWORK_TYPE |-> requestSetPreferredNetworkType,
    GET_PREFERRED_NETWORK_TYPE |-> requestGetPreferredNetworkType,
    QUERY_NETWORK_SELECTION_MODE |-> requestQueryNetworkSelectionMode,
    SIGNAL_STRENGTH |-> requestSignalStrength,
    OPERATOR |-> requestOperator,
    GET_CURRENT_CALLS |-> requestGetCurrentCalls,
    GET_IMSI |-> requestGetIMSI,
    GET_IMEI |-> requestGetIMEI,
    GET_IMEISV |-> requestGetIMEISV,
    DEVICE_IDENTITY |-> requestDeviceIdentity,
    BASEBAND_VERSION |-> requestBasebandVersion,
    OEM_HOOK_STRINGS |-> requestOEMHookStrings,
    ENTER_SIM_PIN |-> requestEnterSimPin,
    ENTER_NETWORK_DEPERSONALIZATION |-> EnterNetworkDepersonalization,
    CHANGE_SIM_PIN |-> requestChangePassword,
    SET_FACILITY_LOCK |-> requestSetFacilityLock,
    QUERY_FACILITY_LOCK |-> requestQueryFacilityLock,
    DATA_CALL_LIST |-> requestOrSendPDPContextList,
    onPDPContextListChanged |-> requestOrSendPDPContextList,
    pollSignalStrength |-> pollSignalStrength ]
SimpleKinds == DOMAIN Handler
SimpleEvents == {"onPDPContextListChanged", "pollSignalStrength"}

\* The handlers that check their arguments before they send anything.
ChecksArguments ==
  {"GSM_SET_BROADCAST_SMS_CONFIG", "SET_NETWORK_SELECTION_MANUAL", "SET_PREFERRED_NETWORK_TYPE",
   "ENTER_SIM_PIN", "ENTER_NETWORK_DEPERSONALIZATION", "CHANGE_SIM_PIN"}

SimpleTask(r) == [Task(r, "send", "none") EXCEPT !.resp = Handler[r][1].before]
StartSimple == \E r \in SimpleKinds \ SimpleEvents : Accept(r, SimpleTask(r))

RejectArguments(q) ==
  /\ At(q, "send") /\ task[q].n = 1 /\ task[q].req \in ChecksArguments
  /\ CompleteAndGoto(q, "return")
  /\ UNCHANGED <<radio, closed, alive, due, asked, left>>

(* How often the error path completes the request: requestSignalStrength    *)
(* completes it before it jumps to the error path as well, when AT+CSQ      *)
(* failed.                                                                  *)
ErrorCompletions(t, o) ==
  IF t.req = "SIGNAL_STRENGTH" /\ t.n = 1 /\ Bad("line", o) THEN 2 ELSE 1

\* The task after command c of task t had outcome o.
AfterCommand(t, c, o, path) ==
  LET resp == RespAfter(c.kind, o, t.resp)
      last == [t EXCEPT !.resp = resp, !.arg = o] IN
  IF path = "stop"
  THEN IF resp = "stale" THEN [last EXCEPT !.pc = "crash"]
       ELSE [t EXCEPT !.pc = "return", !.resp = "NULL", !.done = @ + ErrorCompletions(t, o)]
  ELSE IF path = "go"
  THEN [t EXCEPT !.n = @ + 1, !.resp = Handler[t.req][t.n + 1].before]
  ELSE IF c.uses /\ resp # "lines" THEN [last EXCEPT !.pc = "crash"]
  ELSE [t EXCEPT !.pc = "return", !.resp = "NULL", !.done = @ + 1]

SendCommand(q, o) ==
  /\ At(q, "send")
  /\ LET c == Handler[task[q].req][task[q].n] IN
       \E path \in {"stop", "go", "end"} :
         /\ o \in c[path]
         /\ task' = [task EXCEPT ![q] = AfterCommand(task[q], c, o, path)]
  /\ Channel(q, o)
  /\ UNCHANGED due

StartSimpleEvent ==
  \E q \in Queues : \E i \in DOMAIN due[q] :
    due[q][i].req \in SimpleEvents /\ TakeEvent(q, i, SimpleTask(due[q][i].req))

\* +CIEV: 2 on the reader thread: onSignalStrengthChanged.
onSignalStrengthChanged ==
  /\ radio # "UNAVAILABLE" /\ "SIGNAL_STRENGTH" \in asked
  /\ left.events > 0 /\ left' = [left EXCEPT !.events = @ - 1]
  /\ Enqueue("PRIO", [req |-> "pollSignalStrength", n |-> 0])
  /\ UNCHANGED <<radio, closed, alive, task, asked>>

SimpleStep ==
  \/ StartSimple \/ StartSimpleEvent \/ onSignalStrengthChanged
  \/ \E q \in Queues : RejectArguments(q)
  \/ \E q \in Queues, o \in Outcomes("multi") : SendCommand(q, o)
=============================================================================
