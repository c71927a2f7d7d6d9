----------------------------- MODULE RilHandlers -----------------------------
(***************************************************************************)
(* The request handlers of the MBM RIL together: processRequest of         *)
(* u300-ril.c and the handlers it calls, on two runners, with the reader   *)
(* threads of both channels.  They share the channels, the queues and the  *)
(* radio state of RilTasks; SmsAck, DataCall, Registration and SimFiles    *)
(* add what the handlers keep between requests.                            *)
(***************************************************************************)
EXTENDS SimpleRequests, SmsAck, DataCall, Registration, SimFiles

vars == <<taskVars, smsVars, dataVars, regVars, simVars>>

-----------------------------------------------------------------------------
(* Short messages: the framework's acknowledgement is a request like others. *)

\* onUnsolicited drops everything but a few lines while the radio is unavailable.
MessageArrives ==
  /\ "SMS_ACKNOWLEDGE" \in asked /\ radio # "UNAVAILABLE"
  /\ left.events > 0 /\ left' = [left EXCEPT !.events = @ - 1]
  /\ \E kind \in {OUTSTANDING_SMS, OUTSTANDING_STATUS} : onNewMessage(kind)
  /\ UNCHANGED <<radio, closed, alive, task, due, asked>>

AckRequested ==
  /\ IdleAt("NORMAL") /\ ~closed["NORMAL"]
  /\ IF Gate("SMS_ACKNOWLEDGE")
     THEN TakeAck /\ task' = [task EXCEPT !["NORMAL"] = Task("SMS_ACKNOWLEDGE", "ack", "none")]
     ELSE RefuseAck /\ UNCHANGED task
  /\ UNCHANGED <<radio, closed, alive, due, asked, left>>

AckExecuted ==
  /\ At("NORMAL", "ack") /\ requestSMSAcknowledge
  /\ CompleteAndGoto("NORMAL", "return")
  /\ UNCHANGED <<radio, closed, alive, due, asked, left>>

SmsStep == MessageArrives \/ AckRequested \/ AckExecuted

\* requestLastPDPFailCause answers s_lastPdpFailCause without a command.
requestLastPDPFailCause ==
  Accept("LAST_DATA_CALL_FAIL_CAUSE",
         [Task("LAST_DATA_CALL_FAIL_CAUSE", "return", "none") EXCEPT !.done = 1])

-----------------------------------------------------------------------------
RunnerStep ==
  \/ \E r \in asked \ {"SMS_ACKNOWLEDGE"} : Refuse(r)
  \/ \E q \in Queues : Return(q) \/ StreamEnds(q)
  \/ requestLastPDPFailCause
  \/ RadioChanges

ReopenChannel(q) == Reopen(q) /\ DataReopen(q) /\ RegReopen(q) /\ UNCHANGED <<smsVars, simVars>>

Init == TaskInit /\ SmsInit /\ DataInit /\ RegInit /\ SimInit

\* A process that has read or freed what it must not is gone.
Crashed == \E q \in Queues : At(q, "crash")

Next ==
  /\ ~Crashed
  /\ \/ RunnerStep /\ UNCHANGED <<smsVars, dataVars, regVars, simVars>>
     \/ SimpleStep /\ UNCHANGED <<smsVars, dataVars, regVars, simVars>>
     \/ SmsStep /\ UNCHANGED <<dataVars, regVars, simVars>>
     \/ DataStep /\ UNCHANGED <<smsVars, regVars, simVars>>
     \/ RegStep(e2nap = CONNECTED) /\ UNCHANGED <<smsVars, dataVars, simVars>>
     \/ SimStep /\ UNCHANGED <<smsVars, dataVars, regVars>>
     \/ \E q \in Queues : ReopenChannel(q)

Spec == Init /\ [][Next]_vars

(* While a selection is being polled or a message is held back, the RIL does *)
(* not stop: runners go on with what they have in hand (a command ends, see  *)
(* AtChannel), take the events that are due and open closed channels again,  *)
(* and the framework acknowledges what it was shown.  Requests, messages and *)
(* other events need never come.                                             *)
Fairness ==
  WF_vars(/\ Polling \/ held # << >>
          /\ Next /\ left'.requests = left.requests /\ left'.events = left.events)
FairSpec == Spec /\ Fairness

-----------------------------------------------------------------------------
(* How often a handler may have called RIL_onRequestComplete when it        *)
(* returns: once.  Excepted: a selection that goes on as a poll; a GPRS     *)
(* registration request whose *ERINFO or +CGEQNEG line cannot be parsed,    *)
(* which is never completed; requestSignalStrength when AT+CSQ fails, which *)
(* completes twice.                                                         *)
Completions(t) ==
  IF \/ t.req \in {"SET_NETWORK_SELECTION_AUTOMATIC", "pollOperatorSelected"} /\ t.arg = "polling"
     \/ t.req = "GPRS_REGISTRATION_STATE" /\ t.arg = "malformed"
  THEN {0}
  ELSE IF t.req = "SIGNAL_STRENGTH" /\ t.n = 1 THEN {1, 2} ELSE {1}

(* Every request is completed exactly once on every path of its handler,    *)
(* whatever its commands come back with, but for the three exceptions of    *)
(* Completions.                                                             *)
CompletedOnce == \A q \in Queues : At(q, "return") => task[q].done \in Completions(task[q])

\* The outcomes a handler does not survive: a line that is not there, a response freed twice.
NotHandled(r) ==
  IF r = "GET_PREFERRED_NETWORK_TYPE" THEN {"refused", "timeout", "dead"}
  ELSE IF r \in {"GSM_SMS_BROADCAST_ACTIVATION", "SIM_IO", "SETUP_DATA_CALL"} THEN {"timeout", "dead"}
  ELSE IF r \in {"ENTER_SIM_PIN", "CHANGE_SIM_PIN"} THEN {"empty", "refused"} \cup Lost
  ELSE IF r \in {"DATA_CALL_LIST", "onPDPContextListChanged", "GET_IMEISV", "DEVICE_IDENTITY"}
  THEN {"empty"} ELSE {}

(* Whatever a command comes back with, a handler neither reads a line that  *)
(* is not there nor frees a response twice, but for the handlers of         *)
(* NotHandled, each with the outcomes named there.                          *)
AnswersHandled ==
  \A q \in Queues : At(q, "crash") => task[q].arg \in NotHandled(task[q].req)

(* Messages that are held back are shown in the end, unless processRequest  *)
(* has refused an acknowledgement.                                          *)
MessagesShown == held # << >> ~> (held = << >> \/ ack = "refused")
=============================================================================
