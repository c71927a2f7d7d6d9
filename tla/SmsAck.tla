------------------------------- MODULE SmsAck -------------------------------
(***************************************************************************)
(* New short messages and their acknowledgement (u300-ril-messaging.c):    *)
(* the reader thread shows a message or holds it back, the queue runner    *)
(* shows the next one when the framework acknowledges.  Both do all of it  *)
(* under s_held_pdus_mutex.  A PDU is its kind and its place in the order  *)
(* of arrival.                                                             *)
(***************************************************************************)
EXTENDS Naturals, Sequences

VARIABLES
  outstanding, \* s_outstanding_acknowledge
  held,        \* s_held_pdus
  shown,       \* the messages indicated so far
  ack          \* the framework's acknowledgement of the last of them

smsVars == <<outstanding, held, shown, ack>>

OUTSTANDING_SMS == "SMS"
OUTSTANDING_STATUS == "STATUS"
Messages == [kind : {OUTSTANDING_SMS, OUTSTANDING_STATUS}, id : Nat \ {0}]

\* due: will be requested; taken: processRequest let it through; refused: it did not.
AckStates == {"none", "due", "taken", "refused"}

SmsTypeOK ==
  /\ outstanding \in BOOLEAN
  /\ held \in Seq(Messages) /\ shown \in Seq(Messages)
  /\ ack \in AckStates

\* RIL_onUnsolicitedResponse(RIL_UNSOL_RESPONSE_NEW_SMS or ..._STATUS_REPORT)
Indicate(m) == shown' = Append(shown, m) /\ ack' = "due"

\* onNewSms and onNewStatusReport on the reader thread: +CMT: and +CDS:.
onNewMessage(kind) ==
  LET m == [kind |-> kind, id |-> Len(shown) + Len(held) + 1] IN
  IF outstanding
  THEN held' = Append(held, m) /\ UNCHANGED <<outstanding, shown, ack>>
  ELSE outstanding' = TRUE /\ Indicate(m) /\ UNCHANGED held

\* The request RIL_REQUEST_SMS_ACKNOWLEDGE at processRequest's gate.
TakeAck == ack = "due" /\ ack' = "taken" /\ UNCHANGED <<outstanding, held, shown>>
RefuseAck == ack = "due" /\ ack' = "refused" /\ UNCHANGED <<outstanding, held, shown>>

\* Mutation of requestSMSAcknowledge: the newest held message is shown first.
AcknowledgeNewestFirst ==
  /\ ack = "taken"
  /\ IF held # << >>
     THEN /\ Indicate(held[Len(held)])
          /\ held' = SubSeq(held, 1, Len(held) - 1)
          /\ UNCHANGED outstanding
     ELSE /\ outstanding' = FALSE /\ ack' = "none"
          /\ UNCHANGED <<held, shown>>

\* Mutation of requestSMSAcknowledge: held messages are only looked at when a message comes.
AcknowledgeOnlyClears ==
  /\ ack = "taken"
  /\ outstanding' = FALSE /\ ack' = "none"
  /\ UNCHANGED <<held, shown>>

requestSMSAcknowledge ==
  /\ ack = "taken"
  /\ IF held # << >>
     THEN Indicate(Head(held)) /\ held' = Tail(held) /\ UNCHANGED outstanding
     ELSE outstanding' = FALSE /\ ack' = "none" /\ UNCHANGED <<held, shown>>

SmsInit == outstanding = FALSE /\ held = << >> /\ shown = << >> /\ ack = "none"

SmsNext ==
  \/ \E kind \in {OUTSTANDING_SMS, OUTSTANDING_STATUS} : onNewMessage(kind)
  \/ TakeAck \/ RefuseAck \/ requestSMSAcknowledge

SmsSpec == SmsInit /\ [][SmsNext]_smsVars

-----------------------------------------------------------------------------
Box == INSTANCE Mailbox WITH
         posted <- shown \o held,
         acks   <- IF outstanding THEN Len(shown) - 1 ELSE Len(shown)

(* The acknowledgement protocol implements the mailbox: messages are shown *)
(* in order, each once, one at a time, and the next with the               *)
(* acknowledgement of the one before, however reader thread and runner     *)
(* interleave.                                                             *)
ImplementsMailbox == Box!Spec

(* A message is held back only while an indication waits for its           *)
(* acknowledgement, which is to come, is being served, or has been refused *)
(* by processRequest, in which case nothing will ever show it: the code    *)
(* leaves s_outstanding_acknowledge at 1.                                  *)
HeldForAReason == held # << >> => outstanding /\ ack \in {"due", "taken", "refused"}
=============================================================================
