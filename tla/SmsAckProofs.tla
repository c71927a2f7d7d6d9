---------------------------- MODULE SmsAckProofs ----------------------------
(***************************************************************************)
(* The acknowledgement protocol of the short messages, in the composition  *)
(* with all the other handlers, implements the mailbox: for any workload.  *)
(* The invariant says what ties the flag to the lists: a message is held   *)
(* only while one is unacknowledged, and then there is one that was shown. *)
(***************************************************************************)
EXTENDS RilHandlers, SequenceTheorems, TLAPS

SmsInv ==
  /\ SmsTypeOK
  /\ outstanding <=> ack # "none"
  /\ held # << >> => outstanding
  /\ outstanding => Len(shown) > 0

-----------------------------------------------------------------------------
(* Sequences. *)

\* What is appended to the second of two sequences is appended to both.
LEMMA ConcatAppend ==
  ASSUME NEW S, NEW s \in Seq(S), NEW t \in Seq(S), NEW e \in S
  PROVE  s \o Append(t, e) = Append(s \o t, e)
  OBVIOUS

\* Moving the head of the second sequence to the end of the first leaves both together alone.
LEMMA ConcatMove ==
  ASSUME NEW S, NEW s \in Seq(S), NEW t \in Seq(S), t # << >>
  PROVE  Append(s, Head(t)) \o Tail(t) = s \o t
  OBVIOUS

\* A sequence is what comes first in it and anything after it.
LEMMA ConcatFirst ==
  ASSUME NEW S, NEW s \in Seq(S), NEW t \in Seq(S)
  PROVE  Box!FirstOf(s \o t, Len(s)) = s
  BY DEF Box!FirstOf

\* Asking for more than there is brings all.
LEMMA FirstAll ==
  ASSUME NEW S, NEW s \in Seq(S)
  PROVE  Box!FirstOf(s, Len(s) + 1) = s
  BY DEF Box!FirstOf

-----------------------------------------------------------------------------
(* Steps of the composition. *)

\* Every step of the composition is one of the protocol, or leaves it alone.
LEMMA NextIsSms == [Next]_vars => [SmsNext]_smsVars
<1> SUFFICES ASSUME [Next]_vars PROVE [SmsNext]_smsVars OBVIOUS
<1>1. CASE SmsStep
  <2>1. CASE MessageArrives BY <2>1 DEF MessageArrives, SmsNext
  <2>2. CASE AckRequested BY <2>2 DEF AckRequested, SmsNext
  <2>3. CASE AckExecuted BY <2>3 DEF AckExecuted, SmsNext
  <2> QED BY <1>1, <2>1, <2>2, <2>3 DEF SmsStep
<1>2. CASE \E q \in Queues : ReopenChannel(q)
  BY <1>2 DEF ReopenChannel, smsVars
<1>3. CASE vars' = vars BY <1>3 DEF vars, smsVars
<1>4. CASE UNCHANGED smsVars BY <1>4
<1> QED BY <1>1, <1>2, <1>3, <1>4 DEF Next, smsVars

\* Nothing has come, nothing waits.
LEMMA SmsInitInv == SmsInit => SmsInv
<1> SUFFICES ASSUME SmsInit PROVE SmsInv OBVIOUS
<1>1. held \in Seq(Messages) /\ shown \in Seq(Messages) BY DEF SmsInit
<1>2. ack = "none" /\ held = << >> BY DEF SmsInit
<1>3. outstanding = FALSE BY DEF SmsInit
<1> QED BY <1>1, <1>2, <1>3, Zenon DEF SmsInv, SmsTypeOK, AckStates

\* A new message, shown or held back.
LEMMA NewMessageInv ==
  ASSUME SmsInv, NEW kind \in {OUTSTANDING_SMS, OUTSTANDING_STATUS}, onNewMessage(kind)
  PROVE  SmsInv'
<1> DEFINE m == [kind |-> kind, id |-> Len(shown) + Len(held) + 1]
<1> USE DEF SmsInv, SmsTypeOK, AckStates
<1>1. m \in Messages BY DEF Messages
<1> HIDE DEF m
<1>2. CASE outstanding
  <2>1. held' = Append(held, m) /\ UNCHANGED <<outstanding, shown, ack>>
    BY <1>2 DEF onNewMessage, m
  <2> QED BY <1>1, <1>2, <2>1
<1>3. CASE ~outstanding
  <2>1. shown' = Append(shown, m) /\ ack' = "due" /\ outstanding' = TRUE /\ held' = held
    BY <1>3 DEF onNewMessage, Indicate, m
  <2> QED BY <1>1, <1>3, <2>1
<1> QED BY <1>2, <1>3

\* An acknowledgement shows the message that was held longest, if there is one.
LEMMA AcknowledgeInv ==
  ASSUME SmsInv, requestSMSAcknowledge
  PROVE  SmsInv'
<1> USE DEF SmsInv, SmsTypeOK, AckStates, requestSMSAcknowledge
<1>1. CASE held # << >>
  <2>1. Head(held) \in Messages /\ Tail(held) \in Seq(Messages) BY <1>1
  <2>2. /\ shown' = Append(shown, Head(held)) /\ ack' = "due"
        /\ held' = Tail(held) /\ outstanding' = outstanding
    BY <1>1 DEF Indicate
  <2> QED BY <1>1, <2>1, <2>2
<1>2. CASE held = << >> BY <1>2
<1> QED BY <1>1, <1>2

\* Every step of the protocol keeps the invariant.
LEMMA SmsStepInv == SmsInv /\ [SmsNext]_smsVars => SmsInv'
<1> SUFFICES ASSUME SmsInv, [SmsNext]_smsVars PROVE SmsInv' OBVIOUS
<1>1. CASE \E kind \in {OUTSTANDING_SMS, OUTSTANDING_STATUS} : onNewMessage(kind)
  BY <1>1, NewMessageInv
<1>2. CASE TakeAck BY <1>2 DEF TakeAck, SmsInv, SmsTypeOK, AckStates
<1>3. CASE RefuseAck BY <1>3 DEF RefuseAck, SmsInv, SmsTypeOK, AckStates
<1>4. CASE requestSMSAcknowledge BY <1>4, AcknowledgeInv
<1>5. CASE UNCHANGED smsVars BY <1>5 DEF smsVars, SmsInv, SmsTypeOK
<1> QED BY <1>1, <1>2, <1>3, <1>4, <1>5 DEF SmsNext

\* The invariant holds in the composition, for any workload.
LEMMA SmsInvariant == Spec => []SmsInv
<1>1. Init => SmsInv BY SmsInitInv DEF Init
<1>2. SmsInv /\ [Next]_vars => SmsInv' BY SmsStepInv, NextIsSms
<1> QED BY <1>1, <1>2, PTL DEF Spec

(* A message is held back only while an indication waits for its           *)
(* acknowledgement, which is to come, is being served, or was refused.      *)
THEOREM HeldForAReasonTheorem == Spec => []HeldForAReason
<1>1. SmsInv => HeldForAReason BY DEF SmsInv, SmsTypeOK, AckStates, HeldForAReason
<1> QED BY <1>1, SmsInvariant, PTL

-----------------------------------------------------------------------------
(* The refinement. *)

Acks == IF outstanding THEN Len(shown) - 1 ELSE Len(shown)

\* A new message is posted at the end, and shown if all before it are acknowledged.
LEMMA NewMessagePosts ==
  ASSUME SmsInv, NEW kind \in {OUTSTANDING_SMS, OUTSTANDING_STATUS}, onNewMessage(kind)
  PROVE  Box!Next
<1> DEFINE m == [kind |-> kind, id |-> Len(shown) + Len(held) + 1]
<1> USE DEF SmsInv, SmsTypeOK
<1>1. m \in Messages BY DEF Messages
<1> HIDE DEF m
<1>2. CASE outstanding
  <2>1. held' = Append(held, m) /\ UNCHANGED <<outstanding, shown, ack>>
    BY <1>2 DEF onNewMessage, m
  <2>2. (shown \o held)' = Append(shown \o held, m) BY <1>1, <2>1, ConcatAppend
  <2>3. Box!Post BY <1>1, <2>1, <2>2 DEF Box!Post
  <2> shown' \in Seq(Messages) /\ held' \in Seq(Messages) BY <1>1, <2>1
  <2>4. shown' = Box!FirstOf(shown' \o held', Len(shown')) BY ConcatFirst
  <2>5. Acks' + 1 = Len(shown') BY <1>2, <2>1 DEF Acks
  <2> QED BY <2>3, <2>4, <2>5 DEF Box!Next, Acks
<1>3. CASE ~outstanding
  <2>1. /\ shown' = Append(shown, m) /\ outstanding' = TRUE
        /\ held = << >> /\ held' = << >>
    BY <1>3 DEF onNewMessage, Indicate, m
  <2>2. (shown \o held)' = Append(shown \o held, m) BY <1>1, <2>1
  <2>3. Acks' = Acks BY <1>1, <1>3, <2>1 DEF Acks
  <2>4. Box!Post BY <1>1, <2>2, <2>3 DEF Box!Post, Acks
  <2>5. shown' \in Seq(Messages) /\ held' \in Seq(Messages) BY <1>1, <2>1
  <2>6. shown' = Box!FirstOf(shown' \o held', Len(shown')) BY <2>5, ConcatFirst
  <2>7. Acks' + 1 = Len(shown') BY <1>1, <2>1 DEF Acks
  <2> QED BY <2>4, <2>6, <2>7 DEF Box!Next, Acks
<1> QED BY <1>2, <1>3

\* An acknowledgement shows the next message posted, if there is one.
LEMMA AcknowledgeAcks ==
  ASSUME SmsInv, requestSMSAcknowledge
  PROVE  Box!Next
<1> USE DEF SmsInv, SmsTypeOK, requestSMSAcknowledge
<1>0. outstanding OBVIOUS
<1>1. CASE held # << >>
  <2>1. /\ shown' = Append(shown, Head(held)) /\ held' = Tail(held) /\ outstanding' = outstanding
        /\ Head(held) \in Messages /\ Tail(held) \in Seq(Messages)
    BY <1>1 DEF Indicate
  <2>2. (shown \o held)' = shown \o held BY <1>1, <2>1, ConcatMove
  <2>3. Acks' = Acks + 1 /\ Acks < Len(shown) /\ Acks' + 1 = Len(shown')
    BY <1>0, <2>1 DEF Acks
  <2>4. Box!Ack BY <2>2, <2>3 DEF Box!Ack, Acks
  <2> shown' \in Seq(Messages) /\ held' \in Seq(Messages) BY <2>1
  <2>5. shown' = Box!FirstOf(shown' \o held', Len(shown')) BY ConcatFirst
  <2> QED BY <2>3, <2>4, <2>5 DEF Box!Next, Acks
<1>2. CASE held = << >>
  <2>1. shown' = shown /\ held' = << >> /\ outstanding' = FALSE BY <1>2
  <2>2. Acks' = Acks + 1 /\ Acks < Len(shown) /\ Acks' = Len(shown) BY <1>0, <2>1 DEF Acks
  <2>3. shown' \o held' = shown /\ shown \o held = shown BY <1>2, <2>1
  <2>4. Box!Ack BY <2>2, <2>3 DEF Box!Ack, Acks
  <2>5. shown' = Box!FirstOf(shown' \o held', Len(shown) + 1) BY <2>1, <2>3, FirstAll
  <2> QED BY <2>2, <2>4, <2>5 DEF Box!Next, Acks
<1> QED BY <1>1, <1>2

\* Every step of the protocol is a step of the mailbox, or leaves it alone.
LEMMA StepRefines == SmsInv /\ [SmsNext]_smsVars => [Box!Next]_Box!vars
<1> SUFFICES ASSUME SmsInv, [SmsNext]_smsVars PROVE [Box!Next]_Box!vars OBVIOUS
<1>1. CASE \E kind \in {OUTSTANDING_SMS, OUTSTANDING_STATUS} : onNewMessage(kind)
  BY <1>1, NewMessagePosts
<1>2. CASE TakeAck BY <1>2 DEF TakeAck, Box!vars
<1>3. CASE RefuseAck BY <1>3 DEF RefuseAck, Box!vars
<1>4. CASE requestSMSAcknowledge BY <1>4, AcknowledgeAcks
<1>5. CASE UNCHANGED smsVars BY <1>5 DEF smsVars, Box!vars
<1> QED BY <1>1, <1>2, <1>3, <1>4, <1>5 DEF SmsNext

(* However reader threads and runners interleave, and whatever else the RIL *)
(* does, messages are shown in the order they came, one at a time, the next *)
(* with the acknowledgement of the one before.                              *)
THEOREM MailboxTheorem == Spec => ImplementsMailbox
<1>1. Init => Box!Init BY DEF Init, SmsInit, Box!Init
<1>2. SmsInv /\ [Next]_vars => [Box!Next]_Box!vars BY StepRefines, NextIsSms
<1> QED BY <1>1, <1>2, SmsInvariant, PTL DEF Spec, ImplementsMailbox, Box!Spec
=============================================================================
