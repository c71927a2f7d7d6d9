--------------------------- MODULE DataCallProofs ---------------------------
(***************************************************************************)
(* What the data call keeps to, for any workload: the character set is     *)
(* restored, a tear-down reported as done is one, a verdict is about the   *)
(* call it was asked of, and the stored state settles on the modem's.      *)
(***************************************************************************)
EXTENDS HandlersProofs

Reports == [state : {DISCONNECTED, CONNECTED, CONNECTING},
            cause : {"none", "other", "protocol"}, call : Nat]

\* A channel that has ended has closed its queue.
ChannelsOK ==
  /\ alive \in [Queues -> BOOLEAN] /\ closed \in [Queues -> BOOLEAN]
  /\ \A q \in Queues : alive[q] \/ closed[q]

DataTypeOK ==
  /\ ChannelsOK
  /\ e2nap \in {"none", DISCONNECTED, CONNECTED} /\ nap \in {"off", "connecting", "on"}
  /\ inbox \in [Queues -> Seq(Reports)] /\ call \in Nat
  /\ iface \in BOOLEAN /\ blurred \in BOOLEAN /\ missed \in BOOLEAN /\ cscsLost \in BOOLEAN

(* The character set is UCS2 only while the user is set, and the handler    *)
(* knows what to restore.                                                   *)
SetPoints == {"ucs2", "eiaauw", "cscs"}
CharsetInv ==
  LET t == task["NORMAL"] IN
  ~cscsLost /\ ~closed["NORMAL"] =>
    /\ charset = "UTF-8" \/ t.pc \in {"eiaauw", "cscs"}
    /\ t.pc \in SetPoints => t.arg = "UTF-8"

\* A verdict waits for the end of the handler; the interface goes down after the call.
OpenPoints == (SetupPoints \ {"setup"}) \cup DeactivatePoints
DownInv ==
  LET t == task["NORMAL"] IN
  /\ t.pc \in OpenPoints => verdict = "none"
  /\ t.pc = "ifdown" => nap = "off"
  /\ TornDown

(* In a set-up that began when nothing was to be heard any more, all that   *)
(* is heard is about its call: there is none before AT*ENAP=1,1.            *)
EarlyPoints == {"cgdcont", "cscs?", "ucs2", "eiaauw", "cscs", "enap"}
OwnInv ==
  LET t == task["NORMAL"] IN
  ~blurred =>
    /\ e2nap # "none" => e2nap \in heard
    /\ \A q \in Queues : \A i \in 1..Len(inbox[q]) : inbox[q][i].call = call
    /\ t.pc \in EarlyPoints => nap = "off" /\ e2nap = "none" /\ inbox = NoReports
    /\ t.pc = "down" => DISCONNECTED \in heard
    /\ verdict = "connected" => CONNECTED \in heard
    /\ verdict = "disconnected" => DISCONNECTED \in heard

\* What was said last, or stored when all has been read, is what the modem is.
Agrees(s) == (nap = "on" => s = CONNECTED) /\ (nap = "off" => s = DISCONNECTED)
SettleInv ==
  ~missed =>
    /\ \A q \in Queues :
         alive[q] /\ inbox[q] # << >> => Agrees(inbox[q][Len(inbox[q])].state)
    /\ inbox = NoReports => e2nap = "none" \/ Agrees(e2nap)

DataInv == DataTypeOK /\ CharsetInv /\ DownInv /\ OwnInv /\ SettleInv

-----------------------------------------------------------------------------
(* The channels. *)

\* Channels end and queues are closed, together.
Falls ==
  /\ ChannelsOK'
  /\ \A q \in Queues : (alive'[q] => alive[q]) /\ (closed[q] => closed'[q])

\* A command ...
LEMMA ChannelFalls ==
  ASSUME ChannelsOK, NEW q \in Queues, NEW o, Channel(q, o)
  PROVE  Falls /\ (o \in Lost => closed'[q])
BY DEF ChannelsOK, Channel, Falls, Lost, Queues

\* ... a step that sends none ...
LEMMA StillFalls ==
  ASSUME ChannelsOK, UNCHANGED <<alive, closed>>
  PROVE  Falls
BY DEF ChannelsOK, Falls

\* ... and the end of a stream.
LEMMA StreamFalls ==
  ASSUME ChannelsOK, NEW q \in Queues, StreamEnds(q)
  PROVE  Falls
BY DEF ChannelsOK, StreamEnds, Falls, Queues

\* Only opening a channel again does anything else to it.
LEMMA NextFalls ==
  ASSUME ChannelsOK, [Next]_vars
  PROVE  Falls \/ \E q \in Queues : ReopenChannel(q)
<1> "NORMAL" \in Queues BY DEF Queues
<1>a. ASSUME NEW o, Exchange(o) PROVE Falls BY <1>a, ChannelFalls DEF Exchange
<1>b. ASSUME NEW o, NEW type, getUICCType(o, type) PROVE Falls
  BY <1>b, ChannelFalls, StillFalls DEF getUICCType
<1>1. CASE RunnerStep
  BY <1>1, StillFalls, StreamFalls
     DEF RunnerStep, Refuse, Return, requestLastPDPFailCause, Accept, RadioChanges
<1>2. CASE SimpleStep
  BY <1>2, StillFalls, ChannelFalls DEF SimpleStep, StartSimple, StartSimpleEvent, Accept, TakeEvent,
      onSignalStrengthChanged, RejectArguments, SendCommand
<1>3. CASE SmsStep
  BY <1>3, StillFalls DEF SmsStep, MessageArrives, AckRequested, AckExecuted
<1>4. CASE DataStep
  BY <1>4, <1>a, StillFalls DEF DataStep, NetworkActs, ReadReport, StartSetup, SetupBegins,
      AwaitConnection, Configure, SetupEnds, StartDeactivate, InterfaceDown, ReadCharset,
      ReadAddress, AskConnection, AwaitDisconnection, DefineContext, ToUcs2, SetUser,
      RestoreCharset, Connect, SetupFails, Disconnect, Accept
<1>5. CASE RegStep(e2nap = CONNECTED)
  BY <1>5, ChannelFalls, StillFalls DEF RegStep, StartScreenState, ScreenBegins, StartRegistration,
      RegistrationBegins, AnswerRegistration, AnswerGprsRegistration, StartSelection, StartPoll,
      OperatorFound, onSIMReady, QueryCreg, QueryCgreg, QueryReason, QueryRadioInfo,
      pollOperatorSelected, ScreenCommand, ReportsOn, RegistrationEnds,
      requestSetNetworkSelectionAutomatic, Accept, TakeEvent
<1>6. CASE SimStep
  BY <1>6, <1>b, ChannelFalls, StillFalls DEF SimStep, StartGetSimStatus, StartSimIo,
      LogicalChannel, SkipSelection, CardChanges, CardStatus, CardType, FirstType, SecondType,
      sendSimIOCmdICC, ReadApplication, OpenChannel, simIOSelectFile, AccessFile, Accept
<1>7. CASE UNCHANGED vars BY <1>7, StillFalls DEF vars, taskVars
<1> QED BY <1>1, <1>2, <1>3, <1>4, <1>5, <1>6, <1>7 DEF Next

-----------------------------------------------------------------------------
(* Reports. *)

\* A report goes to the end of what every channel that is alive has not read.
LEMMA SentReports ==
  ASSUME DataTypeOK, NEW r \in Reports, inbox' = Sent(r)
  PROVE  /\ inbox' \in [Queues -> Seq(Reports)]
         /\ \A q \in Queues : ~alive[q] => inbox'[q] = inbox[q]
         /\ \A q \in Queues : alive[q] =>
              /\ inbox'[q] # << >> /\ inbox'[q][Len(inbox'[q])] = r
              /\ Len(inbox'[q]) = Len(inbox[q]) + 1
              /\ \A i \in 1..Len(inbox[q]) : inbox'[q][i] = inbox[q][i]
<1> SUFFICES ASSUME NEW q \in Queues
             PROVE  /\ inbox'[q] \in Seq(Reports)
                    /\ ~alive[q] => inbox'[q] = inbox[q]
                    /\ alive[q] =>
                         /\ inbox'[q] # << >> /\ inbox'[q][Len(inbox'[q])] = r
                         /\ Len(inbox'[q]) = Len(inbox[q]) + 1
                         /\ \A i \in 1..Len(inbox[q]) : inbox'[q][i] = inbox[q][i]
  <2>1. inbox' = [q \in Queues |-> inbox'[q]] BY DEF Sent
  <2> QED BY <2>1
<1> DEFINE s == inbox[q]
<1>1. s \in Seq(Reports) BY DEF DataTypeOK
<1>2. inbox'[q] = IF alive[q] THEN Append(s, r) ELSE s BY DEF Sent
<1> HIDE DEF s
<1>3. /\ Append(s, r) \in Seq(Reports) /\ Append(s, r) # << >>
      /\ Len(Append(s, r)) = Len(s) + 1 /\ Append(s, r)[Len(s) + 1] = r
      /\ \A i \in 1..Len(s) : Append(s, r)[i] = s[i]
  BY <1>1
<1> QED BY <1>1, <1>2, <1>3 DEF s

\* The modem's reports are reports.
LEMMA ReportType ==
  ASSUME NEW state \in {DISCONNECTED, CONNECTED, CONNECTING},
         NEW why \in {"none", "other", "protocol"}, NEW c \in Nat
  PROVE  /\ Report(state, why, c) \in Reports
         /\ Report(state, why, c).state = state /\ Report(state, why, c).call = c
BY DEF Report, Reports

-----------------------------------------------------------------------------
(* The parts of DataInv that a step does not concern. *)

\* The character set is not touched, nor the points where it matters.
LEMMA CharsetKept ==
  ASSUME CharsetInv, ChannelsOK, Falls, UNCHANGED <<charset, cscsLost>>,
         \/ task'["NORMAL"] = task["NORMAL"]
         \/ task["NORMAL"].pc \notin SetPoints /\ task'["NORMAL"].pc \notin SetPoints
  PROVE  CharsetInv'
<1> "NORMAL" \in Queues BY DEF Queues
<1>1. ~closed'["NORMAL"] => ~closed["NORMAL"] BY DEF Falls
<1> QED BY <1>1 DEF CharsetInv, SetPoints

\* The verdict and the interface are not touched; a modem that is off stays off.
LEMMA DownKept ==
  ASSUME DownInv, UNCHANGED <<verdict, iface>>, nap = "off" => nap' = "off",
         \/ task'["NORMAL"] = task["NORMAL"]
         \/ /\ task'["NORMAL"].pc \in OpenPoints => task["NORMAL"].pc \in OpenPoints
            /\ task'["NORMAL"].pc # "ifdown"
  PROVE  DownInv'
BY DEF DownInv, TornDown

\* Nothing is heard and nothing begins.
LEMMA OwnKept ==
  ASSUME OwnInv, UNCHANGED <<e2nap, heard, inbox, call, blurred, verdict, nap>>,
         \/ task'["NORMAL"] = task["NORMAL"]
         \/ /\ task'["NORMAL"].pc \in EarlyPoints => task["NORMAL"].pc \in EarlyPoints
            /\ task'["NORMAL"].pc # "down"
  PROVE  OwnInv'
BY DEF OwnInv, NoReports

\* Nothing is said and nothing read.
LEMMA SettleKept ==
  ASSUME SettleInv, Falls, UNCHANGED <<e2nap, inbox, missed, nap>>
  PROVE  SettleInv'
BY DEF SettleInv, Falls, Agrees, NoReports

\* All four, when none of the state changes.
LEMMA QuietMove ==
  ASSUME DataInv, Falls, UNCHANGED dataVars,
         \/ task'["NORMAL"] = task["NORMAL"]
         \/ /\ task["NORMAL"].pc \notin SetPoints /\ task'["NORMAL"].pc \notin SetPoints
            /\ task'["NORMAL"].pc \in OpenPoints => task["NORMAL"].pc \in OpenPoints
            /\ task'["NORMAL"].pc \in EarlyPoints => task["NORMAL"].pc \in EarlyPoints
            /\ task'["NORMAL"].pc \notin {"ifdown", "down"}
  PROVE  DataInv'
<1>1. DataTypeOK' BY DEF DataInv, DataTypeOK, dataVars, Falls
<1>2. CharsetInv' BY CharsetKept DEF DataInv, DataTypeOK, dataVars
<1>3. DownInv' BY DownKept DEF DataInv, dataVars
<1>4. OwnInv' BY OwnKept DEF DataInv, dataVars
<1>5. SettleInv' BY SettleKept DEF DataInv, dataVars
<1> QED BY <1>1, <1>2, <1>3, <1>4, <1>5 DEF DataInv

\* Opening a channel again forgets what was heard and restores the character set.
LEMMA ReopenKeeps ==
  ASSUME DataInv, NEW q \in Queues, ReopenChannel(q)
  PROVE  DataInv'
<1>1. /\ task' = task /\ alive' = [alive EXCEPT ![q] = TRUE] /\ closed' = [closed EXCEPT ![q] = FALSE]
      /\ inbox' = [inbox EXCEPT ![q] = << >>] /\ missed' = (missed \/ inbox[q] # << >>)
      /\ e2nap' = "none" /\ UNCHANGED <<iface, nap, call, heard, verdict, blurred>>
      /\ \/ q = "NORMAL" /\ charset' = "UTF-8" /\ cscsLost' = FALSE
         \/ q # "NORMAL" /\ UNCHANGED <<charset, cscsLost>>
  BY DEF ReopenChannel, Reopen, DataReopen
<1>2. ChannelsOK' BY <1>1 DEF DataInv, DataTypeOK, ChannelsOK
<1>3. inbox' \in [Queues -> Seq(Reports)] BY <1>1 DEF DataInv, DataTypeOK
<1>4. DataTypeOK' BY <1>1, <1>2, <1>3 DEF DataInv, DataTypeOK
<1>5. CharsetInv'
  <2>1. task["NORMAL"].pc = "idle" \/ q # "NORMAL" BY DEF ReopenChannel, Reopen, IdleAt
  <2>2. CASE q = "NORMAL" BY <1>1, <2>1, <2>2 DEF CharsetInv, SetPoints
  <2>3. CASE q # "NORMAL"
    <3>1. closed'["NORMAL"] = closed["NORMAL"] BY <1>1, <2>3 DEF DataInv, DataTypeOK, ChannelsOK, Queues
    <3> QED BY <1>1, <2>3, <3>1 DEF CharsetInv, DataInv
  <2> QED BY <2>2, <2>3
<1>6. DownInv' BY <1>1, DownKept DEF DataInv
<1>7. OwnInv'
  <2> SUFFICES ASSUME ~blurred' PROVE OwnInv' BY DEF OwnInv
  <2>1. ~blurred BY <1>1
  <2>2. \A p \in Queues : \A i \in 1..Len(inbox'[p]) : inbox'[p][i].call = call'
    BY <1>1, <2>1 DEF DataInv, DataTypeOK, OwnInv
  <2>3. inbox = NoReports => inbox' = NoReports BY <1>1 DEF NoReports
  <2> QED BY <1>1, <2>1, <2>2, <2>3 DEF DataInv, OwnInv, NoReports
<1>8. SettleInv'
  <2>1. ~missed' => ~missed BY <1>1 DEF DataInv, DataTypeOK
  <2>2. \A p \in Queues : alive'[p] /\ inbox'[p] # << >> => alive[p] /\ inbox'[p] = inbox[p]
    BY <1>1 DEF DataInv, DataTypeOK, ChannelsOK
  <2> QED BY <1>1, <2>1, <2>2 DEF DataInv, SettleInv, Agrees
<1> QED BY <1>4, <1>5, <1>6, <1>7, <1>8 DEF DataInv

\* The network connects or drops a call, and both channels hear of it.
LEMMA NetworkKeeps ==
  ASSUME DataInv, NetworkActs
  PROVE  DataInv'
<1>1. /\ task' = task /\ nap # "off" /\ nap' \in {"on", "off"}
      /\ UNCHANGED <<alive, closed, e2nap, iface, charset, call, heard, verdict, blurred, cscsLost>>
      /\ missed' = (missed \/ \E q \in Queues : ~alive[q])
  BY DEF NetworkActs, NapChanges
<1>2. PICK r \in Reports : inbox' = Sent(r) /\ r.call = call /\ Agrees(r.state)'
  <2>1. call \in Nat BY DEF DataInv, DataTypeOK
  <2>2. CASE nap' = "on" /\ inbox' = Sent(Report(CONNECTED, "none", call))
    BY <2>1, <2>2, ReportType DEF Agrees
  <2>3. ASSUME NEW why \in {"other", "protocol"}, nap' = "off",
               inbox' = Sent(Report(DISCONNECTED, why, call))
        PROVE  \E r \in Reports : inbox' = Sent(r) /\ r.call = call /\ Agrees(r.state)'
    <3>1. Report(DISCONNECTED, why, call) \in Reports BY <2>1, ReportType
    <3>2. Report(DISCONNECTED, why, call).call = call /\ Report(DISCONNECTED, why, call).state = DISCONNECTED
      BY <2>1, ReportType
    <3> QED BY <2>3, <3>1, <3>2 DEF Agrees
  <2> QED BY <2>2, <2>3 DEF NetworkActs, NapChanges
<1>3. /\ inbox' \in [Queues -> Seq(Reports)]
      /\ \A q \in Queues : ~alive[q] => inbox'[q] = inbox[q]
      /\ \A q \in Queues : alive[q] =>
           /\ inbox'[q] # << >> /\ inbox'[q][Len(inbox'[q])] = r
           /\ Len(inbox'[q]) = Len(inbox[q]) + 1
           /\ \A i \in 1..Len(inbox[q]) : inbox'[q][i] = inbox[q][i]
  BY <1>2, SentReports DEF DataInv
<1>4. Falls BY <1>1, StillFalls DEF DataInv, DataTypeOK
<1>5. DataTypeOK' BY <1>1, <1>3, <1>4 DEF DataInv, DataTypeOK, Falls
<1>6. CharsetInv' BY <1>1, <1>4, CharsetKept DEF DataInv, DataTypeOK
<1>7. DownInv' BY <1>1, DownKept DEF DataInv
<1>8. OwnInv'
  <2>1. \A q \in Queues : Len(inbox[q]) \in Nat BY DEF DataInv, DataTypeOK
  <2>2. ~blurred => \A q \in Queues : \A i \in 1..Len(inbox'[q]) : inbox'[q][i].call = call
    <3> SUFFICES ASSUME ~blurred, NEW q \in Queues, NEW i \in 1..Len(inbox'[q])
                 PROVE  inbox'[q][i].call = call
      OBVIOUS
    <3>1. \A j \in 1..Len(inbox[q]) : inbox[q][j].call = call BY DEF DataInv, OwnInv
    <3>2. CASE ~alive[q] BY <1>3, <3>1, <3>2
    <3>3. CASE alive[q]
      <4>1. i \in 1..Len(inbox[q]) \/ i = Len(inbox'[q]) BY <1>3, <2>1, <3>3
      <4> QED BY <1>2, <1>3, <3>1, <3>3, <4>1
    <3> QED BY <3>2, <3>3
  <2> QED BY <1>1, <2>2 DEF DataInv, OwnInv
<1>9. SettleInv'
  <2> SUFFICES ASSUME ~missed' PROVE SettleInv' BY DEF SettleInv
  <2>1. \A q \in Queues : alive[q] BY <1>1 DEF DataInv, DataTypeOK, ChannelsOK
  <2>2. inbox' # NoReports
    <3>1. "NORMAL" \in Queues BY DEF Queues
    <3> QED BY <1>3, <2>1, <3>1 DEF NoReports
  <2> QED BY <1>2, <1>3, <2>1, <2>2 DEF SettleInv, Agrees, NoReports
<1> QED BY <1>5, <1>6, <1>7, <1>8, <1>9 DEF DataInv

\* A reader thread handles the next report of its channel.
LEMMA ReadKeeps ==
  ASSUME DataInv, NEW q \in Queues, ReadReport(q)
  PROVE  DataInv'
<1> DEFINE s == inbox[q]
           r == Head(s)
<1>1. /\ alive[q] /\ s # << >> /\ inbox' = [inbox EXCEPT ![q] = Tail(s)]
      /\ task' = task /\ UNCHANGED <<alive, closed, iface, charset, nap, call, verdict, blurred, cscsLost>>
  BY DEF ReadReport
<1>2. \/ missed' = TRUE /\ UNCHANGED <<e2nap, heard>>
      \/ /\ UNCHANGED missed
         /\ heard' = IF r.call = call THEN heard \cup {r.state} ELSE heard
         /\ \/ r.state \in {DISCONNECTED, CONNECTED} /\ e2nap' = r.state
            \/ r.state \notin {DISCONNECTED, CONNECTED} /\ UNCHANGED e2nap
  BY DEF ReadReport, onConnectionStateChanged
<1>3. s \in Seq(Reports) BY DEF DataInv, DataTypeOK
<1>t. inbox \in [Queues -> Seq(Reports)] /\ Queues = {"NORMAL", "PRIO"} BY DEF DataInv, DataTypeOK, Queues
<1> HIDE DEF s
<1>4. /\ r \in Reports /\ r = s[1] /\ Tail(s) \in Seq(Reports) /\ Len(Tail(s)) = Len(s) - 1
      /\ Len(s) \in Nat \ {0}
      /\ \A i \in 1..Len(Tail(s)) : Tail(s)[i] = s[i + 1]
  BY <1>1, <1>3
<1>5. inbox' \in [Queues -> Seq(Reports)] BY <1>1, <1>4, <1>t
<1>6. inbox'[q] = Tail(s) /\ \A p \in Queues \ {q} : inbox'[p] = inbox[p] BY <1>1, <1>t
<1>7. Falls BY <1>1, StillFalls DEF DataInv, DataTypeOK
<1>8. DataTypeOK' BY <1>1, <1>2, <1>5, <1>7 DEF DataInv, DataTypeOK, Falls
<1>9. CharsetInv' BY <1>1, <1>7, CharsetKept DEF DataInv, DataTypeOK
<1>10. DownInv' BY <1>1, DownKept DEF DataInv
<1>11. OwnInv'
  <2> SUFFICES ASSUME ~blurred PROVE OwnInv' BY <1>1 DEF OwnInv
  <2>1. \A p \in Queues : \A i \in 1..Len(inbox[p]) : inbox[p][i].call = call BY DEF DataInv, OwnInv
  <2>2. \A i \in 1..Len(s) : s[i].call = call BY <2>1 DEF s
  <2>3. r.call = call BY <1>4, <2>2
  <2>4. \A i \in 1..Len(Tail(s)) : Tail(s)[i].call = call
    <3> SUFFICES ASSUME NEW i \in 1..Len(Tail(s)) PROVE Tail(s)[i].call = call OBVIOUS
    <3>1. i + 1 \in 1..Len(s) /\ Tail(s)[i] = s[i + 1] BY <1>4
    <3> QED BY <2>2, <3>1
  <2>5. \A p \in Queues : \A i \in 1..Len(inbox'[p]) : inbox'[p][i].call = call'
    BY <1>1, <1>6, <2>1, <2>4
  <2>6. task["NORMAL"].pc \notin EarlyPoints
    BY <1>1, <1>t DEF DataInv, OwnInv, NoReports, s
  <2>7. heard \subseteq heard' /\ (e2nap' # "none" => e2nap' \in heard')
    BY <1>2, <2>3 DEF DataInv, OwnInv
  <2> QED BY <1>1, <2>5, <2>6, <2>7 DEF DataInv, OwnInv
<1>12. SettleInv'
  <2> SUFFICES ASSUME ~missed' PROVE SettleInv' BY DEF SettleInv
  <2>1. ~missed /\ UNCHANGED missed BY <1>2
  <2>2. Agrees(s[Len(s)].state) BY <1>1, <2>1 DEF DataInv, SettleInv, s
  <2>3. Tail(s) # << >> => Tail(s)[Len(Tail(s))] = s[Len(s)]
    <3> SUFFICES ASSUME Tail(s) # << >> PROVE Tail(s)[Len(Tail(s))] = s[Len(s)] OBVIOUS
    <3>1. Len(Tail(s)) \in 1..Len(Tail(s)) BY <1>4
    <3> QED BY <1>4, <3>1
  <2>4. \A p \in Queues : alive'[p] /\ inbox'[p] # << >> => Agrees(inbox'[p][Len(inbox'[p])].state)
    <3> SUFFICES ASSUME NEW p \in Queues, alive'[p], inbox'[p] # << >>
                 PROVE  Agrees(inbox'[p][Len(inbox'[p])].state)
      OBVIOUS
    <3>1. CASE p = q BY <1>6, <2>2, <2>3, <3>1
    <3>2. CASE p # q
      <4>1. inbox'[p] = inbox[p] /\ alive[p] BY <1>1, <1>6, <3>2
      <4> QED BY <2>1, <4>1 DEF DataInv, SettleInv
    <3> QED BY <3>1, <3>2
  <2>5. ASSUME inbox' = NoReports PROVE e2nap' = "none" \/ Agrees(e2nap')
    <3>1. Tail(s) = << >> BY <1>6, <2>5 DEF NoReports
    <3>b. Len(s) = 1
      <4> DEFINE rest == Tail(s)
      <4>1. rest = << >> /\ Len(rest) = Len(s) - 1 /\ Len(s) \in Nat BY <1>4, <3>1
      <4> HIDE DEF rest
      <4>2. Len(rest) = 0 BY <4>1
      <4> QED BY <4>1, <4>2
    <3>2. r = s[Len(s)] BY <1>4, <3>b
    <3>3. Agrees(r.state) BY <2>2, <3>2
    <3>4. CASE e2nap' = r.state BY <3>3, <3>4
    <3>5. CASE r.state \notin {DISCONNECTED, CONNECTED} BY <3>3, <3>5 DEF Agrees
    <3> QED BY <1>2, <2>1, <3>4, <3>5
  <2>6. \A x : Agrees(x) => Agrees(x)' BY <1>1 DEF Agrees
  <2> QED BY <1>1, <2>4, <2>5, <2>6 DEF SettleInv, Agrees
<1> QED BY <1>8, <1>9, <1>10, <1>11, <1>12 DEF DataInv

-----------------------------------------------------------------------------
(* Set-up and tear-down. *)

\* AT*ENAP=0: who was connected hears that it is over.
LEMMA HangUpKeeps ==
  ASSUME DataInv, NEW o \in Outcomes("plain"), Exchange(o), HangUp(o),
         UNCHANGED <<e2nap, iface, charset, call, heard, blurred, missed, cscsLost>>,
         task["NORMAL"].pc \notin SetPoints, task'["NORMAL"].pc \notin SetPoints
  PROVE  /\ DataTypeOK' /\ CharsetInv' /\ SettleInv'
         /\ nap = "off" => nap' = "off"
         /\ ~blurred => \A q \in Queues : \A i \in 1..Len(inbox'[q]) : inbox'[q][i].call = call
<1> "NORMAL" \in Queues BY DEF Queues
<1>1. ChannelsOK BY DEF DataInv, DataTypeOK
<1>2. Falls BY <1>1, ChannelFalls DEF Exchange
<1>3. CharsetInv' BY <1>1, <1>2, CharsetKept DEF DataInv
<1>4. call \in Nat BY DEF DataInv, DataTypeOK
<1>5. CASE UNCHANGED <<nap, inbox>>
  <2>1. DataTypeOK' BY <1>2, <1>5 DEF DataInv, DataTypeOK, Falls
  <2>2. SettleInv' BY <1>2, <1>5, SettleKept DEF DataInv
  <2>3. ~blurred => \A q \in Queues : \A i \in 1..Len(inbox'[q]) : inbox'[q][i].call = call
    BY <1>5 DEF DataInv, OwnInv
  <2> QED BY <1>3, <1>5, <2>1, <2>2, <2>3
<1>6. CASE /\ nap' = "off" /\ inbox' = Sent(Report(DISCONNECTED, "none", call)) /\ alive["NORMAL"]
  <2> DEFINE r == Report(DISCONNECTED, "none", call)
  <2>1. r \in Reports /\ r.state = DISCONNECTED /\ r.call = call BY <1>4, ReportType
  <2> HIDE DEF r
  <2>2. inbox' = Sent(r) BY <1>6 DEF r
  <2>3. /\ inbox' \in [Queues -> Seq(Reports)]
        /\ \A q \in Queues : ~alive[q] => inbox'[q] = inbox[q]
        /\ \A q \in Queues : alive[q] =>
             /\ inbox'[q] # << >> /\ inbox'[q][Len(inbox'[q])] = r
             /\ Len(inbox'[q]) = Len(inbox[q]) + 1
             /\ \A i \in 1..Len(inbox[q]) : inbox'[q][i] = inbox[q][i]
    BY <2>1, <2>2, SentReports DEF DataInv
  <2>4. DataTypeOK' BY <1>2, <1>6, <2>3 DEF DataInv, DataTypeOK, Falls
  <2>5. SettleInv'
    <3>1. inbox' # NoReports BY <1>6, <2>3 DEF NoReports
    <3>2. \A q \in Queues : alive'[q] => alive[q] BY <1>2 DEF Falls
    <3>3. \A q \in Queues : alive'[q] => inbox'[q][Len(inbox'[q])].state = DISCONNECTED
      BY <2>1, <2>3, <3>2
    <3> QED BY <1>6, <3>1, <3>3 DEF SettleInv, Agrees, NoReports, DISCONNECTED
  <2>6. ASSUME ~blurred, NEW q \in Queues, NEW i \in 1..Len(inbox'[q])
        PROVE  inbox'[q][i].call = call
    <3>1. \A j \in 1..Len(inbox[q]) : inbox[q][j].call = call BY <2>6 DEF DataInv, OwnInv
    <3>2. CASE ~alive[q] BY <2>3, <2>6, <3>1, <3>2
    <3>3. CASE alive[q]
      <4>0. Len(inbox[q]) \in Nat BY DEF DataInv, DataTypeOK
      <4>1. i \in 1..Len(inbox[q]) \/ i = Len(inbox'[q]) BY <2>3, <2>6, <3>3, <4>0
      <4> QED BY <2>1, <2>3, <3>1, <3>3, <4>1
    <3> QED BY <3>2, <3>3
  <2> QED BY <1>3, <1>6, <2>4, <2>5, <2>6
<1>7. UNCHANGED <<nap, inbox>> \/
      (nap' = "off" /\ inbox' = Sent(Report(DISCONNECTED, "none", call)) /\ alive["NORMAL"])
  <2>1. PICK did \in BOOLEAN :
          /\ Done(o, did) /\ nap' = IF did THEN "off" ELSE nap
          /\ inbox' = IF did /\ nap # "off" THEN Sent(Report(DISCONNECTED, "none", call)) ELSE inbox
    BY DEF HangUp
  <2>2. did => alive["NORMAL"] BY <2>1 DEF Done, Exchange, Channel
  <2> QED BY <2>1, <2>2
<1> QED BY <1>5, <1>6, <1>7

\* What the handlers jump to, and what they leave of the task.
LEMMA DataJumps ==
  ASSUME Tasks
  PROVE  /\ \A p : Next1(p) => task'["NORMAL"].pc = p /\ task'["NORMAL"].arg = task["NORMAL"].arg
         /\ \A p, r : Next2(p, r) => task'["NORMAL"].pc = p /\ task'["NORMAL"].arg = task["NORMAL"].arg
         /\ CompleteAndGoto("NORMAL", "return") => task'["NORMAL"].pc = "return"
         /\ task' = [task EXCEPT !["NORMAL"].n = @ + 1] =>
              task'["NORMAL"].pc = task["NORMAL"].pc /\ task'["NORMAL"].arg = task["NORMAL"].arg
<1> "NORMAL" \in Queues BY DEF Queues
<1> QED BY DEF Tasks, AreTasks, IsTask, Next1, Next2, Goto, CompleteAndGoto

\* The points of the handlers, as sets.
LEMMA Points ==
  /\ SetPoints = {"ucs2", "eiaauw", "cscs"}
  /\ EarlyPoints = {"cgdcont", "cscs?", "ucs2", "eiaauw", "cscs", "enap"}
  /\ OpenPoints = {"cgdcont", "cscs?", "ucs2", "eiaauw", "cscs", "enap", "wait", "ipcfg", "config",
                   "recheck", "error", "down", "enap?", "enap=0", "poll", "ifdown"}
BY DEF SetPoints, EarlyPoints, OpenPoints, SetupPoints, DeactivatePoints

\* A set-up up to AT*ENAP=1,1 keeps DataInv.
LEMMA SetupBeginsKeeps ==
  ASSUME TaskInv, DataInv, Falls,
         \/ StartSetup \/ SetupBegins
         \/ \E o \in Outcomes("line") : ReadCharset(o)
         \/ \E o \in Outcomes("plain") :
              DefineContext(o) \/ ToUcs2(o) \/ SetUser(o) \/ RestoreCharset(o) \/ Connect(o)
  PROVE  DataInv'
<1> DEFINE t == task["NORMAL"]
           u == task'["NORMAL"]
<1> "NORMAL" \in Queues BY DEF Queues
<1>a. Tasks BY DEF TaskInv
<1>b. /\ DataTypeOK /\ ChannelsOK /\ CharsetInv /\ DownInv /\ OwnInv /\ SettleInv
  BY DEF DataInv, DataTypeOK
<1>c. ASSUME NEW o, Exchange(o), o \in Lost PROVE closed'["NORMAL"]
  BY <1>b, <1>c, ChannelFalls DEF Exchange
<1>d. ASSUME NEW o, Err("plain", o) PROVE o \in Lost BY <1>d DEF Err
<1>1. CASE StartSetup
  <2>1. t.pc = "idle" /\ u = Task("SETUP_DATA_CALL", "setup", "none") /\ UNCHANGED dataVars
    BY <1>1, <1>a DEF StartSetup, Accept, QueueOf, PrioRequests, IdleAt, Tasks, AreTasks
  <2>2. u.pc = "setup" BY <2>1, TaskType
  <2> QED BY <2>1, <2>2, Points, QuietMove
<1>2. CASE SetupBegins
  <2>1. /\ t.pc = "setup" /\ e2nap' = "none" /\ heard' = {} /\ verdict' = "none"
        /\ iface' \in {FALSE, iface} /\ blurred' = (nap # "off" \/ inbox # NoReports)
        /\ UNCHANGED <<charset, nap, inbox, call, missed, cscsLost>>
        /\ Next1("cgdcont") \/ Next1("error")
    BY <1>2 DEF SetupBegins, Runs, At
  <2>2. u.pc \in {"cgdcont", "error"} BY <1>a, <2>1, DataJumps
  <2>3. DataTypeOK' BY <1>b, <2>1 DEF DataTypeOK, Falls
  <2>4. CharsetInv' BY <1>b, <2>1, <2>2, Points, CharsetKept
  <2>5. DownInv' BY <2>1, <2>2 DEF DownInv, TornDown
  <2>6. OwnInv'
    <3> SUFFICES ASSUME ~blurred' PROVE OwnInv' BY DEF OwnInv
    <3>1. nap = "off" /\ inbox = NoReports BY <2>1
    <3>2. \A q \in Queues : \A i \in 1..Len(inbox'[q]) : inbox'[q][i].call = call'
      BY <2>1, <3>1 DEF NoReports
    <3> QED BY <2>1, <2>2, <3>1, <3>2 DEF OwnInv, NoReports
  <2>7. SettleInv'
    BY <1>b, <2>1 DEF SettleInv, Falls, Agrees, NoReports
  <2> QED BY <2>3, <2>4, <2>5, <2>6, <2>7 DEF DataInv
<1>3. ASSUME NEW o \in Outcomes("plain"), DefineContext(o) PROVE DataInv'
  <2>1. /\ t.pc = "cgdcont" /\ UNCHANGED dataVars
        /\ Next1("cscs?") \/ Next2("error", RespAfter("plain", o, "NULL"))
    BY <1>3 DEF DefineContext, Runs, At
  <2>2. u.pc \in {"cscs?", "error"} BY <1>a, <2>1, DataJumps
  <2> QED BY <2>1, <2>2, Points, QuietMove
<1>4. ASSUME NEW o \in Outcomes("line"), ReadCharset(o) PROVE DataInv'
  <2>1. t.pc = "cscs?" /\ UNCHANGED dataVars BY <1>4 DEF ReadCharset, Runs, At
  <2>2. CASE Next2("error", RespAfter("line", o, "NULL"))
    <3>1. u.pc = "error" BY <1>a, <2>2, DataJumps
    <3> QED BY <2>1, <3>1, Points, QuietMove
  <2>3. CASE task' = [task EXCEPT !["NORMAL"].arg = charset,
                                  !["NORMAL"].pc = IF charset = "UCS2" THEN "eiaauw" ELSE "ucs2",
                                  !["NORMAL"].resp = IF charset = "UCS2" THEN "NULL" ELSE "lines"]
    <3>1. u.arg = charset /\ u.pc \in {"eiaauw", "ucs2"}
      BY <1>a, <2>3 DEF Tasks, AreTasks, IsTask
    <3>2. DataTypeOK' BY <1>b, <2>1 DEF DataTypeOK, Falls, dataVars
    <3>3. CharsetInv'
      <4>1. ~closed'["NORMAL"] => ~closed["NORMAL"] BY DEF Falls
      <4>2. UNCHANGED <<charset, cscsLost>> BY <2>1 DEF dataVars
      <4> QED BY <1>b, <2>1, <3>1, <4>1, <4>2 DEF CharsetInv, SetPoints
    <3>4. DownInv' BY <1>b, <2>1, <3>1, Points, DownKept DEF dataVars
    <3>5. OwnInv' BY <1>b, <2>1, <3>1, Points, OwnKept DEF dataVars
    <3>6. SettleInv' BY <1>b, <2>1, SettleKept DEF dataVars
    <3> QED BY <3>2, <3>3, <3>4, <3>5, <3>6 DEF DataInv
  <2> QED BY <1>4, <2>2, <2>3 DEF ReadCharset
<1>5. ASSUME NEW o \in Outcomes("plain"), Exchange(o), NEW c, SetCharset(c, o),
             t.pc \in {"ucs2", "cscs"}, u.pc \in {"eiaauw", "enap", "error"}, CharsetInv'
      PROVE  DataInv'
  <2>1. /\ UNCHANGED <<e2nap, iface, nap, inbox, call, heard, verdict, blurred, missed>>
        /\ cscsLost' \in BOOLEAN
    BY <1>5 DEF SetCharset
  <2>2. DataTypeOK' BY <1>b, <2>1 DEF DataTypeOK, Falls
  <2>3. DownInv' BY <1>5, <1>b, <2>1, Points, DownKept
  <2>4. OwnInv' BY <1>5, <1>b, <2>1, Points, OwnKept
  <2>5. SettleInv' BY <1>b, <2>1, SettleKept
  <2> QED BY <1>5, <2>2, <2>3, <2>4, <2>5 DEF DataInv
<1>6. ASSUME NEW o \in Outcomes("plain"), ToUcs2(o) PROVE DataInv'
  <2>1. /\ t.pc = "ucs2" /\ Exchange(o) /\ SetCharset("UCS2", o)
        /\ \/ Err("plain", o) /\ Next1("error")
           \/ ~Err("plain", o) /\ Next2("eiaauw", "NULL")
    BY <1>6 DEF ToUcs2, Runs, At
  <2>2. /\ u.arg = t.arg
        /\ \/ Err("plain", o) /\ u.pc = "error"
           \/ ~Err("plain", o) /\ u.pc = "eiaauw"
    BY <1>a, <2>1, DataJumps
  <2>3. CharsetInv'
    <3> SUFFICES ASSUME ~cscsLost', ~closed'["NORMAL"] PROVE CharsetInv' BY DEF CharsetInv
    <3>1. ~cscsLost /\ ~closed["NORMAL"] BY <2>1 DEF SetCharset, Falls
    <3>2. u.pc = "eiaauw" BY <1>c, <1>d, <2>1, <2>2
    <3> QED BY <1>b, <2>1, <2>2, <3>1, <3>2 DEF CharsetInv, SetPoints
  <2> QED BY <1>5, <2>1, <2>2, <2>3
<1>7. ASSUME NEW o \in Outcomes("plain"), RestoreCharset(o) PROVE DataInv'
  <2>1. /\ t.pc = "cscs" /\ Exchange(o) /\ SetCharset(t.arg, o)
        /\ Next1(IF Err("plain", o) THEN "error" ELSE "enap")
    BY <1>7 DEF RestoreCharset, Runs, At
  <2>2. u.pc = IF Err("plain", o) THEN "error" ELSE "enap" BY <1>a, <2>1, DataJumps
  <2>3. CharsetInv'
    <3> SUFFICES ASSUME ~cscsLost', ~closed'["NORMAL"] PROVE CharsetInv' BY DEF CharsetInv
    <3>1. ~cscsLost /\ ~closed["NORMAL"] /\ o # "refused" BY <2>1 DEF SetCharset, Falls
    <3>2. t.arg = "UTF-8" BY <1>b, <2>1, <3>1 DEF CharsetInv, SetPoints
    <3>3. o \notin Lost BY <1>c, <2>1
    <3>4. o = "ok" BY <3>1, <3>3 DEF Outcomes
    <3>5. charset' = "UTF-8" BY <2>1, <3>2, <3>4 DEF SetCharset, Done
    <3>6. u.pc \in {"error", "enap"} BY <2>2
    <3> QED BY <3>5, <3>6 DEF CharsetInv, SetPoints
  <2>4. u.pc \in {"eiaauw", "enap", "error"} BY <2>2
  <2> QED BY <1>5, <2>1, <2>3, <2>4
<1>8. ASSUME NEW o \in Outcomes("plain"), SetUser(o) PROVE DataInv'
  <2>1. /\ t.pc = "eiaauw" /\ Exchange(o) /\ UNCHANGED dataVars
        /\ Next1(IF Err("plain", o) THEN "error" ELSE "cscs")
    BY <1>8 DEF SetUser, Runs, At
  <2>2. u.arg = t.arg /\ u.pc = IF Err("plain", o) THEN "error" ELSE "cscs"
    BY <1>a, <2>1, DataJumps
  <2>3. CharsetInv'
    <3> SUFFICES ASSUME ~cscsLost', ~closed'["NORMAL"] PROVE CharsetInv' BY DEF CharsetInv
    <3>1. ~cscsLost /\ ~closed["NORMAL"] BY <2>1 DEF dataVars, Falls
    <3>2. u.pc = "cscs" BY <1>c, <1>d, <2>1, <2>2
    <3> QED BY <1>b, <2>1, <2>2, <3>1, <3>2 DEF CharsetInv, SetPoints
  <2>4. u.pc \in {"error", "cscs"} BY <2>2
  <2>5. DataTypeOK' BY <1>b, <2>1 DEF DataTypeOK, Falls, dataVars
  <2>6. DownInv' BY <1>b, <2>1, <2>4, Points, DownKept DEF dataVars
  <2>7. OwnInv' BY <1>b, <2>1, <2>4, Points, OwnKept DEF dataVars
  <2>8. SettleInv' BY <1>b, <2>1, SettleKept DEF dataVars
  <2> QED BY <2>3, <2>5, <2>6, <2>7, <2>8 DEF DataInv
<1>9. ASSUME NEW o \in Outcomes("plain"), Connect(o) PROVE DataInv'
  <2>1. /\ t.pc = "enap" /\ UNCHANGED <<e2nap, iface, charset, verdict, blurred, missed, cscsLost>>
        /\ Next1("wait") \/ Next2("error", RespAfter("plain", o, "NULL"))
    BY <1>9 DEF Connect, Runs, At
  <2>2. u.pc \in {"wait", "error"} BY <1>a, <2>1, DataJumps
  <2>3. CASE UNCHANGED <<nap, call, heard, inbox>>
    <3>1. DataTypeOK' BY <1>b, <2>1, <2>3 DEF DataTypeOK, Falls
    <3>2. CharsetInv' BY <1>b, <2>1, <2>2, Points, CharsetKept
    <3>3. DownInv' BY <1>b, <2>1, <2>2, <2>3, Points, DownKept
    <3>4. OwnInv' BY <1>b, <2>1, <2>2, <2>3, Points, OwnKept
    <3>5. SettleInv' BY <1>b, <2>1, <2>3, SettleKept
    <3> QED BY <3>1, <3>2, <3>3, <3>4, <3>5 DEF DataInv
  <2>4. CASE /\ nap' = "connecting" /\ call' = call + 1 /\ heard' = {}
             /\ inbox' = Sent(Report(CONNECTING, "none", call + 1))
    <3>0. call + 1 \in Nat BY <1>b DEF DataTypeOK
    <3>1. PICK r \in Reports : r.call = call + 1 /\ inbox' = Sent(r) BY <2>4, <3>0, ReportType
    <3>2. /\ inbox' \in [Queues -> Seq(Reports)]
          /\ \A q \in Queues : ~alive[q] => inbox'[q] = inbox[q]
          /\ \A q \in Queues : alive[q] =>
               /\ inbox'[q] # << >> /\ inbox'[q][Len(inbox'[q])] = r
               /\ Len(inbox'[q]) = Len(inbox[q]) + 1
               /\ \A i \in 1..Len(inbox[q]) : inbox'[q][i] = inbox[q][i]
      BY <1>b, <3>1, SentReports
    <3>3. DataTypeOK' BY <1>b, <2>1, <2>4, <3>0, <3>2 DEF DataTypeOK, Falls
    <3>4. CharsetInv' BY <1>b, <2>1, <2>2, Points, CharsetKept
    <3>5. verdict = "none" BY <1>b, <2>1, Points DEF DownInv
    <3>6. DownInv' BY <2>1, <2>2, <3>5 DEF DownInv, TornDown
    <3>7. OwnInv'
      <4> SUFFICES ASSUME ~blurred PROVE OwnInv' BY <2>1 DEF OwnInv
      <4>1. e2nap = "none" /\ inbox = NoReports BY <1>b, <2>1, Points DEF OwnInv
      <4>2. ASSUME NEW q \in Queues, NEW i \in 1..Len(inbox'[q]) PROVE inbox'[q][i].call = call'
        <5>1. inbox[q] = << >> /\ Len(inbox[q]) = 0 BY <4>1 DEF NoReports
        <5>2. alive[q] BY <3>2, <4>2, <5>1
        <5>3. i = Len(inbox'[q]) BY <3>2, <4>2, <5>1, <5>2
        <5> QED BY <2>4, <3>1, <3>2, <5>2, <5>3
      <4>3. u.pc \notin EarlyPoints /\ u.pc # "down" BY <2>2, Points
      <4> QED BY <2>1, <3>5, <4>1, <4>2, <4>3 DEF OwnInv
    <3>8. SettleInv' BY <2>4 DEF SettleInv, Agrees
    <3> QED BY <3>3, <3>4, <3>6, <3>7, <3>8 DEF DataInv
  <2> QED BY <1>9, <2>3, <2>4 DEF Connect
<1> QED BY <1>1, <1>2, <1>3, <1>4, <1>6, <1>7, <1>8, <1>9

\* A handler moves on, or ends: nothing is said, heard or set.
LEMMA VerdictMove ==
  ASSUME DataInv, Falls, iface' \in BOOLEAN, DownInv',
         UNCHANGED <<e2nap, charset, nap, inbox, call, heard, blurred, missed, cscsLost>>,
         task["NORMAL"].pc \notin SetPoints,
         task'["NORMAL"].pc \notin SetPoints \cup EarlyPoints,
         ~blurred => /\ task'["NORMAL"].pc = "down" => DISCONNECTED \in heard
                     /\ verdict' = "connected" => CONNECTED \in heard
                     /\ verdict' = "disconnected" => DISCONNECTED \in heard
  PROVE  DataInv'
<1>1. DataTypeOK' BY DEF DataInv, DataTypeOK, Falls
<1>2. CharsetInv' BY CharsetKept DEF DataInv, DataTypeOK
<1>3. OwnInv' BY DEF DataInv, OwnInv
<1>4. SettleInv' BY SettleKept DEF DataInv
<1> QED BY <1>1, <1>2, <1>3, <1>4 DEF DataInv

\* The rest of a set-up keeps DataInv.
LEMMA SetupEndsKeeps ==
  ASSUME TaskInv, DataInv, Falls,
         \/ AwaitConnection \/ Configure \/ SetupEnds
         \/ \E o \in Outcomes("line") : ReadAddress(o)
         \/ \E o \in Outcomes("plain") : SetupFails(o)
  PROVE  DataInv'
<1> DEFINE t == task["NORMAL"]
           u == task'["NORMAL"]
<1> "NORMAL" \in Queues BY DEF Queues
<1>a. Tasks BY DEF TaskInv
<1>b. DataTypeOK /\ DownInv /\ OwnInv BY DEF DataInv
<1>c. e2nap = DISCONNECTED /\ ~blurred => DISCONNECTED \in heard
  BY <1>b DEF OwnInv, DISCONNECTED
<1>1. CASE AwaitConnection
  <2>1. t.pc = "wait" /\ UNCHANGED dataVars BY <1>1 DEF AwaitConnection, Runs, At
  <2>2. u.pc \in {"wait", "ipcfg"} \/ (u.pc = "down" /\ e2nap = DISCONNECTED)
    BY <1>1, <1>a DEF AwaitConnection, Runs, At, Tasks, AreTasks, IsTask
  <2>3. verdict = "none" BY <1>b, <2>1, Points DEF DownInv
  <2>4. DownInv' BY <2>1, <2>2, <2>3 DEF dataVars, DownInv, TornDown
  <2>5. u.pc \notin SetPoints \cup EarlyPoints BY <2>2, Points
  <2>6. t.pc \notin SetPoints BY <2>1, Points
  <2>7. iface' \in BOOLEAN BY <1>b, <2>1 DEF DataTypeOK, dataVars
  <2>8. verdict' = "none" /\ UNCHANGED <<e2nap, charset, nap, inbox, call, heard, blurred, missed, cscsLost>>
    BY <2>1, <2>3 DEF dataVars
  <2>9. u.pc = "down" /\ ~blurred => DISCONNECTED \in heard BY <1>c, <2>2
  <2> QED BY <2>4, <2>5, <2>6, <2>7, <2>8, <2>9, VerdictMove
<1>2. CASE Configure
  <2>1. /\ t.pc = "config" /\ iface' \in BOOLEAN
        /\ UNCHANGED <<e2nap, charset, nap, inbox, call, heard, blurred, missed, cscsLost, verdict>>
        /\ Next1("recheck") \/ (e2nap = DISCONNECTED /\ Next1("down"))
    BY <1>2, <1>b DEF Configure, Runs, At, ghosts, DataTypeOK
  <2>2. u.pc = "recheck" \/ (u.pc = "down" /\ e2nap = DISCONNECTED) BY <1>a, <2>1, DataJumps
  <2>3. verdict = "none" BY <1>b, <2>1, Points DEF DownInv
  <2>4. DownInv' BY <2>1, <2>2, <2>3 DEF DownInv, TornDown
  <2>5. u.pc \notin SetPoints \cup EarlyPoints BY <2>2, Points
  <2>6. t.pc \notin SetPoints BY <2>1, Points
  <2>7. u.pc = "down" /\ ~blurred => DISCONNECTED \in heard BY <1>c, <2>2
  <2> QED BY <2>1, <2>3, <2>4, <2>5, <2>6, <2>7, VerdictMove
<1>3. CASE SetupEnds
  <2>1. /\ t.pc = "recheck"
        /\ UNCHANGED <<e2nap, charset, nap, inbox, call, heard, blurred, missed, cscsLost, iface>>
        /\ \/ e2nap = DISCONNECTED /\ Next1("down") /\ UNCHANGED verdict
           \/ /\ CompleteAndGoto("NORMAL", "return")
              /\ verdict' = IF e2nap = CONNECTED THEN "connected" ELSE "not heard of"
    BY <1>3 DEF SetupEnds, Runs, At
  <2>2. verdict = "none" BY <1>b, <2>1, Points DEF DownInv
  <2>3. \/ e2nap = DISCONNECTED /\ u.pc = "down" /\ verdict' = "none"
        \/ u.pc = "return" /\ e2nap = CONNECTED /\ verdict' = "connected"
        \/ u.pc = "return" /\ verdict' = "not heard of"
    BY <1>a, <2>1, <2>2, DataJumps
  <2>4. DownInv' BY <2>3, Points DEF DownInv, TornDown
  <2>5. u.pc \notin SetPoints \cup EarlyPoints BY <2>3, Points
  <2>6. t.pc \notin SetPoints BY <2>1, Points
  <2>7. iface' \in BOOLEAN BY <1>b, <2>1 DEF DataTypeOK
  <2>8. ~blurred => /\ u.pc = "down" => DISCONNECTED \in heard
                    /\ verdict' = "connected" => CONNECTED \in heard
                    /\ verdict' # "disconnected"
    BY <1>b, <1>c, <2>3 DEF OwnInv, CONNECTED
  <2> QED BY <2>1, <2>4, <2>5, <2>6, <2>7, <2>8, VerdictMove
<1>4. ASSUME NEW o \in Outcomes("line"), ReadAddress(o) PROVE DataInv'
  <2>1. t.pc = "ipcfg" /\ UNCHANGED dataVars BY <1>4 DEF ReadAddress, Runs, At
  <2>2. u.pc \in {"error", "config"}
    <3>1. PICK p \in {"error", "config"} : Next2(p, RespAfter("line", o, "NULL"))
      BY <1>4 DEF ReadAddress
    <3> QED BY <1>a, <3>1, DataJumps
  <2> QED BY <2>1, <2>2, Points, QuietMove
<1>5. ASSUME NEW o \in Outcomes("plain"), SetupFails(o) PROVE DataInv'
  <2>1. /\ t.pc \in {"error", "down"} /\ Exchange(o) /\ HangUp(o)
        /\ UNCHANGED <<e2nap, iface, charset, call, heard, blurred, missed, cscsLost>>
        /\ verdict' = IF t.pc = "down" THEN "disconnected" ELSE "failed"
    BY <1>5 DEF SetupFails, Runs, At
  <2>2. u.pc \in {"return", "crash"}
    <3>1. \/ CompleteAndGoto("NORMAL", "return")
          \/ task' = [task EXCEPT !["NORMAL"].pc = "crash", !["NORMAL"].arg = o,
                                  !["NORMAL"].done = @ + 1]
      BY <1>5 DEF SetupFails
    <3> QED BY <1>a, <3>1, DataJumps DEF Tasks, AreTasks, IsTask
  <2>3. t.pc \notin SetPoints /\ u.pc \notin SetPoints /\ u.pc \notin EarlyPoints
    BY <2>1, <2>2, Points
  <2>4. /\ DataTypeOK' /\ CharsetInv' /\ SettleInv'
        /\ ~blurred => \A q \in Queues : \A i \in 1..Len(inbox'[q]) : inbox'[q][i].call = call
    BY <2>1, <2>3, HangUpKeeps
  <2>5. DownInv' BY <2>1, <2>2, Points DEF DownInv, TornDown
  <2>6. OwnInv' BY <1>b, <2>1, <2>2, <2>3, <2>4 DEF OwnInv
  <2> QED BY <2>4, <2>5, <2>6 DEF DataInv
<1> QED BY <1>1, <1>2, <1>3, <1>4, <1>5

\* A tear-down keeps DataInv.
LEMMA DeactivateKeeps ==
  ASSUME TaskInv, DataInv, Falls,
         \/ StartDeactivate \/ InterfaceDown
         \/ \E o \in Outcomes("line") : AskConnection(o) \/ AwaitDisconnection(o)
         \/ \E o \in Outcomes("plain") : Disconnect(o)
  PROVE  DataInv'
<1> DEFINE t == task["NORMAL"]
           u == task'["NORMAL"]
<1> "NORMAL" \in Queues BY DEF Queues
<1>a. Tasks BY DEF TaskInv
<1>b. DataTypeOK /\ DownInv /\ OwnInv BY DEF DataInv
<1>c. \A v : EndDeactivate(v) => u.pc = "return" /\ verdict' = v
  BY <1>a, DataJumps DEF EndDeactivate
<1>d. ASSUME t.pc \notin SetPoints, iface' \in BOOLEAN, DownInv',
             u.pc \in {"enap?", "enap=0", "poll", "ifdown", "return"},
             UNCHANGED <<e2nap, charset, nap, inbox, call, heard, blurred, missed, cscsLost>>,
             verdict' \notin {"connected", "disconnected"}
      PROVE  DataInv'
  <2>1. u.pc \notin SetPoints \cup EarlyPoints /\ u.pc # "down" BY <1>d, Points
  <2> QED BY <1>d, <2>1, VerdictMove
<1>1. CASE StartDeactivate
  <2>1. /\ t.pc = "idle" /\ u = Task("DEACTIVATE_DATA_CALL", "enap?", "none") /\ verdict' = "none"
        /\ UNCHANGED <<e2nap, charset, nap, inbox, call, heard, blurred, missed, cscsLost, iface>>
    BY <1>1, <1>a DEF StartDeactivate, Accept, QueueOf, PrioRequests, IdleAt, Tasks, AreTasks
  <2>2. u.pc = "enap?" BY <2>1, TaskType
  <2>3. DownInv' BY <2>1, <2>2 DEF DownInv, TornDown
  <2>4. t.pc \notin SetPoints /\ iface' \in BOOLEAN BY <1>b, <2>1, Points DEF DataTypeOK
  <2> QED BY <1>d, <2>1, <2>2, <2>3, <2>4
<1>2. CASE InterfaceDown
  <2>1. /\ t.pc = "ifdown"
        /\ UNCHANGED <<e2nap, charset, nap, inbox, call, heard, blurred, missed, cscsLost>>
        /\ \/ iface' = FALSE /\ EndDeactivate("torn down")
           \/ UNCHANGED iface /\ EndDeactivate("failed")
    BY <1>2 DEF InterfaceDown, DeactivateUnchanged, Runs, At
  <2>2. /\ u.pc = "return" /\ verdict' \in {"torn down", "failed"}
        /\ verdict' = "torn down" => ~iface'
        /\ iface' \in BOOLEAN
    <3>1. CASE iface' = FALSE /\ EndDeactivate("torn down") BY <1>c, <3>1
    <3>2. CASE UNCHANGED iface /\ EndDeactivate("failed")
      <4>1. iface' \in BOOLEAN BY <1>b, <3>2 DEF DataTypeOK
      <4>2. u.pc = "return" /\ verdict' = "failed" BY <1>c, <3>2
      <4>3. verdict' # "torn down" BY <4>2
      <4> QED BY <4>1, <4>2, <4>3
    <3> QED BY <2>1, <3>1, <3>2
  <2>3. nap = "off" BY <1>b, <2>1 DEF DownInv
  <2>4. DownInv' BY <2>1, <2>2, <2>3, Points DEF DownInv, TornDown
  <2>5. t.pc \notin SetPoints BY <2>1, Points
  <2> QED BY <1>d, <2>1, <2>2, <2>4, <2>5
<1>3. ASSUME NEW o \in Outcomes("line"), AskConnection(o) PROVE DataInv'
  <2>1. /\ t.pc = "enap?"
        /\ UNCHANGED <<e2nap, charset, nap, inbox, call, heard, blurred, missed, cscsLost, iface>>
        /\ \/ EndDeactivate("failed") \/ EndDeactivate("in progress")
           \/ Next1("enap=0") /\ UNCHANGED verdict
           \/ nap = "off" /\ EndDeactivate("deactivated")
    BY <1>3 DEF AskConnection, DeactivateUnchanged, Runs, At
  <2>2. verdict = "none" BY <1>b, <2>1, Points DEF DownInv
  <2>3. \/ u.pc = "return" /\ verdict' \in {"failed", "in progress"}
        \/ u.pc = "enap=0" /\ verdict' = "none"
        \/ u.pc = "return" /\ verdict' = "deactivated" /\ nap = "off"
    BY <1>a, <1>c, <2>1, <2>2, DataJumps
  <2>4. DownInv' BY <2>1, <2>3, Points DEF DownInv, TornDown
  <2>5. t.pc \notin SetPoints /\ iface' \in BOOLEAN BY <1>b, <2>1, Points DEF DataTypeOK
  <2> QED BY <1>d, <2>1, <2>3, <2>4, <2>5
<1>4. ASSUME NEW o \in Outcomes("line"), AwaitDisconnection(o) PROVE DataInv'
  <2>1. /\ t.pc = "poll"
        /\ UNCHANGED <<e2nap, charset, nap, inbox, call, heard, blurred, missed, cscsLost, iface>>
        /\ \/ EndDeactivate("failed")
           \/ nap = "off" /\ Next1("ifdown") /\ UNCHANGED verdict
           \/ task' = [task EXCEPT !["NORMAL"].n = @ + 1] /\ UNCHANGED verdict
    BY <1>4 DEF AwaitDisconnection, DeactivateUnchanged, Runs, At
  <2>2. verdict = "none" BY <1>b, <2>1, Points DEF DownInv
  <2>3. \/ u.pc = "return" /\ verdict' = "failed"
        \/ u.pc = "ifdown" /\ nap = "off" /\ verdict' = "none"
        \/ u.pc = "poll" /\ verdict' = "none"
    BY <1>a, <1>c, <2>1, <2>2, DataJumps
  <2>4. DownInv' BY <2>1, <2>3, Points DEF DownInv, TornDown
  <2>5. t.pc \notin SetPoints /\ iface' \in BOOLEAN BY <1>b, <2>1, Points DEF DataTypeOK
  <2> QED BY <1>d, <2>1, <2>3, <2>4, <2>5
<1>5. ASSUME NEW o \in Outcomes("plain"), Disconnect(o) PROVE DataInv'
  <2>1. /\ t.pc = "enap=0" /\ Exchange(o) /\ HangUp(o)
        /\ UNCHANGED <<e2nap, iface, charset, call, heard, blurred, missed, cscsLost>>
        /\ \/ EndDeactivate("failed")
           \/ Next1("poll") /\ UNCHANGED verdict
    BY <1>5 DEF Disconnect, DeactivateUnchanged, Runs, At
  <2>2. verdict = "none" BY <1>b, <2>1, Points DEF DownInv
  <2>3. u.pc \in {"return", "poll"} /\ verdict' \in {"failed", "none"} /\ (u.pc = "poll" => verdict' = "none")
    BY <1>a, <1>c, <2>1, <2>2, DataJumps
  <2>4. t.pc \notin SetPoints /\ u.pc \notin SetPoints /\ u.pc \notin EarlyPoints
    BY <2>1, <2>3, Points
  <2>5. /\ DataTypeOK' /\ CharsetInv' /\ SettleInv'
        /\ ~blurred => \A q \in Queues : \A i \in 1..Len(inbox'[q]) : inbox'[q][i].call = call
    BY <2>1, <2>4, HangUpKeeps
  <2>6. DownInv' BY <2>3, Points DEF DownInv, TornDown
  <2>7. OwnInv' BY <1>b, <2>1, <2>3, <2>4, <2>5 DEF OwnInv
  <2> QED BY <2>5, <2>6, <2>7 DEF DataInv
<1> QED BY <1>1, <1>2, <1>3, <1>4, <1>5

-----------------------------------------------------------------------------
(* The whole. *)

\* A step of Next is one of the data call, or leaves its points and state alone.
LEMMA NextIsData ==
  ASSUME TaskInv, [Next]_vars
  PROVE  \/ DataStep \/ \E q \in Queues : ReopenChannel(q)
         \/ Foreign(DataPoints) /\ UNCHANGED dataVars
<1>p. DataPoints \cap Between = {} BY DEF DataPoints, Between, SetupPoints, DeactivatePoints
<1>1. CASE SimpleStep /\ UNCHANGED dataVars
  <2>1. DataPoints \cap {"send"} = {} BY DEF DataPoints, SetupPoints, DeactivatePoints
  <2> QED BY <1>1, <1>p, <2>1, SimpleTasks, StepForeign DEF TaskInv
<1>2. CASE SmsStep /\ UNCHANGED dataVars
  <2>1. DataPoints \cap {"ack"} = {} BY DEF DataPoints, SetupPoints, DeactivatePoints
  <2> QED BY <1>2, <1>p, <2>1, SmsTasks, StepForeign DEF TaskInv
<1>3. CASE RegStep(e2nap = CONNECTED) /\ UNCHANGED dataVars
  <2>1. DataPoints \cap RegPoints = {}
    BY DEF RegPoints, ScreenPoints, RegistrationPoints, DataPoints, SetupPoints, DeactivatePoints
  <2> QED BY <1>3, <1>p, <2>1, RegTasks, StepForeign DEF TaskInv
<1>4. CASE SimStep /\ UNCHANGED dataVars
  <2>1. DataPoints \cap SimPoints = {}
    BY DEF DataPoints, SetupPoints, DeactivatePoints, SimPoints, CardPoints, FilePoints
  <2> QED BY <1>4, <1>p, <2>1, SimTasks, StepForeign DEF TaskInv
<1>5. CASE RunnerStep /\ UNCHANGED dataVars BY <1>5, <1>p, RunnerForeign DEF TaskInv
<1>6. CASE UNCHANGED vars BY <1>6, <1>p, RunnerForeign DEF TaskInv, vars
<1> QED BY <1>1, <1>2, <1>3, <1>4, <1>5, <1>6 DEF Next

\* At the start nothing is connected and nothing has been said.
LEMMA DataInvInit == ASSUME Init PROVE DataInv
<1> "NORMAL" \in Queues BY DEF Queues
<1>1. DataInit /\ TaskInit BY DEF Init
<1>2. task["NORMAL"].pc = "idle" BY <1>1, IdleOK DEF TaskInit
<1>3. DataTypeOK
  <2>1. inbox \in [Queues -> Seq(Reports)] BY <1>1 DEF DataInit, NoReports
  <2>2. ChannelsOK BY <1>1 DEF TaskInit, ChannelsOK
  <2> QED BY <1>1, <2>1, <2>2 DEF DataInit, DataTypeOK
<1>4. CharsetInv BY <1>1, <1>2 DEF DataInit, CharsetInv, SetPoints
<1>5. DownInv BY <1>1, <1>2, Points DEF DataInit, DownInv, TornDown
<1>6. OwnInv BY <1>1, <1>2, Points DEF DataInit, OwnInv, NoReports
<1>7. SettleInv BY <1>1 DEF DataInit, SettleInv, NoReports
<1> QED BY <1>3, <1>4, <1>5, <1>6, <1>7 DEF DataInv

\* Every step keeps DataInv.
LEMMA DataInvNext ==
  ASSUME TaskInv, DataInv, [Next]_vars
  PROVE  DataInv'
<1> "NORMAL" \in Queues BY DEF Queues
<1>1. CASE \E q \in Queues : ReopenChannel(q) BY <1>1, ReopenKeeps
<1> SUFFICES ASSUME ~\E q \in Queues : ReopenChannel(q) PROVE DataInv' BY <1>1
<1>2. Falls BY NextFalls DEF DataInv, DataTypeOK
<1>3. CASE DataStep
  BY <1>2, <1>3, NetworkKeeps, ReadKeeps, SetupBeginsKeeps, SetupEndsKeeps, DeactivateKeeps
     DEF DataStep
<1>4. CASE Foreign(DataPoints) /\ UNCHANGED dataVars
  <2>1. /\ SetPoints \subseteq DataPoints /\ OpenPoints \subseteq DataPoints
        /\ EarlyPoints \subseteq DataPoints /\ {"ifdown", "down"} \subseteq DataPoints
    BY Points DEF DataPoints, SetupPoints, DeactivatePoints
  <2> QED BY <1>2, <1>4, <2>1, QuietMove DEF Foreign
<1> QED BY <1>3, <1>4, NextIsData

(* Where the data call stands: the character set, the verdict, what was     *)
(* heard of which call, and the last word of the modem on each channel.     *)
THEOREM DataInvariant == Spec => []DataInv
<1>1. Init => DataInv BY DataInvInit
<1>2. TaskInv /\ DataInv /\ [Next]_vars => DataInv' BY DataInvNext
<1> QED BY <1>1, <1>2, TasksFit, PTL DEF Spec

(* Between requests NORMAL's channel has the character set it was opened    *)
(* with, on every path of requestSetupDefaultPDP, unless the modem refused   *)
(* to change it.                                                            *)
THEOREM CharsetAlwaysRestored == Spec => []CharsetRestored
<1>1. DataInv => CharsetRestored BY DEF DataInv, CharsetInv, CharsetRestored, Runs, At
<1> QED BY <1>1, DataInvariant, PTL

(* A set-up succeeds or fails on what was said of its own call, unless it   *)
(* began while an earlier call could still be heard of.                      *)
THEOREM VerdictsOfThisCall == Spec => []VerdictOfThisCall
<1>1. DataInv => VerdictOfThisCall BY DEF DataInv, OwnInv, VerdictOfThisCall
<1> QED BY <1>1, DataInvariant, PTL

(* Once both reader threads have read everything, and nothing was missed,   *)
(* s_e2napState is the modem's state or not set.                             *)
THEOREM StateAlwaysSettles == Spec => []StateSettles
<1>1. DataInv => StateSettles BY DEF DataInv, SettleInv, StateSettles, Agrees
<1> QED BY <1>1, DataInvariant, PTL

(* A tear-down that requestDeactivateDefaultPDP reports as done leaves the  *)
(* modem off, and, where it was on, the interface down.                      *)
THEOREM DeactivatedIsDown == Spec => []TornDown
<1>1. DataInv => TornDown BY DEF DataInv, DownInv
<1> QED BY <1>1, DataInvariant, PTL
=============================================================================
