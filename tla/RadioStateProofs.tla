-------------------------- MODULE RadioStateProofs --------------------------
(***************************************************************************)
(* Proofs about RadioState, with and without a priority channel and for    *)
(* every bound: the type invariant, that the framework is always told the  *)
(* radio state, that SIM_READY always leads to onSIMReady, and that the    *)
(* radio state agrees with the radio while the normal runner serves.       *)
(***************************************************************************)
EXTENDS RadioState, TLAPS

\* What setRadioState and control flow change.
SetterOK ==
  /\ ControlOK /\ sState \in States
  /\ configured \in BOOLEAN /\ overrun \in BOOLEAN /\ assumed \in BOOLEAN

\* What the events and requests are, what the framework saw, and the modem.
QueuesOK ==
  /\ queue \in [Channels -> Seq(Events)] /\ later \in [{"poll", "resetSim"} -> Nat]
  /\ request \in Seq({"on", "off"}) /\ closed \in [Channels -> BOOLEAN]
  /\ answer \in [Channels -> SimStates] /\ param \in [Channels -> {0, 1}]

OutsideOK ==
  /\ seen \in States /\ sim_hotswap \in BOOLEAN
  /\ alive \in [Channels -> BOOLEAN] /\ cfun \in BOOLEAN /\ sim \in SimStates
  /\ lines \in [Channels -> Seq(Lines)] /\ restart \subseteq Channels
  /\ power \in Nat /\ changes \in Nat /\ faults \in Nat

\* The type invariant in these three parts.
LEMMA TypeParts ==
  /\ TypeOK <=> SetterOK /\ QueuesOK /\ OutsideOK
  /\ TypeOK' <=> SetterOK' /\ QueuesOK' /\ OutsideOK'
  BY DEF TypeOK, SetterOK, QueuesOK, OutsideOK

\* The names of channels and threads.
LEMMA Names ==
  /\ "normal" \in Channels /\ PRIO \in Channels
  /\ Channels \subseteq {"normal", "prio"}
  /\ Channels \subseteq Threads /\ Readers \subseteq Threads
  /\ Threads = Channels \cup Readers
  /\ \A c \in Channels : ReaderOf(c) \in Readers
  /\ \A c \in Channels : c \notin Readers
  /\ "normal" \notin Readers
  BY RadioStateAssumption DEF Channels, PRIO, Threads, Readers, ReaderOf

\* A step of control keeps the setter's part.
LEMMA GotoOK ==
  ASSUME SetterOK, NEW t \in Threads, NEW from, NEW to, Goto(t, from, to),
         t \in Channels => to \in SetPoints \cup RunnerPoints,
         t \in Readers => to \in SetPoints \cup ReaderPoints
  PROVE  SetterOK'
  <1>1. pc' = [pc EXCEPT ![t] = to] /\ UNCHANGED <<sState, old, ret, configured, overrun, assumed>>
    BY DEF Goto, history
  <1>2. to \in SetPoints \cup RunnerPoints \cup ReaderPoints
    BY Names
  <1>3. ControlOK'
    BY <1>1, <1>2, Names DEF SetterOK, ControlOK
  <1> QED
    BY <1>1, <1>3 DEF SetterOK

\* The critical section of setRadioState keeps it as well.
LEMMA SetOK ==
  ASSUME SetterOK, NEW t \in Threads, NEW from, NEW s \in States, NEW to, Set(t, from, s, to),
         t \in Channels => to \in RunnerPoints,
         t \in Readers => to \in ReaderPoints
  PROVE  SetterOK'
  <1>1. /\ pc' = [pc EXCEPT ![t] = "test"] /\ old' = [old EXCEPT ![t] = sState]
        /\ ret' = [ret EXCEPT ![t] = to] /\ sState' = s
    BY DEF Set
  <1>2. to \in RunnerPoints \cup ReaderPoints /\ "test" \in SetPoints
    BY Names DEF SetPoints
  <1>3. pc' \in [Threads -> SetPoints \cup RunnerPoints \cup ReaderPoints]
        /\ ret' \in [Threads -> RunnerPoints \cup ReaderPoints] /\ old' \in [Threads -> States]
    BY <1>1, <1>2 DEF SetterOK, ControlOK
  <1>4. ControlOK'
    BY <1>1, <1>2, <1>3, Names DEF SetterOK, ControlOK
  <1>5. configured' \in BOOLEAN /\ overrun' \in BOOLEAN /\ assumed' \in BOOLEAN
    BY DEF Set, SetterOK
  <1> QED
    BY <1>1, <1>4, <1>5 DEF SetterOK

\* Nothing of the setter's part changes.
LEMMA KeepOK ==
  ASSUME SetterOK, UNCHANGED <<setter, history>>
  PROVE  SetterOK'
  BY DEF SetterOK, ControlOK, Setting, setter, history

\* An event more on a queue, or one less.
LEMMA AppendEvent ==
  ASSUME NEW q \in [Channels -> Seq(Events)], NEW c \in Channels, NEW e \in Events
  PROVE  [q EXCEPT ![c] = Append(@, e)] \in [Channels -> Seq(Events)]
  <1>1. Append(q[c], e) \in Seq(Events)
    OBVIOUS
  <1> QED
    BY <1>1

LEMMA TailEvent ==
  ASSUME NEW q \in [Channels -> Seq(Events)], NEW c \in Channels, q[c] # <<>>
  PROVE  /\ [q EXCEPT ![c] = Tail(@)] \in [Channels -> Seq(Events)]
         /\ Head(q[c]) \in Events
  <1>1. Tail(q[c]) \in Seq(Events) /\ Head(q[c]) \in Events
    OBVIOUS
  <1> QED
    BY <1>1

\* What a line enqueues are events.
LEMMA EventsOfType == \A line : EventsOf(line) \in Seq(Events)
  <1>1. {"poll", "poll1", "resetSim"} \subseteq Events
    BY DEF Events
  <1>2. /\ <<>> \in Seq(Events) /\ <<"poll">> \in Seq(Events) /\ <<"poll1">> \in Seq(Events)
        /\ <<"poll1", "resetSim">> \in Seq(Events)
    BY <1>1
  <1> QED
    BY <1>2, Zenon DEF EventsOf

\* The steps of setRadioState outside the mutex.
LEMMA SetRadioStateType ==
  ASSUME TypeOK, NEW t \in Threads, setRadioState(t)
  PROVE  TypeOK'
  <1> USE TypeParts, Names
  <1>1. /\ ret[t] \in RunnerPoints \cup ReaderPoints
        /\ t \in Channels => ret[t] \in RunnerPoints
        /\ t \in Readers => ret[t] \in ReaderPoints
    BY DEF SetterOK, ControlOK
  <1>2. CASE setRadioStateTest(t)
    <2>1. PICK to \in {"notify", ret[t]} : Goto(t, "test", to)
      BY <1>2 DEF setRadioStateTest, Goto
    <2>2. SetterOK'
      BY <2>1, <1>1, GotoOK DEF SetPoints
    <2> QED
      BY <1>2, <2>2 DEF setRadioStateTest, QueuesOK, OutsideOK, queues, runner, modem, bounds
  <1>3. CASE setRadioStateNotify(t)
    <2>1. SetterOK'
      BY <1>3, GotoOK DEF setRadioStateNotify, SetPoints
    <2>2. seen' \in States
      BY <1>3 DEF setRadioStateNotify, SetterOK
    <2> QED
      BY <1>3, <2>1, <2>2 DEF setRadioStateNotify, QueuesOK, OutsideOK, queues, runner, modem, bounds
  <1>4. CASE setRadioStateEnqueue(t)
    <2>1. SetterOK'
      BY <1>4, <1>1, GotoOK DEF setRadioStateEnqueue
    <2>2. queue' \in [Channels -> Seq(Events)]
      <3>1. queue \in [Channels -> Seq(Events)] /\ {"onSIMReady", "onRadioPowerOn"} \subseteq Events
        BY DEF QueuesOK, Events
      <3>2. /\ [queue EXCEPT ![PRIO] = Append(@, "onSIMReady")] \in [Channels -> Seq(Events)]
            /\ [queue EXCEPT !["normal"] = Append(@, "onRadioPowerOn")] \in [Channels -> Seq(Events)]
        BY <3>1, AppendEvent
      <3> QED
        BY <1>4, <3>1, <3>2 DEF setRadioStateEnqueue
    <2> QED
      BY <1>4, <2>1, <2>2 DEF setRadioStateEnqueue, QueuesOK, OutsideOK, runner, modem, bounds
  <1> QED
    BY <1>2, <1>3, <1>4 DEF setRadioState

\* Requests and initializeChannel.
LEMMA NormalType ==
  ASSUME TypeOK, NormalStep
  PROVE  TypeOK'
  <1> USE TypeParts, Names
  <1> DEFINE n == "normal"
  <1>0. n \in Threads
    OBVIOUS
  <1>1. CASE requestRadioPower
    <2>1. SetterOK'
      <3>1. CASE UNCHANGED <<setter, history>>
        BY <3>1, KeepOK
      <3>2. ASSUME NEW to \in {"poweron", "poweroff"}, Goto(n, "loop", to)
            PROVE  SetterOK'
        BY <3>2, <1>0, GotoOK DEF RunnerPoints
      <3>3. CASE Set(n, "loop", UNAVAILABLE, "closing")
        BY <3>3, <1>0, SetOK DEF RunnerPoints, States
      <3> QED
        BY <1>1, <3>1, <3>2, <3>3 DEF requestRadioPower, CommandTimeout
    <2>2. QueuesOK'
      <3>1. Tail(request) \in Seq({"on", "off"})
        BY <1>1 DEF requestRadioPower, QueuesOK
      <3> QED
        BY <1>1, <3>1 DEF requestRadioPower, QueuesOK, runner
    <2>3. faults' \in Nat
      BY <1>1 DEF requestRadioPower, OutsideOK, Fault, CommandTimeout
    <2>4. cfun' \in BOOLEAN
      <3>1. (Head(request) = "on") \in BOOLEAN /\ cfun \in BOOLEAN
        BY DEF OutsideOK
      <3> QED
        BY <1>1, <3>1, Zenon DEF requestRadioPower
    <2> QED
      BY <1>1, <2>1, <2>2, <2>3, <2>4 DEF requestRadioPower, OutsideOK
  <1>2. CASE PowerChanged
    <2>1. SetterOK'
      BY <1>0, <1>2, SetOK DEF PowerChanged, RunnerPoints, States
    <2> QED
      BY <1>2, <2>1 DEF PowerChanged, QueuesOK, OutsideOK, queues, runner, modem, bounds
  <1>3. CASE initializeChannel
    <2>1. SetterOK'
      <3>1. ASSUME NEW s \in States, NEW from, NEW to \in RunnerPoints, Set(n, from, s, to)
            PROVE  SetterOK'
        BY <3>1, <1>0, SetOK
      <3>2. ASSUME NEW from, NEW to \in RunnerPoints, Goto(n, from, to)
            PROVE  SetterOK'
        BY <3>2, <1>0, GotoOK
      <3>3. {"loop", "closing", "down", "isradioon", "cfun4", "inittimeout"} \subseteq RunnerPoints
            /\ {OFF, SIM_NOT_READY, UNAVAILABLE} \subseteq States
        BY DEF RunnerPoints, States
      <3>4. CASE isRadioOnError
        <4>1. /\ pc' = [pc EXCEPT ![n] = "loop"] /\ assumed' = cfun
              /\ UNCHANGED <<sState, old, ret, configured, overrun>>
          BY <3>4 DEF isRadioOnError
        <4>2. ControlOK'
          BY <1>0, <3>3, <4>1 DEF SetterOK, ControlOK
        <4> QED
          BY <4>1, <4>2 DEF SetterOK, OutsideOK
      <3> QED
        BY <1>3, <3>1, <3>2, <3>3, <3>4 DEF initializeChannel, CommandTimeout
    <2>2. faults' \in Nat
      <3>1. UNCHANGED faults \/ Fault
        BY <1>3, Zenon DEF initializeChannel, CommandTimeout, isRadioOnError
      <3> QED
        BY <3>1 DEF OutsideOK, Fault
    <2>3. cfun' \in BOOLEAN
      <3>1. cfun \in BOOLEAN /\ FALSE \in BOOLEAN
        BY DEF OutsideOK
      <3> QED
        BY <1>3, <3>1, Zenon DEF initializeChannel
    <2> QED
      BY <1>3, <2>1, <2>2, <2>3 DEF initializeChannel, QueuesOK, OutsideOK, queues, runner
  <1> QED
    BY <1>1, <1>2, <1>3 DEF NormalStep

\* Events and the poll.
LEMMA EventType ==
  ASSUME TypeOK, NEW c \in Channels, EventStep(c)
  PROVE  TypeOK'
  <1> USE TypeParts, Names
  <1>0. /\ c \in Threads /\ c \notin Readers
        /\ {"poll", "onSIMReady", "resetSim", "onRadioPowerOn"} \subseteq Events
        /\ {"loop", "poll", "status", "answer", "timeout", "closing"} \subseteq RunnerPoints
        /\ {UNAVAILABLE, SIM_LOCKED_OR_ABSENT, SIM_READY} \subseteq States
    BY DEF Events, RunnerPoints, States
  <1>a. ASSUME NEW s \in States, NEW from, NEW to \in RunnerPoints, Set(c, from, s, to)
        PROVE  SetterOK'
    BY <1>a, <1>0, SetOK
  <1>b. ASSUME NEW from, NEW to \in RunnerPoints, Goto(c, from, to)
        PROVE  SetterOK'
    BY <1>b, <1>0, GotoOK
  <1>c. queue[c] # <<>> => [queue EXCEPT ![c] = Tail(@)] \in [Channels -> Seq(Events)]
    BY TailEvent DEF QueuesOK
  <1>d. \A e \in {"poll", "resetSim"} :
          [later EXCEPT ![e] = @ + 1] \in [{"poll", "resetSim"} -> Nat]
    BY DEF QueuesOK
  <1>e. \A v \in SimStates : [answer EXCEPT ![c] = v] \in [Channels -> SimStates]
    BY DEF QueuesOK
  <1>f. \A v \in {0, 1} : [param EXCEPT ![c] = v] \in [Channels -> {0, 1}]
    BY DEF QueuesOK
  <1>1. CASE onRadioPowerOn(c)
    <2>1. queue' \in [Channels -> Seq(Events)]
      BY <1>1, <1>0, <1>c, AppendEvent DEF onRadioPowerOn, TakeEvent
    <2> QED
      BY <1>1, <2>1, KeepOK DEF onRadioPowerOn, QueuesOK, OutsideOK, runner, modem, bounds
  <1>2. CASE onSIMReady(c)
    <2>1. queue' \in [Channels -> Seq(Events)]
      BY <1>2, <1>c DEF onSIMReady, TakeEvent
    <2>2. SetterOK'
      BY <1>2 DEF onSIMReady, SetterOK, ControlOK, setter
    <2> QED
      BY <1>2, <2>1, <2>2 DEF onSIMReady, QueuesOK, OutsideOK, runner, modem, bounds
  <1>3. CASE resetSim(c)
    <2>1. SetterOK'
      BY <1>3, <1>0, <1>a, <1>b, KeepOK DEF resetSim, CommandTimeout
    <2>2. queue' \in [Channels -> Seq(Events)]
      BY <1>3, <1>c DEF resetSim, TakeEvent
    <2>3. later' \in [{"poll", "resetSim"} -> Nat] /\ param' \in [Channels -> {0, 1}]
      BY <1>3, <1>d, <1>f DEF resetSim, QueuesOK
    <2>4. OutsideOK'
      BY <1>3 DEF resetSim, OutsideOK, Fault, CommandTimeout, SimStates
    <2> QED
      BY <1>3, <2>1, <2>2, <2>3, <2>4 DEF resetSim, QueuesOK
  <1>4. CASE takePoll(c)
    <2>1. SetterOK'
      BY <1>4, <1>0, <1>b DEF takePoll
    <2>2. queue' \in [Channels -> Seq(Events)] /\ param' \in [Channels -> {0, 1}]
      BY <1>4, <1>c, <1>f DEF takePoll, TakeEvent
    <2> QED
      BY <1>4, <2>1, <2>2 DEF takePoll, QueuesOK, OutsideOK, modem, bounds
  <1>5. CASE pollSIMState(c)
    <2>1. SetterOK'
      BY <1>5, <1>0, <1>b DEF pollSIMState
    <2> QED
      BY <1>5, <2>1 DEF pollSIMState, QueuesOK, OutsideOK, runner, queues, modem, bounds
  <1>6. CASE getSIMStatus(c)
    <2>1. SetterOK'
      BY <1>6, <1>0, <1>a, <1>b DEF getSIMStatus, CommandTimeout
    <2>2. answer' \in [Channels -> SimStates]
      <3>1. sim \in SimStates /\ "not_ready" \in SimStates
        BY DEF OutsideOK, SimStates
      <3> QED
        BY <1>6, <1>e, <3>1 DEF getSIMStatus
    <2>3. faults' \in Nat
      BY <1>6 DEF getSIMStatus, OutsideOK, Fault, CommandTimeout
    <2> QED
      BY <1>6, <2>1, <2>2, <2>3 DEF getSIMStatus, QueuesOK, OutsideOK, queues, modem
  <1>7. CASE pollAnswer(c)
    <2>1. SetterOK'
      BY <1>7, <1>0, <1>a, <1>b DEF pollAnswer
    <2>2. later' \in [{"poll", "resetSim"} -> Nat]
      BY <1>7, <1>d DEF pollAnswer, QueuesOK
    <2> QED
      BY <1>7, <2>1, <2>2 DEF pollAnswer, QueuesOK, OutsideOK, runner, modem, bounds
  <1> QED
    BY <1>1, <1>2, <1>3, <1>4, <1>5, <1>6, <1>7 DEF EventStep

\* Losing and opening channels.
LEMMA ChannelType ==
  ASSUME TypeOK, NEW c \in Channels, at_close(c) \/ Reopen(c) \/ HangUp(c)
  PROVE  TypeOK'
  <1> USE TypeParts, Names
  <1> DEFINE r == ReaderOf(c)
  <1>0. /\ c \in Threads /\ c \notin Readers /\ r \in Readers /\ r \in Threads /\ r # c
        /\ r \notin Channels /\ \A d \in Channels : ReaderOf(d) = r => d = c
    BY DEF ReaderOf, Channels, Readers
  <1>1. /\ \A v \in BOOLEAN : [alive EXCEPT ![c] = v] \in [Channels -> BOOLEAN]
        /\ [lines EXCEPT ![c] = <<>>] \in [Channels -> Seq(Lines)]
        /\ [closed EXCEPT ![c] = FALSE] \in [Channels -> BOOLEAN]
    BY DEF OutsideOK, QueuesOK
  <1>2. CASE at_close(c)
    <2>1. ControlOK'
      <3>1. PICK to \in ReaderPoints \cup {pc[r]} : pc' = [pc EXCEPT ![c] = "down", ![r] = to]
        BY <1>2, <1>0 DEF at_close, ReaderPoints, SetterOK, ControlOK
      <3>2. pc[r] \in SetPoints \cup ReaderPoints /\ "down" \in RunnerPoints
        BY <1>0 DEF SetterOK, ControlOK, RunnerPoints
      <3> QED
        BY <1>0, <1>2, <3>1, <3>2 DEF at_close, SetterOK, ControlOK
    <2>2. SetterOK'
      BY <1>2, <2>1 DEF at_close, SetterOK, history
    <2> QED
      BY <1>1, <1>2, <2>2 DEF at_close, QueuesOK, OutsideOK, runner, queues, bounds
  <1>3. CASE Reopen(c)
    <2>1. ControlOK'
      <3>1. PICK to \in RunnerPoints : pc' = [pc EXCEPT ![c] = to, ![r] = "read"]
        BY <1>3 DEF Reopen, RunnerPoints
      <3>2. "read" \in ReaderPoints
        BY DEF ReaderPoints
      <3> QED
        BY <1>0, <1>3, <3>1, <3>2 DEF Reopen, SetterOK, ControlOK
    <2>2. SetterOK'
      BY <1>3, <2>1 DEF Reopen, SetterOK, history
    <2> QED
      BY <1>1, <1>3, <2>2 DEF Reopen, QueuesOK, OutsideOK, runner, bounds
  <1>4. CASE HangUp(c)
    <2>1. SetterOK'
      BY <1>0, <1>4, GotoOK DEF HangUp, ReaderPoints
    <2>2. faults' \in Nat
      BY <1>4 DEF HangUp, Fault, OutsideOK
    <2>3. cfun' \in BOOLEAN
      BY <1>4 DEF HangUp, OutsideOK
    <2> QED
      BY <1>1, <1>4, <2>1, <2>2, <2>3 DEF HangUp, QueuesOK, OutsideOK, runner, queues
  <1> QED
    BY <1>2, <1>3, <1>4

\* The callbacks of a lost or mute channel.
LEMMA ClosingType ==
  ASSUME TypeOK, NEW t \in Threads, onATReaderClosed(t) \/ signalCloseQueues(t)
  PROVE  TypeOK'
  <1> USE TypeParts, Names
  <1>0. /\ "closing" \in RunnerPoints \cap ReaderPoints
        /\ {"loop", "answer", "down"} \subseteq RunnerPoints /\ "exited" \in ReaderPoints
        /\ {"timeout", "inittimeout"} \cap (SetPoints \cup ReaderPoints) = {}
    BY DEF RunnerPoints, ReaderPoints, SetPoints
  <1>1. CASE onATReaderClosed(t)
    <2>1. SetterOK'
      BY <1>0, <1>1, GotoOK, SetOK DEF onATReaderClosed, States
    <2> QED
      BY <1>1, <2>1 DEF onATReaderClosed, QueuesOK, OutsideOK, runner, queues, modem, bounds
  <1>2. CASE signalCloseQueues(t)
    <2>1. t \in Readers => pc[t] \notin {"timeout", "inittimeout"}
      BY <1>0 DEF SetterOK, ControlOK
    <2>2. PICK from, to : Goto(t, from, to)
                       /\ (t \in Channels => to \in RunnerPoints) /\ (t \in Readers => to \in ReaderPoints)
      BY <1>0, <1>2, <2>1 DEF signalCloseQueues, Goto
    <2>3. SetterOK'
      BY <2>2, GotoOK
    <2>4. closed' \in [Channels -> BOOLEAN]
      BY <1>2 DEF signalCloseQueues
    <2> QED
      BY <1>2, <2>3, <2>4 DEF signalCloseQueues, QueuesOK, OutsideOK, runner, modem, bounds
  <1> QED
    BY <1>1, <1>2

\* Unsolicited lines.
LEMMA UnsolicitedType ==
  ASSUME TypeOK, NEW c \in Channels, onUnsolicited(c) \/ SimRemoved(c)
  PROVE  TypeOK'
  <1> USE TypeParts, Names
  <1> DEFINE r == ReaderOf(c)
  <1>0. r \in Readers /\ r \in Threads /\ r \notin Channels
    OBVIOUS
  <1>1. CASE onUnsolicited(c)
    <2> DEFINE line == Head(lines[c])
    <2>1. lines[c] \in Seq(Lines) /\ lines[c] # <<>>
      BY <1>1 DEF onUnsolicited, OutsideOK
    <2>2. lines' \in [Channels -> Seq(Lines)]
      <3>1. Tail(lines[c]) \in Seq(Lines)
        BY <2>1
      <3> QED
        BY <1>1, <3>1 DEF onUnsolicited, OutsideOK
    <2>3. queue' \in [Channels -> Seq(Events)]
      <3>1. EventsOf(line) \in Seq(Events)
        BY EventsOfType
      <3>2. queue \in [Channels -> Seq(Events)]
        BY DEF QueuesOK
      <3>3. queue[PRIO] \o EventsOf(line) \in Seq(Events)
        BY <3>1, <3>2
      <3>4. [queue EXCEPT ![PRIO] = @ \o EventsOf(line)] \in [Channels -> Seq(Events)]
        BY <3>2, <3>3
      <3> QED
        BY <1>1, <3>2, <3>4 DEF onUnsolicited
    <2>4. SetterOK'
      <3>1. PICK to \in {"removed", "read"} : Goto(r, "read", to)
        BY <1>1 DEF onUnsolicited
      <3> QED
        BY <1>0, <3>1, GotoOK DEF ReaderPoints
    <2>5. sim_hotswap' \in BOOLEAN
      BY <1>1, Zenon DEF onUnsolicited
    <2> QED
      BY <1>1, <2>2, <2>3, <2>4, <2>5 DEF onUnsolicited, QueuesOK, OutsideOK, runner, bounds
  <1>2. CASE SimRemoved(c)
    <2>1. SetterOK'
      BY <1>0, <1>2, SetOK DEF SimRemoved, ReaderPoints, States
    <2> QED
      BY <1>2, <2>1 DEF SimRemoved, QueuesOK, OutsideOK, runner, queues, modem, bounds
  <1> QED
    BY <1>1, <1>2

\* Time, the SIM and the framework.
LEMMA OutsideType ==
  ASSUME TypeOK, (\E e \in {"poll", "resetSim"} : Expire(e)) \/ SimStarts \/ SimChanges \/ RadioPower
  PROVE  TypeOK'
  <1> USE TypeParts, Names
  <1>0. ASSUME NEW l \in Lines, Report(l) \/ ReportAll(l)
        PROVE  lines' \in [Channels -> Seq(Lines)]
    <2>1. lines \in [Channels -> Seq(Lines)]
      BY DEF OutsideOK
    <2>2. \A c \in Channels : Append(lines[c], l) \in Seq(Lines)
      BY <2>1
    <2> QED
      BY <1>0, <2>1, <2>2 DEF Report, ReportAll
  <1>1. ASSUME NEW e \in {"poll", "resetSim"}, Expire(e)
        PROVE  TypeOK'
    <2>1. queue' \in [Channels -> Seq(Events)]
      BY <1>1, AppendEvent DEF Expire, QueuesOK, Events
    <2>2. later' \in [{"poll", "resetSim"} -> Nat]
      BY <1>1 DEF Expire, QueuesOK
    <2> QED
      BY <1>1, <2>1, <2>2, KeepOK DEF Expire, QueuesOK, OutsideOK, runner, modem, bounds
  <1>2. CASE SimStarts
    <2>1. lines' \in [Channels -> Seq(Lines)]
      BY <1>0, <1>2 DEF SimStarts, Lines
    <2> QED
      BY <1>2, <2>1, KeepOK DEF SimStarts, SimOther, QueuesOK, OutsideOK, SimStates, runner, queues
  <1>3. CASE SimChanges
    <2>1. lines' \in [Channels -> Seq(Lines)]
      BY <1>0, <1>3 DEF SimChanges, Lines
    <2>2. sim' \in SimStates /\ restart' \subseteq Channels
      BY <1>3 DEF SimChanges, SimStates, OutsideOK
    <2>3. changes' \in Nat
      <3>1. changes > 0 /\ changes' = changes - 1
        BY <1>3, Zenon DEF SimChanges
      <3> QED
        BY <3>1 DEF OutsideOK
    <2> QED
      BY <1>3, <2>1, <2>2, <2>3, KeepOK DEF SimChanges, SimOther, QueuesOK, OutsideOK, runner, queues
  <1>4. CASE RadioPower
    <2>1. request' \in Seq({"on", "off"})
      BY <1>4 DEF RadioPower, QueuesOK
    <2>2. power' \in Nat
      BY <1>4 DEF RadioPower, OutsideOK
    <2> QED
      BY <1>4, <2>1, <2>2, KeepOK DEF RadioPower, QueuesOK, OutsideOK, runner, modem
  <1> QED
    BY <1>1, <1>2, <1>3, <1>4

LEMMA InitType == Init => TypeOK
  <1> SUFFICES ASSUME Init PROVE TypeOK
    OBVIOUS
  <1> USE TypeParts, Names
  <1>1. SetterOK
    BY DEF Init, SetterOK, ControlOK, States, RunnerPoints, ReaderPoints
  <1>2. QueuesOK
    BY DEF Init, QueuesOK, SimStates
  <1>3. OutsideOK
    <2>1. /\ seen \in States /\ sim \in SimStates /\ restart \subseteq Channels
          /\ alive \in [Channels -> BOOLEAN] /\ lines \in [Channels -> Seq(Lines)]
      BY DEF Init, States, SimStates
    <2>2. power \in Nat /\ changes \in Nat /\ faults \in Nat
      BY RadioStateAssumption DEF Init, Workload
    <2>3. sim_hotswap \in BOOLEAN /\ cfun \in BOOLEAN
      BY DEF Init
    <2> QED
      BY <2>1, <2>2, <2>3 DEF OutsideOK
  <1> QED
    BY <1>1, <1>2, <1>3

LEMMA StepType ==
  ASSUME TypeOK, [Next]_vars
  PROVE  TypeOK'
  <1>1. CASE UNCHANGED vars
    BY <1>1, KeepOK, TypeParts
      DEF vars, QueuesOK, OutsideOK, runner, queues, modem, bounds
  <1>2. CASE Next
    BY <1>2, SetRadioStateType, ClosingType, EventType, ChannelType, NormalType, UnsolicitedType,
       OutsideType DEF Next
  <1> QED
    BY <1>1, <1>2

\* Every variable has its type; readers and runners keep to their own code,
\* whatever callback runs on them.
THEOREM TypeCorrect == Spec => []TypeOK
  BY InitType, StepType, PTL DEF Spec

----------------------------------------------------------------------------
(* What a step does to a setRadioState that another thread is in *)

Has(q) == \E i \in 1..Len(q) : q[i] = "onSIMReady"

ReadyQueued == \E c \in Channels : Has(queue[c])

Points == RunnerPoints \cup ReaderPoints

\* The critical section of setRadioState, called from outside of it.
SetStep ==
  /\ \E t \in Threads, from \in Points, s \in States, to \in Points : Set(t, from, s, to)
  /\ seen' = seen
  /\ ReadyQueued => ReadyQueued'

\* A step that leaves the radio state and everyone in setRadioState alone, and
\* takes onSIMReady from the queue only to run it.
Calm ==
  /\ UNCHANGED <<sState, old, seen>>
  /\ \A t \in Threads : pc[t] \in SetPoints => pc'[t] = pc[t]
  /\ configured' = TRUE \/ (configured' = configured /\ (ReadyQueued => ReadyQueued'))

\* An event that waits stays when another one is added or taken.
LEMMA HasKept ==
  ASSUME NEW q \in Seq(Events), Has(q)
  PROVE  /\ \A e \in Events : Has(Append(q, e))
         /\ \A r \in Seq(Events) : Has(q \o r)
         /\ Head(q) # "onSIMReady" => Has(Tail(q))
  <1>1. PICK i \in 1..Len(q) : q[i] = "onSIMReady"
    BY DEF Has
  <1>2. ASSUME NEW e \in Events PROVE Has(Append(q, e))
    <2>1. i \in 1..Len(Append(q, e)) /\ Append(q, e)[i] = q[i]
      OBVIOUS
    <2> QED
      BY <1>1, <2>1 DEF Has
  <1>3. ASSUME NEW r \in Seq(Events) PROVE Has(q \o r)
    <2>1. i \in 1..Len(q \o r) /\ (q \o r)[i] = q[i]
      OBVIOUS
    <2> QED
      BY <1>1, <2>1 DEF Has
  <1>4. ASSUME Head(q) # "onSIMReady" PROVE Has(Tail(q))
    <2>1. q # <<>> /\ i # 1
      BY <1>1, <1>4
    <2>2. i - 1 \in 1..Len(Tail(q)) /\ Tail(q)[i - 1] = q[i]
      BY <2>1
    <2> QED
      BY <1>1, <2>2 DEF Has
  <1> QED
    BY <1>2, <1>3, <1>4

\* The same of all queues.
LEMMA QueuedKept ==
  ASSUME TypeOK, ReadyQueued,
         \/ UNCHANGED queue
         \/ \E c \in Channels, e \in Events : queue' = [queue EXCEPT ![c] = Append(@, e)]
         \/ \E c \in Channels, r \in Seq(Events) : queue' = [queue EXCEPT ![c] = @ \o r]
         \/ \E c \in Channels : /\ Head(queue[c]) # "onSIMReady"
                                /\ queue' = [queue EXCEPT ![c] = Tail(@)]
  PROVE  ReadyQueued'
  <1>1. queue \in [Channels -> Seq(Events)]
    BY DEF TypeOK
  <1>2. PICK d \in Channels : Has(queue[d])
    BY DEF ReadyQueued
  <1>3. Has(queue'[d])
    <2>1. queue[d] \in Seq(Events)
      BY <1>1
    <2>2. /\ \A e \in Events : Has(Append(queue[d], e))
          /\ \A r \in Seq(Events) : Has(queue[d] \o r)
          /\ Head(queue[d]) # "onSIMReady" => Has(Tail(queue[d]))
      BY <1>2, <2>1, HasKept
    <2>3. CASE UNCHANGED queue
      BY <1>2, <2>3
    <2>4. CASE \E c \in Channels, e \in Events : queue' = [queue EXCEPT ![c] = Append(@, e)]
      BY <1>1, <1>2, <2>2, <2>4
    <2>5. CASE \E c \in Channels, r \in Seq(Events) : queue' = [queue EXCEPT ![c] = @ \o r]
      BY <1>1, <1>2, <2>2, <2>5
    <2>6. CASE \E c \in Channels : /\ Head(queue[c]) # "onSIMReady"
                                  /\ queue' = [queue EXCEPT ![c] = Tail(@)]
      BY <1>1, <1>2, <2>2, <2>6
    <2> QED
      BY <2>3, <2>4, <2>5, <2>6
  <1> QED
    BY <1>3 DEF ReadyQueued, Has

\* The points of setRadioState are its own; the names of the others.
LEMMA PointsApart ==
  /\ Points \cap SetPoints = {}
  /\ {"loop", "down", "init", "cfun4", "isradioon", "inittimeout", "poweron", "poweroff", "poll",
      "status", "answer", "timeout", "closing", "read", "removed", "readerclosed", "exited"}
     \subseteq Points
  BY DEF Points, SetPoints, RunnerPoints, ReaderPoints

\* Control moves on, or nothing does.
LEMMA GotoCalm ==
  ASSUME TypeOK, seen' = seen, ReadyQueued => ReadyQueued',
         \/ \E t \in Threads, from \in Points : \E to : Goto(t, from, to)
         \/ UNCHANGED <<setter, history>>
  PROVE  Calm
  <1>1. ASSUME NEW t \in Threads, NEW from \in Points, NEW to, Goto(t, from, to)
        PROVE  Calm
    <2>1. /\ pc' = [pc EXCEPT ![t] = to] /\ pc[t] = from
          /\ UNCHANGED <<sState, old, configured>>
      BY <1>1 DEF Goto, history
    <2>2. \A u \in Threads : pc[u] \in SetPoints => pc'[u] = pc[u]
      BY <2>1, PointsApart DEF TypeOK, ControlOK
    <2> QED
      BY <2>1, <2>2 DEF Calm
  <1>2. CASE UNCHANGED <<setter, history>>
    BY <1>2 DEF Calm, setter, history
  <1> QED
    BY <1>1, <1>2

LEMMA StepKinds ==
  ASSUME TypeOK, [Next]_vars
  PROVE  (\E t \in Threads : setRadioState(t)) \/ SetStep \/ Calm
  <1> USE Names, PointsApart
  <1> DEFINE Kept == ReadyQueued => ReadyQueued'
             Moves == \E t \in Threads, from \in Points : \E to : Goto(t, from, to)
             Sets == \E t \in Threads, from \in Points, s \in States, to \in Points :
                       Set(t, from, s, to)
  <1>0. ASSUME seen' = seen, Kept, Moves \/ Sets \/ UNCHANGED <<setter, history>>
        PROVE  SetStep \/ Calm
    BY <1>0, GotoCalm DEF SetStep
  <1>a. UNCHANGED queue => Kept
    BY QueuedKept
  <1>b. \A c \in Channels, e \in Events : queue' = [queue EXCEPT ![c] = Append(@, e)] => Kept
    BY QueuedKept
  <1>c. \A c \in Channels : /\ Head(queue[c]) # "onSIMReady"
                           /\ queue' = [queue EXCEPT ![c] = Tail(@)] => Kept
    BY QueuedKept
  <1>d. {UNAVAILABLE, OFF, SIM_NOT_READY, SIM_LOCKED_OR_ABSENT, SIM_READY} = States
    BY DEF States
  <1>e. ASSUME NEW t \in Threads, NEW from \in Points, NEW to, Goto(t, from, to)
        PROVE  Moves
    BY <1>e
  <1>f. ASSUME NEW t \in Threads, NEW from \in Points, NEW s \in States, NEW to \in Points,
               Set(t, from, s, to)
        PROVE  Sets
    BY <1>f
  <1>1. CASE UNCHANGED vars
    BY <1>1, <1>0, <1>a DEF vars, queues
  <1>2. ASSUME NEW t \in Threads, onATReaderClosed(t) \/ signalCloseQueues(t)
        PROVE  SetStep \/ Calm
    <2>1. Moves \/ Sets
      BY <1>2, <1>d, <1>e, <1>f DEF onATReaderClosed, signalCloseQueues
    <2>2. seen' = seen /\ UNCHANGED queue
      BY <1>2 DEF onATReaderClosed, signalCloseQueues, queues
    <2> QED
      BY <1>0, <1>a, <2>1, <2>2
  <1>3. CASE NormalStep
    <2>1. Moves \/ Sets \/ UNCHANGED <<setter, history>> \/ isRadioOnError
      BY <1>3, <1>d, <1>e, <1>f
        DEF NormalStep, requestRadioPower, PowerChanged, initializeChannel, CommandTimeout
    <2>2. seen' = seen /\ UNCHANGED queue
      BY <1>3 DEF NormalStep, requestRadioPower, PowerChanged, initializeChannel, queues
    <2>3. CASE isRadioOnError
      <3>1. /\ pc' = [pc EXCEPT !["normal"] = "loop"] /\ pc["normal"] = "isradioon"
            /\ UNCHANGED <<sState, old, configured>>
        BY <2>3 DEF isRadioOnError
      <3>2. \A u \in Threads : pc[u] \in SetPoints => pc'[u] = pc[u]
        BY <3>1 DEF TypeOK, ControlOK
      <3> QED
        BY <1>a, <2>2, <3>1, <3>2 DEF Calm
    <2> QED
      BY <1>0, <1>a, <2>1, <2>2, <2>3
  <1>4. ASSUME NEW c \in Channels, at_close(c) \/ Reopen(c)
        PROVE  Calm
    <2>1. /\ UNCHANGED <<sState, old, seen, configured, queue>>
      BY <1>4 DEF at_close, Reopen, history, queues
    <2>2. \A t \in Threads : pc[t] \in SetPoints => pc'[t] = pc[t]
      <3>1. ReaderOf(c) \in Threads /\ c \in Threads /\ ReaderOf(c) # c
        OBVIOUS
      <3>2. PICK a, b : /\ pc' = [pc EXCEPT ![c] = a, ![ReaderOf(c)] = b]
                        /\ pc[ReaderOf(c)] \in SetPoints => b = pc[ReaderOf(c)]
                        /\ pc[c] \notin SetPoints
        <4>1. CASE at_close(c)
          <5> DEFINE b == IF pc[ReaderOf(c)] = "read" THEN "exited" ELSE pc[ReaderOf(c)]
          <5>1. pc' = [pc EXCEPT ![c] = "down", ![ReaderOf(c)] = b]
            BY <4>1, <3>1 DEF at_close, TypeOK, ControlOK
          <5>2. pc[ReaderOf(c)] \in SetPoints => b = pc[ReaderOf(c)]
            OBVIOUS
          <5>3. pc[c] \notin SetPoints
            BY <4>1 DEF at_close
          <5> HIDE DEF b
          <5> QED
            BY <5>1, <5>2, <5>3
        <4>2. CASE Reopen(c)
          <5> DEFINE a == IF c = "normal" THEN "init" ELSE "loop"
          <5>1. pc' = [pc EXCEPT ![c] = a, ![ReaderOf(c)] = "read"]
            BY <4>2 DEF Reopen
          <5>2. pc[ReaderOf(c)] \in {"read", "exited"} /\ pc[c] \notin SetPoints
            BY <4>2 DEF Reopen
          <5>3. pc[ReaderOf(c)] \notin SetPoints
            BY <5>2
          <5> HIDE DEF a
          <5> QED
            BY <5>1, <5>2, <5>3
        <4> QED
          BY <1>4, <4>1, <4>2
      <3> QED
        BY <3>1, <3>2 DEF TypeOK, ControlOK
    <2> QED
      BY <1>a, <2>1, <2>2 DEF Calm
  <1>5. ASSUME NEW c \in Channels, HangUp(c) \/ SimRemoved(c)
        PROVE  SetStep \/ Calm
    <2>1. Moves \/ Sets
      BY <1>5, <1>d, <1>e, <1>f DEF HangUp, SimRemoved
    <2>2. seen' = seen /\ UNCHANGED queue
      BY <1>5 DEF HangUp, SimRemoved, queues
    <2> QED
      BY <1>0, <1>a, <2>1, <2>2
  <1>6. ASSUME NEW c \in Channels, onUnsolicited(c)
        PROVE  SetStep \/ Calm
    <2>1. Moves
      BY <1>6, <1>e DEF onUnsolicited
    <2>2. EventsOf(Head(lines[c])) \in Seq(Events)
      BY EventsOfType
    <2>3. Kept
      <3>1. \/ UNCHANGED queue
            \/ \E d \in Channels, r \in Seq(Events) : queue' = [queue EXCEPT ![d] = @ \o r]
        BY <1>6, <2>2 DEF onUnsolicited
      <3> QED
        BY <3>1, QueuedKept
    <2>4. seen' = seen
      BY <1>6 DEF onUnsolicited
    <2> QED
      BY <1>0, <2>1, <2>3, <2>4
  <1>7. CASE (\E e \in {"poll", "resetSim"} : Expire(e)) \/ SimStarts \/ SimChanges \/ RadioPower
    <2>1. UNCHANGED <<setter, history>> /\ seen' = seen
      BY <1>7 DEF Expire, SimStarts, SimChanges, RadioPower, SimOther
    <2>2. UNCHANGED queue \/ \E c \in Channels, e \in Events : queue' = [queue EXCEPT ![c] = Append(@, e)]
      BY <1>7 DEF Expire, SimStarts, SimChanges, RadioPower, SimOther, queues, Events
    <2> QED
      BY <1>0, <1>a, <1>b, <2>1, <2>2
  <1>8. ASSUME NEW c \in Channels, EventStep(c)
        PROVE  SetStep \/ Calm
    <2>0. c \in Threads
      OBVIOUS
    <2>1. CASE onRadioPowerOn(c)
      <3> DEFINE q == [queue EXCEPT ![c] = Tail(@)]
      <3>1. ReadyQueued => ReadyQueued'
        <4> SUFFICES ASSUME ReadyQueued PROVE ReadyQueued'
          OBVIOUS
        <4>1. queue \in [Channels -> Seq(Events)] /\ queue[c] # <<>> /\ Head(queue[c]) # "onSIMReady"
              /\ queue' = [q EXCEPT ![PRIO] = Append(@, "poll")] /\ "poll" \in Events
          BY <2>1 DEF onRadioPowerOn, TakeEvent, TypeOK, Events
        <4>2. q \in [Channels -> Seq(Events)]
          BY <4>1, TailEvent
        <4>3. PICK d \in Channels : Has(queue[d])
          BY DEF ReadyQueued
        <4>4. Has(q[d])
          BY <4>1, <4>3, HasKept
        <4>5. q[d] \in Seq(Events) /\ q[PRIO] \in Seq(Events)
          BY <4>2
        <4>6. Has(Append(q[d], "poll"))
          BY <4>1, <4>4, <4>5, HasKept
        <4>7. Has(queue'[d])
          BY <4>1, <4>2, <4>4, <4>6
        <4> QED
          BY <4>7 DEF ReadyQueued, Has
      <3>2. UNCHANGED <<setter, history>> /\ seen' = seen
        BY <2>1 DEF onRadioPowerOn
      <3> QED
        BY <1>0, <3>1, <3>2
    <2>2. CASE onSIMReady(c)
      BY <2>2 DEF onSIMReady, Calm, setter
    <2>3. CASE resetSim(c)
      <3>1. Moves \/ Sets \/ UNCHANGED <<setter, history>>
        BY <2>3, <2>0, <1>d, <1>e, <1>f DEF resetSim, CommandTimeout
      <3>2. seen' = seen /\ Kept
        BY <2>3, <1>c DEF resetSim
      <3> QED
        BY <1>0, <3>1, <3>2
    <2>4. CASE takePoll(c)
      <3>1. Moves
        BY <2>4, <2>0, <1>e DEF takePoll
      <3>2. seen' = seen /\ Kept
        BY <2>4, <1>c DEF takePoll
      <3> QED
        BY <1>0, <3>1, <3>2
    <2>5. CASE pollSIMState(c) \/ getSIMStatus(c) \/ pollAnswer(c)
      <3>1. Moves \/ Sets
        BY <2>5, <2>0, <1>d, <1>e, <1>f DEF pollSIMState, getSIMStatus, pollAnswer, CommandTimeout
      <3>2. seen' = seen /\ UNCHANGED queue
        BY <2>5 DEF pollSIMState, getSIMStatus, pollAnswer, queues
      <3> QED
        BY <1>0, <1>a, <3>1, <3>2
    <2> QED
      BY <1>8, <2>1, <2>2, <2>3, <2>4, <2>5 DEF EventStep
  <1> QED
    BY <1>1, <1>2, <1>3, <1>4, <1>5, <1>6, <1>7, <1>8 DEF Next

----------------------------------------------------------------------------
(* The two invariants *)

LEMMA InformedStep ==
  ASSUME TypeOK, FrameworkInformed, [Next]_vars
  PROVE  FrameworkInformed'
  <1>0. pc \in [Threads -> SetPoints \cup RunnerPoints \cup ReaderPoints]
        /\ old \in [Threads -> States]
    BY DEF TypeOK, ControlOK
  <1>1. ASSUME NEW t \in Threads, setRadioStateTest(t)
        PROVE  FrameworkInformed'
    BY <1>0, <1>1 DEF setRadioStateTest, FrameworkInformed
  <1>2. ASSUME NEW t \in Threads, setRadioStateNotify(t)
        PROVE  FrameworkInformed'
    BY <1>2 DEF setRadioStateNotify, Goto, FrameworkInformed
  <1>3. ASSUME NEW t \in Threads, setRadioStateEnqueue(t)
        PROVE  FrameworkInformed'
    BY <1>0, <1>3 DEF setRadioStateEnqueue, Goto, FrameworkInformed
  <1>4. CASE SetStep
    <2>1. PICK t \in Threads, from \in Points, s \in States, to \in Points : Set(t, from, s, to)
      BY <1>4 DEF SetStep
    <2>2. /\ pc' = [pc EXCEPT ![t] = "test"] /\ old' = [old EXCEPT ![t] = sState]
          /\ pc[t] \notin SetPoints /\ seen' = seen
      BY <1>4, <2>1, PointsApart DEF Set, SetStep
    <2>3. CASE sState' # sState
      BY <1>0, <2>2, <2>3 DEF FrameworkInformed
    <2>4. CASE sState' = sState
      BY <1>0, <2>2, <2>4 DEF FrameworkInformed, SetPoints
    <2> QED
      BY <2>3, <2>4
  <1>5. CASE Calm
    BY <1>5 DEF Calm, FrameworkInformed, SetPoints
  <1> QED
    BY <1>1, <1>2, <1>3, <1>4, <1>5, StepKinds DEF setRadioState

\* The framework is always told the state the radio ends up in, by whichever
\* thread finds the state changed, for every interleaving of setRadioState.
THEOREM InformedAlways == Spec => []FrameworkInformed
  <1>1. Init => FrameworkInformed
    BY DEF Init, FrameworkInformed
  <1> QED
    BY <1>1, InformedStep, TypeCorrect, PTL DEF Spec

\* SimReadyConfigured says that some thread is in setRadioState; that is kept only
\* because the one that matters has seen the change or is going to.
ReadyPending ==
  sState = SIM_READY /\ ~configured =>
    \/ ReadyQueued
    \/ \E t \in Threads : \/ pc[t] \in {"notify", "enqueue"}
                          \/ pc[t] = "test" /\ old[t] # SIM_READY

LEMMA PendingStep ==
  ASSUME TypeOK, ReadyPending, [Next]_vars
  PROVE  ReadyPending'
  <1>0. pc \in [Threads -> SetPoints \cup RunnerPoints \cup ReaderPoints]
        /\ old \in [Threads -> States] /\ queue \in [Channels -> Seq(Events)]
    BY DEF TypeOK, ControlOK
  <1>1. ASSUME NEW t \in Threads, setRadioStateTest(t)
        PROVE  ReadyPending'
    <2>1. ReadyQueued' <=> ReadyQueued
      BY <1>1 DEF setRadioStateTest, queues, ReadyQueued, Has
    <2> QED
      BY <1>0, <1>1, <2>1 DEF setRadioStateTest, ReadyPending, history
  <1>2. ASSUME NEW t \in Threads, setRadioStateNotify(t)
        PROVE  ReadyPending'
    BY <1>0, <1>2 DEF setRadioStateNotify, Goto, ReadyPending
  <1>3. ASSUME NEW t \in Threads, setRadioStateEnqueue(t)
        PROVE  ReadyPending'
    <2> SUFFICES ASSUME sState' = SIM_READY PROVE ReadyQueued'
      BY DEF ReadyPending
    <2>1. queue' = [queue EXCEPT ![PRIO] = Append(@, "onSIMReady")]
      BY <1>3 DEF setRadioStateEnqueue, Goto, SIM_READY, SIM_NOT_READY
    <2>2. queue[PRIO] \in Seq(Events) /\ "onSIMReady" \in Events
      BY <1>0, Names DEF Events
    <2>3. Has(Append(queue[PRIO], "onSIMReady"))
      <3>1. /\ Len(queue[PRIO]) + 1 \in 1..Len(Append(queue[PRIO], "onSIMReady"))
            /\ Append(queue[PRIO], "onSIMReady")[Len(queue[PRIO]) + 1] = "onSIMReady"
        BY <2>2
      <3> QED
        BY <3>1 DEF Has
    <2>4. Has(queue'[PRIO])
      BY <1>0, <2>1, <2>3, Names
    <2> QED
      BY <2>4, Names DEF ReadyQueued, Has
  <1>4. CASE SetStep
    <2>1. PICK t \in Threads, from \in Points, s \in States, to \in Points : Set(t, from, s, to)
      BY <1>4 DEF SetStep
    <2>2. /\ pc' = [pc EXCEPT ![t] = "test"] /\ old' = [old EXCEPT ![t] = sState]
          /\ pc[t] \notin SetPoints /\ (ReadyQueued => ReadyQueued') /\ sState' = s
      BY <1>4, <2>1, PointsApart DEF Set, SetStep
    <2>3. CASE sState # SIM_READY
      BY <1>0, <2>2, <2>3 DEF ReadyPending
    <2>4. CASE sState = SIM_READY /\ s = SIM_READY
      <3>1. configured' = configured
        BY <2>1, <2>4 DEF Set, TypeOK
      <3> QED
        BY <1>0, <2>2, <2>4, <3>1 DEF ReadyPending, SetPoints
    <2>5. CASE s # SIM_READY
      BY <2>2, <2>5 DEF ReadyPending
    <2> QED
      BY <2>3, <2>4, <2>5
  <1>5. CASE Calm
    BY <1>5 DEF Calm, ReadyPending, SetPoints
  <1> QED
    BY <1>1, <1>2, <1>3, <1>4, <1>5, StepKinds DEF setRadioState

\* SIM_READY always leads to onSIMReady, although setRadioState decides outside the
\* mutex whether and what to enqueue.
THEOREM ReadyConfigured == Spec => []SimReadyConfigured
  <1>1. Init => ReadyPending
    BY DEF Init, ReadyPending
  <1>2. ReadyPending => SimReadyConfigured
    BY DEF ReadyPending, SimReadyConfigured, ReadyQueued, Has, Setting, SetPoints
  <1> QED
    BY <1>1, <1>2, PendingStep, TypeCorrect, PTL DEF Spec
----------------------------------------------------------------------------
(* The radio state against the modem's radio.  While nobody is about to    *)
(* close the queues, the two agree where the normal runner serves its      *)
(* queue; between a command that switches the radio and the setRadioState  *)
(* that follows, the runner knows what the command did.                    *)

\* Where a thread is, or goes on after setRadioState.
Aim(t) == IF Setting(t) THEN ret[t] ELSE pc[t]

\* A thread is going to close the queues.
ClosePoints == {"readerclosed", "closing", "timeout"}
CloseDue == \E t \in Threads : Aim(t) \in ClosePoints

\* The normal runner works over a live channel, and goes on to.
Working == ~closed["normal"] /\ alive["normal"] /\ ~CloseDue

Serving == {"loop", "poll", "status", "answer"}
Away    == {"down", "init", "inittimeout"}

\* What the runner's command did to the modem, whoever sets the radio state.
Commanded(p) == (p = "poweron" => cfun) /\ (p = "poweroff" => ~cfun)

Agree(p) ==
  /\ p \in Serving => (sState # OFF => cfun) /\ (sState = OFF /\ cfun => assumed)
  /\ p \in {"cfun4", "isradioon"} => sState = OFF

PowerInv ==
  Working => /\ Commanded(Aim("normal"))
             /\ sState # UNAVAILABLE /\ ~overrun => Agree(Aim("normal"))

\* The points from which the queues are closed.
LEMMA ClosePointsAmong == ClosePoints \subseteq Points
  BY DEF ClosePoints, Points, RunnerPoints, ReaderPoints

\* What a step of control does to everybody's aim.
LEMMA AimGoto ==
  ASSUME TypeOK, NEW t \in Threads, NEW from \in Points, NEW to \in Points, Goto(t, from, to)
  PROVE  /\ Aim(t) = from /\ Aim(t)' = to
         /\ \A u \in Threads \ {t} : Aim(u)' = Aim(u)
         /\ UNCHANGED <<sState, overrun, assumed>>
  <1>1. /\ pc' = [pc EXCEPT ![t] = to] /\ pc[t] = from
        /\ UNCHANGED <<sState, ret, overrun, assumed>>
    BY DEF Goto, history
  <1>2. DOMAIN pc = Threads
    BY DEF TypeOK, ControlOK
  <1>3. from \notin SetPoints /\ to \notin SetPoints
    BY PointsApart
  <1> QED
    BY <1>1, <1>2, <1>3 DEF Aim, Setting

\* And the critical section of setRadioState.
LEMMA AimSet ==
  ASSUME TypeOK, NEW t \in Threads, NEW from \in Points, NEW s \in States, NEW to \in Points,
         Set(t, from, s, to)
  PROVE  /\ Aim(t) = from /\ Aim(t)' = to
         /\ \A u \in Threads \ {t} : Aim(u)' = Aim(u)
         /\ sState' = s
         /\ s \in {SIM_LOCKED_OR_ABSENT, SIM_READY} /\ ~overrun' =>
              ~overrun /\ sState \notin {OFF, UNAVAILABLE}
  <1>1. /\ pc' = [pc EXCEPT ![t] = "test"] /\ pc[t] = from /\ ret' = [ret EXCEPT ![t] = to]
        /\ sState' = s
    BY DEF Set
  <1>2. DOMAIN pc = Threads /\ DOMAIN ret = Threads
    BY DEF TypeOK, ControlOK
  <1>3. from \notin SetPoints /\ "test" \in SetPoints
    BY PointsApart DEF SetPoints
  <1>4. /\ Aim(t) = from /\ Aim(t)' = to
        /\ \A u \in Threads \ {t} : Aim(u)' = Aim(u)
    BY <1>1, <1>2, <1>3 DEF Aim, Setting
  <1>5. s \in {SIM_LOCKED_OR_ABSENT, SIM_READY} /\ ~overrun' =>
              ~overrun /\ sState \notin {OFF, UNAVAILABLE}
    BY Zenon DEF Set
  <1> QED
    BY <1>1, <1>4, <1>5

\* The steps of setRadioState outside the mutex keep everybody's aim.
LEMMA AimSetting ==
  ASSUME TypeOK, NEW t \in Threads, setRadioState(t)
  PROVE  /\ \A u \in Threads : Aim(u)' = Aim(u)
         /\ UNCHANGED <<sState, overrun, assumed, cfun, closed, alive>>
  <1>1. /\ UNCHANGED <<sState, ret, overrun, assumed, cfun, closed, alive>>
        /\ pc[t] \in SetPoints
        /\ \E to \in {"notify", "enqueue", ret[t]} : pc' = [pc EXCEPT ![t] = to]
    BY DEF setRadioState, setRadioStateTest, setRadioStateNotify, setRadioStateEnqueue, Goto,
           history, queues, modem, SetPoints
  <1>2. DOMAIN pc = Threads /\ ret[t] \in Points
    BY DEF TypeOK, ControlOK, Points
  <1>3. ret[t] \notin SetPoints /\ {"notify", "enqueue"} \subseteq SetPoints
    BY <1>2, PointsApart DEF SetPoints
  <1>4. PICK to \in {"notify", "enqueue", ret[t]} : pc' = [pc EXCEPT ![t] = to]
    BY <1>1
  <1>5. Aim(t)' = Aim(t)
    BY <1>1, <1>2, <1>3, <1>4 DEF Aim, Setting
  <1>6. ASSUME NEW u \in Threads, u # t PROVE Aim(u)' = Aim(u)
    BY <1>1, <1>2, <1>4, <1>6 DEF Aim, Setting
  <1> QED
    BY <1>1, <1>5, <1>6

\* Somebody is going to close the queues: nothing is said of the radio.
LEMMA PowerDue ==
  ASSUME NEW t \in Threads, Aim(t)' \in ClosePoints
  PROVE  PowerInv'
  BY DEF PowerInv, Working, CloseDue

\* The normal runner was working if it is after a step of thread t, unless the
\* step opens its channel or closes the queues.
LEMMA WorkingKept ==
  ASSUME NEW t \in Threads, \A u \in Threads \ {t} : Aim(u)' = Aim(u),
         Aim(t) \in ClosePoints => Aim(t)' \in ClosePoints,
         ~closed["normal"] \/ closed'["normal"], alive["normal"] \/ ~alive'["normal"]
  PROVE  Working' => Working
  <1>1. CloseDue => CloseDue'
    BY DEF CloseDue
  <1> QED
    BY <1>1 DEF Working

\* Nothing changes that the invariant is about, or the radio becomes
\* unavailable; the runner may move where it serves its queue, or away.
LEMMA PowerKept ==
  ASSUME PowerInv, Working' => Working,
         \/ UNCHANGED <<sState, overrun, assumed>>
         \/ sState' = UNAVAILABLE,
         \/ Aim("normal")' \in Away
         \/ /\ UNCHANGED cfun
            /\ \/ Aim("normal")' = Aim("normal")
               \/ Aim("normal") \in Serving /\ Aim("normal")' \in Serving
  PROVE  PowerInv'
  <1> SUFFICES ASSUME Working'
               PROVE  /\ Commanded(Aim("normal"))'
                      /\ sState' # UNAVAILABLE /\ ~overrun' => Agree(Aim("normal"))'
    BY DEF PowerInv
  <1>1. /\ Commanded(Aim("normal"))
        /\ sState # UNAVAILABLE /\ ~overrun => Agree(Aim("normal"))
    BY DEF PowerInv
  <1>2. Commanded(Aim("normal"))'
    BY <1>1 DEF Commanded, Away, Serving
  <1>3. ASSUME sState' # UNAVAILABLE, ~overrun' PROVE Agree(Aim("normal"))'
    <2>1. UNCHANGED <<sState, assumed>> /\ Agree(Aim("normal"))
      BY <1>1, <1>3
    <2>2. CASE Aim("normal")' \in Away
      BY <2>2 DEF Agree, Away, Serving
    <2>3. CASE UNCHANGED cfun /\ Aim("normal")' = Aim("normal")
      BY <2>1, <2>3 DEF Agree
    <2>4. CASE UNCHANGED cfun /\ Aim("normal") \in Serving /\ Aim("normal")' \in Serving
      BY <2>1, <2>4 DEF Agree, Serving
    <2> QED
      BY <2>2, <2>3, <2>4
  <1> QED
    BY <1>2, <1>3

\* A step of control of thread t.
LEMMA PowerGoto ==
  ASSUME TypeOK, PowerInv, NEW t \in Threads, NEW from \in Points \ ClosePoints, NEW to \in Points,
         Goto(t, from, to), UNCHANGED <<closed, alive>>,
         \/ t = "normal" /\ to \in Away
         \/ UNCHANGED cfun /\ (t = "normal" => from \in Serving /\ to \in Serving)
  PROVE  PowerInv'
  <1>1. /\ Aim(t) = from /\ Aim(t)' = to
        /\ \A u \in Threads \ {t} : Aim(u)' = Aim(u)
        /\ UNCHANGED <<sState, overrun, assumed>>
    BY AimGoto
  <1>2. Working' => Working
    BY <1>1, WorkingKept
  <1>3. "normal" \in Threads
    BY Names
  <1> QED
    BY <1>1, <1>2, <1>3, PowerKept

\* A SIM state is set: over OFF or UNAVAILABLE it is an overrun.
LEMMA PowerSim ==
  ASSUME TypeOK, PowerInv, NEW t \in Threads, NEW from \in Points \ ClosePoints,
         NEW s \in {SIM_LOCKED_OR_ABSENT, SIM_READY}, NEW to \in Points,
         Set(t, from, s, to), UNCHANGED <<cfun, closed, alive>>,
         t = "normal" => from \in Serving /\ to \in Serving
  PROVE  PowerInv'
  <1>0. s \in States /\ s # OFF /\ s # UNAVAILABLE
    BY DEF States, SIM_LOCKED_OR_ABSENT, SIM_READY, OFF, UNAVAILABLE
  <1>1. /\ Aim(t) = from /\ Aim(t)' = to
        /\ \A u \in Threads \ {t} : Aim(u)' = Aim(u)
        /\ sState' = s
        /\ ~overrun' => ~overrun /\ sState \notin {OFF, UNAVAILABLE}
    BY <1>0, AimSet
  <1>2. Working' => Working
    BY <1>1, WorkingKept
  <1>3. \/ Aim("normal")' = Aim("normal")
        \/ Aim("normal") \in Serving /\ Aim("normal")' \in Serving
    BY <1>1, Names
  <1> SUFFICES ASSUME Working'
               PROVE  /\ Commanded(Aim("normal"))'
                      /\ ~overrun' => Agree(Aim("normal"))'
    BY DEF PowerInv
  <1>4. Commanded(Aim("normal"))'
    BY <1>2, <1>3 DEF PowerInv, Commanded, Serving
  <1>5. ASSUME ~overrun' PROVE Agree(Aim("normal"))'
    <2>1. Agree(Aim("normal")) /\ sState # OFF
      BY <1>1, <1>2, <1>5 DEF PowerInv
    <2>2. CASE Aim("normal")' = Aim("normal")
      BY <1>0, <1>1, <2>1, <2>2 DEF Agree
    <2>3. CASE Aim("normal") \in Serving /\ Aim("normal")' \in Serving
      BY <1>0, <1>1, <2>1, <2>3 DEF Agree, Serving
    <2> QED
      BY <1>3, <2>2, <2>3
  <1> QED
    BY <1>4, <1>5

\* A time-out outside the initialisation, where the queues are closed next.
LEMMA PowerTimeout ==
  ASSUME TypeOK, NEW c \in Channels, NEW from \in Points, NEW to \in ClosePoints,
         CommandTimeout(c, from, to)
  PROVE  PowerInv'
  <1>1. UNAVAILABLE \in States /\ c \in Threads
    BY Names DEF States
  <1>2. to \in Points
    BY ClosePointsAmong
  <1>3. Aim(c)' = to
    BY <1>1, <1>2, AimSet DEF CommandTimeout
  <1> QED
    BY <1>1, <1>3, PowerDue

\* The normal runner sets the state after a command of its own: it knows the
\* radio by then.
LEMMA PowerKnown ==
  ASSUME TypeOK, PowerInv, NEW from \in Points \ ClosePoints, NEW s \in {OFF, SIM_NOT_READY},
         NEW to \in Points, Set("normal", from, s, to), UNCHANGED <<closed, alive, cfun>>,
         \/ to = "cfun4" /\ s = OFF
         \/ to = "loop" /\ (Working /\ Commanded(from) => (s # OFF <=> cfun))
  PROVE  PowerInv'
  <1>0. "normal" \in Threads /\ s \in States
    BY Names DEF States, OFF, SIM_NOT_READY
  <1>1. /\ Aim("normal") = from /\ Aim("normal")' = to /\ sState' = s
        /\ \A u \in Threads \ {"normal"} : Aim(u)' = Aim(u)
    BY <1>0, AimSet
  <1>2. Working' => Working
    BY <1>0, <1>1, WorkingKept
  <1> SUFFICES ASSUME Working'
               PROVE  Commanded(to)' /\ Agree(to)'
    BY <1>1 DEF PowerInv
  <1>3. Commanded(to)'
    BY DEF Commanded
  <1>4. CASE to = "cfun4" /\ s = OFF
    BY <1>1, <1>3, <1>4 DEF Agree, Serving
  <1>5. CASE to = "loop" /\ (Working /\ Commanded(from) => (s # OFF <=> cfun))
    <2>1. Commanded(from)
      BY <1>1, <1>2 DEF PowerInv
    <2>2. s # OFF <=> cfun
      BY <1>2, <1>5, <2>1
    <2> QED
      BY <1>1, <1>3, <1>5, <2>2 DEF Agree
  <1> QED
    BY <1>4, <1>5

\* Requests and initializeChannel.
LEMMA PowerNormal ==
  ASSUME TypeOK, PowerInv, NormalStep
  PROVE  PowerInv'
  <1>n. "normal" \in Channels /\ "normal" \in Threads
    BY Names
  <1>p. /\ {"loop", "poweron", "poweroff", "init", "cfun4", "isradioon", "down", "inittimeout"}
             \subseteq Points \ ClosePoints
        /\ "closing" \in ClosePoints
        /\ {"loop"} \subseteq Serving /\ {"down", "inittimeout"} \subseteq Away
    BY DEF Points, RunnerPoints, ClosePoints, Serving, Away
  <1>1. CASE requestRadioPower
    <2> DEFINE on == Head(request) = "on"
    <2>0. UNCHANGED <<closed, alive>>
      BY <1>1 DEF requestRadioPower
    <2>1. CASE UNCHANGED <<setter, history, cfun>>
      <3>1. UNCHANGED <<pc, ret, sState, overrun, assumed, cfun>>
        BY <2>1 DEF setter, history
      <3>2. \A u \in Threads : Aim(u)' = Aim(u)
        BY <3>1 DEF Aim, Setting
      <3>3. Working' => Working
        BY <2>0, <3>2, <1>n, WorkingKept
      <3> QED
        BY <3>1, <3>2, <3>3, <1>n, PowerKept
    <2>2. CASE CommandTimeout("normal", "loop", "closing")
      BY <2>2, <1>n, <1>p, PowerTimeout
    <2>3. CASE cfun' = on /\ Goto("normal", "loop", IF on THEN "poweron" ELSE "poweroff")
      <3>1. PICK to \in {"poweron", "poweroff"} :
              Goto("normal", "loop", to) /\ (to = "poweron" => cfun') /\ (to = "poweroff" => ~cfun')
        <4>1. CASE on
          BY <2>3, <4>1
        <4>2. CASE ~on
          BY <2>3, <4>2
        <4> QED
          BY <4>1, <4>2
      <3>2. Aim("normal")' = to
        BY <1>n, <1>p, <3>1, AimGoto
      <3>3. Commanded(to)' /\ Agree(to)'
        BY <3>1 DEF Commanded, Agree, Serving
      <3> QED
        BY <3>2, <3>3 DEF PowerInv
    <2> QED
      BY <1>1, <2>1, <2>2, <2>3 DEF requestRadioPower
  <1>2. CASE PowerChanged
    <2>0. UNCHANGED <<closed, alive, cfun>>
      BY <1>2 DEF PowerChanged, queues, modem
    <2>1. CASE Set("normal", "poweron", SIM_NOT_READY, "loop")
      <3>1. Commanded("poweron") => (SIM_NOT_READY # OFF <=> cfun)
        BY DEF Commanded, SIM_NOT_READY, OFF
      <3> QED
        BY <1>p, <2>0, <2>1, <3>1, PowerKnown
    <2>2. CASE Set("normal", "poweroff", OFF, "loop")
      <3>1. Commanded("poweroff") => (OFF # OFF <=> cfun)
        BY DEF Commanded
      <3> QED
        BY <1>p, <2>0, <2>2, <3>1, PowerKnown
    <2> QED
      BY <1>2, <2>1, <2>2 DEF PowerChanged
  <1>3. CASE initializeChannel
    <2>0. UNCHANGED <<closed, alive>>
      BY <1>3 DEF initializeChannel, queues
    <2>1. CASE Set("normal", "init", OFF, "cfun4") /\ UNCHANGED cfun
      BY <1>p, <2>0, <2>1, PowerKnown
    <2>2. CASE Goto("normal", "cfun4", "isradioon")
      <3>1. /\ Aim("normal") = "cfun4" /\ Aim("normal")' = "isradioon"
            /\ \A u \in Threads \ {"normal"} : Aim(u)' = Aim(u)
            /\ UNCHANGED <<sState, overrun, assumed>>
        BY <1>n, <1>p, <2>2, AimGoto
      <3>2. Working' => Working
        BY <1>n, <1>p, <2>0, <3>1, WorkingKept
      <3>3. Commanded("isradioon")'
        BY DEF Commanded
      <3>4. Agree("cfun4") => Agree("isradioon")'
        BY <3>1 DEF Agree, Serving
      <3> QED
        BY <3>1, <3>2, <3>3, <3>4 DEF PowerInv
    <2>3. CASE Goto("normal", "cfun4", "down")
      BY <1>n, <1>p, <2>0, <2>3, PowerGoto
    <2>4. CASE CommandTimeout("normal", "cfun4", "inittimeout")
      <3>1. /\ Aim("normal") = "cfun4" /\ Aim("normal")' = "inittimeout"
            /\ \A u \in Threads \ {"normal"} : Aim(u)' = Aim(u)
            /\ sState' = UNAVAILABLE
        BY <1>n, <1>p, <2>4, AimSet DEF CommandTimeout, States
      <3>2. Working' => Working
        BY <1>n, <1>p, <2>0, <3>1, WorkingKept
      <3> QED
        BY <1>p, <3>1, <3>2, PowerKept
    <2>5. CASE cfun /\ Set("normal", "isradioon", SIM_NOT_READY, "loop") /\ UNCHANGED cfun
      <3>1. SIM_NOT_READY # OFF <=> cfun
        BY <2>5 DEF SIM_NOT_READY, OFF
      <3> QED
        BY <1>p, <2>0, <2>5, <3>1, PowerKnown
    <2>6. CASE /\ ~cfun \/ ~alive["normal"]
               /\ Goto("normal", "isradioon", "loop") /\ UNCHANGED cfun
      <3>1. /\ Aim("normal") = "isradioon" /\ Aim("normal")' = "loop"
            /\ \A u \in Threads \ {"normal"} : Aim(u)' = Aim(u)
            /\ UNCHANGED <<sState, overrun, assumed, cfun>>
        BY <1>n, <1>p, <2>6, AimGoto
      <3>2. Working' => Working /\ alive["normal"]
        BY <1>n, <1>p, <2>0, <3>1, WorkingKept DEF Working
      <3>3. Commanded("loop")'
        BY DEF Commanded
      <3>4. Agree("isradioon") /\ ~cfun => Agree("loop")'
        BY <3>1 DEF Agree, Serving
      <3> QED
        BY <2>6, <3>1, <3>2, <3>3, <3>4 DEF PowerInv
    <2>7. CASE CommandTimeout("normal", "isradioon", "closing")
      BY <1>n, <1>p, <2>7, PowerTimeout
    <2>8. CASE isRadioOnError /\ UNCHANGED cfun
      <3>1. /\ pc["normal"] = "isradioon" /\ pc' = [pc EXCEPT !["normal"] = "loop"]
            /\ assumed' = cfun' /\ UNCHANGED <<sState, ret, overrun>>
        BY <2>8 DEF isRadioOnError
      <3>2. /\ Aim("normal") = "isradioon" /\ Aim("normal")' = "loop"
            /\ \A u \in Threads \ {"normal"} : Aim(u)' = Aim(u)
        BY <1>n, <3>1, PointsApart DEF Aim, Setting, TypeOK, ControlOK
      <3>3. Working' => Working
        BY <1>n, <1>p, <2>0, <3>2, WorkingKept
      <3>4. Commanded("loop")'
        BY DEF Commanded
      <3>5. Agree("isradioon") => Agree("loop")'
        BY <3>1 DEF Agree, Serving
      <3> QED
        BY <3>1, <3>2, <3>3, <3>4, <3>5 DEF PowerInv
    <2> QED
      BY <1>3, <2>1, <2>2, <2>3, <2>4, <2>5, <2>6, <2>7, <2>8, Zenon DEF initializeChannel
  <1> QED
    BY <1>1, <1>2, <1>3 DEF NormalStep

\* Events and the poll.
LEMMA PowerEvent ==
  ASSUME TypeOK, PowerInv, NEW c \in Channels, EventStep(c)
  PROVE  PowerInv'
  <1>0. c \in Threads
    BY Names
  <1>p. /\ {"loop", "poll", "status", "answer"} \subseteq Points \ ClosePoints
        /\ {"loop", "poll", "status", "answer"} = Serving
        /\ "closing" \in ClosePoints /\ "timeout" \in ClosePoints
    BY DEF Points, RunnerPoints, ClosePoints, Serving
  <1>k. UNCHANGED <<closed, alive, cfun>>
    BY DEF EventStep, onRadioPowerOn, onSIMReady, resetSim, takePoll, pollSIMState, getSIMStatus,
           pollAnswer, queues, modem
  <1>a. ASSUME NEW from \in Serving, NEW to \in Serving, Goto(c, from, to)
        PROVE  PowerInv'
    BY <1>a, <1>0, <1>p, <1>k, PowerGoto
  <1>b. ASSUME NEW from \in Serving, NEW to \in ClosePoints, CommandTimeout(c, from, to)
        PROVE  PowerInv'
    BY <1>b, <1>p, PowerTimeout
  <1>c. ASSUME UNCHANGED <<setter, overrun, assumed>>
        PROVE  PowerInv'
    <2>1. UNCHANGED <<pc, ret, sState, overrun, assumed>>
      BY <1>c DEF setter
    <2>2. \A u \in Threads : Aim(u)' = Aim(u)
      BY <2>1 DEF Aim, Setting
    <2>3. Working' => Working
      BY <1>0, <1>k, <2>2, WorkingKept
    <2> QED
      BY <1>k, <2>1, <2>2, <2>3, Names, PowerKept
  <1>d. ASSUME NEW s \in {SIM_LOCKED_OR_ABSENT, SIM_READY}, Set(c, "answer", s, "loop")
        PROVE  PowerInv'
    BY <1>d, <1>0, <1>p, <1>k, PowerSim
  <1>1. CASE onRadioPowerOn(c) \/ onSIMReady(c)
    BY <1>1, <1>c DEF onRadioPowerOn, onSIMReady, history
  <1>2. CASE resetSim(c)
    BY <1>2, <1>a, <1>b, <1>c, <1>p DEF resetSim, history
  <1>3. CASE takePoll(c)
    BY <1>3, <1>a, <1>p DEF takePoll
  <1>4. CASE pollSIMState(c)
    BY <1>4, <1>a, <1>p DEF pollSIMState
  <1>5. CASE getSIMStatus(c)
    BY <1>5, <1>a, <1>b, <1>p DEF getSIMStatus
  <1>6. CASE pollAnswer(c)
    BY <1>6, <1>a, <1>d, <1>p DEF pollAnswer
  <1> QED
    BY <1>1, <1>2, <1>3, <1>4, <1>5, <1>6 DEF EventStep

\* The callbacks of a lost or mute channel.
LEMMA PowerClosing ==
  ASSUME TypeOK, PowerInv, NEW t \in Threads, onATReaderClosed(t) \/ signalCloseQueues(t)
  PROVE  PowerInv'
  <1>1. CASE onATReaderClosed(t)
    <2>0. /\ "readerclosed" \in Points /\ "closing" \in Points /\ "closing" \in ClosePoints
          /\ UNAVAILABLE \in States
      BY DEF Points, ReaderPoints, ClosePoints, States
    <2>1. Aim(t)' = "closing"
      BY <1>1, <2>0, AimGoto, AimSet DEF onATReaderClosed
    <2> QED
      BY <2>0, <2>1, PowerDue
  <1>2. CASE signalCloseQueues(t)
    <2>1. closed'["normal"]
      BY <1>2, Names DEF signalCloseQueues
    <2> QED
      BY <2>1 DEF PowerInv, Working
  <1> QED
    BY <1>1, <1>2

\* Losing and opening channels.
LEMMA PowerChannel ==
  ASSUME TypeOK, PowerInv, NEW c \in Channels, at_close(c) \/ Reopen(c) \/ HangUp(c)
  PROVE  PowerInv'
  <1> DEFINE r == ReaderOf(c)
  <1>0. /\ c \in Threads /\ r \in Threads /\ r # c /\ r # "normal" /\ "normal" \in Channels
        /\ c \notin Readers /\ "normal" \in Threads
    BY Names DEF ReaderOf
  <1>p. /\ {"read", "readerclosed", "exited", "down", "init", "loop"} \subseteq Points
        /\ {"read", "exited", "down", "init", "loop"} \cap ClosePoints = {}
        /\ "readerclosed" \in ClosePoints /\ {"init", "down"} \subseteq Away
        /\ {"read", "exited", "down", "init", "loop"} \cap SetPoints = {}
    BY DEF Points, RunnerPoints, ReaderPoints, ClosePoints, SetPoints, Away
  <1>t. /\ DOMAIN pc = Threads /\ DOMAIN alive = Channels /\ DOMAIN closed = Channels
    BY DEF TypeOK, ControlOK
  <1>1. CASE HangUp(c)
    <2>1. Aim(r)' = "readerclosed"
      BY <1>0, <1>1, <1>p, AimGoto DEF HangUp
    <2> QED
      BY <1>0, <1>p, <2>1, PowerDue
  <1>2. CASE c = "normal" /\ at_close(c)
    <2>1. ~alive'["normal"]
      BY <1>2, <1>t, <1>0 DEF at_close
    <2> QED
      BY <2>1 DEF PowerInv, Working
  <1>3. CASE c = "normal" /\ Reopen(c)
    <2>1. Aim("normal")' = "init"
      BY <1>0, <1>3, <1>p, <1>t DEF Reopen, Aim, Setting
    <2>2. Commanded("init")' /\ Agree("init")'
      BY DEF Commanded, Agree, Serving
    <2> QED
      BY <2>1, <2>2 DEF PowerInv
  <1>4. CASE c # "normal" /\ (at_close(c) \/ Reopen(c))
    <2>1. UNCHANGED <<sState, overrun, assumed, cfun, ret>>
      BY <1>4 DEF at_close, Reopen, history
    <2>2. alive'["normal"] = alive["normal"] /\ closed'["normal"] = closed["normal"]
      BY <1>4, <1>0, <1>t DEF at_close, Reopen, queues
    <2>3. /\ pc[c] \notin SetPoints /\ pc[c] \notin ClosePoints
          /\ pc[r] # "read" => pc'[r] = pc[r] \/ pc[r] = "exited"
          /\ pc'[c] \in {"down", "loop"}
          /\ pc'[r] \in {pc[r], "read", "exited"}
          /\ \A u \in Threads \ {c, r} : pc'[u] = pc[u]
      BY <1>0, <1>4, <1>p, <1>t DEF at_close, Reopen
    <2>4. Aim(c) \notin ClosePoints
      BY <2>3 DEF Aim, Setting
    <2>5. Aim(r)' = Aim(r) \/ Aim(r) \notin ClosePoints
      BY <1>p, <2>1, <2>3 DEF Aim, Setting
    <2>6. \A u \in Threads \ {c, r} : Aim(u)' = Aim(u)
      BY <2>1, <2>3 DEF Aim, Setting
    <2>7. CloseDue => CloseDue'
      BY <2>4, <2>5, <2>6 DEF CloseDue
    <2>8. Working' => Working
      BY <2>2, <2>7 DEF Working
    <2>9. Aim("normal")' = Aim("normal")
      BY <1>0, <1>4, <2>6
    <2> QED
      BY <2>1, <2>8, <2>9, PowerKept
  <1> QED
    BY <1>1, <1>2, <1>3, <1>4

\* Unsolicited lines.
LEMMA PowerUnsolicited ==
  ASSUME TypeOK, PowerInv, NEW c \in Channels, onUnsolicited(c) \/ SimRemoved(c)
  PROVE  PowerInv'
  <1> DEFINE r == ReaderOf(c)
  <1>0. /\ r \in Threads /\ r # "normal"
        /\ {"read", "removed"} \subseteq Points \ ClosePoints
    BY Names DEF Points, ReaderPoints, ClosePoints
  <1>k. UNCHANGED <<closed, alive, cfun>>
    BY DEF onUnsolicited, SimRemoved, queues, modem
  <1>1. CASE onUnsolicited(c)
    <2>1. PICK to \in {"removed", "read"} : Goto(r, "read", to)
      BY <1>1 DEF onUnsolicited
    <2> QED
      BY <1>0, <1>k, <2>1, PowerGoto
  <1>2. CASE SimRemoved(c)
    BY <1>0, <1>2, <1>k, PowerSim DEF SimRemoved
  <1> QED
    BY <1>1, <1>2

\* Every step keeps the agreement.
LEMMA PowerStep ==
  ASSUME TypeOK, PowerInv, [Next]_vars
  PROVE  PowerInv'
  <1>a. ASSUME UNCHANGED <<setter, history, closed, alive, cfun>>
        PROVE  PowerInv'
    <2>1. UNCHANGED <<pc, ret, sState, overrun, assumed, closed, alive, cfun>>
      BY <1>a DEF setter, history
    <2>2. \A u \in Threads : Aim(u)' = Aim(u)
      BY <2>1 DEF Aim, Setting
    <2>3. Working' => Working
      BY <2>1, <2>2, Names, WorkingKept
    <2> QED
      BY <2>1, <2>2, <2>3, Names, PowerKept
  <1>1. ASSUME NEW t \in Threads, setRadioState(t)
        PROVE  PowerInv'
    <2>1. /\ \A u \in Threads : Aim(u)' = Aim(u)
          /\ UNCHANGED <<sState, overrun, assumed, cfun, closed, alive>>
      BY <1>1, AimSetting
    <2>2. Working' => Working
      BY <2>1, Names, WorkingKept
    <2> QED
      BY <2>1, <2>2, Names, PowerKept
  <1>2. ASSUME NEW t \in Threads, onATReaderClosed(t) \/ signalCloseQueues(t)
        PROVE  PowerInv'
    BY <1>2, PowerClosing
  <1>3. ASSUME NEW c \in Channels, EventStep(c) \/ at_close(c) \/ Reopen(c)
        PROVE  PowerInv'
    BY <1>3, PowerEvent, PowerChannel
  <1>4. CASE NormalStep
    BY <1>4, PowerNormal
  <1>5. ASSUME NEW c \in Channels, onUnsolicited(c) \/ SimRemoved(c) \/ HangUp(c)
        PROVE  PowerInv'
    BY <1>5, PowerUnsolicited, PowerChannel
  <1>6. ASSUME NEW e \in {"poll", "resetSim"}, Expire(e)
        PROVE  PowerInv'
    BY <1>6, <1>a DEF Expire, modem
  <1>7. CASE SimStarts \/ SimChanges \/ RadioPower
    BY <1>7, <1>a DEF SimStarts, SimChanges, SimOther, RadioPower, queues, modem
  <1>8. CASE UNCHANGED vars
    BY <1>8, <1>a DEF vars, queues, modem
  <1> QED
    BY <1>1, <1>2, <1>3, <1>4, <1>5, <1>6, <1>7, <1>8 DEF Next

\* The radio state tells whether the modem's radio is on whenever the normal
\* runner serves its queue; a radio that is on is taken to be off only where
\* isRadioOn failed after AT+CFUN=4 had not switched it off.
THEOREM PowerAlwaysAgrees == Spec => []PowerAgrees
  <1>1. Init => PowerInv
    BY Names DEF Init, PowerInv, Working
  <1>2. TypeOK /\ PowerInv /\ [Next]_vars => PowerInv'
    BY PowerStep
  <1>3. TypeOK /\ PowerInv => PowerAgrees
    <2> SUFFICES ASSUME TypeOK, PowerInv, pc["normal"] = "loop", ~closed["normal"], alive["normal"],
                        \A t \in Threads : pc[t] \notin {"readerclosed", "closing", "timeout"}
                                        /\ ~Setting(t),
                        sState # UNAVAILABLE, ~overrun
                 PROVE  (sState # OFF => cfun) /\ (sState = OFF /\ cfun => assumed)
      BY DEF PowerAgrees
    <2>1. \A t \in Threads : Aim(t) = pc[t]
      BY DEF Aim
    <2>2. Working
      BY <2>1 DEF Working, CloseDue, ClosePoints
    <2>3. Agree("loop")
      BY <2>1, <2>2, Names DEF PowerInv
    <2> QED
      BY <2>3 DEF Agree, Serving
  <1> QED
    BY <1>1, <1>2, <1>3, TypeCorrect, PTL DEF Spec
=============================================================================
