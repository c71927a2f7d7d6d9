----------------------------- MODULE RadioState -----------------------------
(***************************************************************************)
(* The radio state of the MBM RIL and everybody who sets it: the queue     *)
(* runners (RIL_REQUEST_RADIO_POWER, initializeChannel, pollSIMState,      *)
(* onATTimeout) and the reader threads (onSimHotswap, onATReaderClosed),   *)
(* in u300-ril.c and u300-ril-sim.c.                                       *)
(*                                                                         *)
(* setRadioState changes sState under s_state_mutex and looks at it again  *)
(* after the unlock, when RIL_onUnsolicitedResponse asks for it and when   *)
(* that returns: each look is a step of its own (between two calls the     *)
(* compiler may keep one read).  So is the answer of a command, which is   *)
(* used after other threads have run.                                      *)
(* Opening a channel and closing the queues are one step each: module      *)
(* RilQueues has them in detail.                                           *)
(***************************************************************************)
EXTENDS Integers, Sequences, FiniteSets

CONSTANTS
  HasPrio,      \* RIL_Init was given a priority channel (-x)
  Workloads     \* the bounds, one choice of which a behaviour has

UNAVAILABLE          == "UNAVAILABLE"
OFF                  == "OFF"
SIM_NOT_READY        == "SIM_NOT_READY"
SIM_LOCKED_OR_ABSENT == "SIM_LOCKED_OR_ABSENT"
SIM_READY            == "SIM_READY"
States == {UNAVAILABLE, OFF, SIM_NOT_READY, SIM_LOCKED_OR_ABSENT, SIM_READY}

\* A channel has a queue runner and a reader thread.
Channels == IF HasPrio THEN {"normal", "prio"} ELSE {"normal"}
ReaderOf(c) == IF c = "normal" THEN "reader" ELSE "prioreader"
Readers == {ReaderOf(c) : c \in Channels}
Threads == Channels \cup Readers

\* The channel of what belongs on the priority queue.
PRIO == IF HasPrio THEN "prio" ELSE "normal"

\* Events by callback; "poll1" is pollSIMState with param 1.
Events == {"poll", "poll1", "onSIMReady", "resetSim", "onRadioPowerOn"}

\* How many RADIO_POWER requests, how many changes of the SIM, its start apart, and
\* how many faults: hang-ups and commands that time out or are refused.
Workload == [power : Nat, changes : Nat, faults : Nat]

ASSUME RadioStateAssumption ==
  HasPrio \in BOOLEAN /\ Workloads \subseteq Workload

VARIABLES
  sState,      \* the radio state
  seen,        \* the state the framework was last told
  sim_hotswap, \* a SIM was inserted: the modem restarts on purpose
  pc,          \* control point of each thread
  old,         \* oldState of each thread's setRadioState
  ret,         \* where it goes on after setRadioState
  answer,      \* per channel: what the runner's last command brought
  param,       \* per channel: the param of the runner's pollSIMState
  queue,       \* per channel: its events that are due
  later,       \* delayed events of the priority queue, how many of each
  request,     \* RADIO_POWER requests on the normal queue: "on", "off"
  closed,      \* per channel: the closed flag of its queue
  alive,       \* per channel: commands can succeed
  cfun,        \* the modem's radio is on
  sim,         \* the modem's SIM
  restart,     \* channels the modem is going to drop after a SIM was inserted
  lines,       \* per channel: unsolicited lines for its reader
  power, changes, faults,  \* what is left of the bounds
  configured,  \* history: onSIMReady ran since the state became SIM_READY
  overrun,     \* history: a SIM state was set over OFF or UNAVAILABLE
  assumed      \* history: the state is OFF because isRadioOn failed, of a radio that was on

setter  == <<sState, pc, old, ret>>
runner  == <<answer, param>>
queues  == <<queue, later, request, closed>>
modem   == <<alive, cfun, sim, restart, lines>>
bounds  == <<power, changes, faults>>
history == <<configured, overrun, assumed>>
vars    == <<setter, seen, sim_hotswap, runner, queues, modem, bounds, history>>

SimStates == {"absent", "not_ready", "pin", "poweroff", "ready"}

----------------------------------------------------------------------------
(* setRadioState *)

\* Variant: oldState is read after the assignment.
Set_OldAfter(t, from, s, to) ==
  /\ pc[t] = from
  /\ pc' = [pc EXCEPT ![t] = "test"]
  /\ old' = [old EXCEPT ![t] = s]
  /\ ret' = [ret EXCEPT ![t] = to]
  /\ sState' = s
  /\ UNCHANGED history

\* Under s_state_mutex: called by thread t at control point `from`, which goes
\* on at `to` afterwards.
Set(t, from, s, to) ==
  /\ pc[t] = from
  /\ pc' = [pc EXCEPT ![t] = "test"]
  /\ old' = [old EXCEPT ![t] = sState]
  /\ ret' = [ret EXCEPT ![t] = to]
  /\ sState' = s
  /\ configured' = (configured /\ ~(s = SIM_READY /\ sState # SIM_READY))
  /\ overrun' = IF s \in {SIM_LOCKED_OR_ABSENT, SIM_READY}
                THEN overrun \/ sState \in {OFF, UNAVAILABLE}
                ELSE FALSE
  /\ assumed' = FALSE

\* Thread t only moves on.
Goto(t, from, to) ==
  /\ pc[t] = from
  /\ pc' = [pc EXCEPT ![t] = to]
  /\ UNCHANGED <<sState, old, ret, history>>

\* Outside the mutex: is there anything to tell?
setRadioStateTest(t) ==
  /\ pc[t] = "test"
  /\ pc' = [pc EXCEPT ![t] =
       IF sState # old[t] \/ sState = SIM_LOCKED_OR_ABSENT THEN "notify" ELSE ret[t]]
  /\ UNCHANGED <<sState, old, ret, seen, sim_hotswap, runner, queues, modem, bounds, history>>

\* RIL_UNSOL_RESPONSE_RADIO_STATE_CHANGED: the RIL library asks currentState().
setRadioStateNotify(t) ==
  /\ Goto(t, "notify", "enqueue")
  /\ seen' = sState
  /\ UNCHANGED <<sim_hotswap, runner, queues, modem, bounds>>

\* Variant: the event is queued only after SIM_NOT_READY.
setRadioStateEnqueue_FirstTime(t) ==
  /\ Goto(t, "enqueue", ret[t])
  /\ queue' = IF old[t] = SIM_NOT_READY /\ sState = SIM_READY
              THEN [queue EXCEPT ![PRIO] = Append(@, "onSIMReady")] ELSE queue
  /\ UNCHANGED <<later, request, closed, seen, sim_hotswap, runner, modem, bounds>>

\* The event for the state that sState holds by now.
setRadioStateEnqueue(t) ==
  /\ Goto(t, "enqueue", ret[t])
  /\ \/ /\ sState = SIM_READY
        /\ queue' = [queue EXCEPT ![PRIO] = Append(@, "onSIMReady")]
     \/ /\ sState = SIM_NOT_READY
        /\ queue' = [queue EXCEPT !["normal"] = Append(@, "onRadioPowerOn")]
     \/ sState \notin {SIM_READY, SIM_NOT_READY} /\ UNCHANGED queue
  /\ UNCHANGED <<later, request, closed, seen, sim_hotswap, runner, modem, bounds>>

----------------------------------------------------------------------------
(* Commands of a runner *)

Fault == faults > 0 /\ faults' = faults - 1

\* at_send_command* times out: onATTimeout makes the radio unavailable, and the
\* runner goes on at `to`, where it closes the queues.
CommandTimeout(c, from, to) ==
  /\ alive[c] /\ Fault
  /\ Set(c, from, UNAVAILABLE, to)

\* RADIO_POWER: the test of the state and the answer of AT+CFUN.  A command that
\* is lost with the channel may have been executed.
requestRadioPower ==
  LET on    == Head(request) = "on"
      legal == IF on THEN sState = OFF ELSE sState # OFF
  IN
  /\ pc["normal"] = "loop" /\ ~closed["normal"] /\ request # <<>>
  /\ request' = Tail(request)
  /\ \/ /\ sState = UNAVAILABLE \/ ~legal       \* refused
        /\ UNCHANGED <<setter, history, cfun, faults>>
     \/ /\ sState # UNAVAILABLE /\ legal
        /\ \/ /\ alive["normal"]
              /\ cfun' = on
              /\ Goto("normal", "loop", IF on THEN "poweron" ELSE "poweroff")
              /\ UNCHANGED faults
           \/ /\ alive["normal"] /\ Fault       \* an error response
              /\ UNCHANGED <<setter, history, cfun>>
           \/ /\ ~alive["normal"]
              /\ UNCHANGED <<setter, history, cfun, faults>>
           \/ /\ CommandTimeout("normal", "loop", "closing")
              /\ cfun' \in {cfun, on}
  /\ UNCHANGED <<seen, sim_hotswap, runner, queue, later, closed, alive, sim, restart, lines,
                 power, changes>>

\* Its setRadioState.
PowerChanged ==
  /\ \/ Set("normal", "poweron", SIM_NOT_READY, "loop")
     \/ Set("normal", "poweroff", OFF, "loop")
  /\ UNCHANGED <<seen, sim_hotswap, runner, queues, modem, bounds>>

----------------------------------------------------------------------------
(* Events.  A runner takes an event and a request in one turn of its loop  *)
(* and runs both; here it takes either.                                    *)

TakeEvent(c) ==
  /\ pc[c] = "loop" /\ ~closed[c] /\ queue[c] # <<>>

onRadioPowerOn(c) ==
  /\ TakeEvent(c) /\ Head(queue[c]) = "onRadioPowerOn"
  /\ queue' = LET q == [queue EXCEPT ![c] = Tail(@)]
              IN  [q EXCEPT ![PRIO] = Append(@, "poll")]
  /\ UNCHANGED <<setter, later, request, closed, seen, sim_hotswap, runner, modem, bounds, history>>

\* Errors of its commands are ignored.
onSIMReady(c) ==
  /\ TakeEvent(c) /\ Head(queue[c]) = "onSIMReady"
  /\ queue' = [queue EXCEPT ![c] = Tail(@)]
  /\ configured' = TRUE
  /\ UNCHANGED <<setter, later, request, closed, seen, sim_hotswap, runner, modem, bounds, overrun,
                 assumed>>

\* AT*ESIMSR? tells whether the SIM is still powered off; AT*ESIMR resets it.
resetSim(c) ==
  /\ TakeEvent(c) /\ Head(queue[c]) = "resetSim"
  /\ queue' = [queue EXCEPT ![c] = Tail(@)]
  /\ \/ /\ alive[c] /\ sim = "poweroff"
        /\ sim' = "not_ready"
        /\ later' = [later EXCEPT !["resetSim"] = @ + 1]
        /\ UNCHANGED <<setter, history, param, faults>>
     \/ /\ alive[c] /\ sim # "poweroff"
        /\ param' = [param EXCEPT ![c] = 0]
        /\ Goto(c, "loop", "poll")
        /\ UNCHANGED <<sim, later, faults>>
     \/ /\ IF alive[c] THEN Fault ELSE UNCHANGED faults   \* an error: given up
        /\ UNCHANGED <<setter, history, sim, later, param>>
     \/ /\ CommandTimeout(c, "loop", "closing")
        /\ UNCHANGED <<sim, later, param>>
  /\ UNCHANGED <<request, closed, seen, sim_hotswap, answer, alive, cfun, restart, lines, power,
                 changes>>

takePoll(c) ==
  /\ TakeEvent(c) /\ Head(queue[c]) \in {"poll", "poll1"}
  /\ queue' = [queue EXCEPT ![c] = Tail(@)]
  /\ param' = [param EXCEPT ![c] = IF Head(queue[c]) = "poll1" THEN 1 ELSE 0]
  /\ Goto(c, "loop", "poll")
  /\ UNCHANGED <<later, request, closed, seen, sim_hotswap, answer, modem, bounds>>

\* pollSIMState: "No longer valid to poll", or on to getSIMStatus.
pollSIMState(c) ==
  /\ \/ /\ param[c] # 1 /\ sState \notin {SIM_NOT_READY, SIM_LOCKED_OR_ABSENT}
        /\ Goto(c, "poll", "loop")
     \/ /\ param[c] = 1 \/ sState \in {SIM_NOT_READY, SIM_LOCKED_OR_ABSENT}
        /\ Goto(c, "poll", "status")
  /\ UNCHANGED <<seen, sim_hotswap, runner, queues, modem, bounds>>

\* getSIMStatus: without asking while the radio is off; every error counts as
\* SIM_NOT_READY.
getSIMStatus(c) ==
  /\ \/ /\ sState \in {OFF, UNAVAILABLE} \/ ~alive[c]
        /\ answer' = [answer EXCEPT ![c] = "not_ready"]
        /\ Goto(c, "status", "answer")
        /\ UNCHANGED faults
     \/ /\ sState \notin {OFF, UNAVAILABLE} /\ alive[c]
        /\ answer' = [answer EXCEPT ![c] = sim]
        /\ Goto(c, "status", "answer")
        /\ UNCHANGED faults
     \/ /\ sState \notin {OFF, UNAVAILABLE} /\ Fault        \* an error response
        /\ answer' = [answer EXCEPT ![c] = "not_ready"]
        /\ Goto(c, "status", "answer")
     \/ /\ sState \notin {OFF, UNAVAILABLE}
        /\ answer' = [answer EXCEPT ![c] = "not_ready"]
        /\ CommandTimeout(c, "status", "timeout")
  /\ UNCHANGED <<seen, sim_hotswap, param, queues, modem, power, changes>>

\* Variant: a SIM that is not ready is not polled again.
pollAnswer_Once(c) ==
  /\ \/ answer[c] \in {"absent", "pin", "poweroff"} /\ Set(c, "answer", SIM_LOCKED_OR_ABSENT, "loop")
     \/ answer[c] = "ready" /\ Set(c, "answer", SIM_READY, "loop")
     \/ answer[c] = "not_ready" /\ Goto(c, "answer", "loop")
  /\ UNCHANGED <<seen, sim_hotswap, runner, queues, modem, bounds>>

\* The switch of pollSIMState: whatever the radio state is by now.
pollAnswer(c) ==
  /\ \/ /\ answer[c] \in {"absent", "pin", "poweroff"}
        /\ Set(c, "answer", SIM_LOCKED_OR_ABSENT, "loop")
        /\ UNCHANGED later
     \/ /\ answer[c] = "ready"
        /\ Set(c, "answer", SIM_READY, "loop")
        /\ UNCHANGED later
     \/ /\ answer[c] = "not_ready"
        /\ Goto(c, "answer", "loop")
        /\ later' = [later EXCEPT !["poll"] = @ + 1]
  /\ UNCHANGED <<seen, sim_hotswap, runner, queue, request, closed, modem, bounds>>

\* A delayed event is due: it goes behind those that are due already.
Expire(e) ==
  /\ later[e] > 0
  /\ later' = [later EXCEPT ![e] = @ - 1]
  /\ queue' = [queue EXCEPT ![PRIO] = Append(@, e)]
  /\ UNCHANGED <<setter, request, closed, seen, sim_hotswap, runner, modem, bounds, history>>

----------------------------------------------------------------------------
(* Losing and opening channels *)

\* The stream of channel c ends: a fault, or the modem restarts for a new SIM.
\* Where the whole modem restarts its radio is off.
HangUp(c) ==
  /\ alive[c] /\ pc[ReaderOf(c)] = "read"
  /\ \/ c \in restart /\ UNCHANGED faults
     \/ c \notin restart /\ Fault
  /\ restart' = restart \ {c}
  /\ alive' = [alive EXCEPT ![c] = FALSE]
  /\ lines' = [lines EXCEPT ![c] = <<>>]
  /\ cfun' \in {cfun, FALSE}
  /\ Goto(ReaderOf(c), "read", "readerclosed")
  /\ UNCHANGED <<seen, sim_hotswap, runner, queues, sim, power, changes>>

\* onATReaderClosed, up to signalCloseQueues.
onATReaderClosed(t) ==
  /\ \/ sim_hotswap  /\ Goto(t, "readerclosed", "closing")
     \/ ~sim_hotswap /\ Set(t, "readerclosed", UNAVAILABLE, "closing")
  /\ UNCHANGED <<seen, sim_hotswap, runner, queues, modem, bounds>>

\* Variant: the callback goes on as if it always ran on a command thread.
signalCloseQueues_Runner(t) ==
  /\ \/ Goto(t, "closing", "loop")
     \/ Goto(t, "timeout", "answer")
     \/ Goto(t, "inittimeout", "down")
  /\ closed' = [c \in Channels |-> TRUE]
  /\ UNCHANGED <<queue, later, request, seen, sim_hotswap, runner, modem, bounds>>

\* signalCloseQueues; a reader thread ends with it, a runner goes on with the
\* error of its command.
signalCloseQueues(t) ==
  /\ \/ Goto(t, "closing", IF t \in Readers THEN "exited" ELSE "loop")
     \/ Goto(t, "timeout", "answer")
     \/ Goto(t, "inittimeout", "down")
  /\ closed' = [c \in Channels |-> TRUE]
  /\ UNCHANGED <<queue, later, request, seen, sim_hotswap, runner, modem, bounds>>

\* The runner finds its queue closed: at_close.  A reader that waits for lines
\* ends, one that is busy ends when it is done.
at_close(c) ==
  /\ closed[c] /\ pc[c] = "loop"
  /\ pc' = [pc EXCEPT ![c] = "down", ![ReaderOf(c)] = IF @ = "read" THEN "exited" ELSE @]
  /\ alive' = [alive EXCEPT ![c] = FALSE]
  /\ lines' = [lines EXCEPT ![c] = <<>>]
  /\ UNCHANGED <<sState, old, ret, history, seen, sim_hotswap, runner, queues, cfun, sim, restart,
                 bounds>>

\* The channel is opened, initializeCommon succeeds and `closed` is cleared.  It
\* takes longer (TIMEOUT_EMRDY) than what the old reader has left to do.
Reopen(c) ==
  /\ pc[c] = "down" /\ pc[ReaderOf(c)] \in {"read", "exited"}
  /\ pc' = [pc EXCEPT ![c] = IF c = "normal" THEN "init" ELSE "loop",
                      ![ReaderOf(c)] = "read"]
  /\ alive' = [alive EXCEPT ![c] = TRUE]
  /\ lines' = [lines EXCEPT ![c] = <<>>]
  /\ sim_hotswap' = FALSE
  /\ closed' = [closed EXCEPT ![c] = FALSE]
  /\ UNCHANGED <<sState, old, ret, history, seen, runner, queue, later, request, cfun, sim,
                 restart, bounds>>

\* Variant: the radio is taken to be off.
initializeChannel_NoQuery ==
  /\ \/ Set("normal", "init", OFF, "cfun4") /\ UNCHANGED <<cfun, faults>>
     \/ /\ alive["normal"] /\ Goto("normal", "cfun4", "loop")
        /\ cfun' = FALSE /\ UNCHANGED faults
     \/ /\ alive["normal"] /\ Goto("normal", "cfun4", "loop")
        /\ Fault /\ UNCHANGED cfun
     \/ ~alive["normal"] /\ Goto("normal", "cfun4", "down") /\ UNCHANGED <<cfun, faults>>
  /\ UNCHANGED <<seen, sim_hotswap, runner, queues, alive, sim, restart, lines, power, changes>>

\* isRadioOn fails, because AT+CFUN? is refused or its answer cannot be parsed:
\* "Assume radio is off on error."
isRadioOnError ==
  /\ alive["normal"] /\ Fault
  /\ pc["normal"] = "isradioon" /\ pc' = [pc EXCEPT !["normal"] = "loop"]
  /\ assumed' = cfun
  /\ UNCHANGED <<sState, old, ret, configured, overrun>>

\* initializeChannel: setRadioState(RADIO_STATE_OFF), AT+CGREG=2 and AT+CFUN=4,
\* of which only a failed channel is noticed, and isRadioOn.
initializeChannel ==
  /\ \/ Set("normal", "init", OFF, "cfun4") /\ UNCHANGED <<cfun, faults>>
     \/ /\ alive["normal"] /\ Goto("normal", "cfun4", "isradioon")
        /\ cfun' = FALSE /\ UNCHANGED faults
     \/ /\ alive["normal"] /\ Goto("normal", "cfun4", "isradioon")
        /\ Fault /\ UNCHANGED cfun                       \* an error response
     \/ ~alive["normal"] /\ Goto("normal", "cfun4", "down") /\ UNCHANGED <<cfun, faults>>
     \/ CommandTimeout("normal", "cfun4", "inittimeout") /\ cfun' \in {cfun, FALSE}
     \/ /\ cfun /\ alive["normal"]
        /\ Set("normal", "isradioon", SIM_NOT_READY, "loop")
        /\ UNCHANGED <<cfun, faults>>
     \/ /\ ~cfun \/ ~alive["normal"]
        /\ Goto("normal", "isradioon", "loop")
        /\ UNCHANGED <<cfun, faults>>
     \/ isRadioOnError /\ UNCHANGED cfun
     \/ CommandTimeout("normal", "isradioon", "closing") /\ UNCHANGED cfun
  /\ UNCHANGED <<seen, sim_hotswap, runner, queues, alive, sim, restart, lines, power, changes>>

----------------------------------------------------------------------------
(* Unsolicited lines *)

\* The events a line puts on the priority queue: *EPEV and onSimStateChanged.
EventsOf(line) ==
  IF line = "*EPEV" THEN <<"poll">>
  ELSE IF line = "*ESIMSR" THEN <<"poll1">>
  ELSE IF line = "*ESIMSR: 7" THEN <<"poll1", "resetSim">>
  ELSE <<>>

\* onUnsolicited on the reader thread of channel c; without setRadioState.
onUnsolicited(c) ==
  LET line == Head(lines[c]) IN
  /\ lines[c] # <<>>
  /\ lines' = [lines EXCEPT ![c] = Tail(@)]
  /\ Goto(ReaderOf(c), "read",
          IF sState # UNAVAILABLE /\ line = "*EESIMSWAP:0" THEN "removed" ELSE "read")
  /\ queue' = IF sState = UNAVAILABLE THEN queue ELSE [queue EXCEPT ![PRIO] = @ \o EventsOf(line)]
  /\ sim_hotswap' = (sim_hotswap \/ (sState # UNAVAILABLE /\ line = "*EESIMSWAP:1"))
  /\ UNCHANGED <<later, request, closed, seen, runner, alive, cfun, sim, restart, bounds>>

\* onSimHotswap: the SIM was removed.
SimRemoved(c) ==
  /\ Set(ReaderOf(c), "removed", SIM_LOCKED_OR_ABSENT, "read")
  /\ UNCHANGED <<seen, sim_hotswap, runner, queues, modem, bounds>>

----------------------------------------------------------------------------
(* The modem, its SIM and the framework, as the code expects them *)

\* A line on the priority channel, or on every channel.
Report(line) == lines' = [lines EXCEPT ![PRIO] = IF alive[PRIO] THEN Append(@, line) ELSE @]
ReportAll(line) ==
  lines' = [c \in Channels |-> IF alive[c] THEN Append(lines[c], line) ELSE lines[c]]

SimOther == <<setter, seen, sim_hotswap, runner, queues, alive, cfun, power, faults, history>>

\* A SIM that was started becomes ready or asks for its PIN.
SimStarts ==
  /\ sim = "not_ready"
  /\ sim' \in {"pin", "ready"}
  /\ Report("*ESIMSR")
  /\ UNCHANGED <<SimOther, restart, changes>>

\* The PIN is entered; the SIM loses power; it is removed or inserted.
SimChanges ==
  /\ changes > 0 /\ changes' = changes - 1
  /\ \/ sim = "pin"   /\ sim' = "ready"    /\ Report("*EPEV")
     \/ sim = "ready" /\ sim' = "poweroff" /\ Report("*ESIMSR: 7")
     \/ sim # "absent" /\ sim' = "absent"    /\ ReportAll("*EESIMSWAP:0")
     \/ sim = "absent" /\ sim' = "not_ready" /\ ReportAll("*EESIMSWAP:1")
  /\ restart' = IF sim = "absent" THEN {c \in Channels : alive[c]} ELSE restart
  /\ UNCHANGED SimOther

RadioPower ==
  /\ power > 0 /\ power' = power - 1
  /\ \E r \in {"on", "off"} : request' = Append(request, r)
  /\ UNCHANGED <<setter, seen, sim_hotswap, runner, queue, later, closed, modem, changes, faults,
                 history>>

----------------------------------------------------------------------------
\* RIL_Init has started the runners.
Init ==
  /\ sState = UNAVAILABLE /\ seen = UNAVAILABLE /\ sim_hotswap = FALSE
  /\ pc = [t \in Threads |-> IF t \in Readers THEN "exited" ELSE "down"]
  /\ old = [t \in Threads |-> UNAVAILABLE]
  /\ ret = [t \in Threads |-> IF t \in Readers THEN "read" ELSE "loop"]
  /\ answer = [c \in Channels |-> "not_ready"] /\ param = [c \in Channels |-> 0]
  /\ queue = [c \in Channels |-> <<>>] /\ later = [e \in {"poll", "resetSim"} |-> 0]
  /\ request = <<>> /\ closed = [c \in Channels |-> TRUE]
  /\ alive = [c \in Channels |-> FALSE] /\ lines = [c \in Channels |-> <<>>] /\ restart = {}
  /\ cfun \in BOOLEAN /\ sim \in {"absent", "not_ready"}
  /\ \E w \in Workloads : power = w.power /\ changes = w.changes /\ faults = w.faults
  /\ configured = TRUE /\ overrun = FALSE /\ assumed = FALSE

setRadioState(t) ==
  setRadioStateTest(t) \/ setRadioStateNotify(t) \/ setRadioStateEnqueue(t)

EventStep(c) ==
  \/ onRadioPowerOn(c) \/ onSIMReady(c) \/ resetSim(c) \/ takePoll(c)
  \/ pollSIMState(c) \/ getSIMStatus(c) \/ pollAnswer(c)

NormalStep == requestRadioPower \/ PowerChanged \/ initializeChannel

Next ==
  \/ \E t \in Threads : setRadioState(t) \/ onATReaderClosed(t) \/ signalCloseQueues(t)
  \/ \E c \in Channels : EventStep(c) \/ at_close(c) \/ Reopen(c)
  \/ NormalStep
  \/ \E c \in Channels : onUnsolicited(c) \/ SimRemoved(c) \/ HangUp(c)
  \/ \E e \in {"poll", "resetSim"} : Expire(e)
  \/ SimStarts \/ SimChanges \/ RadioPower

Spec == Init /\ [][Next]_vars

\* Threads run, time passes, and a started SIM comes up.
Fairness ==
  /\ \A t \in Threads : WF_vars(setRadioState(t) \/ onATReaderClosed(t) \/ signalCloseQueues(t))
  /\ \A c \in Channels : WF_vars(EventStep(c)) /\ WF_vars(at_close(c) \/ Reopen(c))
  /\ WF_vars(NormalStep)
  /\ \A c \in Channels : WF_vars(onUnsolicited(c) \/ SimRemoved(c))
  /\ \A e \in {"poll", "resetSim"} : WF_vars(Expire(e))
  /\ WF_vars(SimStarts)

FairSpec == Spec /\ Fairness

----------------------------------------------------------------------------
(* Properties *)

SetPoints    == {"test", "notify", "enqueue"}
RunnerPoints == {"loop", "down", "init", "cfun4", "isradioon", "inittimeout", "poweron",
                 "poweroff", "poll", "status", "answer", "timeout", "closing"}
ReaderPoints == {"read", "removed", "readerclosed", "closing", "exited"}

\* Thread t is in setRadioState.
Setting(t) == pc[t] \in SetPoints

ControlOK ==
  /\ pc \in [Threads -> SetPoints \cup RunnerPoints \cup ReaderPoints]
  /\ ret \in [Threads -> RunnerPoints \cup ReaderPoints]
  /\ \A c \in Channels : pc[c] \in SetPoints \cup RunnerPoints /\ ret[c] \in RunnerPoints
  /\ \A r \in Readers : pc[r] \in SetPoints \cup ReaderPoints /\ ret[r] \in ReaderPoints
  /\ old \in [Threads -> States]

Lines == {"*EPEV", "*ESIMSR", "*ESIMSR: 7", "*EESIMSWAP:0", "*EESIMSWAP:1"}

\* Every variable has its type, and no callback leads a reader thread into the
\* runner's loop or a runner out of it.
TypeOK ==
  /\ ControlOK
  /\ sState \in States /\ seen \in States /\ sim_hotswap \in BOOLEAN
  /\ answer \in [Channels -> SimStates] /\ param \in [Channels -> {0, 1}]
  /\ queue \in [Channels -> Seq(Events)] /\ later \in [{"poll", "resetSim"} -> Nat]
  /\ request \in Seq({"on", "off"}) /\ closed \in [Channels -> BOOLEAN]
  /\ alive \in [Channels -> BOOLEAN] /\ cfun \in BOOLEAN /\ sim \in SimStates
  /\ lines \in [Channels -> Seq(Lines)] /\ restart \subseteq Channels
  /\ power \in Nat /\ changes \in Nat /\ faults \in Nat
  /\ configured \in BOOLEAN /\ overrun \in BOOLEAN /\ assumed \in BOOLEAN

\* Although setRadioState compares and notifies outside the mutex, the framework
\* never keeps an old view: while it has not been told the current state, some
\* thread is in setRadioState and is going to tell it.
FrameworkInformed ==
  seen # sState => \E t \in Threads : pc[t] = "notify" \/ (pc[t] = "test" /\ sState # old[t])

\* SIM_READY always leads to onSIMReady, which subscribes to messages and
\* registration: it has run, is queued, or the thread that set the state is yet to
\* queue it, although the state is read anew before that.
SimReadyConfigured ==
  sState = SIM_READY /\ ~configured =>
    \/ \E c \in Channels : \E i \in 1..Len(queue[c]) : queue[c][i] = "onSIMReady"
    \/ \E t \in Threads : Setting(t)

\* The radio state tells whether the modem's radio is on whenever the normal
\* runner serves its queue, through refused commands, time-outs and restarts, unless
\* a SIM state was set over OFF or UNAVAILABLE.  A radio that is on is taken to be
\* off in one case only: AT+CFUN=4 did not switch it off and isRadioOn then failed.
PowerAgrees ==
  /\ pc["normal"] = "loop" /\ ~closed["normal"] /\ alive["normal"]
  /\ \A t \in Threads : pc[t] \notin {"readerclosed", "closing", "timeout"} /\ ~Setting(t)
  /\ sState # UNAVAILABLE /\ ~overrun
  => /\ sState # OFF => cfun
     /\ sState = OFF /\ cfun => assumed

\* A SIM that is ready in a radio that is on does not stay unnoticed.
SimNoticed ==
  sim = "ready" /\ sState \in {SIM_NOT_READY, SIM_LOCKED_OR_ABSENT}
    ~> sim # "ready" \/ sState \notin {SIM_NOT_READY, SIM_LOCKED_OR_ABSENT}

\* "No longer valid to poll": with the radio off or gone no SIM state is set any
\* more, neither by a poll nor by the removal of the SIM.
PollStillValid == ~overrun
=============================================================================
