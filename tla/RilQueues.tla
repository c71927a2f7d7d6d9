----------------------------- MODULE RilQueues -----------------------------
(***************************************************************************)
(* The request queues of the MBM RIL and the threads around them           *)
(* (mbm/mbm-ril/u300-ril.c): onRequest() and enqueueRILEvent(), called by  *)
(* any thread; one queueRunner() per AT channel, which opens and           *)
(* initialises its channel, serves its queue and opens the channel again   *)
(* when the queue was closed; and the two callbacks that close the queues, *)
(* onATReaderClosed() on a reader thread and onATTimeout() on a runner.    *)
(*                                                                         *)
(* A critical section of queueMutex or s_state_mutex is one action.  The   *)
(* flag `closed` is cleared without the mutex, as in the code.  Of the     *)
(* radio state only UNAVAILABLE is told from the rest, of a channel only   *)
(* whether commands on it still can succeed (module AtChannel).            *)
(***************************************************************************)
EXTENDS Integers, Sequences, FiniteSets

CONSTANTS
  HasPrio,        \* RIL_Init was given a priority channel (-x)
  Requests,       \* tokens of the requests made
  PrioRequests,   \* those isPrioRequest() is true of
  SimStatus,      \* those that are RIL_REQUEST_GET_SIM_STATUS
  Delays,         \* relativeTime of events
  MaxEvents,      \* bound: events enqueued
  MaxTime,        \* bound: the clock
  MaxFaults,      \* bound: hang-ups, time-outs, failed commands, clock set back
  None

Queues  == {"normal", "prio"}
Runners == IF HasPrio THEN Queues ELSE {"normal"}

ASSUME RilQueuesAssumption ==
  /\ HasPrio \in BOOLEAN
  /\ PrioRequests \subseteq Requests /\ SimStatus \subseteq Requests
  /\ Delays \subseteq Nat
  /\ MaxEvents \in Nat /\ MaxTime \in Nat /\ MaxFaults \in Nat
  /\ None \notin Requests
  /\ None \notin [id : Nat, abstime : Nat, at : Nat]

VARIABLES
  requestList, eventList,  \* RequestQueue, one per queue
  closed,                  \* its closed flag
  sState,                  \* "UNAVAILABLE", or "AVAILABLE" for every other state
  sim_hotswap,             \* a SIM was inserted: the modem restarts on purpose
  pc,                      \* control point of each queueRunner
  ret,                     \* where a runner goes on after onATTimeout
  event, request,          \* what a runner has taken off its queue, or None
  session,                 \* "none", "alive", or "dead": commands fail at once
  callbacks,               \* reader threads at each point of onATReaderClosed
  now,                     \* gettimeofday (module EventTime)
  events,                  \* events enqueued so far
  faults,                  \* faults left
  accepted,                \* history: requests made
  done,                    \* history: per queue, requests completed, in order
  fired                    \* history: per queue, events run

queue   == <<requestList, eventList, closed>>
radio   == <<sState, sim_hotswap>>
runner  == <<pc, ret, event, request>>
channel == <<session, callbacks>>
bounds  == <<now, events, faults>>
history == <<accepted, done, fired>>
vars    == <<queue, radio, runner, channel, bounds, history>>

----------------------------------------------------------------------------
(* Queues *)

\* The queue of a request or event; without a priority channel there is one.
QueueOf(isPrio) == IF HasPrio /\ isPrio THEN "prio" ELSE "normal"

\* pthread_cond_broadcast or _signal on the queue: only its runner waits there.
Wake(p, q) ==
  [x \in DOMAIN p |->
     IF x # q THEN p[x]
     ELSE IF p[x] = "cond" THEN "condwoken"
     ELSE IF p[x] = "timed" THEN "timedwoken" ELSE p[x]]

\* Variant: a new event goes before the events of the same time.
insertEvent_Before(s, e) ==
  LET first(i) == \A j \in 1..i : s[j].abstime < e.abstime
  IN  [i \in 1..(Len(s) + 1) |->
         IF i <= Len(s) /\ first(i) THEN s[i] ELSE IF first(i - 1) THEN e ELSE s[i - 1]]

\* Insertion into eventList: behind the first events, those with no later
\* abstime, and before the first event with a later one.
insertEvent(s, e) ==
  LET first(i) == \A j \in 1..i : s[j].abstime <= e.abstime
  IN  [i \in 1..(Len(s) + 1) |->
         IF i <= Len(s) /\ first(i) THEN s[i] ELSE IF first(i - 1) THEN e ELSE s[i - 1]]

\* Variant: the runner is not woken.
onRequest_Silent(r) ==
  LET q == QueueOf(r \in PrioRequests) IN
  /\ r \notin accepted
  /\ accepted' = accepted \cup {r}
  /\ requestList' = [requestList EXCEPT ![q] = Append(@, r)]
  /\ UNCHANGED <<eventList, closed, radio, runner, channel, bounds, done, fired>>

\* onRequest(): at the end of the list of its queue.
onRequest(r) ==
  LET q == QueueOf(r \in PrioRequests) IN
  /\ r \notin accepted
  /\ accepted' = accepted \cup {r}
  /\ requestList' = [requestList EXCEPT ![q] = Append(@, r)]
  /\ pc' = Wake(pc, q)
  /\ UNCHANGED <<eventList, closed, radio, ret, event, request, channel, bounds, done, fired>>

\* enqueueRILEvent(), from a runner, a reader or a handler.
enqueueRILEvent(isPrio, relativeTime) ==
  LET q == QueueOf(isPrio) IN
  /\ events < MaxEvents /\ now + relativeTime < MaxTime
  /\ events' = events + 1
  /\ eventList' = [eventList EXCEPT ![q] =
       insertEvent(@, [id |-> events + 1, abstime |-> now + relativeTime])]
  /\ pc' = Wake(pc, q)
  /\ UNCHANGED <<requestList, closed, radio, ret, event, request, channel, now, faults, history>>

----------------------------------------------------------------------------
(* Closing the queues.  Both callbacks first make the radio unavailable,   *)
(* then close one queue after the other.                                   *)

\* Variant: the runner is not woken.
signalClose_Silent(q, p) == closed' = [closed EXCEPT ![q] = TRUE] /\ pc' = p

\* One turn of the loop of signalCloseQueues; p is pc but for the caller's step.
signalClose(q, p) == closed' = [closed EXCEPT ![q] = TRUE] /\ pc' = Wake(p, q)

\* Variant: the queues are closed first.
NextPoint_QueuesFirst(s) ==
  CASE s = "start"   -> "normal"
    [] s = "normal"  -> "prio"
    [] s = "prio"    -> "unavail"
    [] s = "unavail" -> "end"

\* The order of onATReaderClosed; with a hot swap pending the state is kept.
NextPoint(s) ==
  CASE s = "start"   -> IF sim_hotswap THEN "normal" ELSE "unavail"
    [] s = "unavail" -> "normal"
    [] s = "normal"  -> "prio"
    [] s = "prio"    -> "end"

Points == {"start", "unavail", "normal", "prio"}

\* A reader thread, one step of onATReaderClosed.
onATReaderClosed(s) ==
  /\ callbacks[s] > 0
  /\ callbacks' = [p \in Points |->
       callbacks[p] - (IF p = s THEN 1 ELSE 0) + (IF p = NextPoint(s) THEN 1 ELSE 0)]
  /\ sState' = IF s = "unavail" THEN "UNAVAILABLE" ELSE sState
  /\ IF s \in Queues THEN signalClose(s, pc) ELSE UNCHANGED <<closed, pc>>
  /\ UNCHANGED <<requestList, eventList, sim_hotswap, ret, event, request, session,
                 bounds, history>>

\* onATTimeout() on the runner whose command timed out.
onATTimeout(q) ==
  /\ \/ /\ pc[q] = "to_unavail"
        /\ sState' = "UNAVAILABLE"
        /\ pc' = [pc EXCEPT ![q] = "to_normal"]
        /\ UNCHANGED closed
     \/ /\ pc[q] = "to_normal"
        /\ signalClose("normal", [pc EXCEPT ![q] = "to_prio"])
        /\ UNCHANGED sState
     \/ /\ pc[q] = "to_prio"
        /\ signalClose("prio", [pc EXCEPT ![q] = ret[q]])
        /\ UNCHANGED sState
  /\ UNCHANGED <<requestList, eventList, sim_hotswap, ret, event, request, channel, bounds, history>>

----------------------------------------------------------------------------
(* queueRunner: opening the channel *)

\* A runner moves on and touches nothing else.
Goto(q, from, to) ==
  /\ pc[q] = from
  /\ pc' = [pc EXCEPT ![q] = to]

\* The device opens, after any number of attempts.
OpenDevice(q) == Goto(q, "open", "emrdy") /\ UNCHANGED <<queue, radio, ret, event, request, channel, bounds, history>>

\* select(): nothing within TIMEOUT_EMRDY, "go ahead anyway"; input; or an
\* error, which ends the thread.
WaitEmrdy(q) ==
  /\ \/ Goto(q, "emrdy", "atopen")  /\ UNCHANGED faults
     \/ Goto(q, "emrdy", "reading") /\ UNCHANGED faults
     \/ Goto(q, "emrdy", "ended")   /\ faults > 0 /\ faults' = faults - 1
  /\ UNCHANGED <<queue, radio, ret, event, request, channel, now, events, history>>

\* safe_read(fd, start, MAX_BUF-1) returns when that many bytes have come or the
\* stream has ended; without EMRDY among them the device is closed again.
ReadEmrdy(q) ==
  /\ Goto(q, "reading", "atopen") \/ Goto(q, "reading", "open")
  /\ UNCHANGED <<queue, radio, ret, event, request, channel, bounds, history>>

\* at_open(), which may fail to start the reader.
at_open(q) ==
  /\ \/ /\ Goto(q, "atopen", "opened")
        /\ session' = [session EXCEPT ![q] = "alive"]
        /\ UNCHANGED faults
     \/ /\ Goto(q, "atopen", "close")
        /\ faults > 0 /\ faults' = faults - 1
        /\ UNCHANGED session
  /\ UNCHANGED <<queue, radio, ret, event, request, callbacks, now, events, history>>

\* at_set_on_reader_closed, and initializeCommon's set_pending_hotswap(0).
SetCallbacks(q) ==
  /\ Goto(q, "opened", "common")
  /\ sim_hotswap' = FALSE
  /\ UNCHANGED <<queue, sState, ret, event, request, channel, bounds, history>>

\* Commands are sent: they fail when the channel has died, and may fail in any
\* case, or all of them succeed and the runner goes to `to`.
Commands(q, from, to) ==
  \/ Goto(q, from, to) /\ session[q] = "alive" /\ UNCHANGED faults
  \/ Goto(q, from, "close") /\ session[q] = "dead" /\ UNCHANGED faults
  \/ Goto(q, from, "close") /\ faults > 0 /\ faults' = faults - 1

initializeCommon(q) ==
  /\ Commands(q, "common", "unclose")
  /\ UNCHANGED <<queue, radio, ret, event, request, channel, now, events, history>>

\* Variant: the flag stays set from the last session.
ClearClosed_Not(q) ==
  /\ Goto(q, "unclose", IF q = "normal" THEN "setoff" ELSE "prioinit")
  /\ UNCHANGED <<queue, radio, ret, event, request, channel, bounds, history>>

\* q->closed = 0, without the mutex.
ClearClosed(q) ==
  /\ Goto(q, "unclose", IF q = "normal" THEN "setoff" ELSE "prioinit")
  /\ closed' = [closed EXCEPT ![q] = FALSE]
  /\ UNCHANGED <<requestList, eventList, radio, ret, event, request, channel, bounds, history>>

\* Where initializeChannel ends.
AfterChannel == IF HasPrio THEN "top" ELSE "prioinit"

\* initializeChannel: setRadioState(RADIO_STATE_OFF), two commands, and
\* isRadioOn(), whose failure only means "off".
initializeChannel(q) ==
  /\ \/ Goto(q, "setoff", "channel") /\ sState' = "AVAILABLE" /\ UNCHANGED faults
     \/ Commands(q, "channel", "radioon") /\ UNCHANGED sState
     \/ /\ Goto(q, "radioon", AfterChannel)
        /\ sState' \in {sState} \cup {s \in {"AVAILABLE"} : session[q] = "alive"}
        /\ UNCHANGED faults
  /\ UNCHANGED <<queue, sim_hotswap, ret, event, request, channel, now, events, history>>

\* Variant: the error of AT*EPEE=1 is ignored.
initializePrioChannel_Unchecked(q) ==
  /\ Goto(q, "prioinit", "top")
  /\ UNCHANGED <<queue, radio, ret, event, request, channel, bounds, history>>

initializePrioChannel(q) ==
  /\ Commands(q, "prioinit", "top")
  /\ UNCHANGED <<queue, radio, ret, event, request, channel, now, events, history>>

\* at_close(): the reader ends.  One that is not in poll() finds ac->fd < 0 while
\* readerClosed is still 0, and calls onATReaderClosed (module AtChannel).
at_close(q) ==
  /\ Goto(q, "close", "open")
  /\ session' = [session EXCEPT ![q] = "none"]
  /\ \/ UNCHANGED <<callbacks, faults>>
     \/ /\ session[q] = "alive" /\ faults > 0
        /\ faults' = faults - 1
        /\ callbacks' = [callbacks EXCEPT !["start"] = @ + 1]
  /\ UNCHANGED <<queue, radio, ret, event, request, now, events, history>>

----------------------------------------------------------------------------
(* queueRunner: serving the queue *)

\* An event with the time at which it is taken.
Taken(e) == [id |-> e.id, abstime |-> e.abstime, at |-> now]

\* Variant: an event that is not due yet is run all the same.
Take_NotDue(q) ==
  LET due == eventList[q] # <<>> /\ Head(eventList[q]).abstime < now
      req == requestList[q] # <<>>
  IN  /\ event'   = [event   EXCEPT ![q] = IF due THEN Taken(Head(eventList[q])) ELSE None]
      /\ request' = [request EXCEPT ![q] = IF req THEN Head(requestList[q]) ELSE None]
      /\ eventList'   = [eventList   EXCEPT ![q] = IF due THEN Tail(@) ELSE @]
      /\ requestList' = [requestList EXCEPT ![q] = IF req THEN Tail(@) ELSE @]
      /\ pc' = [pc EXCEPT ![q] = IF eventList[q] # <<>> THEN "event"
                                 ELSE IF req THEN "request" ELSE "top"]

\* Take an event that is due and a request, if there are any.
Take(q) ==
  LET due == eventList[q] # <<>> /\ Head(eventList[q]).abstime < now
      req == requestList[q] # <<>>
  IN  /\ event'   = [event   EXCEPT ![q] = IF due THEN Taken(Head(eventList[q])) ELSE None]
      /\ request' = [request EXCEPT ![q] = IF req THEN Head(requestList[q]) ELSE None]
      /\ eventList'   = [eventList   EXCEPT ![q] = IF due THEN Tail(@) ELSE @]
      /\ requestList' = [requestList EXCEPT ![q] = IF req THEN Tail(@) ELSE @]
      /\ pc' = [pc EXCEPT ![q] = IF due THEN "event" ELSE IF req THEN "request" ELSE "top"]

\* Nothing is taken: the runner waits or starts over.
Stay(q, to) ==
  /\ pc' = [pc EXCEPT ![q] = to]
  /\ UNCHANGED <<requestList, eventList, event, request>>

\* The top of the loop up to the first wait, and the way on from that wait.
\* Without requests the runner waits for the first event's time.
QueueLoop(q) ==
  /\ pc[q] \in {"top", "condwoken"}
  /\ \/ closed[q] /\ Stay(q, IF pc[q] = "top" THEN "close" ELSE "top")
     \/ ~closed[q] /\ requestList[q] = <<>> /\ eventList[q] = <<>> /\ Stay(q, "cond")
     \/ ~closed[q] /\ requestList[q] = <<>> /\ eventList[q] # <<>> /\ Stay(q, "timed")
     \/ ~closed[q] /\ requestList[q] # <<>> /\ Take(q)
  /\ UNCHANGED <<closed, radio, ret, channel, bounds, history>>

\* pthread_cond_timedwait returns ETIMEDOUT.
TimedOut(q) ==
  /\ pc[q] = "timed" /\ Head(eventList[q]).abstime <= now
  /\ pc' = [pc EXCEPT ![q] = "timedwoken"]
  /\ UNCHANGED <<queue, radio, ret, event, request, channel, bounds, history>>

\* Variant: the closed bit is not looked at after the timed wait, and what was
\* taken off the queue is dropped with it.
AfterTimedWait_Drop(q) ==
  /\ pc[q] = "timedwoken"
  /\ \/ closed[q] /\ pc' = [pc EXCEPT ![q] = "top"]
        /\ requestList' = [requestList EXCEPT ![q] = IF @ = <<>> THEN @ ELSE Tail(@)]
        /\ UNCHANGED <<eventList, event, request>>
     \/ ~closed[q] /\ Take(q)
  /\ UNCHANGED <<closed, radio, ret, channel, bounds, history>>

AfterTimedWait(q) ==
  /\ pc[q] = "timedwoken"
  /\ \/ closed[q] /\ Stay(q, "top")
     \/ ~closed[q] /\ Take(q)
  /\ UNCHANGED <<closed, radio, ret, channel, bounds, history>>

\* e->eventCallback(): pollSIMState tests the radio state, sends a command and
\* then may set the state; the other callbacks leave it alone.
runEvent(q) ==
  /\ \/ /\ Goto(q, "event", "poll") /\ sState # "UNAVAILABLE"
        /\ UNCHANGED <<sState, event, fired>>
     \/ /\ pc[q] \in {"event", "poll"}
        /\ pc' = [pc EXCEPT ![q] = IF request[q] = None THEN "top" ELSE "request"]
        /\ fired' = [fired EXCEPT ![q] = Append(@, event[q])]
        /\ event' = [event EXCEPT ![q] = None]
        /\ sState' \in {sState} \cup {s \in {"AVAILABLE"} : pc[q] = "poll"}
  /\ UNCHANGED <<queue, sim_hotswap, ret, request, channel, bounds, accepted, done>>

\* RIL_onRequestComplete() for the request at hand.
RequestComplete(q) ==
  /\ done' = [done EXCEPT ![q] = Append(@, request[q])]
  /\ request' = [request EXCEPT ![q] = None]
  /\ pc' = [pc EXCEPT ![q] = "top"]

\* processRequest(): refused while the radio is unavailable, or handled; the
\* state may change between the test and the end of the handler, and a handler
\* (requestRadioPower) may set it.
processRequest(q) ==
  /\ \/ /\ pc[q] = "request"
        /\ sState = "UNAVAILABLE" /\ request[q] \notin SimStatus
        /\ RequestComplete(q) /\ UNCHANGED sState
     \/ /\ pc[q] = "request"
        /\ sState # "UNAVAILABLE" \/ request[q] \in SimStatus
        /\ pc' = [pc EXCEPT ![q] = "handler"]
        /\ UNCHANGED <<sState, request, done>>
     \/ /\ pc[q] = "handler"
        /\ RequestComplete(q)
        /\ sState' \in {sState} \cup {s \in {"AVAILABLE"} : request[q] \notin SimStatus}
  /\ UNCHANGED <<queue, sim_hotswap, ret, event, channel, bounds, accepted, fired>>

----------------------------------------------------------------------------
(* What goes wrong *)

\* Where a runner goes on when a command has timed out: initialisation fails,
\* but for the commands whose result is ignored; a handler goes on.
AfterTimeout(q) ==
  CASE pc[q] = "common"  -> {"common", "close"}
    [] pc[q] = "radioon" -> {AfterChannel}
    [] pc[q] \in {"channel", "prioinit"} -> {"close"}
    [] OTHER -> {pc[q]}

\* A command gets no answer in time.
CommandTimeout(q) ==
  /\ pc[q] \in {"common", "channel", "radioon", "prioinit", "event", "poll",
               "handler"}
  /\ session[q] = "alive" /\ faults > 0
  /\ faults' = faults - 1
  /\ \E to \in AfterTimeout(q) : ret' = [ret EXCEPT ![q] = to]
  /\ pc' = [pc EXCEPT ![q] = "to_unavail"]
  /\ UNCHANGED <<queue, radio, event, request, channel, now, events, history>>

\* The stream ends: the reader marks the channel and starts its callback, unless
\* the callback was not registered yet.
HangUp(q) ==
  /\ session[q] = "alive" /\ faults > 0
  /\ faults' = faults - 1
  /\ session' = [session EXCEPT ![q] = "dead"]
  /\ \/ callbacks' = [callbacks EXCEPT !["start"] = @ + 1]
     \/ pc[q] = "opened" /\ UNCHANGED callbacks
  /\ UNCHANGED <<queue, radio, runner, now, events, history>>

\* *EESIMSWAP:1, on a reader thread; onUnsolicited ignores lines while the radio
\* is unavailable.  *EESIMSWAP:0 goes from one available state to another; what can
\* change in between is in module RadioState.
onSimHotswap(q) ==
  /\ session[q] = "alive" /\ sState # "UNAVAILABLE"
  /\ sim_hotswap' = TRUE
  /\ UNCHANGED <<queue, sState, runner, channel, bounds, history>>

Tick ==
  /\ now < MaxTime
  /\ now' = now + 1
  /\ UNCHANGED <<queue, radio, runner, channel, events, faults, history>>

\* The clock is the time of day, which the framework sets, to network time say:
\* set forward, it has ticked at once, and here it is set back.
SetClock ==
  /\ faults > 0 /\ faults' = faults - 1
  /\ \E t \in 0..MaxTime : t < now /\ now' = t
  /\ UNCHANGED <<queue, radio, runner, channel, events, history>>

----------------------------------------------------------------------------
\* RIL_Init has started the runners.
Init ==
  /\ requestList = [q \in Queues |-> <<>>] /\ eventList = [q \in Queues |-> <<>>]
  /\ closed = [q \in Queues |-> TRUE]
  /\ sState = "UNAVAILABLE" /\ sim_hotswap = FALSE
  /\ pc = [q \in Runners |-> "open"] /\ ret = [q \in Runners |-> "open"]
  /\ event = [q \in Runners |-> None] /\ request = [q \in Runners |-> None]
  /\ session = [q \in Runners |-> "none"]
  /\ callbacks = [s \in Points |-> 0]
  /\ now = 0 /\ events = 0 /\ faults = MaxFaults
  /\ accepted = {} /\ done = [q \in Queues |-> <<>>] /\ fired = [q \in Queues |-> <<>>]

\* The steps a runner takes by itself, reading the EMRDY message apart.
RunnerStep(q) ==
  \/ OpenDevice(q) \/ WaitEmrdy(q) \/ at_open(q) \/ SetCallbacks(q)
  \/ initializeCommon(q) \/ ClearClosed(q) \/ initializeChannel(q)
  \/ initializePrioChannel(q) \/ at_close(q)
  \/ QueueLoop(q) \/ TimedOut(q) \/ AfterTimedWait(q)
  \/ runEvent(q) \/ processRequest(q) \/ onATTimeout(q)

Next ==
  \/ \E r \in Requests : onRequest(r)
  \/ \E isPrio \in BOOLEAN, d \in Delays : enqueueRILEvent(isPrio, d)
  \/ \E q \in Runners : RunnerStep(q) \/ ReadEmrdy(q)
  \/ \E q \in Runners : CommandTimeout(q) \/ HangUp(q) \/ onSimHotswap(q)
  \/ \E s \in Points : onATReaderClosed(s)
  \/ Tick \/ SetClock

Spec == Init /\ [][Next]_vars

\* Threads run and the clock ticks.  The device can be opened, and the ReadEmrdy
\* step is not fair: safe_read waits for bytes the modem need not send.
Fairness ==
  /\ \A q \in Runners : WF_vars(RunnerStep(q))
  /\ \A s \in Points : WF_vars(onATReaderClosed(s))
  /\ WF_vars(Tick)

FairSpec == Spec /\ Fairness

----------------------------------------------------------------------------
(* Properties *)

ToPoints   == {"to_unavail", "to_normal", "to_prio"}
InitPoints == {"open", "emrdy", "reading", "ended", "atopen", "opened", "common",
               "unclose", "setoff", "channel", "radioon", "prioinit", "close"}
LoopPoints == {"top", "cond", "condwoken", "timed", "timedwoken", "event", "poll",
               "request", "handler"}

RetPoints  == {"open", "common", "prioinit", "close", "top", "event", "poll", "handler"}

\* The runner is, or after onATTimeout will again be, at one of the points P.
At(q, P) == pc[q] \in P \/ (pc[q] \in ToPoints /\ ret[q] \in P)

Events      == [id : Nat, abstime : Nat]
TakenEvents == [id : Nat, abstime : Nat, at : Nat]

QueueOK ==
  /\ requestList \in [Queues -> Seq(Requests)]
  /\ eventList \in [Queues -> Seq(Events)]
  /\ closed \in [Queues -> BOOLEAN]

RunnerOK ==
  /\ pc \in [Runners -> InitPoints \cup LoopPoints \cup ToPoints]
  /\ ret \in [Runners -> RetPoints]
  /\ event \in [Runners -> TakenEvents \cup {None}]
  /\ request \in [Runners -> Requests \cup {None}]
  /\ \A q \in Runners : At(q, {"event", "poll"}) => event[q] # None
  /\ \A q \in Runners : At(q, {"request", "handler"}) => request[q] # None

EnvOK ==
  /\ sState \in {"UNAVAILABLE", "AVAILABLE"} /\ sim_hotswap \in BOOLEAN
  /\ session \in [Runners -> {"none", "alive", "dead"}]
  /\ callbacks \in [Points -> Nat]
  /\ now \in Nat /\ events \in Nat /\ faults \in Nat
  /\ accepted \subseteq Requests
  /\ done \in [Queues -> Seq(Requests)]
  /\ fired \in [Queues -> Seq(TakenEvents)]

\* Queues, runners and their surroundings are well typed; a runner that runs an
\* event or a request has one at hand.
TypeOK == QueueOK /\ RunnerOK /\ EnvOK

\* Somebody is on its way to set closed of queue q.
Closing(q) ==
  \/ \E s \in {"start", "unavail", "normal"} \cup (IF q = "prio" THEN {"prio"} ELSE {}) :
       callbacks[s] > 0
  \/ \E x \in Runners :
       pc[x] \in {"to_unavail", "to_normal"} \cup (IF q = "prio" THEN {"to_prio"} ELSE {})

\* A runner sleeps only while there is nothing to do: neither a request, an
\* event or the closing of its queue is missed between the test and the wait.
NoMissedWakeup ==
  \A q \in Runners :
    /\ pc[q] = "cond"  => ~closed[q] /\ requestList[q] = <<>> /\ eventList[q] = <<>>
    /\ pc[q] = "timed" => ~closed[q] /\ requestList[q] = <<>> /\ eventList[q] # <<>>

\* The RIL does not go on refusing requests: when the normal runner has passed
\* setRadioState(RADIO_STATE_OFF) and the radio is unavailable, its queue is
\* closed, or the thread that made it unavailable has yet to close it.  It rests
\* on opposite orders: callbacks set the state and then `closed`, the runner
\* clears `closed` and then sets the state.
ServingMeansAvailable ==
  At("normal", LoopPoints \cup {"channel", "radioon", "prioinit"})
    /\ sState = "UNAVAILABLE" /\ ~closed["normal"]
    => \/ callbacks["normal"] > 0
       \/ \E q \in Runners : pc[q] = "to_normal"

\* A runner does not serve its queue over a dead channel unnoticed, although
\* clearing `closed` may undo a close that the callback of this channel has
\* already made: the commands that follow would have failed.
DeadChannelNoticed ==
  \A q \in Runners :
    At(q, LoopPoints) /\ session[q] # "alive" => closed[q] \/ Closing(q)

\* All events of a queue, in the order in which they were or will be run.
EventHistory(q) ==
  fired[q] \o (IF q \in Runners /\ event[q] # None THEN <<event[q]>> ELSE <<>>)
           \o eventList[q]

\* An event is overtaken only by an event that is due earlier, never by one that
\* is due at the same time and came later; and none is taken before its time,
\* however the clock is set in between.
EventOrder ==
  \A q \in Queues :
    LET h == EventHistory(q) IN
    /\ \A i, j \in 1..Len(h) : i < j /\ h[i].id > h[j].id => h[i].abstime < h[j].abstime
    /\ \A i \in 1..Len(fired[q]) : fired[q][i].abstime < fired[q][i].at

\* The requests of a queue that are accepted and not completed.
Pending ==
  [q \in Queues |->
     (IF q \in Runners /\ request[q] # None THEN <<request[q]>> ELSE <<>>) \o requestList[q]]

\* Whatever restarts, time-outs and hang-ups do, requests are neither lost nor
\* completed twice, and those of a queue are completed in the order made.
Service == INSTANCE RilRequests WITH pending <- Pending
ImplementsService == Service!Spec

\* A runner that ended on a select() error, or that still waits for the rest of
\* the EMRDY message.
Stuck == \E q \in Runners : pc[q] \in {"reading", "ended"}

\* "Must be completed with a call to RIL_onRequestComplete()": every request is
\* completed, across any number of restarts, unless a runner is stuck.
RequestsServed ==
  \A r \in Requests :
    r \in accepted ~> Stuck \/ \E q \in Queues : \E i \in 1..Len(done[q]) : done[q][i] = r

\* Faults come to an end, and then the RIL recovers from them: both runners serve
\* their queues over live channels and the radio is not unavailable for ever,
\* unless a runner is stuck.
Recovers ==
  []<>(\/ Stuck
       \/ /\ \A q \in Runners : pc[q] \in LoopPoints /\ ~closed[q] /\ session[q] = "alive"
          /\ sState # "UNAVAILABLE")

\* "Module should respond at least within 10s": a module that does respond gets
\* its channel opened, or the device is opened anew.
EmrdyAccepted == \A q \in Runners : pc[q] = "reading" ~> pc[q] # "reading"
============================================================================
