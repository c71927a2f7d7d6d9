-------------------------- MODULE RilQueuesProofs --------------------------
(***************************************************************************)
(* Proofs about RilQueues, for every set of requests, every bound and with *)
(* or without a priority channel.                                          *)
(***************************************************************************)
EXTENDS RilQueues, EventTime, TLAPS

AllPoints == InitPoints \cup LoopPoints \cup ToPoints

\* Wake changes nothing but a waiting point into the point after the wait.
LEMMA WakeOK ==
  ASSUME NEW p \in [Runners -> AllPoints], NEW q
  PROVE  /\ Wake(p, q) \in [Runners -> AllPoints]
         /\ \A x \in Runners :
              \/ Wake(p, q)[x] = p[x]
              \/ x = q /\ p[x] = "cond" /\ Wake(p, q)[x] = "condwoken"
              \/ x = q /\ p[x] = "timed" /\ Wake(p, q)[x] = "timedwoken"
         /\ q \in Runners => Wake(p, q)[q] \notin {"cond", "timed"}
  BY DEF Wake, AllPoints, InitPoints, LoopPoints, ToPoints, RetPoints

\* The queue of a request or event is one that has a runner.
LEMMA QueueOfOK == ASSUME NEW b PROVE QueueOf(b) \in Runners /\ QueueOf(b) \in Queues
  BY RilQueuesAssumption DEF QueueOf, Runners, Queues

LEMMA RunnersOK == Runners \subseteq Queues /\ "normal" \in Runners
  BY RilQueuesAssumption DEF Runners, Queues

\* insertEvent makes a list of events from a list of events.
LEMMA insertEventOK ==
  ASSUME NEW s \in Seq(Events), NEW e \in Events
  PROVE  insertEvent(s, e) \in Seq(Events)
  <1> DEFINE first(i) == \A j \in 1..i : s[j].abstime <= e.abstime
             f == [i \in 1..(Len(s) + 1) |->
                     IF i <= Len(s) /\ first(i) THEN s[i]
                     ELSE IF first(i - 1) THEN e ELSE s[i - 1]]
  <1>1. insertEvent(s, e) = f
    BY DEF insertEvent
  <1>2. ASSUME NEW i \in 1..(Len(s) + 1) PROVE f[i] \in Events
    <2>1. CASE i = 1
      <3>1. first(i - 1)
        BY <2>1
      <3> HIDE DEF first
      <3> QED
        BY <2>1, <3>1
    <2>2. CASE i # 1
      <3>1. i - 1 \in 1..Len(s)
        BY <2>2
      <3> HIDE DEF first
      <3> QED
        BY <3>1
    <2> QED
      BY <2>1, <2>2
  <1>3. f \in [1..(Len(s) + 1) -> Events]
    <2> HIDE DEF first
    <2> QED
      BY <1>2
  <1> HIDE DEF f
  <1> QED
    BY <1>1, <1>3

\* Types hold initially.
LEMMA TypeInit == Init => TypeOK
  <1> SUFFICES ASSUME Init PROVE TypeOK
    OBVIOUS
  <1>1. QueueOK
    BY DEF Init, QueueOK
  <1>2. RunnerOK
    BY DEF Init, RunnerOK, At, InitPoints, LoopPoints, ToPoints, RetPoints
  <1>3. EnvOK
    <2>1. /\ sState \in {"UNAVAILABLE", "AVAILABLE"} /\ sim_hotswap \in BOOLEAN
          /\ session \in [Runners -> {"none", "alive", "dead"}]
          /\ callbacks \in [Points -> Nat]
      BY DEF Init
    <2>2. now \in Nat /\ events \in Nat /\ faults \in Nat /\ accepted \subseteq Requests
      BY RilQueuesAssumption DEF Init
    <2>3. done \in [Queues -> Seq(Requests)]
      BY DEF Init
    <2>4. fired \in [Queues -> Seq(TakenEvents)]
      BY DEF Init
    <2> QED
      BY <2>1, <2>2, <2>3, <2>4 DEF EnvOK
  <1> QED
    BY <1>1, <1>2, <1>3 DEF TypeOK

\* A runner that moves from one point of its initialisation to another keeps
\* what is known of the runners.
LEMMA GotoOK ==
  ASSUME TypeOK, NEW q \in Runners, NEW from, NEW to \in InitPoints \cup {"top"},
         Goto(q, from, to), UNCHANGED <<ret, event, request>>
  PROVE  RunnerOK'
  BY DEF TypeOK, RunnerOK, Goto, At, InitPoints, LoopPoints, ToPoints, RetPoints

\* The two ends of Commands.
LEMMA CommandsOK ==
  ASSUME TypeOK, NEW q \in Runners, NEW from, NEW to \in InitPoints \cup {"top"},
         Commands(q, from, to), UNCHANGED <<ret, event, request>>
  PROVE  RunnerOK' /\ faults' \in Nat
  <1>1. RunnerOK'
    <2>1. "close" \in InitPoints \cup {"top"}
      BY DEF InitPoints
    <2> QED
      BY <2>1, GotoOK DEF Commands
  <1>2. faults' \in Nat
    BY DEF Commands, TypeOK, EnvOK
  <1> QED
    BY <1>1, <1>2

\* Waking the runner of a queue keeps what is known of the runners.
LEMMA WakeRunnerOK ==
  ASSUME TypeOK, NEW q, pc' = Wake(pc, q), UNCHANGED <<ret, event, request>>
  PROVE  RunnerOK'
  <1>1. pc \in [Runners -> AllPoints]
    BY DEF TypeOK, RunnerOK, AllPoints
  <1>2. pc' \in [Runners -> AllPoints]
    BY <1>1, WakeOK
  <1>3. ASSUME NEW x \in Runners,
               NEW P \in {{"event", "poll"}, {"request", "handler"}}, At(x, P)'
        PROVE  At(x, P)
    <2>1. \/ pc'[x] = pc[x]
          \/ pc'[x] \in {"condwoken", "timedwoken"}
      BY <1>1, WakeOK
    <2> QED
      BY <1>3, <2>1 DEF At, ToPoints, RetPoints
  <1>4. \A x \in Runners : At(x, {"event", "poll"})' => event'[x] # None
    BY <1>3 DEF TypeOK, RunnerOK
  <1>5. \A x \in Runners : At(x, {"request", "handler"})' => request'[x] # None
    BY <1>3 DEF TypeOK, RunnerOK
  <1> QED
    BY <1>2, <1>4, <1>5 DEF TypeOK, RunnerOK, AllPoints

\* Closing a queue, by a reader (p = pc) or by a runner that moves on.
LEMMA signalCloseOK ==
  ASSUME NEW p \in [Runners -> AllPoints], NEW k \in Queues, QueueOK,
         signalClose(k, p), UNCHANGED <<requestList, eventList>>
  PROVE  /\ QueueOK'
         /\ closed' = [closed EXCEPT ![k] = TRUE]
         /\ pc' = Wake(p, k)
  BY DEF signalClose, QueueOK

\* Taking the first request and a due event off the lists.
LEMMA TakeOK ==
  ASSUME TypeOK, NEW q \in Runners, Take(q), UNCHANGED <<closed, ret>>
  PROVE  QueueOK' /\ RunnerOK'
  <1> DEFINE due == eventList[q] # <<>> /\ Head(eventList[q]).abstime < now
             req == requestList[q] # <<>>
  <1>1. q \in Queues
    BY RunnersOK
  <1>2. eventList[q] \in Seq(Events) /\ requestList[q] \in Seq(Requests)
    BY <1>1 DEF TypeOK, QueueOK
  <1>3. eventList[q] # <<>> => Head(eventList[q]) \in Events /\ Tail(eventList[q]) \in Seq(Events)
    BY <1>2
  <1>4. req => Head(requestList[q]) \in Requests /\ Tail(requestList[q]) \in Seq(Requests)
    BY <1>2
  <1>5. QueueOK'
    BY <1>1, <1>2, <1>3, <1>4 DEF TypeOK, QueueOK, Take
  <1>t. eventList[q] # <<>> => Taken(Head(eventList[q])) \in TakenEvents
    BY <1>3 DEF Taken, Events, TakenEvents, TypeOK, EnvOK
  <1>6. /\ event' \in [Runners -> TakenEvents \cup {None}]
        /\ request' \in [Runners -> Requests \cup {None}]
    BY <1>t, <1>4 DEF Take, TypeOK, RunnerOK
  <1>7. pc' \in [Runners -> AllPoints] /\ ret' \in [Runners -> RetPoints]
    BY DEF Take, TypeOK, RunnerOK, AllPoints, LoopPoints
  <1>8. ASSUME NEW x \in Runners
        PROVE  /\ At(x, {"event", "poll"})' => event'[x] # None
               /\ At(x, {"request", "handler"})' => request'[x] # None
    <2>1. CASE x # q
      BY <2>1 DEF Take, TypeOK, RunnerOK, At
    <2>2. CASE x = q
      <3>1. pc'[q] = IF due THEN "event" ELSE IF req THEN "request" ELSE "top"
        BY DEF Take, TypeOK, RunnerOK
      <3>2. due => event'[q] # None
        BY <1>t, RilQueuesAssumption DEF Take, TypeOK, RunnerOK, TakenEvents
      <3>3. req => request'[q] # None
        BY <1>4, RilQueuesAssumption DEF Take, TypeOK, RunnerOK
      <3> HIDE DEF due, req
      <3> QED
        BY <2>2, <3>1, <3>2, <3>3 DEF At, ToPoints, RetPoints
    <2> QED
      BY <2>1, <2>2
  <1>9. RunnerOK'
    BY <1>6, <1>7, <1>8 DEF RunnerOK, AllPoints
  <1> QED
    BY <1>5, <1>9

\* Waiting or starting over.
LEMMA StayOK ==
  ASSUME TypeOK, NEW q \in Runners, NEW to \in {"top", "cond", "timed", "close"},
         Stay(q, to), UNCHANGED <<closed, ret>>
  PROVE  QueueOK' /\ RunnerOK'
  BY DEF Stay, TypeOK, QueueOK, RunnerOK, At, InitPoints, LoopPoints, ToPoints, RetPoints

\* A runner that runs an event or completes a request.
LEMMA RequestCompleteOK ==
  ASSUME TypeOK, NEW q \in Runners, pc[q] \in {"request", "handler"}, RequestComplete(q),
         UNCHANGED <<ret, event>>
  PROVE  RunnerOK' /\ done' \in [Queues -> Seq(Requests)]
  <1>1. q \in Queues /\ done[q] \in Seq(Requests)
    BY RunnersOK DEF TypeOK, EnvOK
  <1>2. request[q] \in Requests
    BY DEF TypeOK, RunnerOK, At
  <1>3. Append(done[q], request[q]) \in Seq(Requests)
    BY <1>1, <1>2
  <1>4. done' \in [Queues -> Seq(Requests)]
    BY <1>1, <1>3 DEF RequestComplete, TypeOK, EnvOK
  <1>5. RunnerOK'
    BY DEF RequestComplete, TypeOK, RunnerOK, At, LoopPoints, ToPoints, RetPoints
  <1> QED
    BY <1>4, <1>5

\* The steps of the callers and of the world around the runners keep the types.
LEMMA EnvTypes ==
  ASSUME TypeOK,
         \/ \E r \in Requests : onRequest(r)
         \/ \E isPrio \in BOOLEAN, d \in Delays : enqueueRILEvent(isPrio, d)
         \/ \E q \in Runners : CommandTimeout(q) \/ HangUp(q) \/ onSimHotswap(q)
         \/ \E s \in Points : onATReaderClosed(s)
         \/ Tick \/ SetClock
  PROVE  TypeOK'
  <1> USE RilQueuesAssumption
  <1>p. pc \in [Runners -> AllPoints]
    BY DEF TypeOK, RunnerOK, AllPoints
  <1>1. ASSUME NEW r \in Requests, onRequest(r) PROVE TypeOK'
    <2> DEFINE q == QueueOf(r \in PrioRequests)
    <2>1. q \in Queues /\ requestList[q] \in Seq(Requests)
      BY QueueOfOK DEF TypeOK, QueueOK
    <2> HIDE DEF q
    <2>2. Append(requestList[q], r) \in Seq(Requests)
      BY <2>1
    <2>3. QueueOK'
      BY <1>1, <2>1, <2>2 DEF onRequest, q, TypeOK, QueueOK
    <2>4. RunnerOK'
      BY <1>1, WakeRunnerOK DEF onRequest
    <2>5. EnvOK'
      BY <1>1 DEF onRequest, radio, channel, bounds, TypeOK, EnvOK
    <2> QED
      BY <2>3, <2>4, <2>5 DEF TypeOK
  <1>2. ASSUME NEW isPrio \in BOOLEAN, NEW d \in Delays, enqueueRILEvent(isPrio, d)
        PROVE  TypeOK'
    <2> DEFINE q == QueueOf(isPrio)
               e == [id |-> events + 1, abstime |-> now + d]
    <2>1. q \in Queues /\ eventList[q] \in Seq(Events)
      BY QueueOfOK DEF TypeOK, QueueOK
    <2>2. e \in Events
      BY DEF TypeOK, EnvOK, Events
    <2> HIDE DEF q, e
    <2>3. insertEvent(eventList[q], e) \in Seq(Events)
      BY <2>1, <2>2, insertEventOK
    <2>4. QueueOK'
      BY <1>2, <2>1, <2>3 DEF enqueueRILEvent, q, e, TypeOK, QueueOK
    <2>5. RunnerOK'
      BY <1>2, WakeRunnerOK DEF enqueueRILEvent
    <2>6. EnvOK'
      BY <1>2 DEF enqueueRILEvent, radio, channel, history, TypeOK, EnvOK
    <2> QED
      BY <2>4, <2>5, <2>6 DEF TypeOK
  <1>3. ASSUME NEW q \in Runners, CommandTimeout(q) PROVE TypeOK'
    <2>1. PICK to \in AfterTimeout(q) : ret' = [ret EXCEPT ![q] = to]
      BY <1>3 DEF CommandTimeout
    <2>2. /\ to \in RetPoints
          /\ to \in {"event", "poll"} => pc[q] \in {"event", "poll"}
          /\ to \in {"request", "handler"} => pc[q] \in {"request", "handler"}
      BY <1>3, <2>1 DEF CommandTimeout, AfterTimeout, AfterChannel, RetPoints
    <2>3. RunnerOK'
      BY <1>3, <2>1, <2>2 DEF CommandTimeout, TypeOK, RunnerOK, At, ToPoints, RetPoints
    <2>4. QueueOK' /\ EnvOK'
      BY <1>3 DEF CommandTimeout, queue, radio, channel, history, TypeOK, QueueOK, EnvOK
    <2> QED
      BY <2>3, <2>4 DEF TypeOK
  <1>4. ASSUME NEW q \in Runners, HangUp(q) PROVE TypeOK'
    <2>1. QueueOK' /\ RunnerOK'
      BY <1>4 DEF HangUp, queue, runner, TypeOK, QueueOK, RunnerOK, At
    <2>2. EnvOK'
      BY <1>4 DEF HangUp, radio, history, Points, TypeOK, EnvOK
    <2> QED
      BY <2>1, <2>2 DEF TypeOK
  <1>5. ASSUME NEW q \in Runners, onSimHotswap(q) PROVE TypeOK'
    <2>1. QueueOK' /\ RunnerOK'
      BY <1>5 DEF onSimHotswap, queue, runner, TypeOK, QueueOK, RunnerOK, At
    <2>2. EnvOK'
      BY <1>5 DEF onSimHotswap, channel, bounds, history, TypeOK, EnvOK
    <2> QED
      BY <2>1, <2>2 DEF TypeOK
  <1>6. ASSUME NEW s \in Points, onATReaderClosed(s) PROVE TypeOK'
    <2>1. QueueOK' /\ RunnerOK'
      <3>1. CASE s \in Queues
        <4>1. signalClose(s, pc)
          BY <1>6, <3>1 DEF onATReaderClosed
        <4>2. QueueOK' /\ pc' = Wake(pc, s)
          BY <1>6, <3>1, <4>1, <1>p, signalCloseOK DEF onATReaderClosed, TypeOK
        <4> QED
          BY <1>6, <4>2, WakeRunnerOK DEF onATReaderClosed
      <3>2. CASE s \notin Queues
        BY <1>6, <3>2 DEF onATReaderClosed, TypeOK, QueueOK, RunnerOK, At
      <3> QED
        BY <3>1, <3>2
    <2>3. callbacks' \in [Points -> Nat]
      BY <1>6 DEF onATReaderClosed, TypeOK, EnvOK
    <2>4. EnvOK'
      BY <1>6, <2>3 DEF onATReaderClosed, bounds, history, TypeOK, EnvOK
    <2> QED
      BY <2>1, <2>4 DEF TypeOK
  <1>7. ASSUME Tick \/ SetClock PROVE TypeOK'
    <2>1. QueueOK' /\ RunnerOK'
      BY <1>7 DEF Tick, SetClock, queue, runner, TypeOK, QueueOK, RunnerOK, At
    <2>2. EnvOK'
      BY <1>7 DEF Tick, SetClock, radio, channel, history, TypeOK, EnvOK
    <2> QED
      BY <2>1, <2>2 DEF TypeOK
  <1> QED
    BY <1>1, <1>2, <1>3, <1>4, <1>5, <1>6, <1>7

\* The steps of a runner keep the types.
LEMMA RunnerTypes ==
  ASSUME TypeOK, NEW q \in Runners, RunnerStep(q) \/ ReadEmrdy(q)
  PROVE  TypeOK'
  <1> USE RilQueuesAssumption
  <1>p. pc \in [Runners -> AllPoints]
    BY DEF TypeOK, RunnerOK, AllPoints
  <1>q. q \in Queues
    BY RunnersOK
  <1>1. CASE OpenDevice(q) \/ ReadEmrdy(q)
    <2>1. RunnerOK'
      BY <1>1, GotoOK DEF OpenDevice, ReadEmrdy, InitPoints
    <2>2. QueueOK' /\ EnvOK'
      BY <1>1 DEF OpenDevice, ReadEmrdy, queue, radio, channel, bounds, history,
                  TypeOK, QueueOK, EnvOK
    <2> QED
      BY <2>1, <2>2 DEF TypeOK
  <1>2. CASE WaitEmrdy(q) \/ at_open(q) \/ SetCallbacks(q)
    <2>1. RunnerOK'
      BY <1>2, GotoOK DEF WaitEmrdy, at_open, SetCallbacks, InitPoints
    <2>2. QueueOK'
      BY <1>2 DEF WaitEmrdy, at_open, SetCallbacks, queue, TypeOK, QueueOK
    <2>3. EnvOK'
      <3>1. CASE WaitEmrdy(q)
        BY <3>1 DEF WaitEmrdy, radio, channel, history, TypeOK, EnvOK
      <3>2. CASE at_open(q)
        <4>1. session' \in [Runners -> {"none", "alive", "dead"}] /\ faults' \in Nat
          BY <3>2 DEF at_open, TypeOK, EnvOK
        <4> QED
          BY <3>2, <4>1 DEF at_open, radio, history, TypeOK, EnvOK
      <3>3. CASE SetCallbacks(q)
        BY <3>3 DEF SetCallbacks, channel, bounds, history, TypeOK, EnvOK
      <3> QED
        BY <1>2, <3>1, <3>2, <3>3
    <2> QED
      BY <2>1, <2>2, <2>3 DEF TypeOK
  <1>3. CASE initializeCommon(q) \/ initializePrioChannel(q)
    <2>1. RunnerOK' /\ faults' \in Nat
      BY <1>3, CommandsOK DEF initializeCommon, initializePrioChannel, InitPoints
    <2>2. QueueOK' /\ EnvOK'
      BY <1>3, <2>1 DEF initializeCommon, initializePrioChannel, queue, radio, channel,
                        history, TypeOK, QueueOK, EnvOK
    <2> QED
      BY <2>1, <2>2 DEF TypeOK
  <1>4. CASE ClearClosed(q)
    <2>1. RunnerOK'
      BY <1>4, GotoOK DEF ClearClosed, InitPoints
    <2>2. QueueOK' /\ EnvOK'
      BY <1>4, <1>q DEF ClearClosed, radio, channel, bounds, history, TypeOK, QueueOK, EnvOK
    <2> QED
      BY <2>1, <2>2 DEF TypeOK
  <1>5. CASE initializeChannel(q)
    <2>1. RunnerOK' /\ faults' \in Nat
      <3>1. UNCHANGED <<ret, event, request>>
        BY <1>5 DEF initializeChannel
      <3>2. CASE Goto(q, "setoff", "channel") /\ UNCHANGED faults
        BY <3>1, <3>2, GotoOK DEF InitPoints, TypeOK, EnvOK
      <3>3. CASE Commands(q, "channel", "radioon")
        BY <3>1, <3>3, CommandsOK DEF InitPoints
      <3>4. CASE Goto(q, "radioon", AfterChannel) /\ UNCHANGED faults
        BY <3>1, <3>4, GotoOK DEF InitPoints, AfterChannel, TypeOK, EnvOK
      <3> QED
        BY <1>5, <3>2, <3>3, <3>4 DEF initializeChannel
    <2>2. QueueOK' /\ EnvOK'
      BY <1>5, <2>1 DEF initializeChannel, queue, channel, history, TypeOK, QueueOK, EnvOK
    <2> QED
      BY <2>1, <2>2 DEF TypeOK
  <1>6. CASE at_close(q)
    <2>1. RunnerOK'
      BY <1>6, GotoOK DEF at_close, InitPoints
    <2>2. QueueOK' /\ EnvOK'
      BY <1>6 DEF at_close, queue, radio, history, Points, TypeOK, QueueOK, EnvOK
    <2> QED
      BY <2>1, <2>2 DEF TypeOK
  <1>7. CASE QueueLoop(q) \/ AfterTimedWait(q)
    <2>1. UNCHANGED <<closed, ret>>
      BY <1>7 DEF QueueLoop, AfterTimedWait
    <2>2. Take(q) \/ \E to \in {"top", "cond", "timed", "close"} : Stay(q, to)
      BY <1>7 DEF QueueLoop, AfterTimedWait
    <2>3. QueueOK' /\ RunnerOK'
      BY <2>1, <2>2, TakeOK, StayOK
    <2>4. EnvOK'
      BY <1>7 DEF QueueLoop, AfterTimedWait, radio, channel, bounds, history, TypeOK, EnvOK
    <2> QED
      BY <2>3, <2>4 DEF TypeOK
  <1>8. CASE TimedOut(q)
    <2>1. RunnerOK'
      BY <1>8 DEF TimedOut, TypeOK, RunnerOK, At, LoopPoints, ToPoints, RetPoints
    <2>2. QueueOK' /\ EnvOK'
      BY <1>8 DEF TimedOut, queue, radio, channel, bounds, history, TypeOK, QueueOK, EnvOK
    <2> QED
      BY <2>1, <2>2 DEF TypeOK
  <1>9. CASE runEvent(q)
    <2>1. event[q] \in TakenEvents
      BY <1>9 DEF runEvent, Goto, TypeOK, RunnerOK, At
    <2>3. fired' \in [Queues -> Seq(TakenEvents)]
      <3> DEFINE R == TakenEvents
                 e == event[q]
      <3>1. e \in R /\ fired \in [Queues -> Seq(R)]
        BY <2>1 DEF TypeOK, EnvOK
      <3>2. fired' = fired \/ fired' = [fired EXCEPT ![q] = Append(fired[q], e)]
        BY <1>9 DEF runEvent
      <3> HIDE DEF R, e
      <3>3. Append(fired[q], e) \in Seq(R)
        BY <3>1, <1>q
      <3>4. fired' \in [Queues -> Seq(R)]
        BY <3>1, <3>2, <3>3
      <3> QED
        BY <3>4 DEF R
    <2>4. RunnerOK'
      <3>1. pc' \in [Runners -> AllPoints]
        BY <1>9, <1>p DEF runEvent, Goto, AllPoints, LoopPoints
      <3>2. event' \in [Runners -> TakenEvents \cup {None}]
        BY <1>9 DEF runEvent, TypeOK, RunnerOK
      <3>3. ASSUME NEW x \in Runners
            PROVE  /\ At(x, {"event", "poll"})' => event'[x] # None
                   /\ At(x, {"request", "handler"})' => request'[x] # None
        BY <1>9, <2>1 DEF runEvent, Goto, TypeOK, RunnerOK, At, ToPoints, LoopPoints, InitPoints
      <3> QED
        BY <1>9, <3>1, <3>2, <3>3 DEF runEvent, TypeOK, RunnerOK, AllPoints
    <2>5. QueueOK' /\ EnvOK'
      BY <1>9, <2>3 DEF runEvent, queue, channel, bounds, TypeOK, QueueOK, EnvOK
    <2> QED
      BY <2>4, <2>5 DEF TypeOK
  <1>10. CASE processRequest(q)
    <2>1. RunnerOK' /\ done' \in [Queues -> Seq(Requests)]
      <3>1. CASE pc[q] \in {"request", "handler"} /\ RequestComplete(q)
        BY <1>10, <3>1, RequestCompleteOK DEF processRequest
      <3>2. CASE pc[q] = "request" /\ pc' = [pc EXCEPT ![q] = "handler"]
                 /\ UNCHANGED <<request, done>>
        BY <1>10, <3>2 DEF processRequest, TypeOK, RunnerOK, EnvOK, At, LoopPoints, ToPoints, RetPoints
      <3> QED
        BY <1>10, <3>1, <3>2 DEF processRequest
    <2>2. QueueOK' /\ EnvOK'
      BY <1>10, <2>1 DEF processRequest, queue, channel, bounds, TypeOK, QueueOK, EnvOK
    <2> QED
      BY <2>1, <2>2 DEF TypeOK
  <1>11. CASE onATTimeout(q)
    <2>1. EnvOK'
      BY <1>11 DEF onATTimeout, channel, bounds, history, TypeOK, EnvOK
    <2>2. QueueOK' /\ pc' \in [Runners -> AllPoints]
          /\ \A x \in Runners :
               /\ At(x, {"event", "poll"})' => At(x, {"event", "poll"})
               /\ At(x, {"request", "handler"})' => At(x, {"request", "handler"})
      <3>1. CASE pc[q] = "to_unavail"
        BY <1>11, <1>p, <3>1 DEF onATTimeout, TypeOK, QueueOK, RunnerOK, At, ToPoints, AllPoints
      <3>2. CASE pc[q] = "to_normal"
        <4> DEFINE p == [pc EXCEPT ![q] = "to_prio"]
        <4>1. signalClose("normal", p)
          BY <1>11, <3>2 DEF onATTimeout
        <4>2. p \in [Runners -> AllPoints]
          BY <1>p DEF AllPoints, ToPoints, RetPoints
        <4>3. QueueOK' /\ pc' = Wake(p, "normal")
          BY <1>11, <4>1, <4>2, signalCloseOK DEF onATTimeout, TypeOK, Queues
        <4>4. \A x \in Runners : pc'[x] = p[x] \/ pc'[x] \in {"condwoken", "timedwoken"}
          <5> HIDE DEF p
          <5> QED
            BY <4>2, <4>3, WakeOK
        <4>5. pc' \in [Runners -> AllPoints]
          BY <4>2, <4>3, WakeOK
        <4> QED
          BY <1>11, <1>p, <3>2, <4>3, <4>4, <4>5 DEF onATTimeout, At, ToPoints, TypeOK, RunnerOK
      <3>3. CASE pc[q] = "to_prio"
        <4> DEFINE p == [pc EXCEPT ![q] = ret[q]]
        <4>1. signalClose("prio", p)
          BY <1>11, <3>3 DEF onATTimeout
        <4>2. p \in [Runners -> AllPoints]
          BY <1>p DEF AllPoints, InitPoints, LoopPoints, RetPoints, TypeOK, RunnerOK
        <4>3. QueueOK' /\ pc' = Wake(p, "prio")
          BY <1>11, <4>1, <4>2, signalCloseOK DEF onATTimeout, TypeOK, Queues
        <4>4. \A x \in Runners : pc'[x] = p[x] \/ pc'[x] \in {"condwoken", "timedwoken"}
          <5> HIDE DEF p
          <5> QED
            BY <4>2, <4>3, WakeOK
        <4>5. pc' \in [Runners -> AllPoints]
          BY <4>2, <4>3, WakeOK
        <4> QED
          BY <1>11, <1>p, <3>3, <4>3, <4>4, <4>5
          DEF onATTimeout, At, ToPoints, InitPoints, LoopPoints, TypeOK, RunnerOK
      <3> QED
        BY <1>11, <3>1, <3>2, <3>3 DEF onATTimeout
    <2>3. RunnerOK'
      BY <1>11, <2>2 DEF onATTimeout, TypeOK, RunnerOK, AllPoints
    <2> QED
      BY <2>1, <2>2, <2>3 DEF TypeOK
  <1> QED
    BY <1>1, <1>2, <1>3, <1>4, <1>5, <1>6, <1>7, <1>8, <1>9, <1>10, <1>11 DEF RunnerStep

LEMMA TypeStep == TypeOK /\ [Next]_vars => TypeOK'
  <1> SUFFICES ASSUME TypeOK, [Next]_vars PROVE TypeOK'
    OBVIOUS
  <1>1. CASE UNCHANGED vars
    BY <1>1 DEF vars, queue, radio, runner, channel, bounds, history,
                TypeOK, QueueOK, RunnerOK, EnvOK, At
  <1> QED
    BY <1>1, EnvTypes, RunnerTypes DEF Next

\* Queues, runners and their surroundings are well typed in every reachable
\* state, and a runner that runs an event or a request has one at hand.
THEOREM TypeCorrect == Spec => []TypeOK
  <1> QED
    BY TypeInit, TypeStep, PTL DEF Spec

----------------------------------------------------------------------------
(* How a step can change the control points. *)

\* signalCloseQueues on one queue: it is closed, and its runner does not sleep.
LEMMA CloseEffect ==
  ASSUME NEW p \in [Runners -> AllPoints], NEW k \in Queues, QueueOK, signalClose(k, p)
  PROVE  /\ closed'[k] = TRUE
         /\ \A x \in Queues : x # k => closed'[x] = closed[x]
         /\ \A x \in Runners : closed[x] => closed'[x]
         /\ \A x \in Runners : pc'[x] = p[x] \/ pc'[x] \in {"condwoken", "timedwoken"}
         /\ \A x \in Runners :
              pc'[x] # p[x] => x = k /\ p[x] \in {"cond", "timed"}
         /\ k \in Runners => pc'[k] \notin {"cond", "timed"}
  <1>1. closed' = [closed EXCEPT ![k] = TRUE] /\ pc' = Wake(p, k)
    BY DEF signalClose
  <1>2. /\ closed'[k] = TRUE
        /\ \A x \in Queues : x # k => closed'[x] = closed[x]
    BY <1>1 DEF QueueOK
  <1>3. \A x \in Runners : closed[x] => closed'[x]
    BY <1>2, RunnersOK
  <1>4. \A x \in Runners : /\ pc'[x] = p[x] \/ pc'[x] \in {"condwoken", "timedwoken"}
                           /\ pc'[x] # p[x] => x = k /\ p[x] \in {"cond", "timed"}
    BY <1>1, WakeOK
  <1>5. k \in Runners => pc'[k] \notin {"cond", "timed"}
    BY <1>1, WakeOK
  <1> QED
    BY <1>2, <1>3, <1>4, <1>5

\* Every step keeps NoMissedWakeup.
LEMMA WakeupStep == TypeOK /\ NoMissedWakeup /\ [Next]_vars => NoMissedWakeup'
  <1> SUFFICES ASSUME TypeOK, NoMissedWakeup, [Next]_vars PROVE NoMissedWakeup'
    OBVIOUS
  <1>p. pc \in [Runners -> AllPoints]
    BY DEF TypeOK, RunnerOK, AllPoints
  <1>k. ASSUME NEW x \in Runners, UNCHANGED <<requestList[x], eventList[x], closed[x]>>,
               pc'[x] = pc[x] \/ pc'[x] \notin {"cond", "timed"}
        PROVE  /\ pc'[x] = "cond"  => ~closed'[x] /\ requestList'[x] = <<>> /\ eventList'[x] = <<>>
               /\ pc'[x] = "timed" => ~closed'[x] /\ requestList'[x] = <<>> /\ eventList'[x] # <<>>
    BY <1>k DEF NoMissedWakeup
  <1>1. CASE UNCHANGED vars
    BY <1>1 DEF vars, queue, runner, NoMissedWakeup
  <1>2. ASSUME NEW r \in Requests, onRequest(r) PROVE NoMissedWakeup'
    <2> DEFINE q == QueueOf(r \in PrioRequests)
    <2>1. q \in Runners
      BY QueueOfOK
    <2>2. /\ pc' = Wake(pc, q) /\ UNCHANGED <<eventList, closed>>
          /\ requestList' = [requestList EXCEPT ![q] = Append(@, r)]
      BY <1>2 DEF onRequest
    <2> HIDE DEF q
    <2>3. \A x \in Runners : x # q => pc'[x] = pc[x] /\ requestList'[x] = requestList[x]
      BY <2>2, <1>p, WakeOK, RunnersOK DEF TypeOK, QueueOK
    <2>4. pc'[q] \notin {"cond", "timed"}
      BY <2>1, <2>2, <1>p, WakeOK
    <2> QED
      BY <2>1, <2>2, <2>3, <2>4, <1>k DEF NoMissedWakeup
  <1>3. ASSUME NEW b \in BOOLEAN, NEW d \in Delays, enqueueRILEvent(b, d)
        PROVE  NoMissedWakeup'
    <2> DEFINE q == QueueOf(b)
    <2>1. q \in Runners
      BY QueueOfOK
    <2>2. /\ pc' = Wake(pc, q) /\ UNCHANGED <<requestList, closed>>
          /\ eventList' = [eventList EXCEPT ![q] =
               insertEvent(@, [id |-> events + 1, abstime |-> now + d])]
      BY <1>3 DEF enqueueRILEvent
    <2> HIDE DEF q
    <2>3. \A x \in Runners : x # q => pc'[x] = pc[x] /\ eventList'[x] = eventList[x]
      <3>1. \A x \in Runners : x # q => pc'[x] = pc[x]
        BY <2>2, <1>p, WakeOK
      <3>2. \A x \in Queues : x # q => eventList'[x] = eventList[x]
        BY <2>2 DEF TypeOK, QueueOK
      <3> QED
        BY <3>1, <3>2, RunnersOK
    <2>4. pc'[q] \notin {"cond", "timed"}
      BY <2>1, <2>2, <1>p, WakeOK
    <2> QED
      BY <2>1, <2>2, <2>3, <2>4, <1>k DEF NoMissedWakeup
  <1>4. ASSUME NEW k \in Queues, NEW p \in [Runners -> AllPoints], signalClose(k, p),
               UNCHANGED <<requestList, eventList>>,
               \A x \in Runners : p[x] = pc[x] \/ p[x] \notin {"cond", "timed"}
        PROVE  NoMissedWakeup'
    <2>1. ASSUME NEW x \in Runners, x # k
          PROVE  closed'[x] = closed[x] /\ pc'[x] = p[x]
      <3>1. QueueOK
        BY DEF TypeOK
      <3>2. /\ \A y \in Queues : y # k => closed'[y] = closed[y]
            /\ \A y \in Runners : pc'[y] # p[y] => y = k /\ p[y] \in {"cond", "timed"}
        BY <1>4, <3>1, CloseEffect
      <3> QED
        BY <2>1, <3>2, RunnersOK
    <2>2. k \in Runners => pc'[k] \notin {"cond", "timed"}
      BY <1>4, CloseEffect DEF TypeOK
    <2> QED
      BY <1>4, <2>1, <2>2, <1>k DEF NoMissedWakeup
  <1>5. ASSUME NEW s \in Points, onATReaderClosed(s) PROVE NoMissedWakeup'
    <2>1. CASE s \in Queues
      BY <1>4, <1>5, <1>p, <2>1 DEF onATReaderClosed
    <2>2. CASE s \notin Queues
      BY <1>5, <2>2 DEF onATReaderClosed, NoMissedWakeup
    <2> QED
      BY <2>1, <2>2
  <1>6. ASSUME NEW q \in Runners, CommandTimeout(q) \/ HangUp(q) \/ onSimHotswap(q)
        PROVE  NoMissedWakeup'
    BY <1>6 DEF CommandTimeout, HangUp, onSimHotswap, queue, runner, NoMissedWakeup,
                TypeOK, RunnerOK
  <1>7. CASE Tick \/ SetClock
    BY <1>7 DEF Tick, SetClock, queue, runner, NoMissedWakeup
  <1>8. ASSUME NEW q \in Runners, RunnerStep(q) \/ ReadEmrdy(q) PROVE NoMissedWakeup'
    <2>1. CASE onATTimeout(q)
      <3>1. CASE pc[q] = "to_unavail"
        BY <2>1, <3>1 DEF onATTimeout, NoMissedWakeup, TypeOK, RunnerOK
      <3>2. CASE pc[q] = "to_normal"
        <4> DEFINE p == [pc EXCEPT ![q] = "to_prio"]
        <4>1. p \in [Runners -> AllPoints] /\ \A x \in Runners : x # q => p[x] = pc[x]
          BY <1>p DEF AllPoints, ToPoints, RetPoints
        <4>2. p[q] \notin {"cond", "timed"}
          BY <1>p
        <4>3. signalClose("normal", p) /\ UNCHANGED <<requestList, eventList>>
          BY <2>1, <3>2 DEF onATTimeout
        <4> HIDE DEF p
        <4> QED
          BY <1>4, <4>1, <4>2, <4>3 DEF Queues
      <3>3. CASE pc[q] = "to_prio"
        <4> DEFINE p == [pc EXCEPT ![q] = ret[q]]
        <4>1. p \in [Runners -> AllPoints] /\ \A x \in Runners : x # q => p[x] = pc[x]
          BY <1>p DEF AllPoints, InitPoints, LoopPoints, RetPoints, TypeOK, RunnerOK
        <4>3. signalClose("prio", p) /\ UNCHANGED <<requestList, eventList>>
          BY <2>1, <3>3 DEF onATTimeout
        <4>2. p[q] \notin {"cond", "timed"}
          BY <1>p DEF TypeOK, RunnerOK, RetPoints
        <4> HIDE DEF p
        <4> QED
          BY <1>4, <4>1, <4>2, <4>3 DEF Queues
      <3> QED
        BY <2>1, <3>1, <3>2, <3>3 DEF onATTimeout
    <2>2. CASE QueueLoop(q) \/ AfterTimedWait(q)
      <3>1. \A x \in Runners : x # q => /\ pc'[x] = pc[x] /\ closed'[x] = closed[x]
                                        /\ requestList'[x] = requestList[x]
                                        /\ eventList'[x] = eventList[x]
        BY <2>2, <1>p, RunnersOK
        DEF QueueLoop, AfterTimedWait, Take, Stay, TypeOK, QueueOK
      <3>2. /\ pc'[q] = "cond" => ~closed'[q] /\ requestList'[q] = <<>> /\ eventList'[q] = <<>>
            /\ pc'[q] = "timed" => ~closed'[q] /\ requestList'[q] = <<>> /\ eventList'[q] # <<>>
        BY <2>2, <1>p, RunnersOK
        DEF QueueLoop, AfterTimedWait, Take, Stay, TypeOK, QueueOK
      <3> QED
        BY <3>1, <3>2, <1>k DEF NoMissedWakeup
    <2>3. CASE ClearClosed(q)
      BY <2>3, <1>p, RunnersOK DEF ClearClosed, Goto, NoMissedWakeup, TypeOK, QueueOK
    <2>4. CASE OpenDevice(q) \/ WaitEmrdy(q) \/ at_open(q) \/ SetCallbacks(q) \/ ReadEmrdy(q)
      BY <2>4, <1>p DEF OpenDevice, WaitEmrdy, at_open, SetCallbacks, ReadEmrdy, Goto, queue,
                        NoMissedWakeup
    <2>5. CASE initializeCommon(q) \/ initializeChannel(q) \/ initializePrioChannel(q)
      BY <2>5, <1>p DEF initializeCommon, initializeChannel, initializePrioChannel, Commands,
                        AfterChannel, Goto, queue, NoMissedWakeup
    <2>6. CASE at_close(q) \/ TimedOut(q) \/ runEvent(q) \/ processRequest(q)
      BY <2>6, <1>p DEF at_close, TimedOut, runEvent, processRequest, RequestComplete, Goto,
                        queue, NoMissedWakeup
    <2> QED
      BY <1>8, <2>1, <2>2, <2>3, <2>4, <2>5, <2>6 DEF RunnerStep
  <1> QED
    BY <1>1, <1>2, <1>3, <1>5, <1>6, <1>7, <1>8 DEF Next

\* A runner sleeps only while there is nothing to do and its queue is open.
THEOREM WakeupsNotMissed == Spec => []NoMissedWakeup
  <1>1. Init => NoMissedWakeup
    BY DEF Init, NoMissedWakeup
  <1> QED
    BY <1>1, WakeupStep, TypeInit, TypeStep, PTL DEF Spec

----------------------------------------------------------------------------
(* The radio state against the closed flag. *)

\* The points of the normal runner after setRadioState(RADIO_STATE_OFF).
SetPoints == LoopPoints \cup {"channel", "radioon", "prioinit"}

\* The thread that made the radio unavailable has yet to close the normal queue.
CloseDue == callbacks["normal"] > 0 \/ \E q \in Runners : pc[q] = "to_normal"

\* A step that does not make the radio unavailable, clear the flag, take the
\* normal runner past its setRadioState or close the normal queue.
LEMMA ServingKept ==
  ASSUME ServingMeansAvailable,
         sState' = "UNAVAILABLE" => sState = "UNAVAILABLE",
         closed["normal"] => closed'["normal"],
         At("normal", SetPoints)' => At("normal", SetPoints) \/ sState' # "UNAVAILABLE",
         CloseDue => CloseDue'
  PROVE  ServingMeansAvailable'
  BY DEF ServingMeansAvailable, SetPoints, CloseDue

LEMMA ServingStep == TypeOK /\ ServingMeansAvailable /\ [Next]_vars => ServingMeansAvailable'
  <1> SUFFICES ASSUME TypeOK, ServingMeansAvailable, [Next]_vars PROVE ServingMeansAvailable'
    OBVIOUS
  <1>p. /\ pc \in [Runners -> AllPoints] /\ ret \in [Runners -> RetPoints]
        /\ "normal" \in Runners /\ QueueOK
    BY RunnersOK DEF TypeOK, RunnerOK, AllPoints
  <1>1. CASE UNCHANGED vars
    BY <1>1, ServingKept DEF vars, queue, radio, runner, channel, At, CloseDue
  <1>w. ASSUME NEW k, pc' = Wake(pc, k), UNCHANGED ret
        PROVE  /\ At("normal", SetPoints)' => At("normal", SetPoints)
               /\ \A q \in Runners : pc[q] = "to_normal" => pc'[q] = "to_normal"
    <2>1. \A x \in Runners : \/ pc'[x] = pc[x]
                             \/ pc[x] \in {"cond", "timed"} /\ pc'[x] \in {"condwoken", "timedwoken"}
      BY <1>w, <1>p, WakeOK
    <2> QED
      BY <1>w, <1>p, <2>1 DEF At, SetPoints, LoopPoints, ToPoints
  <1>2. ASSUME NEW r \in Requests, onRequest(r) PROVE ServingMeansAvailable'
    BY <1>2, <1>w, ServingKept DEF onRequest, radio, channel, CloseDue
  <1>3. ASSUME NEW b \in BOOLEAN, NEW d \in Delays, enqueueRILEvent(b, d)
        PROVE  ServingMeansAvailable'
    BY <1>3, <1>w, ServingKept DEF enqueueRILEvent, radio, channel, CloseDue
  <1>5. ASSUME NEW s \in Points, onATReaderClosed(s) PROVE ServingMeansAvailable'
    <2>c. \A x \in Points : callbacks[x] \in Nat
      BY DEF TypeOK, EnvOK
    <2>1. CASE s = "normal"
      <3>1. signalClose("normal", pc)
        BY <1>5, <2>1 DEF onATReaderClosed, Queues
      <3>2. closed'["normal"] = TRUE
        BY <3>1, <1>p, CloseEffect DEF Queues
      <3> QED
        BY <3>2 DEF ServingMeansAvailable
    <2>2. CASE s = "unavail"
      <3>1. callbacks'["normal"] > 0
        BY <1>5, <2>2, <2>c DEF onATReaderClosed, NextPoint, Points
      <3> QED
        BY <3>1 DEF ServingMeansAvailable
    <2>3. CASE s \in {"start", "prio"}
      <3>1. CloseDue => CloseDue'
        <4>1. callbacks["normal"] > 0 => callbacks'["normal"] > 0
          BY <1>5, <2>3, <2>c DEF onATReaderClosed, NextPoint, Points
        <4>2. \A q \in Runners : pc[q] = "to_normal" => pc'[q] = "to_normal"
          BY <1>5, <2>3, <1>w DEF onATReaderClosed, signalClose
        <4> QED
          BY <4>1, <4>2 DEF CloseDue
      <3>2. At("normal", SetPoints)' => At("normal", SetPoints)
        <4>1. CASE s = "prio"
          BY <1>5, <4>1, <1>w DEF onATReaderClosed, signalClose, Queues
        <4>2. CASE s = "start"
          BY <1>5, <4>2 DEF onATReaderClosed, Queues, At
        <4> QED
          BY <2>3, <4>1, <4>2
      <3>3. closed["normal"] => closed'["normal"]
        BY <1>5, <2>3, <1>p DEF onATReaderClosed, signalClose, Queues, QueueOK
      <3> QED
        BY <1>5, <2>3, <3>1, <3>2, <3>3, ServingKept DEF onATReaderClosed
    <2> QED
      BY <2>1, <2>2, <2>3 DEF Points
  <1>6. ASSUME NEW q \in Runners, CommandTimeout(q) PROVE ServingMeansAvailable'
    <2>1. PICK to \in AfterTimeout(q) : ret' = [ret EXCEPT ![q] = to]
      BY <1>6 DEF CommandTimeout
    <2>2. to \in SetPoints => pc[q] \in SetPoints
      BY <1>6, <2>1 DEF CommandTimeout, AfterTimeout, AfterChannel, SetPoints, LoopPoints
    <2>3. At("normal", SetPoints)' => At("normal", SetPoints)
      BY <1>6, <1>p, <2>1, <2>2 DEF CommandTimeout, At, ToPoints, SetPoints, LoopPoints
    <2>4. CloseDue => CloseDue'
      BY <1>6, <1>p DEF CommandTimeout, CloseDue, channel
    <2> QED
      BY <1>6, <2>3, <2>4, ServingKept DEF CommandTimeout, queue, radio
  <1>7. ASSUME NEW q \in Runners, HangUp(q) PROVE ServingMeansAvailable'
    <2>1. CloseDue => CloseDue'
      BY <1>7 DEF HangUp, CloseDue, runner, Points, TypeOK, EnvOK
    <2> QED
      BY <1>7, <2>1, ServingKept DEF HangUp, queue, radio, runner, At
  <1>8. ASSUME (\E q \in Runners : onSimHotswap(q)) \/ Tick \/ SetClock PROVE ServingMeansAvailable'
    BY <1>8, ServingKept DEF onSimHotswap, Tick, SetClock, queue, radio, runner, channel, At, CloseDue
  <1>9. ASSUME NEW q \in Runners, RunnerStep(q) \/ ReadEmrdy(q) PROVE ServingMeansAvailable'
    <2>1. CASE onATTimeout(q)
      <3>1. CASE pc[q] = "to_unavail"
        <4>1. pc'[q] = "to_normal"
          BY <2>1, <3>1, <1>p DEF onATTimeout
        <4> QED
          BY <4>1 DEF ServingMeansAvailable
      <3>2. CASE pc[q] = "to_normal"
        <4>1. [pc EXCEPT ![q] = "to_prio"] \in [Runners -> AllPoints]
          BY <1>p DEF AllPoints, ToPoints
        <4>2. closed'["normal"] = TRUE
          BY <2>1, <3>2, <4>1, <1>p, CloseEffect DEF onATTimeout, Queues
        <4> QED
          BY <4>2 DEF ServingMeansAvailable
      <3>3. CASE pc[q] = "to_prio"
        <4> DEFINE p == [pc EXCEPT ![q] = ret[q]]
        <4>1. p \in [Runners -> AllPoints]
          BY <1>p DEF AllPoints, InitPoints, LoopPoints, RetPoints
        <4>2. /\ \A x \in Runners : x # q => p[x] = pc[x]
              /\ p[q] = ret[q] /\ ret[q] \notin {"cond", "timed"}
          BY <1>p DEF RetPoints
        <4>3. /\ signalClose("prio", p) /\ UNCHANGED <<ret, sState, callbacks>>
          BY <2>1, <3>3 DEF onATTimeout, channel
        <4> HIDE DEF p
        <4>4. /\ \A x \in Runners : \/ pc'[x] = p[x]
                                    \/ p[x] \in {"cond", "timed"} /\ pc'[x] \in {"condwoken", "timedwoken"}
              /\ closed'["normal"] = closed["normal"]
          BY <4>1, <4>3, <1>p, CloseEffect DEF Queues
        <4>5. At("normal", SetPoints)' => At("normal", SetPoints)
          BY <1>p, <3>3, <4>2, <4>3, <4>4 DEF At, SetPoints, LoopPoints, ToPoints
        <4>6. CloseDue => CloseDue'
          BY <1>p, <3>3, <4>2, <4>3, <4>4 DEF CloseDue
        <4> QED
          BY <4>3, <4>4, <4>5, <4>6, ServingKept
      <3> QED
        BY <2>1, <3>1, <3>2, <3>3 DEF onATTimeout
    <2>d. ASSUME pc[q] # "to_normal",
                 \A x \in Runners : x # q => pc'[x] = pc[x],
                 callbacks["normal"] > 0 => callbacks'["normal"] > 0
          PROVE  CloseDue => CloseDue'
      BY <2>d DEF CloseDue
    <2>2. CASE QueueLoop(q) \/ AfterTimedWait(q) \/ TimedOut(q) \/ runEvent(q) \/ processRequest(q)
      <3>1. /\ \A x \in Runners : x # q => pc'[x] = pc[x]
            /\ pc[q] \in LoopPoints
            /\ UNCHANGED <<ret, callbacks, closed>>
        BY <2>2, <1>p DEF QueueLoop, AfterTimedWait, TimedOut, runEvent, processRequest, Take,
                          Stay, RequestComplete, Goto, queue, channel, LoopPoints
      <3>2. pc[q] # "to_normal" /\ pc[q] \in SetPoints
        BY <3>1 DEF LoopPoints, SetPoints
      <3>3. CloseDue => CloseDue'
        BY <2>d, <3>1, <3>2
      <3>4. At("normal", SetPoints)' => At("normal", SetPoints)
        BY <3>1, <3>2, <1>p DEF At
      <3>5. sState' = "UNAVAILABLE" => sState = "UNAVAILABLE"
        BY <2>2 DEF QueueLoop, AfterTimedWait, TimedOut, runEvent, processRequest, radio
      <3> QED
        BY <3>1, <3>3, <3>4, <3>5, ServingKept
    <2>3. CASE ClearClosed(q)
      <3>1. CASE q = "normal"
        BY <2>3, <3>1, <1>p DEF ClearClosed, Goto, ServingMeansAvailable, At, SetPoints,
                                LoopPoints, ToPoints
      <3>2. CASE q # "normal"
        <4>1. /\ \A x \in Runners : x # q => pc'[x] = pc[x]
              /\ pc[q] = "unclose"
              /\ UNCHANGED <<ret, callbacks, sState>> /\ closed'["normal"] = closed["normal"]
          BY <2>3, <3>2, <1>p DEF ClearClosed, Goto, channel, radio, QueueOK, Queues
        <4>2. CloseDue => CloseDue'
          BY <4>1, <2>d
        <4> QED
          BY <4>1, <4>2, <3>2, <1>p, ServingKept DEF At
      <3> QED
        BY <3>1, <3>2
    <2>4. CASE initializeChannel(q)
      <3>1. /\ \A x \in Runners : x # q => pc'[x] = pc[x]
            /\ pc[q] \in {"setoff", "channel", "radioon"}
            /\ UNCHANGED <<ret, callbacks, closed>>
        BY <2>4, <1>p DEF initializeChannel, Commands, Goto, queue, channel
      <3>2. CloseDue => CloseDue'
        BY <3>1, <2>d
      <3>3. sState' = "UNAVAILABLE" => sState = "UNAVAILABLE" /\ pc[q] # "setoff"
        BY <2>4 DEF initializeChannel, Commands, Goto
      <3>4. At("normal", SetPoints)' => At("normal", SetPoints) \/ sState' # "UNAVAILABLE"
        BY <3>1, <3>3, <1>p DEF At, SetPoints
      <3> QED
        BY <3>1, <3>2, <3>3, <3>4, ServingKept
    <2>5. CASE initializePrioChannel(q)
      <3>1. /\ \A x \in Runners : x # q => pc'[x] = pc[x]
            /\ pc[q] = "prioinit"
            /\ UNCHANGED <<ret, callbacks, closed, sState>>
        BY <2>5, <1>p DEF initializePrioChannel, Commands, Goto, queue, channel, radio
      <3>2. CloseDue => CloseDue'
        BY <3>1, <2>d
      <3>3. At("normal", SetPoints)' => At("normal", SetPoints)
        BY <3>1, <1>p DEF At, SetPoints
      <3> QED
        BY <3>1, <3>2, <3>3, ServingKept
    <2>6. CASE OpenDevice(q) \/ WaitEmrdy(q) \/ at_open(q) \/ SetCallbacks(q) \/ ReadEmrdy(q)
               \/ initializeCommon(q) \/ at_close(q)
      <3>1. /\ \A x \in Runners : x # q => pc'[x] = pc[x]
            /\ pc[q] \in InitPoints
            /\ pc'[q] \in {"open", "emrdy", "reading", "ended", "atopen", "opened", "common",
                           "unclose", "close"}
            /\ UNCHANGED <<ret, closed, sState>>
        BY <2>6, <1>p DEF OpenDevice, WaitEmrdy, at_open, SetCallbacks, ReadEmrdy,
             initializeCommon, at_close, Commands, Goto, queue, radio, InitPoints
      <3>c. callbacks["normal"] > 0 => callbacks'["normal"] > 0
        BY <2>6 DEF OpenDevice, WaitEmrdy, at_open, SetCallbacks, ReadEmrdy,
             initializeCommon, at_close, channel, Points, TypeOK, EnvOK
      <3>2. CloseDue => CloseDue'
        BY <3>1, <3>c, <2>d DEF InitPoints
      <3>3. At("normal", SetPoints)' => At("normal", SetPoints)
        BY <3>1, <1>p DEF At, SetPoints, LoopPoints, ToPoints
      <3> QED
        BY <3>1, <3>2, <3>3, ServingKept
    <2> QED
      BY <1>9, <2>1, <2>2, <2>3, <2>4, <2>5, <2>6 DEF RunnerStep
  <1> QED
    BY <1>1, <1>2, <1>3, <1>5, <1>6, <1>7, <1>8, <1>9 DEF Next

\* The order of the two callbacks and of the runner suffices: the normal queue
\* is never served for good with the radio unavailable.
THEOREM ServedOnlyAvailable == Spec => []ServingMeansAvailable
  <1>1. Init => ServingMeansAvailable
    BY RunnersOK DEF Init, ServingMeansAvailable, At, LoopPoints, ToPoints
  <1> QED
    BY <1>1, ServingStep, TypeInit, TypeStep, PTL DEF Spec

----------------------------------------------------------------------------
(* A dead channel.  Between the last command that had to succeed and the   *)
(* queue loop there is isRadioOn(), whose failure is ignored: there, too,  *)
(* a channel that has died is one whose reader is closing the queues.      *)

AlivePoints == LoopPoints \cup {"radioon"}
NoSession   == {"open", "emrdy", "reading", "ended", "atopen", "close"}

DeadInv ==
  \A q \in Runners :
    /\ session[q] = "none" => pc[q] \in NoSession
    /\ At(q, AlivePoints) /\ session[q] = "dead" => closed[q] \/ Closing(q)

\* The points of onATReaderClosed from which queue q has yet to be closed.
Before(q) == {"start", "unavail", "normal"} \cup (IF q = "prio" THEN {"prio"} ELSE {})
ToBefore(q) == {"to_unavail", "to_normal"} \cup (IF q = "prio" THEN {"to_prio"} ELSE {})

\* Closing, with its sets named.
LEMMA ClosingDef ==
  ASSUME NEW q
  PROVE  Closing(q) <=> \/ \E s \in Before(q) : callbacks[s] > 0
                        \/ \E x \in Runners : pc[x] \in ToBefore(q)
  BY DEF Closing, Before, ToBefore

\* Whom a broadcast moves.
LEMMA WakeMoves ==
  ASSUME TypeOK, NEW k, pc' = Wake(pc, k), NEW x \in Runners
  PROVE  pc'[x] = pc[x] \/ pc[x] \in {"cond", "timed"}
  <1>1. pc \in [Runners -> AllPoints]
    BY DEF TypeOK, RunnerOK, AllPoints
  <1>2. \/ Wake(pc, k)[x] = pc[x]
        \/ pc[x] = "cond" \/ pc[x] = "timed"
    BY <1>1, WakeOK
  <1> QED
    BY <1>2

\* Waking runners and moving from outside onATTimeout keep whoever is closing.
LEMMA ClosingKept ==
  ASSUME NEW q,
         \A s \in Points : callbacks[s] > 0 => callbacks'[s] > 0,
         \A x \in Runners : pc[x] \in ToPoints => pc'[x] = pc[x]
  PROVE  Closing(q) => Closing(q)'
  <1>1. Before(q) \subseteq Points /\ ToBefore(q) \subseteq ToPoints
    BY DEF Before, ToBefore, Points, ToPoints
  <1>2. Closing(q)' <=> \/ \E s \in Before(q) : callbacks'[s] > 0
                        \/ \E x \in Runners : pc'[x] \in ToBefore(q)
    BY DEF Closing, Before, ToBefore
  <1> QED
    BY <1>1, <1>2, ClosingDef

\* Whoever is closing a queue goes on or has closed it.
LEMMA ClosingCallback ==
  ASSUME TypeOK, NEW s \in Points, onATReaderClosed(s), NEW q \in Runners
  PROVE  closed[q] \/ Closing(q) => closed'[q] \/ Closing(q)'
  <1>p. /\ pc \in [Runners -> AllPoints] /\ QueueOK /\ q \in Queues
        /\ \A x \in Points : callbacks[x] \in Nat
    BY RunnersOK DEF TypeOK, RunnerOK, AllPoints, EnvOK
  <1>1. \A x \in Runners : pc[x] \in ToPoints => pc'[x] = pc[x]
    <2>1. CASE s \in Queues
      <3>1. signalClose(s, pc)
        BY <2>1 DEF onATReaderClosed
      <3>2. \A x \in Runners : pc'[x] # pc[x] => pc[x] \in {"cond", "timed"}
        BY <2>1, <3>1, <1>p, CloseEffect
      <3> QED
        BY <3>2 DEF ToPoints
    <2>2. CASE s \notin Queues
      BY <2>2 DEF onATReaderClosed
    <2> QED
      BY <2>1, <2>2
  <1>2. closed[q] => closed'[q]
    <2>1. CASE s \in Queues
      BY <2>1, <1>p, CloseEffect DEF onATReaderClosed
    <2>2. CASE s \notin Queues
      BY <2>2 DEF onATReaderClosed
    <2> QED
      BY <2>1, <2>2
  <1>3. CASE s = q
    <2>1. signalClose(q, pc)
      BY <1>3, <1>p DEF onATReaderClosed
    <2> QED
      BY <2>1, <1>p, CloseEffect
  <1>4. ASSUME s # q, Closing(q) PROVE Closing(q)'
    <2>1. CASE \E x \in Runners : pc[x] \in ToBefore(q)
      <3>1. \E x \in Runners : pc'[x] \in ToBefore(q)
        BY <2>1, <1>1 DEF ToBefore, ToPoints
      <3> QED
        BY <3>1 DEF Closing, ToBefore
    <2>2. CASE \E t \in Before(q) : callbacks[t] > 0
      <3>1. PICK t \in Before(q) : callbacks[t] > 0
        BY <2>2
      <3>2. t \in Points
        BY <3>1 DEF Before, Points
      <3>3. CASE t # s
        <4>1. callbacks'[t] > 0
          BY <3>1, <3>2, <3>3, <1>p DEF onATReaderClosed
        <4> QED
          BY <4>1, <3>1 DEF Closing, Before
      <3>4. CASE t = s
        <4>1. NextPoint(s) \in Before(q) /\ NextPoint(s) # s
          BY <1>4, <1>p, <3>1, <3>4 DEF NextPoint, Before, Queues
        <4>2. NextPoint(s) \in Points
          BY <4>1 DEF Before, Points
        <4>3. callbacks'[NextPoint(s)] > 0
          <5> DEFINE n == NextPoint(s)
          <5>1. callbacks'[n] = callbacks[n] - (IF n = s THEN 1 ELSE 0) + (IF n = n THEN 1 ELSE 0)
            BY <4>2 DEF onATReaderClosed
          <5>2. n # s /\ callbacks[n] \in Nat
            BY <4>1, <4>2, <1>p
          <5> QED
            BY <5>1, <5>2
        <4> QED
          BY <4>1, <4>3 DEF Closing, Before
      <3> QED
        BY <3>3, <3>4
    <2> QED
      BY <1>4, <2>1, <2>2, ClosingDef
  <1> QED
    BY <1>2, <1>3, <1>4

\* The same for onATTimeout; x goes on to the next point of it, or returns.
LEMMA TimeoutEffect ==
  ASSUME TypeOK, NEW x \in Runners, onATTimeout(x)
  PROVE  /\ pc[x] \in ToPoints
         /\ pc[x] = "to_unavail" => pc'[x] = "to_normal"
         /\ pc[x] = "to_normal" => pc'[x] = "to_prio" /\ closed'["normal"]
         /\ pc[x] = "to_prio" =>
              /\ pc'[x] = ret[x]
              /\ "prio" \in Runners => closed'["prio"]
         /\ \A y \in Runners \ {x} :
              \/ pc'[y] = pc[y]
              \/ pc[y] \in {"cond", "timed"} /\ pc'[y] \in {"condwoken", "timedwoken"}
         /\ \A y \in Runners : closed[y] => closed'[y]
  <1>p. /\ pc \in [Runners -> AllPoints] /\ QueueOK /\ ret \in [Runners -> RetPoints]
    BY DEF TypeOK, RunnerOK, AllPoints
  <1>1. CASE pc[x] = "to_unavail"
    BY <1>1, <1>p DEF onATTimeout, ToPoints
  <1>2. CASE pc[x] = "to_normal"
    <2> DEFINE p == [pc EXCEPT ![x] = "to_prio"]
    <2>1. p \in [Runners -> AllPoints] /\ p[x] = "to_prio" /\ \A y \in Runners \ {x} : p[y] = pc[y]
      BY <1>p DEF AllPoints, ToPoints
    <2>2. signalClose("normal", p)
      BY <1>2 DEF onATTimeout
    <2> HIDE DEF p
    <2>3. /\ closed'["normal"] = TRUE
          /\ \A y \in Runners : closed[y] => closed'[y]
          /\ \A y \in Runners : pc'[y] = p[y] \/ pc'[y] \in {"condwoken", "timedwoken"}
          /\ \A y \in Runners : pc'[y] # p[y] => p[y] \in {"cond", "timed"}
      BY <2>1, <2>2, <1>p, CloseEffect DEF Queues
    <2> QED
      BY <1>2, <2>1, <2>3 DEF ToPoints
  <1>3. CASE pc[x] = "to_prio"
    <2> DEFINE p == [pc EXCEPT ![x] = ret[x]]
    <2>1. /\ p \in [Runners -> AllPoints] /\ p[x] = ret[x]
          /\ \A y \in Runners \ {x} : p[y] = pc[y]
          /\ ret[x] \notin {"cond", "timed"}
      BY <1>p DEF AllPoints, InitPoints, LoopPoints, RetPoints
    <2>2. signalClose("prio", p)
      BY <1>3 DEF onATTimeout
    <2> HIDE DEF p
    <2>3. /\ closed'["prio"] = TRUE
          /\ \A y \in Runners : closed[y] => closed'[y]
          /\ \A y \in Runners : pc'[y] = p[y] \/ pc'[y] \in {"condwoken", "timedwoken"}
          /\ \A y \in Runners : pc'[y] # p[y] => p[y] \in {"cond", "timed"}
      BY <2>1, <2>2, <1>p, CloseEffect DEF Queues
    <2> QED
      BY <1>3, <2>1, <2>3 DEF ToPoints
  <1> QED
    BY <1>1, <1>2, <1>3 DEF onATTimeout

\* A runner in onATTimeout goes on closing the queue or has closed it.
LEMMA ClosingTimeout ==
  ASSUME TypeOK, NEW x \in Runners, onATTimeout(x), NEW q \in Runners
  PROVE  closed[q] \/ Closing(q) => closed'[q] \/ Closing(q)'
  <1>1. closed[q] => closed'[q]
    BY TimeoutEffect
  <1>2. ASSUME Closing(q), ~closed'[q] PROVE Closing(q)'
    <2>1. CASE \E s \in Before(q) : callbacks[s] > 0
      BY <2>1 DEF onATTimeout, channel, Closing, Before
    <2>2. CASE \E y \in Runners : pc[y] \in ToBefore(q)
      <3>1. PICK y \in Runners : pc[y] \in ToBefore(q)
        BY <2>2
      <3>2. CASE y # x
        <4>1. pc'[y] = pc[y]
          BY <3>1, <3>2, TimeoutEffect DEF ToBefore
        <4> QED
          BY <4>1, <3>1 DEF Closing, ToBefore
      <3>3. CASE y = x
        <4>1. q \in {"normal", "prio"}
          BY RunnersOK DEF Queues
        <4>2. pc'[x] \in ToBefore(q)
          BY <1>2, <3>1, <3>3, <4>1, TimeoutEffect DEF ToBefore
        <4> QED
          BY <4>2 DEF Closing, ToBefore
      <3> QED
        BY <3>2, <3>3
    <2> QED
      BY <1>2, <2>1, <2>2, ClosingDef
  <1> QED
    BY <1>1, <1>2

\* A runner other than one in onATTimeout moves, or a reader starts its callback.
LEMMA ClosingStep ==
  ASSUME TypeOK, Next, NEW q \in Runners
  PROVE  closed[q] \/ Closing(q) => closed'[q] \/ Closing(q)' \/ pc[q] = "unclose"
  <1>p. /\ pc \in [Runners -> AllPoints] /\ QueueOK /\ q \in Queues
        /\ callbacks \in [Points -> Nat]
    BY RunnersOK DEF TypeOK, RunnerOK, AllPoints, EnvOK
  <1>k. ASSUME closed[q] => closed'[q] \/ pc[q] = "unclose",
               \A s \in Points : callbacks[s] > 0 => callbacks'[s] > 0,
               \A x \in Runners : pc[x] \in ToPoints => pc'[x] = pc[x]
        PROVE  closed[q] \/ Closing(q) => closed'[q] \/ Closing(q)' \/ pc[q] = "unclose"
    BY <1>k, ClosingKept
  <1>w. ASSUME NEW k, pc' = Wake(pc, k)
        PROVE  \A x \in Runners : pc[x] \in ToPoints => pc'[x] = pc[x]
    BY <1>w, WakeMoves DEF ToPoints
  <1>1. ASSUME NEW r \in Requests, onRequest(r)
        PROVE  closed[q] \/ Closing(q) => closed'[q] \/ Closing(q)' \/ pc[q] = "unclose"
    <2>1. \A x \in Runners : pc[x] \in ToPoints => pc'[x] = pc[x]
      BY <1>1, <1>w DEF onRequest
    <2> QED
      BY <1>1, <2>1, <1>k DEF onRequest, channel
  <1>2. ASSUME NEW b \in BOOLEAN, NEW d \in Delays, enqueueRILEvent(b, d)
        PROVE  closed[q] \/ Closing(q) => closed'[q] \/ Closing(q)' \/ pc[q] = "unclose"
    <2>1. \A x \in Runners : pc[x] \in ToPoints => pc'[x] = pc[x]
      BY <1>2, <1>w DEF enqueueRILEvent
    <2> QED
      BY <1>2, <2>1, <1>k DEF enqueueRILEvent, channel
  <1>3. ASSUME NEW x \in Runners, CommandTimeout(x) \/ HangUp(x) \/ onSimHotswap(x)
        PROVE  closed[q] \/ Closing(q) => closed'[q] \/ Closing(q)' \/ pc[q] = "unclose"
    <2>1. \A y \in Runners : pc[y] \in ToPoints => pc'[y] = pc[y]
      BY <1>3, <1>p DEF CommandTimeout, HangUp, onSimHotswap, runner, ToPoints
    <2>2. \A s \in Points : callbacks[s] > 0 => callbacks'[s] > 0
      BY <1>3, <1>p DEF CommandTimeout, HangUp, onSimHotswap, channel, Points
    <2>3. closed' = closed
      BY <1>3 DEF CommandTimeout, HangUp, onSimHotswap, queue
    <2> QED
      BY <2>1, <2>2, <2>3, <1>k
  <1>4. CASE Tick \/ SetClock
    BY <1>4, <1>k DEF Tick, SetClock, queue, runner, channel
  <1>5. ASSUME NEW x \in Runners, RunnerStep(x) \/ ReadEmrdy(x), ~onATTimeout(x)
        PROVE  closed[q] \/ Closing(q) => closed'[q] \/ Closing(q)' \/ pc[q] = "unclose"
    <2>1. /\ pc[x] \notin ToPoints
          /\ \A y \in Runners \ {x} : pc'[y] = pc[y]
          /\ callbacks' = callbacks \/ callbacks' = [callbacks EXCEPT !["start"] = @ + 1]
      <3>1. CASE QueueLoop(x) \/ AfterTimedWait(x) \/ TimedOut(x) \/ runEvent(x) \/ processRequest(x)
        BY <3>1, <1>p DEF QueueLoop, AfterTimedWait, TimedOut, runEvent, processRequest, Take,
                          Stay, RequestComplete, Goto, channel, ToPoints
      <3>2. CASE \/ OpenDevice(x) \/ WaitEmrdy(x) \/ at_open(x) \/ SetCallbacks(x)
                 \/ ReadEmrdy(x) \/ initializeCommon(x) \/ ClearClosed(x)
                 \/ initializeChannel(x) \/ initializePrioChannel(x) \/ at_close(x)
        BY <3>2, <1>p DEF OpenDevice, WaitEmrdy, at_open, SetCallbacks, ReadEmrdy,
             initializeCommon, ClearClosed, initializeChannel, initializePrioChannel, at_close,
             Commands, Goto, channel, ToPoints
      <3> QED
        BY <1>5, <3>1, <3>2 DEF RunnerStep
    <2>2. \A y \in Runners : pc[y] \in ToPoints => pc'[y] = pc[y]
      BY <2>1
    <2>3. \A s \in Points : callbacks[s] > 0 => callbacks'[s] > 0
      BY <2>1, <1>p
    <2>4. closed[q] => closed'[q] \/ pc[q] = "unclose"
      <3>1. CASE ClearClosed(x)
        BY <3>1, <1>p DEF ClearClosed, Goto, QueueOK
      <3>2. CASE ~ClearClosed(x)
        <4>1. closed' = closed
          BY <1>5, <3>2 DEF RunnerStep, OpenDevice, WaitEmrdy, at_open, SetCallbacks, ReadEmrdy,
             initializeCommon, initializeChannel, initializePrioChannel, at_close, QueueLoop,
             AfterTimedWait, TimedOut, runEvent, processRequest, queue
        <4> QED
          BY <4>1
      <3> QED
        BY <3>1, <3>2
    <2> QED
      BY <2>2, <2>3, <2>4, <1>k
  <1>6. ASSUME NEW s \in Points, onATReaderClosed(s)
        PROVE  closed[q] \/ Closing(q) => closed'[q] \/ Closing(q)'
    BY <1>6, ClosingCallback
  <1>7. ASSUME NEW x \in Runners, onATTimeout(x)
        PROVE  closed[q] \/ Closing(q) => closed'[q] \/ Closing(q)'
    BY <1>7, ClosingTimeout
  <1> QED
    BY <1>1, <1>2, <1>3, <1>4, <1>5, <1>6, <1>7 DEF Next

\* How a runner comes to be beyond its last command on a channel that has died:
\* the channel dies there, which starts its reader's callback.
LEMMA DeadStep ==
  ASSUME TypeOK, DeadInv, Next, NEW q \in Runners,
         session'[q] = "dead", At(q, AlivePoints)'
  PROVE  (At(q, AlivePoints) /\ session[q] = "dead") \/ Closing(q)'
  <1>p. /\ pc \in [Runners -> AllPoints] /\ ret \in [Runners -> RetPoints]
        /\ session \in [Runners -> {"none", "alive", "dead"}] /\ callbacks \in [Points -> Nat]
    BY DEF TypeOK, RunnerOK, AllPoints, EnvOK
  <1>w. ASSUME pc'[q] = pc[q] \/ pc[q] \in {"cond", "timed"}, ret' = ret
        PROVE  At(q, AlivePoints)
    BY <1>w DEF At, AlivePoints, LoopPoints, ToPoints
  <1>1. ASSUME \/ \E r \in Requests : onRequest(r)
               \/ \E b \in BOOLEAN, d \in Delays : enqueueRILEvent(b, d)
               \/ \E x \in Runners : onSimHotswap(x)
               \/ Tick \/ SetClock
               \/ \E s \in Points : onATReaderClosed(s)
        PROVE  At(q, AlivePoints) /\ session[q] = "dead"
    <2>1. session' = session /\ ret' = ret
      BY <1>1 DEF onRequest, enqueueRILEvent, onSimHotswap, Tick, SetClock, onATReaderClosed, channel, runner
    <2>2. pc' = pc \/ \E k : pc' = Wake(pc, k)
      BY <1>1 DEF onRequest, enqueueRILEvent, onSimHotswap, Tick, SetClock, onATReaderClosed, signalClose,
                  runner
    <2>3. pc'[q] = pc[q] \/ pc[q] \in {"cond", "timed"}
      BY <2>2, WakeMoves
    <2> QED
      BY <2>1, <2>3, <1>w
  <1>2. ASSUME NEW x \in Runners, CommandTimeout(x) PROVE At(q, AlivePoints) /\ session[q] = "dead"
    <2>1. session' = session /\ session[x] = "alive"
      BY <1>2 DEF CommandTimeout, channel
    <2>2. q # x
      BY <2>1
    <2>3. pc'[q] = pc[q] /\ ret'[q] = ret[q]
      BY <1>2, <1>p, <2>2 DEF CommandTimeout
    <2> QED
      BY <2>1, <2>3 DEF At
  <1>3. ASSUME NEW x \in Runners, HangUp(x)
        PROVE  (At(q, AlivePoints) /\ session[q] = "dead") \/ Closing(q)'
    <2>1. UNCHANGED <<pc, ret>> /\ session' = [session EXCEPT ![x] = "dead"]
      BY <1>3 DEF HangUp, runner
    <2>2. At(q, AlivePoints)
      BY <2>1 DEF At
    <2>3. CASE x = q
      <3>1. pc[q] # "opened"
        BY <2>2 DEF At, AlivePoints, LoopPoints, ToPoints
      <3>2. callbacks' = [callbacks EXCEPT !["start"] = @ + 1]
        BY <1>3, <2>3, <3>1 DEF HangUp
      <3>3. callbacks'["start"] > 0
        BY <3>2, <1>p DEF Points
      <3> QED
        BY <3>3 DEF Closing
    <2>4. CASE x # q
      BY <2>1, <2>2, <2>4, <1>p
    <2> QED
      BY <2>3, <2>4
  <1>4. ASSUME NEW x \in Runners, onATTimeout(x) PROVE At(q, AlivePoints) /\ session[q] = "dead"
    <2>1. session' = session /\ ret' = ret
      BY <1>4 DEF onATTimeout, channel
    <2>2. CASE x # q
      BY <1>4, <2>1, <2>2, <1>w, TimeoutEffect
    <2>3. CASE x = q
      <3>1. pc[q] \in ToPoints
        BY <1>4, <2>3, TimeoutEffect
      <3>2. pc'[q] \in {"to_normal", "to_prio", ret[q]}
        BY <1>4, <2>3, TimeoutEffect DEF ToPoints
      <3>3. ret[q] \in AlivePoints
        BY <3>2, <2>1 DEF At, AlivePoints, LoopPoints, ToPoints
      <3> QED
        BY <2>1, <3>1, <3>3 DEF At
    <2> QED
      BY <2>2, <2>3
  <1>5. ASSUME NEW x \in Runners, RunnerStep(x) \/ ReadEmrdy(x), ~onATTimeout(x), x # q
        PROVE  At(q, AlivePoints) /\ session[q] = "dead"
    <2>1. pc'[q] = pc[q] /\ ret' = ret /\ session'[q] = session[q]
      <3>1. CASE QueueLoop(x) \/ AfterTimedWait(x) \/ TimedOut(x) \/ runEvent(x) \/ processRequest(x)
        BY <3>1, <1>p, <1>5 DEF QueueLoop, AfterTimedWait, TimedOut, runEvent, processRequest,
                          Take, Stay, RequestComplete, Goto, channel
      <3>2. CASE \/ OpenDevice(x) \/ WaitEmrdy(x) \/ at_open(x) \/ SetCallbacks(x)
                 \/ ReadEmrdy(x) \/ initializeCommon(x) \/ ClearClosed(x)
                 \/ initializeChannel(x) \/ initializePrioChannel(x) \/ at_close(x)
        BY <3>2, <1>p, <1>5 DEF OpenDevice, WaitEmrdy, at_open, SetCallbacks, ReadEmrdy,
             initializeCommon, ClearClosed, initializeChannel, initializePrioChannel, at_close,
             Commands, Goto, channel
      <3> QED
        BY <1>5, <3>1, <3>2 DEF RunnerStep
    <2> QED
      BY <2>1, <1>w
  <1>6. ASSUME RunnerStep(q) \/ ReadEmrdy(q), ~onATTimeout(q)
        PROVE  At(q, AlivePoints) /\ session[q] = "dead"
    <2>1. CASE QueueLoop(q) \/ AfterTimedWait(q) \/ TimedOut(q) \/ runEvent(q) \/ processRequest(q)
      BY <2>1 DEF QueueLoop, AfterTimedWait, TimedOut, runEvent, processRequest, Goto, channel,
                  At, AlivePoints, LoopPoints
    <2>2. CASE initializeChannel(q) \/ initializePrioChannel(q) \/ initializeCommon(q)
      <3>1. session' = session
        BY <2>2 DEF initializeChannel, initializePrioChannel, initializeCommon, channel
      <3>2. pc'[q] \in AlivePoints
        BY <2>2, <1>p DEF initializeChannel, initializePrioChannel, initializeCommon, Commands, Goto,
                     AfterChannel, At, ToPoints
      <3>3. pc[q] = "radioon"
        BY <2>2, <1>p, <3>1, <3>2 DEF initializeChannel, initializePrioChannel, initializeCommon,
              Commands, Goto, AlivePoints, LoopPoints
      <3> QED
        BY <3>1, <3>3 DEF At, AlivePoints
    <2>3. CASE OpenDevice(q) \/ WaitEmrdy(q) \/ at_open(q) \/ SetCallbacks(q) \/ ReadEmrdy(q)
               \/ ClearClosed(q) \/ at_close(q)
      <3>1. pc'[q] \in {"emrdy", "atopen", "reading", "ended", "open", "opened", "close", "common",
                        "setoff", "prioinit"}
        BY <2>3, <1>p DEF OpenDevice, WaitEmrdy, at_open, SetCallbacks, ReadEmrdy, ClearClosed,
              at_close, Goto
      <3> QED
        BY <3>1 DEF At, AlivePoints, LoopPoints, ToPoints
    <2> QED
      BY <1>6, <2>1, <2>2, <2>3 DEF RunnerStep
  <1> QED
    BY <1>1, <1>2, <1>3, <1>4, <1>5, <1>6 DEF Next

\* A runner is beyond at_open only with a session.
LEMMA NoneStep ==
  ASSUME TypeOK, DeadInv, Next, NEW q \in Runners, session'[q] = "none"
  PROVE  pc'[q] \in NoSession
  <1>p. /\ pc \in [Runners -> AllPoints]
        /\ session \in [Runners -> {"none", "alive", "dead"}]
    BY DEF TypeOK, RunnerOK, AllPoints, EnvOK
  <1>k. ASSUME session[q] = "none", pc'[q] = pc[q] \/ pc[q] \in {"cond", "timed"}
        PROVE  pc'[q] \in NoSession
    BY <1>k DEF DeadInv, NoSession
  <1>1. ASSUME \/ \E r \in Requests : onRequest(r)
               \/ \E b \in BOOLEAN, d \in Delays : enqueueRILEvent(b, d)
               \/ \E x \in Runners : onSimHotswap(x)
               \/ Tick \/ SetClock
               \/ \E s \in Points : onATReaderClosed(s)
        PROVE  pc'[q] \in NoSession
    <2>1. session' = session
      BY <1>1 DEF onRequest, enqueueRILEvent, onSimHotswap, Tick, SetClock, onATReaderClosed, channel
    <2>2. pc' = pc \/ \E k : pc' = Wake(pc, k)
      BY <1>1 DEF onRequest, enqueueRILEvent, onSimHotswap, Tick, SetClock, onATReaderClosed, signalClose,
                  runner
    <2>3. pc'[q] = pc[q] \/ pc[q] \in {"cond", "timed"}
      BY <2>2, WakeMoves
    <2> QED
      BY <2>1, <2>3, <1>k
  <1>2. ASSUME NEW x \in Runners, CommandTimeout(x) \/ HangUp(x) PROVE pc'[q] \in NoSession
    <2>1. session[x] = "alive" /\ session'[x] # "none" /\ session[q] = "none" /\ q # x
      BY <1>2, <1>p DEF CommandTimeout, HangUp, channel
    <2>2. pc'[q] = pc[q]
      BY <1>2, <2>1, <1>p DEF CommandTimeout, HangUp, runner
    <2> QED
      BY <2>1, <2>2, <1>k
  <1>3. ASSUME NEW x \in Runners, onATTimeout(x) PROVE pc'[q] \in NoSession
    <2>1. session' = session
      BY <1>3 DEF onATTimeout, channel
    <2>2. pc[q] \in NoSession /\ pc[x] \in ToPoints
      BY <1>3, <2>1, TimeoutEffect DEF DeadInv
    <2>3. x # q
      BY <2>2 DEF NoSession, ToPoints
    <2> QED
      BY <1>3, <2>1, <2>3, <1>k, TimeoutEffect
  <1>4. ASSUME NEW x \in Runners, RunnerStep(x) \/ ReadEmrdy(x), ~onATTimeout(x), x # q
        PROVE  pc'[q] \in NoSession
    <2>1. pc'[q] = pc[q] /\ session'[q] = session[q]
      <3>1. CASE QueueLoop(x) \/ AfterTimedWait(x) \/ TimedOut(x) \/ runEvent(x) \/ processRequest(x)
        BY <3>1, <1>p, <1>4 DEF QueueLoop, AfterTimedWait, TimedOut, runEvent, processRequest,
                          Take, Stay, RequestComplete, Goto, channel
      <3>2. CASE \/ OpenDevice(x) \/ WaitEmrdy(x) \/ at_open(x) \/ SetCallbacks(x)
                 \/ ReadEmrdy(x) \/ initializeCommon(x) \/ ClearClosed(x)
                 \/ initializeChannel(x) \/ initializePrioChannel(x) \/ at_close(x)
        BY <3>2, <1>p, <1>4 DEF OpenDevice, WaitEmrdy, at_open, SetCallbacks, ReadEmrdy,
             initializeCommon, ClearClosed, initializeChannel, initializePrioChannel, at_close,
             Commands, Goto, channel
      <3> QED
        BY <1>4, <3>1, <3>2 DEF RunnerStep
    <2> QED
      BY <2>1, <1>k
  <1>5. ASSUME RunnerStep(q) \/ ReadEmrdy(q), ~onATTimeout(q) PROVE pc'[q] \in NoSession
    <2>1. CASE at_close(q) \/ at_open(q)
      BY <2>1, <1>p DEF at_close, at_open, Goto, NoSession
    <2>2. CASE ~at_close(q) /\ ~at_open(q)
      <3>1. session[q] = "none"
        BY <1>5, <2>2 DEF RunnerStep, OpenDevice, WaitEmrdy, SetCallbacks, ReadEmrdy,
             initializeCommon, ClearClosed, initializeChannel, initializePrioChannel, QueueLoop,
             AfterTimedWait, TimedOut, runEvent, processRequest, channel
      <3>2. pc[q] \in NoSession
        BY <3>1 DEF DeadInv
      <3>3. OpenDevice(q) \/ WaitEmrdy(q) \/ ReadEmrdy(q)
        BY <1>5, <2>2, <3>2 DEF RunnerStep, SetCallbacks,
             initializeCommon, ClearClosed, initializeChannel, initializePrioChannel, QueueLoop,
             AfterTimedWait, TimedOut, runEvent, processRequest, Commands, Goto, NoSession
      <3> QED
        BY <3>3, <1>p DEF OpenDevice, WaitEmrdy, ReadEmrdy, Goto, NoSession
    <2> QED
      BY <2>1, <2>2
  <1> QED
    BY <1>1, <1>2, <1>3, <1>4, <1>5 DEF Next

\* Every step keeps DeadInv.
LEMMA DeadInvStep == TypeOK /\ DeadInv /\ [Next]_vars => DeadInv'
  <1> SUFFICES ASSUME TypeOK, DeadInv, [Next]_vars PROVE DeadInv'
    OBVIOUS
  <1>1. CASE UNCHANGED vars
    <2>1. UNCHANGED <<pc, ret, session, closed, callbacks>>
      BY <1>1 DEF vars, queue, runner, channel
    <2> QED
      BY <2>1 DEF DeadInv, At, Closing
  <1>2. CASE Next
    <2>1. ASSUME NEW q \in Runners PROVE session'[q] = "none" => pc'[q] \in NoSession
      BY <1>2, NoneStep
    <2>2. ASSUME NEW q \in Runners, At(q, AlivePoints)', session'[q] = "dead"
          PROVE  closed'[q] \/ Closing(q)'
      <3>1. CASE At(q, AlivePoints) /\ session[q] = "dead"
        <4>1. closed[q] \/ Closing(q)
          BY <3>1 DEF DeadInv
        <4>2. pc[q] # "unclose"
          BY <3>1 DEF At, AlivePoints, LoopPoints, ToPoints
        <4> QED
          BY <1>2, <4>1, <4>2, ClosingStep
      <3> QED
        BY <1>2, <2>2, <3>1, DeadStep
    <2> QED
      BY <2>1, <2>2 DEF DeadInv
  <1> QED
    BY <1>1, <1>2

\* A runner never serves its queue over a dead channel unnoticed: its queue is
\* closed or about to be, for any number of faults and however the callbacks of
\* one session fall into the initialisation of the next.
THEOREM DeadChannelsNoticed == Spec => []DeadChannelNoticed
  <1>1. Init => DeadInv
    BY DEF Init, DeadInv, NoSession, At
  <1>2. TypeOK /\ DeadInv => DeadChannelNoticed
    <2> SUFFICES ASSUME TypeOK, DeadInv, NEW q \in Runners, At(q, LoopPoints), session[q] # "alive"
                 PROVE  closed[q] \/ Closing(q)
      BY DEF DeadChannelNoticed
    <2>1. session[q] = "dead"
      BY DEF TypeOK, EnvOK, DeadInv, At, LoopPoints, ToPoints, NoSession
    <2> QED
      BY <2>1 DEF DeadInv, At, AlivePoints
  <1> QED
    BY <1>1, <1>2, DeadInvStep, TypeInit, TypeStep, PTL DEF Spec


----------------------------------------------------------------------------
(* The order of events.  That an event is overtaken only by earlier ones   *)
(* is kept by enqueueRILEvent because the list is sorted by time, and the  *)
(* new event has the largest number.                                       *)

\* Event a may come before event b.
InOrder(a, b) == a.id > b.id => a.abstime < b.abstime

\* A list in order, and a list in order with what comes after it.
Ordered(s) == \A i, j \in 1..Len(s) : i < j => InOrder(s[i], s[j])
OrderedBefore(s, t) == \A i \in 1..Len(s), j \in 1..Len(t) : InOrder(s[i], t[j])

Sorted(s) == \A i, j \in 1..Len(s) : i < j => s[i].abstime <= s[j].abstime
Numbered(s, n) == \A i \in 1..Len(s) : s[i].id <= n

\* What is in a sequence.
LEMMA Elements ==
  ASSUME NEW S, NEW s \in Seq(S)
  PROVE  Len(s) \in Nat /\ \A i \in 1..Len(s) : s[i] \in S
  OBVIOUS

\* An inserted event is in order with the others, and the list stays sorted.
LEMMA InsertOrdered ==
  ASSUME NEW s \in Seq(Events), NEW n \in Nat, NEW e \in Events, e.id = n + 1,
         Sorted(s), Ordered(s), Numbered(s, n)
  PROVE  /\ Sorted(insertEvent(s, e)) /\ Ordered(insertEvent(s, e))
         /\ Numbered(insertEvent(s, e), n + 1)
         /\ \A i \in 1..Len(insertEvent(s, e)) :
              insertEvent(s, e)[i] = e \/ \E j \in 1..Len(s) : insertEvent(s, e)[i] = s[j]
  <1> DEFINE first(i) == \A j \in 1..i : s[j].abstime <= e.abstime
             t == insertEvent(s, e)
             N == Len(s)
  <1>1. /\ Len(t) = N + 1
        /\ \A i \in 1..(N + 1) : t[i] = IF i <= N /\ first(i) THEN s[i]
                                        ELSE IF first(i - 1) THEN e ELSE s[i - 1]
    <2>1. t = [i \in 1..(N + 1) |-> IF i <= N /\ first(i) THEN s[i]
                                    ELSE IF first(i - 1) THEN e ELSE s[i - 1]]
      BY DEF insertEvent
    <2>2. t \in Seq(Events)
      BY insertEventOK
    <2> HIDE DEF first, t
    <2>3. DOMAIN t = 1..(N + 1)
      BY <2>1
    <2> QED
      BY <2>1, <2>2, <2>3
  <1>n. N \in Nat /\ \A i \in 1..N : s[i] \in Events /\ s[i].abstime \in Nat /\ s[i].id \in Nat
    <2>1. N \in Nat /\ \A i \in 1..N : s[i] \in Events
      BY Elements
    <2> QED
      BY <2>1 DEF Events
  <1>e. e.abstime \in Nat /\ e.id \in Nat
    BY DEF Events
  <1>2. ASSUME NEW i \in 0..(N + 1), NEW j \in 0..(N + 1), i <= j, first(j) PROVE first(i)
    <2>1. \A k \in 1..i : k \in 1..j
      BY <1>2, <1>n
    <2> QED
      BY <1>2, <2>1
  <1>3. ASSUME NEW i \in 1..N, ~first(i) PROVE s[i].abstime > e.abstime
    <2>1. PICK j \in 1..i : ~(s[j].abstime <= e.abstime)
      BY <1>3
    <2>2. j \in 1..N /\ (j = i \/ s[j].abstime <= s[i].abstime)
      BY <2>1, <1>n DEF Sorted
    <2> QED
      BY <2>1, <2>2, <1>n, <1>e
  <1>4. ASSUME NEW i \in 1..N, first(i) PROVE s[i].abstime <= e.abstime
    BY <1>4
  <1>5. first(0)
    OBVIOUS
  <1> DEFINE A(i) == i \in 1..N /\ first(i) /\ t[i] = s[i]
             B(i) == (i = N + 1 \/ ~first(i)) /\ first(i - 1) /\ t[i] = e
             C(i) == i - 1 \in 1..N /\ ~first(i - 1) /\ t[i] = s[i - 1]
  <1> HIDE DEF first, t
  <1>6. ASSUME NEW i \in 1..(N + 1) PROVE A(i) \/ B(i) \/ C(i)
    <2>1. CASE i <= N /\ first(i)
      BY <1>1, <2>1, <1>n
    <2>2. CASE ~(i <= N /\ first(i)) /\ first(i - 1)
      BY <1>1, <2>2, <1>n
    <2>3. CASE ~(i <= N /\ first(i)) /\ ~first(i - 1)
      <3>1. i # 1
        BY <2>3, <1>5
      <3> QED
        BY <1>1, <2>3, <3>1, <1>n
    <2> QED
      BY <2>1, <2>2, <2>3
  <1>7. ASSUME NEW i \in 1..(N + 1), NEW j \in 1..(N + 1), i < j
        PROVE  t[i].abstime <= t[j].abstime /\ InOrder(t[i], t[j])
    <2>0. i - 1 \in 0..(N + 1) /\ j - 1 \in 0..(N + 1) /\ i \in 1..N
      BY <1>7, <1>n
    <2>1. CASE A(i) /\ A(j)
      BY <2>1, <1>7 DEF Sorted, Ordered
    <2>2. CASE A(i) /\ B(j)
      <3>1. s[i].abstime <= e.abstime /\ s[i].id <= n
        BY <2>2, <1>4 DEF Numbered
      <3> QED
        BY <2>2, <3>1, <1>n, <1>e DEF InOrder
    <2>3. CASE A(i) /\ C(j)
      <3>1. i # j - 1
        BY <2>3
      <3>2. i < j - 1
        BY <3>1, <1>7, <1>n
      <3> QED
        BY <2>3, <3>2 DEF Sorted, Ordered
    <2>4. CASE B(i) /\ A(j)
      BY <2>4, <1>2, <1>7, <2>0, <1>n
    <2>5. CASE B(i) /\ B(j)
      <3>1. i <= j - 1
        BY <1>7, <1>n
      <3> QED
        BY <2>5, <1>2, <2>0, <3>1, <1>n
    <2>6. CASE B(i) /\ C(j)
      <3>1. s[j - 1].abstime > e.abstime /\ t[i] = e /\ t[j] = s[j - 1]
        BY <2>6, <1>3
      <3> HIDE DEF A, B, C
      <3>2. e.abstime \in Nat /\ s[j - 1].abstime \in Nat
        BY <2>6, <1>n, <1>e DEF C
      <3> QED
        BY <3>1, <3>2 DEF InOrder
    <2>7. CASE C(i) /\ (A(j) \/ B(j))
      <3>1. i - 1 <= j /\ i - 1 <= j - 1
        BY <1>7, <1>n
      <3> QED
        BY <2>7, <3>1, <1>2, <2>0
    <2>8. CASE C(i) /\ C(j)
      <3>1. i - 1 < j - 1
        BY <1>7, <1>n
      <3> QED
        BY <2>8, <3>1 DEF Sorted, Ordered
    <2> HIDE DEF A, B, C
    <2> QED
      BY <1>6, <2>1, <2>2, <2>3, <2>4, <2>5, <2>6, <2>7, <2>8
  <1>8. Sorted(t) /\ Ordered(t)
    BY <1>1, <1>7 DEF Sorted, Ordered
  <1>9. ASSUME NEW i \in 1..(N + 1)
        PROVE  t[i].id <= n + 1 /\ (t[i] = e \/ \E j \in 1..N : t[i] = s[j])
    <2>1. t[i] = e \/ \E j \in 1..N : t[i] = s[j]
      BY <1>6
    <2> QED
      BY <2>1, <1>n, <1>e DEF Numbered
  <1>10. Numbered(t, n + 1)
    BY <1>1, <1>9 DEF Numbered
  <1>11. \A i \in 1..Len(t) : t[i] = e \/ \E j \in 1..N : t[i] = s[j]
    BY <1>1, <1>9
  <1> QED
    BY <1>8, <1>10, <1>11 DEF t

\* Two lists in order make one.
LEMMA ConcatOrdered ==
  ASSUME NEW S, NEW a \in Seq(S), NEW b \in Seq(S), Ordered(a), Ordered(b), OrderedBefore(a, b)
  PROVE  Ordered(a \o b)
  <1>1. /\ Len(a \o b) = Len(a) + Len(b) /\ Len(a) \in Nat /\ Len(b) \in Nat
        /\ \A i \in 1..(Len(a) + Len(b)) :
             (a \o b)[i] = IF i <= Len(a) THEN a[i] ELSE b[i - Len(a)]
    OBVIOUS
  <1> SUFFICES ASSUME NEW i \in 1..(Len(a) + Len(b)), NEW j \in 1..(Len(a) + Len(b)), i < j
               PROVE  InOrder((a \o b)[i], (a \o b)[j])
    BY <1>1 DEF Ordered
  <1>2. CASE j <= Len(a)
    BY <1>1, <1>2 DEF Ordered
  <1>3. CASE i <= Len(a) /\ ~(j <= Len(a))
    <2>1. j - Len(a) \in 1..Len(b)
      BY <1>1, <1>3
    <2> QED
      BY <1>1, <1>3, <2>1 DEF OrderedBefore
  <1>4. CASE ~(i <= Len(a)) /\ ~(j <= Len(a))
    <2>1. i - Len(a) \in 1..Len(b) /\ j - Len(a) \in 1..Len(b) /\ i - Len(a) < j - Len(a)
      BY <1>1, <1>4
    <2> QED
      BY <1>1, <1>4, <2>1 DEF Ordered
  <1> QED
    BY <1>1, <1>2, <1>3, <1>4

\* What two lists have before them, they have before them together.
LEMMA ConcatBefore ==
  ASSUME NEW S, NEW a \in Seq(S), NEW b \in Seq(S), NEW c \in Seq(S),
         OrderedBefore(a, c), OrderedBefore(b, c)
  PROVE  OrderedBefore(a \o b, c)
  <1>1. /\ Len(a \o b) = Len(a) + Len(b) /\ Len(a) \in Nat /\ Len(b) \in Nat
        /\ \A i \in 1..(Len(a) + Len(b)) :
             (a \o b)[i] = IF i <= Len(a) THEN a[i] ELSE b[i - Len(a)]
    OBVIOUS
  <1> SUFFICES ASSUME NEW i \in 1..(Len(a) + Len(b)), NEW j \in 1..Len(c)
               PROVE  InOrder((a \o b)[i], c[j])
    BY <1>1 DEF OrderedBefore
  <1>2. CASE i <= Len(a)
    BY <1>1, <1>2 DEF OrderedBefore
  <1>3. CASE ~(i <= Len(a))
    <2>1. i - Len(a) \in 1..Len(b)
      BY <1>1, <1>3
    <2> QED
      BY <1>1, <1>3, <2>1 DEF OrderedBefore
  <1> QED
    BY <1>2, <1>3

\* An event is at hand only between taking and running it.
EventAtHand ==
  \A q \in Runners : event[q] # None => At(q, {"event", "poll"})

\* What has run, what is at hand and what waits are in order; the list is sorted.
OrderInv ==
  \A q \in Queues :
    /\ Sorted(eventList[q]) /\ Ordered(eventList[q]) /\ Numbered(eventList[q], events)
    /\ Ordered(fired[q]) /\ Numbered(fired[q], events)
    /\ OrderedBefore(fired[q], eventList[q])
    /\ q \in Runners /\ event[q] # None =>
         /\ event[q].abstime < event[q].at /\ event[q].id <= events
         /\ OrderedBefore(fired[q], <<event[q]>>)
         /\ OrderedBefore(<<event[q]>>, eventList[q])
    /\ \A i \in 1..Len(fired[q]) : fired[q][i].abstime < fired[q][i].at

\* Every step keeps EventAtHand: only Take puts an event at hand.
LEMMA EventAtHandStep == TypeOK /\ EventAtHand /\ [Next]_vars => EventAtHand'
  <1> SUFFICES ASSUME TypeOK, EventAtHand, [Next]_vars PROVE EventAtHand'
    OBVIOUS
  <1>p. /\ pc \in [Runners -> AllPoints] /\ ret \in [Runners -> RetPoints] /\ QueueOK
        /\ event \in [Runners -> TakenEvents \cup {None}]
    BY DEF TypeOK, RunnerOK, AllPoints
  <1>1. CASE UNCHANGED vars
    BY <1>1 DEF vars, runner, EventAtHand, At
  <1>w. ASSUME NEW k, pc' = Wake(pc, k), UNCHANGED <<ret, event>> PROVE EventAtHand'
    <2>1. \A x \in Runners : pc'[x] = pc[x] \/ pc[x] \in {"cond", "timed"}
      BY <1>w, WakeMoves
    <2> QED
      BY <1>w, <2>1 DEF EventAtHand, At, ToPoints
  <1>2. ASSUME NEW r \in Requests, onRequest(r) PROVE EventAtHand'
    BY <1>2, <1>w DEF onRequest
  <1>3. ASSUME NEW b \in BOOLEAN, NEW d \in Delays, enqueueRILEvent(b, d) PROVE EventAtHand'
    BY <1>3, <1>w DEF enqueueRILEvent
  <1>4. ASSUME NEW s \in Points, onATReaderClosed(s) PROVE EventAtHand'
    BY <1>4, <1>w DEF onATReaderClosed, signalClose, EventAtHand, At
  <1>5. ASSUME NEW q \in Runners, CommandTimeout(q) PROVE EventAtHand'
    <2>1. PICK to \in AfterTimeout(q) : ret' = [ret EXCEPT ![q] = to]
      BY <1>5 DEF CommandTimeout
    <2>2. pc[q] \in {"event", "poll"} => to = pc[q]
      BY <2>1 DEF AfterTimeout
    <2> QED
      BY <1>5, <1>p, <2>1, <2>2 DEF CommandTimeout, EventAtHand, At, ToPoints
  <1>6. ASSUME (\E q \in Runners : HangUp(q) \/ onSimHotswap(q)) \/ Tick \/ SetClock PROVE EventAtHand'
    BY <1>6 DEF HangUp, onSimHotswap, Tick, SetClock, runner, EventAtHand, At
  <1>7. ASSUME NEW q \in Runners, RunnerStep(q) \/ ReadEmrdy(q) PROVE EventAtHand'
    <2>1. CASE onATTimeout(q)
      <3>1. UNCHANGED <<ret, event>>
        BY <2>1 DEF onATTimeout
      <3>2. pc[q] \in ToPoints /\ pc'[q] \in {"to_normal", "to_prio", ret[q]}
        BY <2>1, TimeoutEffect DEF ToPoints
      <3>3. \A x \in Runners \ {q} : pc'[x] = pc[x] \/ pc[x] \in {"cond", "timed"}
        BY <2>1, TimeoutEffect
      <3> QED
        BY <3>1, <3>2, <3>3 DEF EventAtHand, At, ToPoints
    <2>2. CASE QueueLoop(q) \/ AfterTimedWait(q)
      <3>1. pc[q] \in {"top", "condwoken", "timedwoken"} /\ UNCHANGED ret
        BY <2>2 DEF QueueLoop, AfterTimedWait
      <3>2. CASE Take(q)
        BY <3>1, <3>2, <1>p DEF Take, EventAtHand, At, ToPoints
      <3>3. CASE \E to : Stay(q, to)
        BY <3>1, <3>3, <1>p DEF Stay, EventAtHand, At, ToPoints
      <3> QED
        BY <2>2, <3>2, <3>3 DEF QueueLoop, AfterTimedWait
    <2>3. CASE runEvent(q) \/ processRequest(q) \/ TimedOut(q)
      BY <2>3, <1>p DEF runEvent, processRequest, TimedOut, RequestComplete, Goto, EventAtHand,
                        At, ToPoints
    <2>4. CASE \/ OpenDevice(q) \/ WaitEmrdy(q) \/ at_open(q) \/ SetCallbacks(q)
               \/ ReadEmrdy(q) \/ initializeCommon(q) \/ ClearClosed(q)
               \/ initializeChannel(q) \/ initializePrioChannel(q) \/ at_close(q)
      <3>1. pc[q] \in InitPoints /\ UNCHANGED <<ret, event>>
            /\ \A x \in Runners : x # q => pc'[x] = pc[x]
        BY <2>4, <1>p DEF OpenDevice, WaitEmrdy, at_open, SetCallbacks, ReadEmrdy,
             initializeCommon, ClearClosed, initializeChannel, initializePrioChannel, at_close,
             Commands, Goto, InitPoints
      <3> QED
        BY <3>1, <1>p DEF EventAtHand, At, ToPoints, InitPoints
    <2> QED
      BY <1>7, <2>1, <2>2, <2>3, <2>4 DEF RunnerStep
  <1> QED
    BY <1>1, <1>2, <1>3, <1>4, <1>5, <1>6, <1>7 DEF Next

\* What is recorded of an event that has run.
LEMMA FiredNumbers ==
  ASSUME NEW q \in Queues, fired \in [Queues -> Seq(TakenEvents)],
         NEW i \in 1..Len(fired[q])
  PROVE  fired[q][i].id \in Nat /\ fired[q][i].abstime \in Nat /\ fired[q][i].at \in Nat
  <1>1. fired[q] \in Seq(TakenEvents)
    OBVIOUS
  <1>2. fired[q][i] \in TakenEvents
    BY <1>1, Elements
  <1> QED
    BY <1>2 DEF TakenEvents

\* The steps that move events: a new one is inserted.
LEMMA OrderEnqueue ==
  ASSUME TypeOK, OrderInv, NEW b \in BOOLEAN, NEW d \in Delays, enqueueRILEvent(b, d)
  PROVE  OrderInv'
  <1> DEFINE k == QueueOf(b)
             e == [id |-> events + 1, abstime |-> now + d]
             t == insertEvent(eventList[k], e)
  <1>1. k \in Queues /\ k \in Runners /\ events \in Nat /\ now \in Nat /\ d \in Nat
    BY QueueOfOK, RilQueuesAssumption DEF TypeOK, EnvOK
  <1>2. e \in Events /\ e.id = events + 1
    BY <1>1 DEF Events
  <1>3. /\ eventList' = [eventList EXCEPT ![k] = t]
        /\ events' = events + 1 /\ UNCHANGED <<event, now, fired>>
    BY DEF enqueueRILEvent, history
  <1>4. eventList[k] \in Seq(Events)
    BY <1>1 DEF TypeOK, QueueOK
  <1>5. fired \in [Queues -> Seq(TakenEvents)] /\ QueueOK
        /\ event \in [Runners -> TakenEvents \cup {None}]
    BY DEF TypeOK, EnvOK, RunnerOK
  <1> HIDE DEF k, e
  <1>6. /\ Sorted(eventList[k]) /\ Ordered(eventList[k]) /\ Numbered(eventList[k], events)
    BY <1>1 DEF OrderInv
  <1>7. /\ Sorted(t) /\ Ordered(t) /\ Numbered(t, events + 1)
        /\ \A i \in 1..Len(t) : t[i] = e \/ \E j \in 1..Len(eventList[k]) : t[i] = eventList[k][j]
    BY <1>1, <1>2, <1>4, <1>6, InsertOrdered
  <1> HIDE DEF t
  <1>8. ASSUME NEW q \in Queues PROVE Numbered(fired[q], events + 1) /\ Numbered(eventList[q], events + 1)
    <2>1. Numbered(fired[q], events) /\ Numbered(eventList[q], events)
      BY DEF OrderInv
    <2>2. \A i \in 1..Len(fired[q]) : fired[q][i].id \in Nat
      BY <1>5, FiredNumbers
    <2>3. \A i \in 1..Len(eventList[q]) : eventList[q][i].id \in Nat
      <3>1. eventList[q] \in Seq(Events)
        BY <1>5 DEF QueueOK
      <3>2. \A i \in 1..Len(eventList[q]) : eventList[q][i] \in Events
        BY <3>1, Elements
      <3> QED
        BY <3>2 DEF Events
    <2> QED
      BY <1>1, <2>1, <2>2, <2>3 DEF Numbered
  <1>9. ASSUME NEW a, a.id \in Nat, a.id <= events PROVE InOrder(a, e)
    BY <1>1, <1>2, <1>9 DEF InOrder
  <1>10. OrderedBefore(fired[k], t)
    <2> SUFFICES ASSUME NEW i \in 1..Len(fired[k]), NEW j \in 1..Len(t)
                 PROVE  InOrder(fired[k][i], t[j])
      BY DEF OrderedBefore
    <2>0. fired[k][i].id \in Nat
      BY <1>1, <1>5, FiredNumbers
    <2>1. fired[k][i].id \in Nat /\ fired[k][i].id <= events
      BY <1>1, <2>0 DEF OrderInv, Numbered
    <2>2. CASE t[j] = e
      BY <2>1, <2>2, <1>9
    <2>3. CASE \E l \in 1..Len(eventList[k]) : t[j] = eventList[k][l]
      BY <1>1, <2>3 DEF OrderInv, OrderedBefore
    <2> QED
      BY <1>7, <2>2, <2>3
  <1>11. ASSUME event[k] # None PROVE OrderedBefore(<<event[k]>>, t)
    <2>1. event[k].id \in Nat /\ event[k].id <= events /\ OrderedBefore(<<event[k]>>, eventList[k])
      BY <1>1, <1>5, <1>11 DEF OrderInv, TakenEvents
    <2>2. \A l \in 1..Len(eventList[k]) : InOrder(event[k], eventList[k][l])
      BY <2>1 DEF OrderedBefore
    <2>3. \A j \in 1..Len(t) : InOrder(event[k], t[j])
      BY <1>7, <1>9, <2>1, <2>2
    <2> QED
      BY <2>3 DEF OrderedBefore
  <1>12. ASSUME NEW q \in Queues, q # k PROVE eventList'[q] = eventList[q]
    BY <1>3, <1>12, <1>5 DEF QueueOK
  <1>13. eventList'[k] = t
    BY <1>1, <1>3, <1>5 DEF QueueOK
  <1>14. ASSUME NEW q \in Queues
         PROVE  /\ Sorted(eventList'[q]) /\ Ordered(eventList'[q]) /\ Numbered(eventList'[q], events')
                /\ OrderedBefore(fired'[q], eventList'[q])
                /\ q \in Runners /\ event'[q] # None => OrderedBefore(<<event'[q]>>, eventList'[q])
    <2>1. CASE q = k
      BY <2>1, <1>3, <1>7, <1>10, <1>11, <1>13
    <2>2. CASE q # k
      <3>1. /\ Sorted(eventList[q]) /\ Ordered(eventList[q])
            /\ OrderedBefore(fired[q], eventList[q])
            /\ q \in Runners /\ event[q] # None => OrderedBefore(<<event[q]>>, eventList[q])
        BY DEF OrderInv
      <3> QED
        BY <2>2, <1>3, <1>8, <1>12, <3>1
    <2> QED
      BY <2>1, <2>2
  <1>15. ASSUME NEW q \in Queues
         PROVE  /\ Ordered(fired'[q]) /\ Numbered(fired'[q], events')
                /\ q \in Runners /\ event'[q] # None =>
                     /\ event'[q].abstime < event'[q].at /\ event'[q].id <= events'
                     /\ OrderedBefore(fired'[q], <<event'[q]>>)
                /\ \A i \in 1..Len(fired'[q]) : fired'[q][i].abstime < fired'[q][i].at
    <2>1. /\ Ordered(fired[q])
          /\ q \in Runners /\ event[q] # None =>
                     /\ event[q].abstime < event[q].at /\ event[q].id <= events
                     /\ OrderedBefore(fired[q], <<event[q]>>)
          /\ \A i \in 1..Len(fired[q]) : fired[q][i].abstime < fired[q][i].at
      BY DEF OrderInv
    <2>2. q \in Runners /\ event[q] # None => event[q].id <= events + 1
      BY <1>1, <1>5, <2>1 DEF TakenEvents
    <2> QED
      BY <1>3, <1>8, <2>1, <2>2
  <1> QED
    BY <1>14, <1>15 DEF OrderInv

\* The first of the sorted list is taken.
LEMMA OrderTake ==
  ASSUME TypeOK, OrderInv, NEW q \in Runners, Take(q), event[q] = None,
         UNCHANGED <<events, fired>>
  PROVE  OrderInv'
  <1>p. /\ q \in Queues /\ QueueOK /\ event \in [Runners -> TakenEvents \cup {None}]
        /\ eventList[q] \in Seq(Events)
        /\ fired \in [Queues -> Seq(TakenEvents)]
    BY RunnersOK DEF TypeOK, RunnerOK, QueueOK, EnvOK
  <1> DEFINE due == eventList[q] # <<>> /\ Head(eventList[q]).abstime < now
             s == eventList[q]
  <1>1. /\ event'[q] = IF due THEN Taken(Head(s)) ELSE None
        /\ eventList'[q] = IF due THEN Tail(s) ELSE s
        /\ \A x \in Runners : x # q => event'[x] = event[x]
        /\ \A x \in Queues : x # q => eventList'[x] = eventList[x]
    BY <1>p DEF Take, QueueOK
  <1> HIDE DEF due
  <1>2. ASSUME NEW x \in Queues, eventList'[x] = eventList[x],
               x \in Runners => event'[x] = event[x]
        PROVE  /\ Sorted(eventList'[x]) /\ Ordered(eventList'[x]) /\ Numbered(eventList'[x], events')
               /\ Ordered(fired'[x]) /\ Numbered(fired'[x], events')
               /\ OrderedBefore(fired'[x], eventList'[x])
               /\ x \in Runners /\ event'[x] # None =>
                    /\ event'[x].abstime < event'[x].at /\ event'[x].id <= events'
                    /\ OrderedBefore(fired'[x], <<event'[x]>>)
                    /\ OrderedBefore(<<event'[x]>>, eventList'[x])
               /\ \A i \in 1..Len(fired'[x]) : fired'[x][i].abstime < fired'[x][i].at
    BY <1>2 DEF OrderInv
  <1>3. CASE ~due
    BY <1>1, <1>2, <1>3 DEF OrderInv
  <1>4. CASE due
    <2>1. s # <<>> /\ Head(s).abstime < now
      BY <1>4 DEF due
    <2>2. /\ Head(s) = s[1] /\ 1 \in 1..Len(s) /\ Len(s) \in Nat /\ Len(Tail(s)) = Len(s) - 1
          /\ \A i \in 1..(Len(s) - 1) : Tail(s)[i] = s[i + 1]
      BY <1>p, <2>1
    <2>3. event'[q] = Taken(Head(s)) /\ eventList'[q] = Tail(s)
      BY <1>1, <1>4
    <2>t. /\ Taken(Head(s)).id = Head(s).id /\ Taken(Head(s)).abstime = Head(s).abstime
          /\ Taken(Head(s)).at = now
      BY DEF Taken
    <2>4. /\ Sorted(s) /\ Ordered(s) /\ Numbered(s, events) /\ Ordered(fired[q])
          /\ Numbered(fired[q], events) /\ OrderedBefore(fired[q], s)
          /\ \A i \in 1..Len(fired[q]) : fired[q][i].abstime < fired[q][i].at
      BY <1>p DEF OrderInv
    <2> HIDE DEF s
    <2>5. \A i \in 1..Len(Tail(s)) : i + 1 \in 1..Len(s) /\ Tail(s)[i] = s[i + 1]
      BY <2>2
    <2>6. Sorted(Tail(s)) /\ Ordered(Tail(s)) /\ Numbered(Tail(s), events)
      <3>1. \A i, j \in 1..Len(Tail(s)) : i < j => i + 1 < j + 1
        BY <2>2
      <3> QED
        BY <2>4, <2>5, <3>1 DEF Sorted, Ordered, Numbered
    <2>7. OrderedBefore(fired[q], Tail(s))
      BY <2>4, <2>5 DEF OrderedBefore
    <2>8. OrderedBefore(fired[q], <<Taken(Head(s))>>)
      BY <2>2, <2>4, <2>t DEF OrderedBefore, InOrder
    <2>9. OrderedBefore(<<Taken(Head(s))>>, Tail(s))
      <3>1. \A i \in 1..Len(Tail(s)) : 1 < i + 1
        BY <2>2
      <3>2. \A i \in 1..Len(Tail(s)) : InOrder(s[1], Tail(s)[i])
        BY <2>2, <2>4, <2>5, <3>1 DEF Ordered
      <3> QED
        BY <2>2, <2>t, <3>2 DEF OrderedBefore, InOrder
    <2>10. Taken(Head(s)).abstime < Taken(Head(s)).at /\ Taken(Head(s)).id <= events
      BY <2>1, <2>2, <2>4, <2>t DEF Numbered
    <2>11. ASSUME NEW x \in Queues, x # q
           PROVE  eventList'[x] = eventList[x] /\ (x \in Runners => event'[x] = event[x])
      BY <1>1, <2>11
    <2> QED
      BY <1>2, <2>3, <2>4, <2>6, <2>7, <2>8, <2>9, <2>10, <2>11 DEF OrderInv
  <1> QED
    BY <1>3, <1>4

\* What is in a sequence after Append.
LEMMA AppendElements ==
  ASSUME NEW S, NEW f \in Seq(S), NEW r \in S
  PROVE  \A i \in 1..Len(Append(f, r)) :
           \/ i \in 1..Len(f) /\ Append(f, r)[i] = f[i]
           \/ i = Len(f) + 1 /\ Append(f, r)[i] = r
  OBVIOUS

\* The event at hand has run.
LEMMA OrderRun ==
  ASSUME TypeOK, OrderInv, NEW q \in Runners, runEvent(q)
  PROVE  OrderInv'
  <1>p. /\ q \in Queues /\ QueueOK /\ event \in [Runners -> TakenEvents \cup {None}]
        /\ fired \in [Queues -> Seq(TakenEvents)]
        /\ UNCHANGED <<eventList, events>>
    BY RunnersOK DEF TypeOK, RunnerOK, QueueOK, EnvOK, runEvent, queue, bounds
  <1>1. CASE UNCHANGED <<event, fired>>
    BY <1>1, <1>p DEF OrderInv
  <1>2. CASE ~UNCHANGED <<event, fired>>
    <2> DEFINE e == event[q]
               f == fired[q]
    <2>1. /\ pc[q] \in {"event", "poll"}
          /\ fired' = [fired EXCEPT ![q] = Append(f, e)]
          /\ event' = [event EXCEPT ![q] = None]
      BY <1>2 DEF runEvent
    <2>2. e # None
      BY <2>1 DEF TypeOK, RunnerOK, At
    <2>3. /\ fired'[q] = Append(f, e) /\ event'[q] = None
          /\ \A x \in Queues : x # q => fired'[x] = fired[x]
          /\ \A x \in Runners : x # q => event'[x] = event[x]
      BY <2>1, <1>p
    <2>4. f \in Seq(TakenEvents)
      BY <1>p
    <2>6. /\ Ordered(f) /\ Numbered(f, events) /\ e.abstime < e.at /\ e.id <= events
          /\ OrderedBefore(f, <<e>>) /\ OrderedBefore(<<e>>, eventList[q])
          /\ OrderedBefore(f, eventList[q])
          /\ Sorted(eventList[q]) /\ Ordered(eventList[q]) /\ Numbered(eventList[q], events)
          /\ \A i \in 1..Len(f) : f[i].abstime < f[i].at
      BY <1>p, <2>2 DEF OrderInv
    <2>8. e \in TakenEvents
      BY <1>p, <2>2
    <2> DEFINE g == Append(f, e)
    <2> HIDE DEF f, e
    <2>9. /\ Len(f) \in Nat /\ Len(g) = Len(f) + 1
          /\ \A i \in 1..Len(f) : g[i] = f[i]
          /\ g[Len(f) + 1] = e
      BY <2>4, <2>8
    <2> HIDE DEF g
    <2>10. \A i \in 1..Len(g) : \/ i \in 1..Len(f) /\ g[i] = f[i]
                                \/ i = Len(f) + 1 /\ g[i] = e
      BY <2>4, <2>8, AppendElements DEF g
    <2>11. \A i \in 1..Len(f) : InOrder(f[i], e)
      BY <2>6 DEF OrderedBefore
    <2>12. Ordered(g)
      <3> SUFFICES ASSUME NEW i \in 1..Len(g), NEW j \in 1..Len(g), i < j
                   PROVE  InOrder(g[i], g[j])
        BY DEF Ordered
      <3>1. i \in 1..Len(f) /\ g[i] = f[i]
        BY <2>9, <2>10
      <3>2. CASE j \in 1..Len(f) /\ g[j] = f[j]
        BY <2>6, <3>1, <3>2 DEF Ordered
      <3>3. CASE g[j] = e
        BY <2>11, <3>1, <3>3
      <3> QED
        BY <2>10, <3>2, <3>3
    <2>13. Numbered(g, events)
      BY <2>6, <2>10 DEF Numbered
    <2>14. OrderedBefore(g, eventList[q])
      <3>1. \A j \in 1..Len(eventList[q]) : InOrder(e, eventList[q][j])
        BY <2>6 DEF OrderedBefore
      <3>2. \A i \in 1..Len(f), j \in 1..Len(eventList[q]) : InOrder(f[i], eventList[q][j])
        BY <2>6 DEF OrderedBefore
      <3>3. \A i \in 1..Len(g), j \in 1..Len(eventList[q]) : InOrder(g[i], eventList[q][j])
        BY <2>10, <3>1, <3>2
      <3> QED
        BY <3>3 DEF OrderedBefore
    <2>15. \A i \in 1..Len(g) : g[i].abstime < g[i].at
      BY <2>6, <2>10
    <2>16. fired'[q] = g
      BY <2>3 DEF g
    <2>17. ASSUME NEW x \in Queues, x # q
           PROVE  /\ fired'[x] = fired[x] /\ eventList'[x] = eventList[x]
                  /\ x \in Runners => event'[x] = event[x]
      BY <1>p, <2>3, <2>17
    <2>18. ASSUME NEW x \in Queues, x # q
           PROVE  /\ Sorted(eventList'[x]) /\ Ordered(eventList'[x])
                  /\ Numbered(eventList'[x], events')
                  /\ Ordered(fired'[x]) /\ Numbered(fired'[x], events')
                  /\ OrderedBefore(fired'[x], eventList'[x])
                  /\ x \in Runners /\ event'[x] # None =>
                       /\ event'[x].abstime < event'[x].at /\ event'[x].id <= events'
                       /\ OrderedBefore(fired'[x], <<event'[x]>>)
                       /\ OrderedBefore(<<event'[x]>>, eventList'[x])
                  /\ \A i \in 1..Len(fired'[x]) : fired'[x][i].abstime < fired'[x][i].at
      BY <1>p, <2>17, <2>18 DEF OrderInv
    <2>19. /\ Sorted(eventList'[q]) /\ Ordered(eventList'[q])
           /\ Numbered(eventList'[q], events')
           /\ Ordered(fired'[q]) /\ Numbered(fired'[q], events')
           /\ OrderedBefore(fired'[q], eventList'[q])
           /\ event'[q] = None
           /\ \A i \in 1..Len(fired'[q]) : fired'[q][i].abstime < fired'[q][i].at
      BY <1>p, <2>3, <2>6, <2>12, <2>13, <2>14, <2>15, <2>16
    <2> QED
      BY <2>18, <2>19 DEF OrderInv
  <1> QED
    BY <1>1, <1>2

\* Every step keeps OrderInv.
LEMMA OrderStep == TypeOK /\ EventAtHand /\ OrderInv /\ [Next]_vars => OrderInv'
  <1> SUFFICES ASSUME TypeOK, EventAtHand, OrderInv, [Next]_vars PROVE OrderInv'
    OBVIOUS
  <1>k. ASSUME UNCHANGED <<eventList, events, event, fired>> PROVE OrderInv'
    BY <1>k DEF OrderInv
  <1>1. CASE UNCHANGED vars
    BY <1>1, <1>k DEF vars, queue, runner, bounds, history
  <1>2. ASSUME NEW r \in Requests, onRequest(r) PROVE OrderInv'
    BY <1>2, <1>k DEF onRequest, bounds
  <1>3. ASSUME NEW b \in BOOLEAN, NEW d \in Delays, enqueueRILEvent(b, d) PROVE OrderInv'
    BY <1>3, OrderEnqueue
  <1>4. ASSUME NEW x \in Runners, CommandTimeout(x) \/ HangUp(x) \/ onSimHotswap(x)
        PROVE  OrderInv'
    BY <1>4, <1>k DEF CommandTimeout, HangUp, onSimHotswap, queue, runner, bounds, history
  <1>5. CASE Tick \/ SetClock
    BY <1>5, <1>k DEF Tick, SetClock, queue, runner, history
  <1>6. ASSUME NEW s \in Points, onATReaderClosed(s) PROVE OrderInv'
    BY <1>6, <1>k DEF onATReaderClosed, bounds, history
  <1>7. ASSUME NEW q \in Runners, RunnerStep(q) \/ ReadEmrdy(q) PROVE OrderInv'
    <2>1. CASE runEvent(q)
      BY <2>1, OrderRun
    <2>2. CASE QueueLoop(q) \/ AfterTimedWait(q)
      <3>1. UNCHANGED <<events, fired>>
        BY <2>2 DEF QueueLoop, AfterTimedWait, bounds, history
      <3>2. CASE Take(q)
        <4>1. pc[q] \in {"top", "condwoken", "timedwoken"}
          BY <2>2 DEF QueueLoop, AfterTimedWait
        <4>2. event[q] = None
          BY <4>1 DEF EventAtHand, At, ToPoints
        <4> QED
          BY <3>1, <3>2, <4>2, OrderTake
      <3>3. CASE \E to : Stay(q, to)
        BY <3>1, <3>3, <1>k DEF Stay
      <3> QED
        BY <2>2, <3>2, <3>3 DEF QueueLoop, AfterTimedWait
    <2>3. CASE \/ OpenDevice(q) \/ WaitEmrdy(q) \/ at_open(q) \/ SetCallbacks(q)
               \/ ReadEmrdy(q) \/ initializeCommon(q) \/ ClearClosed(q)
               \/ initializeChannel(q) \/ initializePrioChannel(q) \/ at_close(q)
               \/ TimedOut(q) \/ onATTimeout(q) \/ processRequest(q)
      BY <2>3, <1>k DEF OpenDevice, WaitEmrdy, at_open, SetCallbacks, ReadEmrdy,
           initializeCommon, ClearClosed, initializeChannel, initializePrioChannel, at_close,
           processRequest, TimedOut, onATTimeout, queue, bounds, history
    <2> QED
      BY <1>7, <2>1, <2>2, <2>3 DEF RunnerStep
  <1> QED
    BY <1>1, <1>2, <1>3, <1>4, <1>5, <1>6, <1>7 DEF Next

\* A sequence over a set is one over a larger set.
LEMMA SeqWiden ==
  ASSUME NEW S, NEW R, S \subseteq R, NEW s \in Seq(S)
  PROVE  s \in Seq(R)
  OBVIOUS

\* Events run in the order of their times, and those of one time in the order in
\* which they were enqueued, never before their time; for any number of events
\* and whatever restarts come in between.
THEOREM EventsInOrder == Spec => []EventOrder
  <1>1. Init => EventAtHand /\ OrderInv
    BY RunnersOK DEF Init, EventAtHand, OrderInv, Sorted, Ordered, Numbered, OrderedBefore
  <1>2. TypeOK /\ OrderInv => EventOrder
    <2> SUFFICES ASSUME TypeOK, OrderInv, NEW q \in Queues
                 PROVE  /\ Ordered(EventHistory(q))
                        /\ \A i \in 1..Len(fired[q]) : fired[q][i].abstime < fired[q][i].at
      BY DEF EventOrder, Ordered, InOrder
    <2> DEFINE R == Events \cup TakenEvents
               h == IF q \in Runners /\ event[q] # None THEN <<event[q]>> ELSE <<>>
    <2>1. fired[q] \in Seq(R) /\ eventList[q] \in Seq(R)
      <3>1. /\ fired[q] \in Seq(TakenEvents)
            /\ eventList[q] \in Seq(Events)
        BY DEF TypeOK, QueueOK, EnvOK
      <3>2. Events \subseteq R /\ TakenEvents \subseteq R
        OBVIOUS
      <3> HIDE DEF R
      <3> QED
        BY <3>1, <3>2, SeqWiden
    <2>2. h \in Seq(R)
      <3>1. q \in Runners /\ event[q] # None => event[q] \in R
        BY DEF TypeOK, RunnerOK
      <3> HIDE DEF R
      <3> QED
        BY <3>1
    <2>3. Ordered(h)
      BY DEF Ordered
    <2>4. OrderedBefore(fired[q], h) /\ OrderedBefore(h, eventList[q])
      <3>1. CASE q \in Runners /\ event[q] # None
        BY <3>1 DEF OrderInv
      <3>2. CASE ~(q \in Runners /\ event[q] # None)
        BY <3>2 DEF OrderedBefore
      <3> QED
        BY <3>1, <3>2
    <2>5. /\ Ordered(fired[q]) /\ Ordered(eventList[q]) /\ OrderedBefore(fired[q], eventList[q])
          /\ \A i \in 1..Len(fired[q]) : fired[q][i].abstime < fired[q][i].at
      BY DEF OrderInv
    <2>6. EventHistory(q) = fired[q] \o h \o eventList[q]
      BY DEF EventHistory
    <2> HIDE DEF R, h
    <2>7. Ordered(fired[q] \o h) /\ fired[q] \o h \in Seq(R)
      BY <2>1, <2>2, <2>3, <2>4, <2>5, ConcatOrdered
    <2>8. OrderedBefore(fired[q] \o h, eventList[q])
      BY <2>1, <2>2, <2>4, <2>5, ConcatBefore
    <2>9. Ordered(fired[q] \o h \o eventList[q])
      BY <2>1, <2>5, <2>7, <2>8, ConcatOrdered
    <2> QED
      BY <2>5, <2>6, <2>9
  <1> QED
    BY <1>1, <1>2, EventAtHandStep, OrderStep, TypeInit, TypeStep, PTL DEF Spec


----------------------------------------------------------------------------
(* The request service.  Only a runner between taking a request and its    *)
(* completion has one at hand, so Take never overwrites a request.         *)

AtHand ==
  \A q \in Runners : request[q] # None => At(q, {"event", "poll", "request", "handler"})

LEMMA AtHandStep == TypeOK /\ AtHand /\ [Next]_vars => AtHand'
  <1> SUFFICES ASSUME TypeOK, AtHand, [Next]_vars PROVE AtHand'
    OBVIOUS
  <1>p. /\ pc \in [Runners -> AllPoints] /\ ret \in [Runners -> RetPoints] /\ QueueOK
        /\ request \in [Runners -> Requests \cup {None}]
    BY DEF TypeOK, RunnerOK, AllPoints
  <1>1. CASE UNCHANGED vars
    BY <1>1 DEF vars, runner, AtHand, At
  <1>w. ASSUME NEW k, pc' = Wake(pc, k), UNCHANGED <<ret, request>> PROVE AtHand'
    <2>1. \A x \in Runners : pc'[x] = pc[x] \/ pc[x] \in {"cond", "timed"}
      BY <1>w, <1>p, WakeOK
    <2> QED
      BY <1>w, <2>1 DEF AtHand, At, ToPoints
  <1>2. ASSUME NEW r \in Requests, onRequest(r) PROVE AtHand'
    BY <1>2, <1>w DEF onRequest
  <1>3. ASSUME NEW b \in BOOLEAN, NEW d \in Delays, enqueueRILEvent(b, d) PROVE AtHand'
    BY <1>3, <1>w DEF enqueueRILEvent
  <1>4. ASSUME NEW s \in Points, onATReaderClosed(s) PROVE AtHand'
    BY <1>4, <1>w DEF onATReaderClosed, signalClose, AtHand, At
  <1>5. ASSUME NEW q \in Runners, CommandTimeout(q) PROVE AtHand'
    <2>1. PICK to \in AfterTimeout(q) : ret' = [ret EXCEPT ![q] = to]
      BY <1>5 DEF CommandTimeout
    <2>2. pc[q] \in {"event", "poll", "request", "handler"} => to = pc[q]
      BY <2>1 DEF AfterTimeout
    <2> QED
      BY <1>5, <1>p, <2>1, <2>2 DEF CommandTimeout, AtHand, At, ToPoints
  <1>6. ASSUME (\E q \in Runners : HangUp(q) \/ onSimHotswap(q)) \/ Tick \/ SetClock PROVE AtHand'
    BY <1>6 DEF HangUp, onSimHotswap, Tick, SetClock, runner, AtHand, At
  <1>7. ASSUME NEW q \in Runners, RunnerStep(q) \/ ReadEmrdy(q) PROVE AtHand'
    <2>1. CASE onATTimeout(q)
      <3>0. UNCHANGED <<ret, request>>
        BY <2>1 DEF onATTimeout
      <3>1. \A x \in Runners : x # q => pc'[x] = pc[x] \/ pc[x] \in {"cond", "timed"}
        <4>1. CASE pc[q] = "to_unavail"
          BY <2>1, <4>1, <1>p DEF onATTimeout
        <4>2. CASE pc[q] = "to_normal"
          <5> DEFINE p == [pc EXCEPT ![q] = "to_prio"]
          <5>1. p \in [Runners -> AllPoints] /\ \A x \in Runners : x # q => p[x] = pc[x]
            BY <1>p DEF AllPoints, ToPoints
          <5>2. signalClose("normal", p)
            BY <2>1, <4>2 DEF onATTimeout
          <5> HIDE DEF p
          <5>3. \A x \in Runners : pc'[x] = p[x] \/ p[x] \in {"cond", "timed"}
            BY <5>1, <5>2, <1>p, CloseEffect DEF Queues
          <5> QED
            BY <5>1, <5>3
        <4>3. CASE pc[q] = "to_prio"
          <5> DEFINE p == [pc EXCEPT ![q] = ret[q]]
          <5>1. p \in [Runners -> AllPoints] /\ \A x \in Runners : x # q => p[x] = pc[x]
            BY <1>p DEF AllPoints, InitPoints, LoopPoints, RetPoints
          <5>2. signalClose("prio", p)
            BY <2>1, <4>3 DEF onATTimeout
          <5> HIDE DEF p
          <5>3. \A x \in Runners : pc'[x] = p[x] \/ p[x] \in {"cond", "timed"}
            BY <5>1, <5>2, <1>p, CloseEffect DEF Queues
          <5> QED
            BY <5>1, <5>3
        <4> QED
          BY <2>1, <4>1, <4>2, <4>3 DEF onATTimeout
      <3>2. pc'[q] \in {"to_normal", "to_prio", ret[q]} /\ pc[q] \in ToPoints
        <4>1. CASE pc[q] = "to_unavail"
          BY <2>1, <4>1, <1>p DEF onATTimeout, ToPoints
        <4>2. CASE pc[q] = "to_normal"
          <5> DEFINE p == [pc EXCEPT ![q] = "to_prio"]
          <5>1. p \in [Runners -> AllPoints] /\ p[q] = "to_prio"
            BY <1>p DEF AllPoints, ToPoints
          <5>2. signalClose("normal", p)
            BY <2>1, <4>2 DEF onATTimeout
          <5> HIDE DEF p
          <5> QED
            BY <4>2, <5>1, <5>2, <1>p, CloseEffect DEF Queues, ToPoints
        <4>3. CASE pc[q] = "to_prio"
          <5> DEFINE p == [pc EXCEPT ![q] = ret[q]]
          <5>1. /\ p \in [Runners -> AllPoints] /\ p[q] = ret[q]
                /\ ret[q] \notin {"cond", "timed"}
            BY <1>p DEF AllPoints, InitPoints, LoopPoints, RetPoints
          <5>2. signalClose("prio", p)
            BY <2>1, <4>3 DEF onATTimeout
          <5> HIDE DEF p
          <5> QED
            BY <4>3, <5>1, <5>2, <1>p, CloseEffect DEF Queues, ToPoints
        <4> QED
          BY <2>1, <4>1, <4>2, <4>3 DEF onATTimeout
      <3> QED
        BY <3>0, <3>1, <3>2 DEF AtHand, At, ToPoints
    <2>2. CASE QueueLoop(q) \/ AfterTimedWait(q)
      <3>1. pc[q] \in {"top", "condwoken", "timedwoken"} /\ UNCHANGED ret
        BY <2>2 DEF QueueLoop, AfterTimedWait
      <3>2. CASE Take(q)
        BY <3>1, <3>2, <1>p DEF Take, AtHand, At, ToPoints
      <3>3. CASE \E to : Stay(q, to)
        BY <3>1, <3>3, <1>p DEF Stay, AtHand, At, ToPoints
      <3> QED
        BY <2>2, <3>2, <3>3 DEF QueueLoop, AfterTimedWait
    <2>3. CASE runEvent(q) \/ processRequest(q) \/ TimedOut(q)
      BY <2>3, <1>p DEF runEvent, processRequest, TimedOut, RequestComplete, Goto, AtHand, At,
                        ToPoints
    <2>4. CASE \/ OpenDevice(q) \/ WaitEmrdy(q) \/ at_open(q) \/ SetCallbacks(q)
               \/ ReadEmrdy(q) \/ initializeCommon(q) \/ ClearClosed(q)
               \/ initializeChannel(q) \/ initializePrioChannel(q) \/ at_close(q)
      <3>1. pc[q] \in InitPoints /\ UNCHANGED <<ret, request>>
            /\ \A x \in Runners : x # q => pc'[x] = pc[x]
        BY <2>4, <1>p DEF OpenDevice, WaitEmrdy, at_open, SetCallbacks, ReadEmrdy,
             initializeCommon, ClearClosed, initializeChannel, initializePrioChannel, at_close,
             Commands, Goto, InitPoints
      <3> QED
        BY <3>1, <1>p DEF AtHand, At, ToPoints, InitPoints
    <2> QED
      BY <1>7, <2>1, <2>2, <2>3, <2>4 DEF RunnerStep
  <1> QED
    BY <1>1, <1>2, <1>3, <1>4, <1>5, <1>6, <1>7 DEF Next

\* The two facts about sequences that the refinement needs.
LEMMA ConcatAppend ==
  ASSUME NEW S, NEW a \in Seq(S), NEW b \in Seq(S), NEW x \in S
  PROVE  a \o Append(b, x) = Append(a \o b, x)
  OBVIOUS

LEMMA HeadTail ==
  ASSUME NEW S, NEW a \in Seq(S)
  PROVE  /\ <<>> \o a = a
         /\ a # <<>> => <<Head(a)>> \o Tail(a) = a
         /\ \A x \in S : /\ <<x>> \o a # <<>>
                         /\ Head(<<x>> \o a) = x
                         /\ Tail(<<x>> \o a) = a
  OBVIOUS

\* What the requests of queue q look like from outside.
Hand(q) == IF q \in Runners /\ request[q] # None THEN <<request[q]>> ELSE <<>>

LEMMA HandOK ==
  ASSUME TypeOK, NEW q \in Queues
  PROVE  /\ Hand(q) \in Seq(Requests) /\ requestList[q] \in Seq(Requests)
         /\ Pending[q] = Hand(q) \o requestList[q]
  BY DEF TypeOK, RunnerOK, QueueOK, Hand, Pending

\* A step that leaves the requests of every queue as they are is a stutter.
LEMMA ServiceStutter ==
  ASSUME UNCHANGED <<requestList, request, accepted, done>>
  PROVE  UNCHANGED Service!vars
  BY DEF Service!vars, Pending

LEMMA ServiceStep == TypeOK /\ AtHand /\ [Next]_vars => [Service!Next]_Service!vars
  <1> SUFFICES ASSUME TypeOK, AtHand, [Next]_vars PROVE [Service!Next]_Service!vars
    OBVIOUS
  <1>p. pc \in [Runners -> AllPoints] /\ request \in [Runners -> Requests \cup {None}]
    BY DEF TypeOK, RunnerOK, AllPoints
  <1>1. CASE UNCHANGED vars
    BY <1>1, ServiceStutter DEF vars, queue, runner, history
  <1>2. ASSUME NEW r \in Requests, onRequest(r) PROVE Service!Next
    <2> DEFINE q == QueueOf(r \in PrioRequests)
    <2>1. /\ q \in Queues /\ r \notin accepted /\ accepted' = accepted \cup {r}
          /\ requestList' = [requestList EXCEPT ![q] = Append(@, r)]
          /\ UNCHANGED <<done, request>>
      BY <1>2, QueueOfOK DEF onRequest
    <2> HIDE DEF q
    <2>2. \A x \in Queues : Pending'[x] = Hand(x) \o requestList'[x]
      BY <2>1 DEF Pending, Hand
    <2>3. Pending'[q] = Append(Pending[q], r)
      <3>1. requestList'[q] = Append(requestList[q], r)
        BY <2>1 DEF TypeOK, QueueOK
      <3>2. /\ Hand(q) \in Seq(Requests) /\ requestList[q] \in Seq(Requests)
            /\ Pending[q] = Hand(q) \o requestList[q]
        BY <2>1, HandOK
      <3>3. Hand(q) \o Append(requestList[q], r) = Append(Hand(q) \o requestList[q], r)
        BY <3>2, ConcatAppend
      <3> QED
        BY <2>1, <2>2, <3>1, <3>2, <3>3
    <2>4. \A x \in Queues : x # q => Pending'[x] = Pending[x]
      <3>1. \A x \in Queues : x # q => requestList'[x] = requestList[x]
        BY <2>1 DEF TypeOK, QueueOK
      <3> QED
        BY <2>2, <3>1, HandOK
    <2>5. Pending' = [Pending EXCEPT ![q] = Append(@, r)]
      BY <2>1, <2>3, <2>4 DEF Pending
    <2>6. Service!Accept(q, r)
      BY <2>1, <2>5 DEF Service!Accept
    <2> QED
      BY <2>1, <2>6 DEF Service!Next
  <1>3. ASSUME NEW q \in Runners, UNCHANGED <<accepted, done>>, Take(q),
               ~At(q, {"event", "poll", "request", "handler"})
        PROVE  UNCHANGED Service!vars
    <2>1. request[q] = None /\ q \in Queues
      BY <1>3, RunnersOK DEF AtHand
    <2>2. \A x \in Queues : x # q => Pending'[x] = Pending[x]
      BY <1>3, <1>p DEF Take, Pending, TypeOK, QueueOK
    <2>3. Pending'[q] = Pending[q]
      <3>1. Pending[q] = requestList[q] /\ requestList[q] \in Seq(Requests)
        BY <2>1, HandOK, HeadTail DEF Hand
      <3>2. CASE requestList[q] = <<>>
        <4>1. request'[q] = None /\ requestList'[q] = <<>>
          BY <1>3, <3>2, <1>p, <2>1 DEF Take, TypeOK, QueueOK
        <4> QED
          BY <2>1, <3>1, <3>2, <4>1 DEF Pending
      <3>3. CASE requestList[q] # <<>>
        <4>1. request'[q] = Head(requestList[q]) /\ requestList'[q] = Tail(requestList[q])
          BY <1>3, <3>3, <1>p, <2>1 DEF Take, TypeOK, QueueOK
        <4>2. Head(requestList[q]) \in Requests
          BY <3>1, <3>3
        <4>3. request'[q] # None
          BY <4>1, <4>2, RilQueuesAssumption
        <4>4. Pending'[q] = <<Head(requestList[q])>> \o Tail(requestList[q])
          BY <2>1, <4>1, <4>3, <1>3 DEF Pending
        <4> QED
          BY <3>1, <3>3, <4>4, HeadTail
      <3> QED
        BY <3>2, <3>3
    <2>4. Pending' = Pending
      BY <2>2, <2>3 DEF Pending
    <2> QED
      BY <1>3, <2>4 DEF Service!vars
  <1>4. ASSUME NEW q \in Runners, RequestComplete(q), UNCHANGED <<accepted, requestList>>,
               pc[q] \in {"request", "handler"}
        PROVE  Service!Next
    <2>1. request[q] \in Requests /\ request[q] # None /\ q \in Queues
      BY <1>4, RunnersOK DEF TypeOK, RunnerOK, At
    <2>2. request'[q] = None /\ \A x \in Runners : x # q => request'[x] = request[x]
      BY <1>4, <1>p DEF RequestComplete
    <2>3. requestList[q] \in Seq(Requests) /\ Pending[q] = <<request[q]>> \o requestList[q]
      BY <2>1, HandOK DEF Hand
    <2>4. Pending'[q] = requestList[q]
      <3>1. Pending'[q] = <<>> \o requestList[q]
        BY <1>4, <2>1, <2>2 DEF Pending
      <3> QED
        BY <2>3, <3>1, HeadTail
    <2>5. Pending[q] # <<>> /\ Head(Pending[q]) = request[q] /\ Tail(Pending[q]) = requestList[q]
      BY <2>1, <2>3, HeadTail
    <2>6. \A x \in Queues : x # q => Pending'[x] = Pending[x]
      BY <1>4, <2>2 DEF Pending
    <2>7. Pending' = [Pending EXCEPT ![q] = Tail(@)]
      BY <2>1, <2>4, <2>5, <2>6 DEF Pending
    <2>8. done' = [done EXCEPT ![q] = Append(@, Head(Pending[q]))]
      BY <1>4, <2>5 DEF RequestComplete
    <2>9. Service!Complete(q)
      BY <1>4, <2>5, <2>7, <2>8 DEF Service!Complete
    <2> QED
      BY <2>1, <2>9 DEF Service!Next
  <1>5. ASSUME NEW q \in Runners, RunnerStep(q) \/ ReadEmrdy(q)
        PROVE  [Service!Next]_Service!vars
    <2>1. CASE QueueLoop(q) \/ AfterTimedWait(q)
      <3>1. CASE Take(q)
        <4>1. pc[q] \in {"top", "condwoken", "timedwoken"} /\ UNCHANGED <<accepted, done>>
          BY <2>1 DEF QueueLoop, AfterTimedWait, history
        <4> QED
          BY <3>1, <4>1, <1>3 DEF At, ToPoints
      <3>2. CASE \E to : Stay(q, to)
        BY <2>1, <3>2, ServiceStutter DEF QueueLoop, AfterTimedWait, Stay, history
      <3> QED
        BY <2>1, <3>1, <3>2 DEF QueueLoop, AfterTimedWait
    <2>2. CASE processRequest(q)
      <3>1. CASE pc[q] \in {"request", "handler"} /\ RequestComplete(q)
        BY <2>2, <3>1, <1>4 DEF processRequest, queue
      <3>2. CASE UNCHANGED <<request, done>>
        BY <2>2, <3>2, ServiceStutter DEF processRequest, queue
      <3> QED
        BY <2>2, <3>1, <3>2 DEF processRequest
    <2>3. CASE \/ OpenDevice(q) \/ WaitEmrdy(q) \/ at_open(q) \/ SetCallbacks(q)
               \/ ReadEmrdy(q) \/ initializeCommon(q) \/ ClearClosed(q) \/ runEvent(q)
               \/ initializeChannel(q) \/ initializePrioChannel(q) \/ at_close(q)
               \/ TimedOut(q) \/ onATTimeout(q)
      <3>1. UNCHANGED <<requestList, request, accepted, done>>
        BY <2>3 DEF OpenDevice, WaitEmrdy, at_open, SetCallbacks, ReadEmrdy,
             initializeCommon, ClearClosed, initializeChannel, initializePrioChannel, at_close,
             runEvent, TimedOut, onATTimeout, queue, history
      <3> QED
        BY <3>1, ServiceStutter
    <2> QED
      BY <1>5, <2>1, <2>2, <2>3 DEF RunnerStep
  <1>6. ASSUME \/ \E b \in BOOLEAN, d \in Delays : enqueueRILEvent(b, d)
               \/ \E q \in Runners : CommandTimeout(q) \/ HangUp(q) \/ onSimHotswap(q)
               \/ \E s \in Points : onATReaderClosed(s)
               \/ Tick \/ SetClock
        PROVE  UNCHANGED Service!vars
    <2>1. UNCHANGED <<requestList, request, accepted, done>>
      BY <1>6 DEF enqueueRILEvent, CommandTimeout, HangUp, onSimHotswap, onATReaderClosed,
                  Tick, SetClock, queue, runner, history
    <2> QED
      BY <2>1, ServiceStutter
  <1> QED
    BY <1>1, <1>2, <1>5, <1>6 DEF Next

\* Restarts, time-outs and hang-ups never lose, repeat or reorder a request: the
\* queues and their runners implement the request service.
THEOREM ServiceImplemented == Spec => ImplementsService
  <1>1. Init => Service!Init
    <2> SUFFICES ASSUME Init PROVE Service!Init
      OBVIOUS
    <2>1. Pending = [q \in Queues |-> <<>>]
      BY DEF Init, Pending
    <2> QED
      BY <2>1 DEF Init, Service!Init
  <1>2. Init => AtHand
    BY DEF Init, AtHand
  <1> QED
    BY <1>1, <1>2, ServiceStep, AtHandStep, TypeInit, TypeStep, PTL
    DEF Spec, ImplementsService, Service!Spec

----------------------------------------------------------------------------
(* The clock.  RilQueues keeps time in whole units and compares and adds    *)
(* with the operators of the integers; the code does with timespec what     *)
(* module EventTime says.  In nanoseconds the two agree.                    *)

\* A microsecond is 1000 nanoseconds.
LEMMA Units ==
  /\ MicrosPerSecond \in Nat /\ NanosPerSecond \in Nat
  /\ NanosPerSecond = 1000 * MicrosPerSecond /\ MicrosPerSecond > 0
  BY SMT DEF MicrosPerSecond, NanosPerSecond

\* The fields of a time.
LEMMA TimevalFields ==
  ASSUME NEW tv \in Timeval
  PROVE  /\ tv.tv_sec \in Nat /\ tv.tv_usec \in Nat /\ tv.tv_usec < MicrosPerSecond
  BY Units, SMT DEF Timeval

LEMMA TimespecFields ==
  ASSUME NEW a \in ValidTimespec
  PROVE  /\ a.tv_sec \in Nat /\ a.tv_nsec \in Nat /\ a.tv_nsec < NanosPerSecond
  BY Units, SMT DEF ValidTimespec

\* The nanoseconds of a time are a natural number.
LEMMA NanosNat == ASSUME NEW a \in ValidTimespec PROVE Nanos(a) \in Nat
  <1>1. PICK s \in Nat, n \in Nat : s = a.tv_sec /\ n = a.tv_nsec
    BY TimespecFields
  <1>2. NanosPerSecond * s + n \in Nat
    BY Units
  <1> QED
    BY <1>1, <1>2 DEF Nanos

\* Before it is normalised, tv_nsec is below two seconds: for any delay that is a
\* timeval it fits the 32 bits of a long.
LEMMA NoOverflow ==
  ASSUME NEW tv \in Timeval, NEW d \in Timeval
  PROVE  /\ NanosOfSum(tv, d) = 1000 * (tv.tv_usec + d.tv_usec)
         /\ NanosOfSum(tv, d) \in Nat /\ NanosOfSum(tv, d) < 2 * NanosPerSecond
  <1>1. /\ tv.tv_usec \in Nat /\ tv.tv_usec < MicrosPerSecond
        /\ d.tv_usec \in Nat /\ d.tv_usec < MicrosPerSecond
    BY TimevalFields
  <1>2. NanosOfSum(tv, d) = 1000 * (tv.tv_usec + d.tv_usec)
    BY <1>1, SMT DEF NanosOfSum
  <1> QED
    BY <1>1, <1>2, Units, SMT

\* The fields of the sum of a time and a delay.
LEMMA AbstimeFields ==
  ASSUME NEW tv \in Timeval, NEW d \in Timeval
  PROVE  /\ abstime(tv, d) \in Timespec
         /\ NanosOfSum(tv, d) > NanosPerSecond =>
              /\ abstime(tv, d).tv_sec = tv.tv_sec + d.tv_sec + 1
              /\ abstime(tv, d).tv_nsec = NanosOfSum(tv, d) - NanosPerSecond
         /\ ~(NanosOfSum(tv, d) > NanosPerSecond) =>
              /\ abstime(tv, d).tv_sec = tv.tv_sec + d.tv_sec
              /\ abstime(tv, d).tv_nsec = NanosOfSum(tv, d)
  <1> DEFINE n == NanosOfSum(tv, d)
  <1>1. tv.tv_sec \in Nat /\ d.tv_sec \in Nat /\ n \in Nat /\ NanosPerSecond \in Nat
    BY NoOverflow, TimevalFields, Units
  <1>2. abstime(tv, d) = IF n > NanosPerSecond
                         THEN [tv_sec |-> tv.tv_sec + d.tv_sec + 1, tv_nsec |-> n - NanosPerSecond]
                         ELSE [tv_sec |-> tv.tv_sec + d.tv_sec, tv_nsec |-> n]
    BY DEF abstime
  <1> HIDE DEF n
  <1>3. CASE n > NanosPerSecond
    <2>1. n - NanosPerSecond \in Nat
      BY <1>1, <1>3
    <2> QED
      BY <1>1, <1>2, <1>3, <2>1 DEF Timespec, n
  <1>4. CASE ~(n > NanosPerSecond)
    BY <1>1, <1>2, <1>4 DEF Timespec, n
  <1> QED
    BY <1>3, <1>4 DEF n

\* What enqueueRILEvent computes is the sum of the time of day and the delay, for
\* any delay: RilQueues' now + relativeTime.
THEOREM AbstimeIsSum ==
  ASSUME NEW tv \in Timeval, NEW d \in Timeval
  PROVE  Nanos(abstime(tv, d)) = Nanos(timespecOf(tv)) + Nanos(timespecOf(d))
  <1>1. /\ tv.tv_sec \in Nat /\ d.tv_sec \in Nat /\ tv.tv_usec \in Nat /\ d.tv_usec \in Nat
        /\ NanosOfSum(tv, d) = 1000 * (tv.tv_usec + d.tv_usec)
    BY NoOverflow, TimevalFields
  <1>2. /\ Nanos(timespecOf(tv)) = NanosPerSecond * tv.tv_sec + tv.tv_usec * 1000
        /\ Nanos(timespecOf(d)) = NanosPerSecond * d.tv_sec + d.tv_usec * 1000
    BY DEF Nanos, timespecOf
  <1>3. CASE NanosOfSum(tv, d) > NanosPerSecond
    <2>1. Nanos(abstime(tv, d)) =
            NanosPerSecond * (tv.tv_sec + d.tv_sec + 1) + (NanosOfSum(tv, d) - NanosPerSecond)
      BY <1>3, AbstimeFields DEF Nanos
    <2> QED
      BY <1>1, <1>2, <2>1, SMT DEF NanosPerSecond
  <1>4. CASE ~(NanosOfSum(tv, d) > NanosPerSecond)
    <2>1. Nanos(abstime(tv, d)) = NanosPerSecond * (tv.tv_sec + d.tv_sec) + NanosOfSum(tv, d)
      BY <1>4, AbstimeFields DEF Nanos
    <2> QED
      BY <1>1, <1>2, <2>1, SMT DEF NanosPerSecond
  <1> QED
    BY <1>3, <1>4

\* The test for > 1000000000 where >= is meant lets one sum through: a second of
\* microseconds makes a timespec that pthread_cond_timedwait refuses.
THEOREM AbstimeValidUnlessOneSecond ==
  ASSUME NEW tv \in Timeval, NEW d \in Timeval
  PROVE  abstime(tv, d) \in ValidTimespec <=> tv.tv_usec + d.tv_usec # MicrosPerSecond
  <1> DEFINE a == abstime(tv, d)
             u == tv.tv_usec + d.tv_usec
             n == NanosOfSum(tv, d)
  <1>1. /\ u \in Nat /\ n \in Nat /\ n = 1000 * u /\ n < 2 * NanosPerSecond
    BY TimevalFields, NoOverflow
  <1>2. /\ a \in Timespec
        /\ n > NanosPerSecond => a.tv_nsec = n - NanosPerSecond
        /\ ~(n > NanosPerSecond) => a.tv_nsec = n
    BY AbstimeFields
  <1> HIDE DEF a, u, n
  <1>3. a \in ValidTimespec <=> a.tv_nsec < NanosPerSecond
    BY <1>2, Units DEF Timespec, ValidTimespec
  <1>4. a.tv_nsec < NanosPerSecond <=> n # NanosPerSecond
    BY <1>1, <1>2, Units
  <1>5. n # NanosPerSecond <=> u # MicrosPerSecond
    BY <1>1, Units
  <1> QED
    BY <1>3, <1>4, <1>5 DEF a, u

\* With the delays of this code, all of them whole seconds, that sum does not
\* come up: every event has a valid time.
THEOREM AbstimeValid ==
  ASSUME NEW tv \in Timeval, NEW d \in RelativeTimes
  PROVE  abstime(tv, d) \in ValidTimespec
  <1>1. d \in Timeval /\ d.tv_usec = 0
    BY Units DEF RelativeTimes, Timeval
  <1>2. tv.tv_usec + d.tv_usec # MicrosPerSecond
    BY <1>1, TimevalFields, Units
  <1> QED
    BY <1>1, <1>2, AbstimeValidUnlessOneSecond

\* The time of day read by queueRunner is a valid timespec too.
LEMMA TimeOfDayValid == ASSUME NEW tv \in Timeval PROVE timespecOf(tv) \in ValidTimespec
  <1>1. tv.tv_sec \in Nat /\ tv.tv_usec * 1000 \in Nat /\ tv.tv_usec * 1000 < NanosPerSecond
    BY TimevalFields, Units
  <1> QED
    BY <1>1, Units DEF timespecOf, ValidTimespec

\* timespec_cmp compares valid times as the integers compare their nanoseconds:
\* so an event is due in RilQueues when it is due in the code.
THEOREM TimespecOrder ==
  ASSUME NEW a \in ValidTimespec, NEW b \in ValidTimespec
  PROVE  timespec_less(a, b) <=> Nanos(a) < Nanos(b)
  <1>1. /\ a.tv_sec \in Nat /\ a.tv_nsec \in Nat /\ a.tv_nsec < NanosPerSecond
        /\ b.tv_sec \in Nat /\ b.tv_nsec \in Nat /\ b.tv_nsec < NanosPerSecond
    BY TimespecFields
  <1>2. PICK s \in Nat, n \in Nat, t \in Nat, m \in Nat :
          s = a.tv_sec /\ n = a.tv_nsec /\ t = b.tv_sec /\ m = b.tv_nsec
    BY <1>1
  <1>3. n < NanosPerSecond /\ m < NanosPerSecond
    BY <1>1, <1>2
  <1>4. /\ s = t => (n < m <=> NanosPerSecond * s + n < NanosPerSecond * t + m)
        /\ s < t => NanosPerSecond * s + n < NanosPerSecond * t + m
        /\ t < s => ~(NanosPerSecond * s + n < NanosPerSecond * t + m)
    BY <1>3, SMT DEF NanosPerSecond
  <1>5. /\ s = t \/ s < t \/ t < s
        /\ ~(s < t /\ t < s) /\ ~(s = t /\ (s < t \/ t < s))
    OBVIOUS
  <1>6. timespec_less(a, b) <=> IF s = t THEN n < m ELSE s < t
    BY <1>2 DEF timespec_less
  <1>7. Nanos(a) < Nanos(b) <=> NanosPerSecond * s + n < NanosPerSecond * t + m
    BY <1>2 DEF Nanos
  <1> QED
    BY <1>4, <1>5, <1>6, <1>7

\* The list the code keeps by timespec_cmp is the one RilQueues keeps by insertEvent.
THEOREM InsertionByTimespec ==
  ASSUME NEW s \in Seq([id : Nat, abstime : ValidTimespec]),
         NEW e \in [id : Nat, abstime : ValidTimespec]
  PROVE  ListInNanos(insertByTimespec(s, e)) = insertEvent(ListInNanos(s), InNanos(e))
  <1> DEFINE R == [id : Nat, abstime : ValidTimespec]
             n == Len(s)
             m == ListInNanos(s)
             firstT(i) == \A j \in 1..i : ~timespec_less(e.abstime, s[j].abstime)
             firstN(i) == \A j \in 1..i : m[j].abstime <= InNanos(e).abstime
             t == insertByTimespec(s, e)
             u == insertEvent(m, InNanos(e))
  <1>1. n \in Nat /\ \A i \in 1..n : s[i] \in R
    BY Elements
  <1>2. m = [i \in 1..n |-> InNanos(s[i])]
    BY DEF ListInNanos
  <1>3. Len(m) = n /\ \A i \in 1..n : m[i] = InNanos(s[i])
    BY <1>1, <1>2
  <1>4. ASSUME NEW j \in 1..n
        PROVE  ~timespec_less(e.abstime, s[j].abstime) <=> m[j].abstime <= InNanos(e).abstime
    <2>1. s[j].abstime \in ValidTimespec /\ e.abstime \in ValidTimespec
      BY <1>1
    <2>2. timespec_less(e.abstime, s[j].abstime) <=> Nanos(e.abstime) < Nanos(s[j].abstime)
      BY <2>1, TimespecOrder
    <2>3. m[j].abstime = Nanos(s[j].abstime) /\ InNanos(e).abstime = Nanos(e.abstime)
      <3>1. m[j] = InNanos(s[j])
        BY <1>3
      <3>2. \A x : InNanos(x).abstime = Nanos(x.abstime)
        BY DEF InNanos
      <3> QED
        BY <3>1, <3>2
    <2>4. Nanos(s[j].abstime) \in Nat /\ Nanos(e.abstime) \in Nat
      BY <2>1, NanosNat
    <2> QED
      BY <2>2, <2>3, <2>4
  <1>5. t = [i \in 1..(n + 1) |-> IF i <= n /\ firstT(i) THEN s[i]
                                  ELSE IF firstT(i - 1) THEN e ELSE s[i - 1]]
    BY DEF insertByTimespec
  <1>6. u = [i \in 1..(n + 1) |-> IF i <= n /\ firstN(i) THEN m[i]
                                  ELSE IF firstN(i - 1) THEN InNanos(e) ELSE m[i - 1]]
    BY <1>3 DEF insertEvent
  <1>7. ASSUME NEW i \in 0..n PROVE firstT(i) <=> firstN(i)
    <2>1. \A j \in 1..i : j \in 1..n
      BY <1>1
    <2> QED
      BY <1>4, <2>1
  <1> HIDE DEF n, m, t, u, firstT, firstN
  <1>8. Len(t) = n + 1
    BY <1>1, <1>5
  <1>9. ASSUME NEW i \in 1..(n + 1) PROVE InNanos(t[i]) = u[i]
    <2>1. t[i] = IF i <= n /\ firstT(i) THEN s[i] ELSE IF firstT(i - 1) THEN e ELSE s[i - 1]
      BY <1>5
    <2>2. u[i] = IF i <= n /\ firstN(i) THEN m[i]
                 ELSE IF firstN(i - 1) THEN InNanos(e) ELSE m[i - 1]
      BY <1>6
    <2>3. i - 1 \in 0..n /\ (i <= n => i \in 0..n /\ i \in 1..n)
      BY <1>1
    <2>4. firstT(i - 1) <=> firstN(i - 1)
      BY <2>3, <1>7
    <2>5. i <= n => (firstT(i) <=> firstN(i)) /\ m[i] = InNanos(s[i])
      BY <2>3, <1>3, <1>7
    <2>6. CASE i <= n /\ firstT(i)
      BY <2>1, <2>2, <2>5, <2>6
    <2>7. CASE ~(i <= n /\ firstT(i)) /\ firstT(i - 1)
      BY <2>1, <2>2, <2>4, <2>5, <2>7
    <2>8. CASE ~(i <= n /\ firstT(i)) /\ ~firstT(i - 1)
      <3>1. i - 1 \in 1..n
        <4>1. i # 1
          BY <2>8 DEF firstT
        <4> QED
          BY <4>1, <1>1
      <3>2. m[i - 1] = InNanos(s[i - 1])
        BY <3>1, <1>3
      <3>3. t[i] = s[i - 1] /\ u[i] = m[i - 1]
        BY <2>1, <2>2, <2>4, <2>5, <2>8
      <3> QED
        BY <3>2, <3>3
    <2> QED
      BY <2>6, <2>7, <2>8
  <1>10. ListInNanos(t) = [i \in 1..(n + 1) |-> InNanos(t[i])]
    BY <1>8 DEF ListInNanos
  <1>11. u = [i \in 1..(n + 1) |-> u[i]]
    BY <1>6
  <1>12. ListInNanos(t) = u
    BY <1>9, <1>10, <1>11
  <1> QED
    BY <1>12 DEF t, u, m
============================================================================
