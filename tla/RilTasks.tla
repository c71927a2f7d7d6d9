------------------------------ MODULE RilTasks ------------------------------
(***************************************************************************)
(* What the request handlers of the MBM RIL share: two queue runners, each *)
(* with a request (or event) in hand and an AT channel to send commands    *)
(* on, the gate of processRequest, and the ATResponse a command leaves in  *)
(* the handler's variable.                                                 *)
(*                                                                         *)
(* A command is one step with one outcome (AtChannel has it in detail):    *)
(*   ok         OK, with the lines that were asked for                     *)
(*   empty      OK, but without a line                                     *)
(*   malformed  OK, with a line the tokenizer cannot take apart            *)
(*   refused    ERROR or +CME ERROR: err is 0, success is 0                *)
(*   timeout    err < 0, onATTimeout ran, the handler's variable is as it  *)
(*              was                                                        *)
(*   closed     the stream ended while the command waited: err < 0, the    *)
(*              variable holds a response without lines                    *)
(*   dead       the stream had ended before: err < 0, variable as it was   *)
(* Queues, runners and the radio state are as RilQueues and RadioState     *)
(* leave them: the radio state changes freely, a closed queue makes its    *)
(* runner open the channel again before the next request.                  *)
(***************************************************************************)
EXTENDS Naturals, Sequences, FiniteSets

CONSTANT Workloads \* what is asked of the RIL: requests and how many, faults, modem events

ASSUME WorkloadsAssumption ==
  \A w \in Workloads : /\ DOMAIN w = {"requests", "max", "faults", "events"}
                       /\ {w.max, w.faults, w.events} \subseteq Nat

VARIABLES
  radio,    \* sState, SIM_NOT_READY counted as OFF: the gate treats them alike
  closed,   \* per queue: its closed flag
  alive,    \* per queue: its channel's stream is open
  task,     \* per queue: what its runner executes
  due,      \* per queue: its events, each with its parameter
  asked,    \* the requests the framework may make in this behaviour
  left      \* bounds: requests, faults and modem events still to come

taskVars == <<radio, closed, alive, task, due, asked, left>>

Queues == {"NORMAL", "PRIO"}
RadioStates == {"UNAVAILABLE", "OFF", "LOCKED", "READY"}

\* What an ATResponse variable holds: "stale" is freed or never initialised.
Responses == {"NULL", "lines", "bare", "stale"}

\* done counts the calls of RIL_onRequestComplete; n and arg are the handler's own.
Task(r, pc, arg) == [req |-> r, pc |-> pc, arg |-> arg, n |-> 1, resp |-> "NULL", done |-> 0]
Idle == Task("none", "idle", "none")
IdleAt(q) == task[q].pc = "idle"
At(q, p) == task[q].pc = p
Goto(q, p) == task' = [task EXCEPT ![q].pc = p]
\* Complete the request in hand and go to p.
CompleteAndGoto(q, p) == task' = [task EXCEPT ![q].pc = p, ![q].done = @ + 1]

-----------------------------------------------------------------------------
(* Commands. *)

Lost == {"timeout", "closed", "dead"}
Outcomes(kind) == {"ok", "refused"} \cup Lost
                    \cup IF kind = "plain" THEN {} ELSE {"empty", "malformed"}

\* err < 0: a single-line command that brought no line is AT_ERROR_INVALID_RESPONSE.
Err(kind, o) == o \in Lost \/ (kind = "line" /\ o = "empty")
\* err < 0 || atresponse->success == 0
Bad(kind, o) == Err(kind, o) \/ o = "refused"

RespAfter(kind, o, before) ==
  IF o \in {"timeout", "dead"} THEN before
  ELSE IF kind = "line" /\ o = "empty" THEN "NULL"
  ELSE IF kind # "plain" /\ o \in {"ok", "malformed"} THEN "lines" ELSE "bare"

(* The channel's part of a command with outcome o: a fault is one of the    *)
(* behaviour's, onATTimeout and onATReaderClosed set the radio state        *)
(* unavailable and close both queues.                                       *)
Channel(q, o) ==
  /\ IF alive[q] THEN o # "dead" ELSE o = "dead"
  /\ LET fault == o \notin {"ok", "dead"} IN
       /\ fault => left.faults > 0
       /\ left' = [left EXCEPT !.faults = IF fault THEN @ - 1 ELSE @]
  /\ IF o \in {"timeout", "closed"}
     THEN /\ radio' = "UNAVAILABLE"
          /\ closed' = [p \in Queues |-> TRUE]
          /\ alive' = [alive EXCEPT ![q] = o # "closed"]
     ELSE UNCHANGED <<radio, closed, alive>>
  /\ UNCHANGED asked

\* The stream of channel q ends between two commands.
StreamEnds(q) ==
  /\ alive[q] /\ left.faults > 0
  /\ left' = [left EXCEPT !.faults = @ - 1]
  /\ alive' = [alive EXCEPT ![q] = FALSE]
  /\ radio' = "UNAVAILABLE"
  /\ closed' = [p \in Queues |-> TRUE]
  /\ UNCHANGED <<task, due, asked>>

-----------------------------------------------------------------------------
(* Runners. *)

PowerAndInfo == {"RADIO_POWER", "GET_SIM_STATUS", "GET_IMEISV", "GET_IMEI",
                 "BASEBAND_VERSION"}
PinRequests == {"ENTER_SIM_PIN", "ENTER_NETWORK_DEPERSONALIZATION"}

\* The early returns of processRequest, which complete the request with an error.
Gate(r) ==
  \/ radio = "READY"
  \/ r = "GET_SIM_STATUS"
  \/ radio = "OFF" /\ r \in PowerAndInfo \cup {"SCREEN_STATE"}
  \/ radio = "LOCKED" /\ r \in PowerAndInfo \cup PinRequests

\* isPrioRequest
PrioRequests == {"GET_CURRENT_CALLS", "SIGNAL_STRENGTH"}
QueueOf(r) == IF r \in PrioRequests THEN "PRIO" ELSE "NORMAL"

\* queueRunner takes request r off its queue and processRequest lets it through ...
Accept(r, t) ==
  LET q == QueueOf(r) IN
  /\ IdleAt(q) /\ ~closed[q]
  /\ r \in asked /\ left.requests > 0
  /\ Gate(r)
  /\ left' = [left EXCEPT !.requests = @ - 1]
  /\ task' = [task EXCEPT ![q] = t]
  /\ UNCHANGED <<radio, closed, alive, due, asked>>

\* ... or refuses it: completed, once, with an error, and nothing else happens.
Refuse(r) ==
  LET q == QueueOf(r) IN
  /\ IdleAt(q) /\ ~closed[q]
  /\ r \in asked /\ left.requests > 0
  /\ ~Gate(r)
  /\ left' = [left EXCEPT !.requests = @ - 1]
  /\ UNCHANGED <<radio, closed, alive, task, due, asked>>

Enqueue(q, e) == due' = [due EXCEPT ![q] = Append(@, e)]
\* queueRunner takes an event that is due: the delayed ones may come after later ones.
TakeEvent(q, i, t) ==
  /\ IdleAt(q) /\ ~closed[q]
  /\ due' = [due EXCEPT ![q] = SubSeq(@, 1, i - 1) \o SubSeq(@, i + 1, Len(@))]
  /\ task' = [task EXCEPT ![q] = t]
  /\ UNCHANGED <<radio, closed, alive, asked, left>>

\* The handler returns to the runner.
Return(q) ==
  /\ At(q, "return")
  /\ task' = [task EXCEPT ![q] = Idle]
  /\ UNCHANGED <<radio, closed, alive, due, asked, left>>

\* The runner of a closed queue opens its channel again; NORMAL initialises the radio.
Reopen(q) ==
  /\ IdleAt(q) /\ closed[q]
  /\ closed' = [closed EXCEPT ![q] = FALSE]
  /\ alive' = [alive EXCEPT ![q] = TRUE]
  /\ radio' = IF q = "NORMAL" THEN "OFF" ELSE radio
  /\ UNCHANGED <<task, due, asked, left>>

\* Power requests, SIM polls and SIM reports change the state meanwhile.
RadioChanges ==
  /\ radio # "UNAVAILABLE"
  /\ radio' \in {"OFF", "LOCKED", "READY"} \ {radio}
  /\ left.events > 0 /\ left' = [left EXCEPT !.events = @ - 1]
  /\ UNCHANGED <<closed, alive, task, due, asked>>

TaskInit ==
  /\ radio = "READY"
  /\ closed = [q \in Queues |-> FALSE]
  /\ alive = [q \in Queues |-> TRUE]
  /\ task = [q \in Queues |-> Idle]
  /\ due = [q \in Queues |-> << >>]
  /\ \E w \in Workloads :
       /\ asked = w.requests
       /\ left = [requests |-> w.max, faults |-> w.faults, events |-> w.events]
=============================================================================
