# Verification of the BUG 2.0 Android device code

The repository is the Android device support of Bug Labs' BUG 2.0: a Radio Interface Layer for
ST-Ericsson mobile broadband modules (`mbm/mbm-ril`), a GPS HAL and a sensors HAL (`bug20/`),
kernel patches and configuration. This directory holds TLA+ models of the RIL and of both HALs, the
TLC configurations that check them, and TLAPS proofs. `PROJECT.json` maps every definition to the
lines it models and lists runs, mutants, hazards, findings and theorems.

## The system

| Component | State | Operations | Talks to |
|---|---|---|---|
| AT channel (`atchannel.c`) | `struct atcontext`: descriptor, `commandmutex`/`commandcond`, `requestmutex`/`requestcond`, pending response, `readerClosed` | `at_send_command*`, `at_handshake`, `at_close`, reader thread (`processLine`, `onReaderClosed`) | modem; callbacks `onUnsolicited`, `onATReaderClosed`, `onATTimeout` |
| Request queues and runners (`u300-ril.c`) | per queue: request list, event list, `closed`, mutex and condition | `onRequest`, `enqueueRILEvent`, `queueRunner`, `signalCloseQueues` | RIL library above, one AT channel per runner |
| Radio and SIM state (`u300-ril.c`, `u300-ril-sim.c`) | `sState`, `sim_hotswap`, the poll and reset events | `setRadioState`, `requestRadioPower`, `initializeChannel`, `pollSIMState`, `resetSim`, `onSimStateChanged`, `onSimHotswap` | runners and readers set it, the RIL library reads it |
| Short messages (`u300-ril-messaging.c`) | `s_outstanding_acknowledge`, held PDUs | `onNewSms`, `onNewStatusReport`, `requestSMSAcknowledge` | reader thread against runner |
| Data call (`u300-ril-pdp.c`) | `s_e2napState`, `s_e2napCause`, the interface | set-up, deactivation, `onConnectionStateChanged` | reader thread against runner |
| Network (`u300-ril-network.c`, screen state in `u300-ril.c`) | `s_screenState` and its mutex, `s_registrationDeniedReason`, the operator poll's event | registration, screen state, selection, signal strength | runners, modem reports |
| SIM files (`u300-ril-sim.c`) | static card type, logical channel, cached path and file id | `requestSIM_IO`, `requestGetSimStatus`, PIN and locks | runner, card |
| Other handlers (`u300-ril*.c`) | none | `processRequest`, one handler per request | runner |
| GPS HAL (`gps_bug20.c`) | `GpsState`, NMEA reader, fix semaphore | start, stop, cleanup, state thread, timer thread | framework callbacks |
| Sensors HAL (`sensors_bug20_ml8953.c`) | three shared descriptors | control and data device | framework |

What is hard in this code: two or three threads per channel that share a context under several
locks, flags read and written outside them (`readerClosed`, `closed`, `sState`), answers that
arrive after their command timed out, channels that are lost at any point and opened again, and
state tested before a command and used after it.

## Modules

**AtChannel**: one session of a channel. Command threads, reader and modem interleave. A critical
section that neither sleeps nor waits is one action; sleeping on a condition variable and being
woken are different control points, and spurious wake-ups happen. Lines are records (kind, prefix,
the command they answer); their text is not modelled. `HandshakeDrained` and
`CallbackOnlyOnStreamClose` state what comments of `atchannel.c` and `atchannel.h` say.

**RilQueues**: the queues, a runner per channel from opening the device to serving and restarting,
and the two callbacks that close the queues. Of a channel only "alive" or "dead" is kept, of the
radio state only whether it is UNAVAILABLE; a request body is "completed once". **RilRequests** is
the abstract service that RilQueues is shown to implement, with the request lists and what a runner
has at hand as the mapping. Due times are of the wall clock, which `SetClock` may set back; the model
counts it in units. **EventTime** has the arithmetic on `struct timeval` and `struct timespec` behind
it: what `enqueueRILEvent` computes, `timespec_cmp`, and the insertion by it. A unit is a nanosecond there.

**RadioState**: all setters of the radio state. `setRadioState` has four steps: the assignment
under the mutex, and the test, the notification and the choice of the event after it. A command's
answer is used in a later step than the test that led to it. Opening a channel and closing both
queues are one step each, as RilQueues has them in detail; `Reopen` waits for the old reader's
callback to end, which the time the runner spends waiting for EMRDY stands for.

**RilTasks** and the modules on top of it model what happens between a request's dispatch and its
completion. There are two runners, each with the request or event in hand (`task`: control point,
the handler's own counter and argument, what its `ATResponse` variable holds, how often it called
`RIL_onRequestComplete`), the gate of `processRequest`, and the radio state, which changes freely.
A command is one step with one of seven outcomes: answered, answered without a line, with a line
that cannot be parsed, refused, timed out, lost with the stream, or sent on a dead stream. A
time-out and a lost stream close both queues and set UNAVAILABLE, and the runners reopen. A handler
that reads a line that is not there, or frees a response twice, ends in the control point `crash`.

- **SimpleRequests**: the 28 handlers without state, as tables: per command, the outcomes that lead
  to the error path, to the next command and to success, whether the line is read, and what the
  response variable holds before.
- **SmsAck**: `onNewSms`, `onNewStatusReport` and `requestSMSAcknowledge`; **Mailbox** is what they
  promise and SmsAck is shown to implement (posted = shown and held messages together).
- **DataCall**: `requestSetupDefaultPDP` command by command, `requestDeactivateDefaultPDP`, the
  modem's connection, and the `*E2NAP` reports, which both reader threads deliver independently.
  A report names the call it is about; only the properties look at that.
- **Registration**: `requestScreenState`, both registration requests under `s_screen_state_mutex`,
  automatic selection with `pollOperatorSelected`.
- **SimFiles**: `getUICCType`, `requestGetSimStatus`, `requestSIM_IO` over AT+CRSM and over a logical
  channel with the remembered selection, and a card that is exchanged or reset.
- **RilHandlers** composes them: they share channels, queues and the radio state, and a data call
  decides what a registration request asks.

**GpsHal**: the interface calls of one framework thread, the state thread with its command socket,
a timer thread per session, the fix semaphore, and the NMEA reader. **SensorsHal**: the control and
the data device as users of a process-wide descriptor table that others use, too. **DeviceHals**
puts both into one specification; they share nothing, and every behaviour exercises one of them.
`Spec` says what may happen, which is all its theorems need; `FairSpec` adds the fairness for
`StopReturns`.

`MC*` modules give the instances; `*Proofs` modules hold the theorems. AtChannel, RilQueues,
RadioState and RilHandlers overlap on purpose in the callbacks and are not composed: each takes from
its neighbours only what its header says.

## Runs

| Run | Instance | Shows |
|---|---|---|
| `at_threads` (AtChannelThreads.cfg) | two threads, one call each, an unsolicited line or message | one command pending at a time, no lost wake-up, every call returns, also where the stream ends between the two lines of a message |
| `at_dialogue` (AtChannelDialogue.cfg) | one thread, two calls of five kinds, a lost command, an unsolicited line or message | answers lag at most by the commands abandoned, multi-line answers are whole and in order, answers do not leak |
| `at_handshake_pause` (HandshakeDrained.cfg) | handshake and one more call | *violated*: the pause holds the mutex the reader needs, so a second OK answers the next command |
| `at_close_callback` (CallbackOnlyOnStreamClose.cfg) | one call and `at_close` | *violated*: the reader can see the closed descriptor before `readerClosed` and run the callback |
| `queues_two_channels` | both runners, one request, two faults | no missed wake-up, no serving while unavailable, a dead channel is noticed, requests are completed, the RIL recovers |
| `queues_one_channel` | two requests, two timed events, one fault or one clock set back | event order, refinement of RilRequests; on sample times, that EventTime's sums and insertions are RilQueues' |
| `queues_emrdy` | no fault | *violated*: the runner waits for 1023 bytes of the EMRDY message |
| `radio_two_channels` | both channels, two power requests and one fault, or none and two faults | the framework is told the state, the state agrees with the modem's radio |
| `radio_one_channel` | one power request, one SIM change, one fault | SIM_READY leads to `onSIMReady`, a ready SIM is noticed |
| `radio_stale_poll` | both channels, two power requests | *violated*: a poll's answer is set over RADIO_STATE_OFF |
| `ril_handlers` | ten workloads: which requests may come, how many (1 to 4), how many faults (0 to 2) and modem events (0 to 4) | requests are completed once, responses are handled, messages are shown in order and in the end, the verdict on a data call, its state, character set and interface are right, the screen lock is released and its wish respected, a selection is answered, a read is of the file asked for |
| `device_hals` | GPS: 3 to 6 calls, up to 4 sentences, one fault; sensors: 8 calls on 6 descriptors | one timer thread, exclusive access to the fix, dated positions, whole satellite lists, locations only in sessions, stop returns; descriptors are not shared or leaked |

Bounds limit calls, faults, lines and requests only. Two calls let a late answer meet the next
command; two faults let a second failure hit the recovery from the first; two power requests let
one race with the poll the other started. The runs' deadlock check is off because with the bounds
used up and nothing due the threads rightly wait. A clock that is set back counts as a fault, one that
is set forward has ticked at once.

`PowerAgrees` excludes the behaviour `radio_stale_poll` exhibits (`overrun`); without the exception
it would be violated by it. It also names the one way in which a radio that is on is taken to be off
(`assumed`): AT+CFUN=4 is refused, which `initializeChannel` ignores, and so is the AT+CFUN? after it
("Assume radio is off on error"). RADIO_POWER off is then refused as well, because the state is OFF
already; RADIO_POWER on or a restart brings the two together. The two faults of that workload
are those two commands. `RequestsServed` and `Recovers` except a runner that ended on a
`select()` error or is blocked in the EMRDY read, and `CallsReturn` excepts commands the modem
dropped, of which its run has none, and a reader that ended before its callback was registered: the
code leaves those to a time-out or to nobody.

`ril_handlers` asks one question, whether handlers keep their promises, of workloads that are kept
apart because most handlers do not touch each other's state: those that do are asked for together.
Two set-ups let a report of the first meet the second; four SIM accesses and a fault let a file be
selected, the next selection fail half-way, and the first file be asked for and read; four events
let messages pile up behind an acknowledgement.
`EnapWait` (85 in the code) is 1 and `Repolls` (30) is 2: each turn of either loop is the same. In
`device_hals` three timers let one be abandoned, one joined and one run; two GSV sentences make a
list that can be cut.

The properties of these two runs name what the code does not keep up:

- `CompletedOnce`: `requestSignalStrength` completes twice when AT+CSQ fails; a GPRS registration
  request whose `*ERINFO` or `+CGEQNEG` line cannot be parsed is never completed.
- `AnswersHandled` (`NotHandled`): `getNumRetries` reads the answer to AT*EPIN? without looking
  whether there is one; `requestGetPreferredNetworkType` ignores a refusal and starts with an
  uninitialised response; empty AT*EVERS and AT+CGDCONT? answers are read; the second command of
  `requestGSMSMSBroadcastActivation`, AT+CCHO and the AT*ENAP=0 of a failed set-up leave a freed
  response to be freed again when they time out or the stream is dead.
- `MessagesShown`: an acknowledgement refused by `processRequest` leaves messages held for good.
- `VerdictOfThisCall`: a set-up that begins while reports of an earlier call are still to be read.
  `StateSettles`: reports missed while unavailable. `CharsetRestored`: a modem that refuses AT+CSCS.
  `TornDown`: a connection in progress is reported as torn down.
- `QuietWhenScreenOff`: commands whose failure is ignored, `onSIMReady` and a restart.
- `ReadsTheFileAsked`: a path selection that fails at a directory leaves `simIOSelectPath` remembering
  the file of the request before, from whose directory the card has moved. The next request for that
  file skips the selection, its GET RESPONSE becomes a SELECT by the file id alone, and a READ
  after that is of the file of this id in the wrong directory (`astray`).
- `OneTimer`, `FixExclusive`, `LocationsInSession`: a timer thread abandoned by a clean-up.
  `StopReturns`: a timer that sleeps with `fix_freq` -1. `FixesDated`: an RMC position is taken even
  if its date cannot be parsed, a ZDA date even if its time cannot. `SkyWhole`: a GSA sentence in
  the middle of a list, a sentence dropped because it does not fit.
- `OwnDescriptors`: `control_close`, and everything on `event_fd` after a failed read.

Met while modelling and not a property of a run: `requestRegistrationState` forgets the reason of a
denial right after it has stored it (network.c:1261), so `pollOperatorSelected` sees it only in between,
against the comment at lines 42-50; the double unlock of `requestScreenState` is of a mutex nobody
else holds, since only the NORMAL runner takes it; `requestSIM_IO` passes its response pointer by
value and leaks what is allocated; `onSignalStrengthChanged` frees the pointer `at_tok_start` has advanced
(network.c:246-265).

**Fairness** is weak except in one place: a thread that can take a step takes it, and the clock ticks. The
modem answers the commands it has not dropped, and a started SIM comes up. Callers need not call,
streams need not end, time-outs and faults need not happen, and the modem need not send the rest
of an EMRDY message. In RilHandlers the runners go on while a selection is polled or a message is
held; requests and modem events need not come, and the framework acknowledges what it was shown, as
the RIL interface asks. In DeviceHals threads run and sleeps end; the state thread's wait for the
fix semaphore is strongly fair, because its other user sleeps for seconds between two uses.

## Proofs

For every value of the constants, from the named assumptions on them. Every safety property of a
passing run, and both refinements, are theorems of the specification that the run checks. Each
follows from an inductive invariant, given here with what makes it inductive.

**The AT channel.** `AtChannelProofs` has `TypeCorrect`, `OneCommandPending` and `WakeupsNotLost`.
The last two are parts of one inductive invariant, `Control`, which relates `requestmutex`, the
pending response and the control points. `AtChannelAnswerProofs` follows the lines: `Ahead` are
those under way, from the modem's to the one the reader holds.

- `AnswersLagByAbandoned` (`ResponseLag`). `LagInv`: what is under way and what the modem has still
  to answer is in the order of the commands, and each is at most as far behind the last command as
  commands were abandoned, one less if the pending command has no final line yet. A thread sends,
  ends a call, or leaves all of it alone (`ThreadKinds`); the reader handles a line or leaves it
  alone (`ReaderKinds`).
- `AnswersComeWhole` (`AnswerInOrder`) and `AnswersDoNotLeak` (`NoLeak`). `FlowInv` says of a channel
  on which nothing was abandoned that one command at most is to be answered (`OneCommand`, from
  `LagInv`), that each line of it which is under way is one the pending response accepts, and that
  the lines kept and those under way number the answer without a gap, newest kept line first.
  `WireInv` adds that the modem's second line of a message follows the first, `PendingOK` that the
  pending response is of the type and prefix the waiting thread asked for. `WholeAnswer` is what
  `reverseIntermediates` makes of the kept lines.

**Queues.** `RilQueuesProofs` has `TypeCorrect`, `WakeupsNotMissed`, `ServedOnlyAvailable`, and:

- `ServiceImplemented`, the refinement of RilRequests. It needs that a runner holds a request only
  between taking and completing it (`AtHand`).
- `DeadChannelsNoticed`. `DeadInv` extends the property backwards to the last initialising command
  that has to succeed: after it a channel that dies has a callback that is going to close the queue,
  even the callback of an earlier session.
- `EventsInOrder`. `OrderInv`: the event list is sorted, a new event has the largest number, and of
  what has run, what is at hand and what waits an earlier one overtook only events that were due
  later. Each event records the time at which it was taken, and that is after the time it was due:
  since the clock may be set back, this cannot be read off the present time.
- `AbstimeIsSum`, `TimespecOrder` and `InsertionByTimespec` justify the units: `abstime` is the time of
  day plus the delay also where `tv_nsec` is carried, `timespec_cmp` orders valid times like their
  nanoseconds, and insertion by it is RilQueues' `insertEvent`. `NoOverflow` shows that `tv_nsec` fits
  in 32 bits until it is normalised.
- `AbstimeValidUnlessOneSecond`: a sum of exactly one second, which the code's `>` leaves alone, is the
  only one that gives an invalid `tv_nsec`. It cannot come up (`AbstimeValid`), because all delays in the
  code are whole seconds and the time of day has less than one.

**The radio state.** `RadioStateProofs` has `TypeCorrect`, `InformedAlways`, `ReadyConfigured` and
`PowerAlwaysAgrees`. Lemma `StepKinds` sorts every step into setRadioState's own steps, its critical
section, and steps that leave everybody in setRadioState alone. `FrameworkInformed` is then
inductive; `SimReadyConfigured` is not, because a thread in setRadioState need not enqueue anything,
and is strengthened to `ReadyPending`. `PowerAgrees` needs `PowerInv`: between a command that
switches the radio and the `setRadioState` that follows, the runner's control point, or the one it
returns to, tells what the command did; nothing is claimed while some thread is on its way to close
the queues. Where `isRadioOn` failed the runner serves in OFF and only `assumed` tells of the radio.

**Messages.** `SmsAckProofs` has `HeldForAReasonTheorem` and `MailboxTheorem`, of the composition
with all other handlers and for any workload: Lemma `NextIsSms` shows that every step of RilHandlers
is one of SmsAck or leaves it alone. The invariant `SmsInv` adds to the types that the flag is set
exactly while an acknowledgement is to come, served or refused, and that then something was shown:
without it "the next with the acknowledgement of the one before" is not inductive.

**Handlers.** `HandlersProofs` is about the composition, for any workload. Each handler has its own
control points, and a step of one leaves the others' alone.

- `TasksFit`, `RequestsCompletedOnce` (`CompletedOnce`) and `OtherAnswersHandled` (`AnswersHandled`).
  `TaskInv` says for each control point which request is in hand, whether it was completed and what
  the response variable holds. Of the handlers that are tables, lemmas check row by row that no
  outcome leads to a bad read or a second free but the ones the properties name.
- `ScreenLockAlwaysReleased` and `ScreenOffIsQuiet`, from `RegistrationInvariant`: which points hold
  the mutex, and which of the modem's reports are on at which of them.
- `AlwaysReadsTheFileAsked`, from `SimInvariant`: the card has selected what the RIL remembers, or
  nothing, or was selected by id alone; while a path is being selected, exactly the directories
  passed. The first attempt at this proof failed for a reason: the failed selection described under
  Runs breaks the property without the exception in four requests, one more than the run then had.

`DataCallProofs` has `CharsetAlwaysRestored`, `VerdictsOfThisCall`, `StateAlwaysSettles` and
`DeactivatedIsDown` from `DataInvariant`: the character set is known at each point of a set-up; in
one that began when nothing was to be heard any more, every report under way or stored is about its
call; the last report under way on a live channel is what the modem is.

**HALs.** `DeviceHalsProofs` has `AtMostOneTimer`, `FixIsExclusive`, `FixesAreDated`, `SkyIsWhole` and
`LocationsWithinSession` from `GpsInvariant`: while no clean-up abandoned a timer, a live timer thread
is the one the state thread is going to join, and the semaphore is 1 only if nobody is inside; while
no sentence was cut the reader has the satellites of exactly the GSV sentences sent so far; while
none was garbled a position is kept only with its date. `DescriptorsAreOwn` and
`AccelerometerIsClosed` follow from `SensorInvariant`: the descriptors of the socket pair are nobody
else's, and the accelerometer is open in the handle or in the data device and nowhere else.

Only model-checked: the liveness properties (`CallsReturn`, `RequestsServed`, `Recovers`,
`SimNoticed`, `MessagesShown`, `SelectionAnswered`, `StopReturns`), which rest on fairness and are
out of the prover's reach, and the four disagreements with comments and messages, which are
counterexamples.

## Not modelled

Parsing and formatting of lines, PDUs, FCPs and NMEA fields (a line can be parsed or cannot),
memory management but for freed and missing responses, deep copies of request data, consecutive
sessions on one AT context, `RIL_EVENT_QUEUE_ALL` (no caller), ioctl calls (they succeed or fail), the handlers of `u300-ril-services.c` and others that
are commented out of `processRequest`, the indications that are passed on without state, kernel
patches, scripts, and `sensors-htc.c`, which is not built.

## Plan

Modelled: AtChannel, RilQueues with RilRequests, RadioState; SmsAck with Mailbox, SimpleRequests,
DataCall, Registration, SimFiles and their composition; GpsHal, SensorsHal.

Proved: every safety property of the passing runs.

Left: consecutive sessions on one AT context, where `at_open` keeps the line buffer of the last one
(atchannel.c:754), so lines of the old session reach the new one. AtChannel would need a second
`at_open` and the lines that lie in the buffer when the first session ends.
