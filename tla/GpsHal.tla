------------------------------- MODULE GpsHal -------------------------------
(***************************************************************************)
(* The GPS HAL of the BUG 2.0 (gps_bug20.c).  Four kinds of threads: the   *)
(* framework calls the interface; the state thread takes its commands from *)
(* a socket and NMEA sentences from the device; a timer thread per session *)
(* reports what the reader has gathered.  Fix and satellites are guarded   *)
(* by a semaphore, the rest of GpsState by nothing.                        *)
(* Of a sentence is kept which fields it sets and whether its date and     *)
(* time can be parsed.  A satellite list comes in GsvTotal sentences.      *)
(***************************************************************************)
EXTENDS Integers, Sequences, FiniteSets

CONSTANTS
  Timers,    \* the timer threads that may be created
  GsvTotal,  \* sentences of a satellite list
  GpsBudgets \* bounds: records of calls, sentences and faults

ASSUME GpsAssumption ==
  /\ GsvTotal \in Nat \ {0}
  /\ \A b \in GpsBudgets : DOMAIN b = {"calls", "sentences", "faults"}

VARIABLES
  init,     \* GpsState.init: STATE_QUIT, STATE_INIT or STATE_START
  freq,     \* fix_freq: -1 makes sleep() wait 2^32 - 1 seconds
  sem,      \* the value of fix_sem
  firstFix, \* first_fix
  callbacks, \* the callbacks are known
  caller,   \* the framework's thread: "idle", or where it is in a call
  thread,   \* the state thread
  started,  \* its local variable
  control,  \* the control socket
  tmr,      \* tmr_thread: the timer created last
  timer,    \* per timer thread: where it is
  reader,   \* NmeaReader: date set, timestamp set, flags, satellites, changed
  line,     \* the sentence the state thread has read
  budget,
  \* Of the properties only:
  session,  \* between GPS_STATUS_SESSION_BEGIN and GPS_STATUS_SESSION_END
  outside,  \* locations reported outside of a session since the HAL was initialised
  fixes,    \* what kind of position has been reported: "dated", "undated"
  skies,    \* what kind of satellite list has been reported: "whole", "part"
  sky,      \* the number of the last GSV sentence the device sent
  upset     \* what went wrong: "abandoned", "garbled", "cut", "hangup"

shared == <<init, freq, sem, firstFix, callbacks>>
stateThread == <<thread, started, control, line>>
timers == <<tmr, timer>>
observed == <<session, outside, fixes, skies, sky, upset>>
gpsVars == <<shared, caller, stateThread, timers, reader, budget, observed>>

CMD_QUIT == "QUIT"
CMD_START == "START"
CMD_STOP == "STOP"
STATE_QUIT == "STATE_QUIT"
STATE_INIT == "STATE_INIT"
STATE_START == "STATE_START"

\* nmea_reader_init
NoReader == [date |-> FALSE, stamp |-> FALSE, flags |-> {}, svs |-> {}, changed |-> FALSE]
Alive(t) == timer[t] \notin {"none", "ended"}

-----------------------------------------------------------------------------
(* The interface, called by one thread of the framework. *)

Call == /\ caller = "idle" /\ budget.calls > 0
        /\ budget' = [budget EXCEPT !.calls = @ - 1]

(* bug20_gps_init with gps_state_init.  Without a device the state is        *)
(* STATE_INIT all the same, and there is no state thread.  A socket or       *)
(* thread that cannot be made runs gps_state_done; the call then succeeds.   *)
(* A second call only stores the callbacks, if there is a device.            *)
bug20_gps_init ==
  /\ Call
  /\ IF init # STATE_QUIT
     THEN /\ callbacks' = (callbacks \/ thread # "none")
          /\ UNCHANGED <<init, freq, sem, firstFix, caller, thread, started, control, reader,
                         session, outside, upset>>
     ELSE /\ started' = FALSE /\ control' = << >> /\ firstFix' = FALSE
          /\ outside' = 0 /\ session' = FALSE
          /\ \/ /\ thread' = "poll" /\ reader' = NoReader /\ caller' = "register"
                /\ init' = STATE_INIT /\ freq' = -1 /\ sem' = 1 /\ UNCHANGED callbacks
                /\ upset' = IF sky = GsvTotal THEN upset ELSE upset \cup {"cut"}
             \/ /\ budget.faults > 0
                /\ init' = STATE_INIT /\ freq' = -1 /\ sem' = 1
                /\ UNCHANGED <<callbacks, caller, thread, reader, upset>>
             \/ /\ budget.faults > 0
                /\ init' = STATE_QUIT /\ freq' = 0 /\ sem' = 0 /\ reader' = NoReader
                /\ callbacks' = TRUE
                /\ UNCHANGED <<caller, thread, upset>>
  /\ UNCHANGED <<line, timers, fixes, skies, sky>>
\* The callbacks are stored when the state thread may already run.
StoreCallbacks ==
  /\ caller = "register" /\ caller' = "idle" /\ callbacks' = TRUE
  /\ UNCHANGED <<init, freq, sem, firstFix, stateThread, timers, reader, budget, observed>>

\* A byte for the state thread: gps_state_start, gps_state_stop, gps_state_done.
Send(cmd) == control' = IF thread = "none" THEN control ELSE Append(control, cmd)

bug20_gps_start ==
  /\ Call /\ init # STATE_QUIT /\ Send(CMD_START)
  /\ UNCHANGED <<shared, caller, thread, started, line, timers, reader, observed>>
bug20_gps_stop ==
  /\ Call /\ init # STATE_QUIT /\ Send(CMD_STOP)
  /\ UNCHANGED <<shared, caller, thread, started, line, timers, reader, observed>>

\* set_fix_frequency makes at least 1 of it, set_position_mode allows 0.
SetFrequency ==
  /\ Call /\ init # STATE_QUIT /\ freq' \in {0, 1}
  /\ UNCHANGED <<init, sem, firstFix, callbacks, caller, stateThread, timers, reader, observed>>

\* bug20_gps_cleanup: gps_state_done waits for the state thread, not for a timer.
bug20_gps_cleanup ==
  /\ Call /\ init # STATE_QUIT
  /\ Send(CMD_QUIT) /\ caller' = "join"
  /\ UNCHANGED <<shared, thread, started, line, timers, reader, observed>>
StateThreadJoined ==
  /\ caller = "join" /\ thread \in {"none", "gone"}
  /\ init' = STATE_QUIT /\ freq' = -1
  /\ caller' = "clear"
  /\ upset' = IF \E t \in Timers : Alive(t) THEN upset \cup {"abandoned"} ELSE upset
  /\ UNCHANGED <<sem, firstFix, callbacks, stateThread, timers, reader, budget, session,
                 outside, fixes, skies, sky>>
\* sem_destroy and memset.
ClearState ==
  /\ caller = "clear"
  /\ sem' = 0 /\ freq' = 0 /\ firstFix' = FALSE /\ reader' = NoReader
  /\ thread' = "none" /\ caller' = "idle" /\ callbacks' = FALSE
  /\ UNCHANGED <<init, started, control, line, timers, budget, observed>>

-----------------------------------------------------------------------------
(* What is told to the framework. *)

\* location_cb, if there is one: r is the reader, s whether a session is on.
Locate(r, s) ==
  /\ fixes' = IF "LAT_LONG" \notin r.flags THEN fixes
              ELSE fixes \cup {IF r.date /\ r.stamp THEN "dated" ELSE "undated"}
  /\ outside' = IF s THEN outside ELSE outside + 1
\* sv_status_cb
ShowSky(r) == skies' = skies \cup {IF r.svs = 1..GsvTotal THEN "whole" ELSE "part"}

-----------------------------------------------------------------------------
(* The state thread. *)

Polls == thread = "poll"
Take == Polls /\ control # << >> /\ control' = Tail(control)

Quit ==
  /\ Take /\ Head(control) = CMD_QUIT
  /\ thread' = "gone"
  /\ UNCHANGED <<shared, caller, started, line, timers, reader, budget, observed>>

Start ==
  /\ Take /\ Head(control) = CMD_START
  /\ IF started THEN UNCHANGED <<thread, started, init, session, tmr, timer>>
     ELSE /\ session' = TRUE
          /\ \/ \E t \in Timers :
                  /\ timer[t] = "none" /\ \A u \in Timers : timer[u] = "none" => t <= u
                  /\ timer' = [timer EXCEPT ![t] = "lock"] /\ tmr' = t
                  /\ started' = TRUE /\ init' = STATE_START /\ UNCHANGED thread
             \/ /\ budget.faults > 0 \* pthread_create failed
                /\ started' = FALSE /\ init' = STATE_INIT /\ thread' = "gone"
                /\ UNCHANGED <<timers>>
  /\ UNCHANGED <<freq, sem, firstFix, callbacks, caller, line, reader, budget, outside, fixes,
                 skies, sky, upset>>

\* Mutation of Stop: the session is over before the timer thread is.
StopWithoutJoin ==
  /\ Take /\ Head(control) = CMD_STOP
  /\ IF started THEN started' = FALSE /\ init' = STATE_INIT /\ session' = FALSE
     ELSE UNCHANGED <<started, init, session>>
  /\ UNCHANGED <<freq, sem, firstFix, callbacks, caller, thread, line, timers, reader, budget,
                 outside, fixes, skies, sky, upset>>

\* The thread waits for the timer thread before the session is over.
Stop ==
  /\ Take /\ Head(control) = CMD_STOP
  /\ IF started THEN started' = FALSE /\ init' = STATE_INIT /\ thread' = "stopping"
     ELSE UNCHANGED <<started, init, thread>>
  /\ UNCHANGED <<freq, sem, firstFix, callbacks, caller, line, timers, reader, budget, observed>>
TimerJoined ==
  /\ thread = "stopping" /\ timer[tmr] = "ended"
  /\ thread' = "poll" /\ session' = FALSE
  /\ UNCHANGED <<shared, caller, started, control, line, timers, reader, budget, outside, fixes,
                 skies, sky, upset>>

\* EPOLLERR or EPOLLHUP: the thread ends, the timer does not.
Hangup ==
  /\ Polls /\ budget.faults > 0
  /\ budget' = [budget EXCEPT !.faults = @ - 1]
  /\ thread' = "gone"
  /\ UNCHANGED <<shared, caller, started, control, line, timers, reader, observed>>

-----------------------------------------------------------------------------
(* NMEA sentences. bad: date or time cannot be parsed. *)

Sentences ==
  {[id |-> i, bad |-> FALSE] : i \in {"GGA", "VTG", "GSA", "GSV"}}
    \cup [id : {"RMC", "ZDA"}, bad : BOOLEAN]

(* nmea_reader_addc: a line that does not fit is dropped up to its end, or   *)
(* the line after it as well when the end itself is what did not fit.       *)
ReadLine ==
  /\ Polls /\ budget.sentences > 0
  /\ budget' = [budget EXCEPT !.sentences = @ - 1]
  /\ \E s \in Sentences :
       LET next == IF sky = GsvTotal THEN 1 ELSE sky + 1 IN
       /\ sky' = IF s.id = "GSV" THEN next ELSE sky
       /\ \/ line' = s /\ thread' = "lock" /\ UNCHANGED upset
          \/ s.id = "GSV" /\ upset' = upset \cup {"cut"} /\ UNCHANGED <<line, thread>>
  /\ UNCHANGED <<shared, caller, started, control, timers, reader, session, outside, fixes,
                 skies>>

\* Mutation of LockFix: the state thread does not wait for the timer.
LockFixUnguarded ==
  /\ thread = "lock" /\ thread' = "parse" /\ sem' = 0
  /\ UNCHANGED <<init, freq, firstFix, callbacks, caller, started, control, line, timers,
                 reader, budget, observed>>

LockFix ==
  /\ thread = "lock" /\ sem > 0 /\ sem' = sem - 1 /\ thread' = "parse"
  /\ UNCHANGED <<init, freq, firstFix, callbacks, caller, started, control, line, timers,
                 reader, budget, observed>>

\* Mutation of UpdatePosition: a position without a date is kept.
UpdatePositionUndated(r) == [r EXCEPT !.flags = @ \cup {"LAT_LONG"}]

\* GGA and GLL: ignored until there is a date.
UpdatePosition(r) == IF r.date THEN [r EXCEPT !.flags = @ \cup {"LAT_LONG"}] ELSE r

\* RMC: the position is taken even if nmea_reader_update_date failed.
UpdateRecommended(r, bad) ==
  [r EXCEPT !.date = @ \/ ~bad, !.stamp = @ \/ ~bad, !.flags = @ \cup {"LAT_LONG", "SPEED"}]
\* ZDA: the date is taken even if the time that belongs to it is not.
UpdateDate(r, bad) == [r EXCEPT !.date = TRUE, !.stamp = @ \/ ~bad]

\* Mutation of UpdateSky: the first sentence leaves sv_status_changed.
UpdateSkyKeepsChanged(r, k) ==
  [r EXCEPT !.svs = IF k = 1 THEN {1} ELSE @ \cup {k}, !.changed = @ \/ k = GsvTotal]

\* GSV number k: the first takes back a report that is due.
UpdateSky(r, k) ==
  [r EXCEPT !.svs = IF k = 1 THEN {1} ELSE @ \cup {k},
            !.changed = (k # 1 /\ @) \/ k = GsvTotal]

nmea_reader_parse ==
  IF line.id = "GGA" THEN UpdatePosition(reader)
  ELSE IF line.id = "RMC" THEN UpdateRecommended(reader, line.bad)
  ELSE IF line.id = "ZDA" THEN UpdateDate(reader, line.bad)
  ELSE IF line.id = "VTG" THEN [reader EXCEPT !.flags = @ \cup {"SPEED"}]
  ELSE IF line.id = "GSA" THEN [reader EXCEPT !.changed = TRUE, !.flags = @ \cup {"ACCURACY"}]
  ELSE UpdateSky(reader, sky)

(* The sentence is parsed; the first position before any session is         *)
(* reported at once.                                                        *)
Parse ==
  /\ thread = "parse" /\ thread' = "poll" /\ sem' = sem + 1
  /\ LET r == nmea_reader_parse IN
       IF ~firstFix /\ init = STATE_INIT /\ "LAT_LONG" \in r.flags
       THEN /\ firstFix' = TRUE
            /\ IF callbacks THEN Locate(r, session) /\ reader' = [r EXCEPT !.flags = {}]
               ELSE reader' = r /\ UNCHANGED <<fixes, outside>>
       ELSE reader' = r /\ UNCHANGED <<fixes, outside, firstFix>>
  /\ upset' = upset \cup (IF line.bad THEN {"garbled"} ELSE {})
                    \cup (IF line.id = "GSA" /\ reader.svs # 1..GsvTotal THEN {"cut"} ELSE {})
  /\ UNCHANGED <<init, freq, callbacks, caller, started, control, line, timers, budget, session,
                 skies, sky>>

-----------------------------------------------------------------------------
(* A timer thread. *)

TimerLocks(t) ==
  /\ timer[t] = "lock" /\ sem > 0 /\ sem' = sem - 1
  /\ timer' = [timer EXCEPT ![t] = "report"]
  /\ UNCHANGED <<init, freq, firstFix, callbacks, caller, stateThread, tmr, reader, budget,
                 observed>>

\* Without callbacks nothing is reported and nothing taken back.
TimerReports(t) ==
  /\ timer[t] = "report"
  /\ timer' = [timer EXCEPT ![t] = "sleep"] /\ sem' = sem + 1
  /\ IF reader.flags # {} /\ callbacks
     THEN Locate(reader, session) /\ firstFix' = TRUE
     ELSE UNCHANGED <<fixes, outside, firstFix>>
  /\ freq' = IF reader.flags # {} /\ freq = 0 THEN -1 ELSE freq
  /\ IF reader.changed /\ callbacks THEN ShowSky(reader) ELSE UNCHANGED skies
  /\ reader' = IF callbacks THEN [reader EXCEPT !.flags = {}, !.changed = FALSE] ELSE reader
  /\ UNCHANGED <<init, callbacks, caller, stateThread, tmr, budget, session, sky, upset>>

\* sleep(fix_freq): with -1 for good.
TimerSleeps(t) ==
  /\ timer[t] = "sleep"
  /\ timer' = [timer EXCEPT ![t] = IF freq = -1 THEN "forever" ELSE "asleep"]
  /\ UNCHANGED <<shared, caller, stateThread, tmr, reader, budget, observed>>

\* Mutation of TimerWakes: the state is not looked at.
TimerWakesAlways(t) ==
  /\ timer[t] = "asleep"
  /\ timer' = [timer EXCEPT ![t] = "lock"]
  /\ UNCHANGED <<shared, caller, stateThread, tmr, reader, budget, observed>>

TimerWakes(t) ==
  /\ timer[t] = "asleep"
  /\ timer' = [timer EXCEPT ![t] = IF init = STATE_START THEN "lock" ELSE "ended"]
  /\ UNCHANGED <<shared, caller, stateThread, tmr, reader, budget, observed>>

TimerStep(t) == TimerLocks(t) \/ TimerReports(t) \/ TimerSleeps(t) \/ TimerWakes(t)

-----------------------------------------------------------------------------
GpsInit ==
  /\ init = STATE_QUIT /\ freq = 0 /\ sem = 0 /\ firstFix = FALSE
  /\ callbacks = FALSE /\ caller = "idle" /\ thread = "none" /\ started = FALSE /\ control = << >>
  /\ tmr = 0 /\ timer = [t \in Timers |-> "none"]
  /\ reader = NoReader /\ line = [id |-> "none", bad |-> FALSE]
  /\ budget \in GpsBudgets
  /\ session = FALSE /\ outside = 0 /\ fixes = {} /\ skies = {} /\ sky = GsvTotal /\ upset = {}

StateThreadStep == Quit \/ Start \/ Stop \/ TimerJoined \/ LockFix \/ Parse
CallStep == StoreCallbacks \/ StateThreadJoined \/ ClearState

GpsStep ==
  \/ bug20_gps_init \/ bug20_gps_start \/ bug20_gps_stop \/ SetFrequency \/ bug20_gps_cleanup
  \/ CallStep \/ StateThreadStep \/ Hangup \/ ReadLine
  \/ \E t \in Timers : TimerStep(t)

-----------------------------------------------------------------------------
(* There is at most one timer thread, the one the state thread would join,  *)
(* and only while a session is on or being stopped: whatever the order of   *)
(* start and stop commands.  Excepted is a HAL that was cleaned up while a  *)
(* timer ran: gps_state_done does not wait for it, and a HAL that is        *)
(* initialised and started again before it wakes has two.                   *)
OneTimer ==
  "abandoned" \notin upset =>
    \A t \in Timers : Alive(t) => t = tmr /\ (started \/ thread = "stopping")

(* Reader and timer are never in their critical sections together, unless a *)
(* timer was abandoned: its sem_post after the semaphore was set up again   *)
(* lets two in.                                                             *)
InCritical == {t \in Timers : timer[t] = "report"} \cup (IF thread = "parse" THEN {0} ELSE {})
FixExclusive == "abandoned" \notin upset => Cardinality(InCritical) <= 1

(* No position without date and time is reported ("ignore this until we     *)
(* have a valid timestamp"), unless a date or a time could not be parsed:   *)
(* an RMC position is taken nonetheless, and a ZDA date without its time.   *)
FixesDated == "undated" \in fixes => "garbled" \in upset

(* A satellite list is reported whole, although the timer may wake between  *)
(* any two of its sentences, unless a GSA sentence came before it was whole *)
(* or one of its sentences was lost.                                        *)
SkyWhole == "part" \in skies => "cut" \in upset

(* Between two initialisations at most one location, the first, is reported *)
(* outside of a session: nothing comes after GPS_STATUS_SESSION_END that    *)
(* the timer still had in hand.                                             *)
LocationsInSession == "abandoned" \notin upset => outside <= 1

Forever == \E t \in Timers : timer[t] = "forever"

(* A stop command and a clean-up come to their end, unless a timer sleeps   *)
(* for good: with fix_freq -1, which is where it starts and what a fix      *)
(* makes of 0, the state thread joins a thread that does not wake for 136   *)
(* years and the clean-up joins the state thread.                           *)
StopReturns ==
  (thread = "stopping" \/ caller # "idle") ~> (thread # "stopping" /\ caller = "idle") \/ Forever
=============================================================================
