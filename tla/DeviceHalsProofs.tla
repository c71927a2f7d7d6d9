-------------------------- MODULE DeviceHalsProofs --------------------------
(***************************************************************************)
(* What the GPS HAL and the sensors HAL keep to, for any number of calls,  *)
(* sentences, timer threads and descriptors.                               *)
(***************************************************************************)
EXTENDS DeviceHals, FiniteSetTheorems, WellFoundedInduction, TLAPS

-----------------------------------------------------------------------------
(* The inductive invariant of the GPS HAL. *)

Readers == [date : BOOLEAN, stamp : BOOLEAN, flags : SUBSET {"LAT_LONG", "SPEED", "ACCURACY"},
            svs : SUBSET Nat, changed : BOOLEAN]
Lines == [id : {"none", "GGA", "VTG", "GSA", "GSV", "RMC", "ZDA"}, bad : BOOLEAN]

GpsTypeOK ==
  /\ timer \in [Timers -> {"none", "lock", "report", "sleep", "asleep", "forever", "ended"}]
  /\ thread \in {"none", "poll", "lock", "parse", "stopping", "gone"}
  /\ sem \in Nat /\ outside \in Nat /\ sky \in 1..GsvTotal
  /\ reader \in Readers /\ line \in Lines
  /\ thread \in {"lock", "parse"} => line.id # "none"

\* Without STATE_INIT there is no state thread, but one that clean-up has joined.
LifeInv ==
  /\ init = STATE_QUIT => thread = "none" \/ (thread = "gone" /\ caller = "clear")
  /\ caller = "clear" => init = STATE_QUIT

\* A timer runs only for a state thread that has started it, in a session.
TimerInv ==
  "abandoned" \notin upset =>
    \A t \in Timers : Alive(t) =>
      /\ t = tmr /\ (started \/ thread = "stopping")
      /\ init # STATE_QUIT /\ thread # "none" /\ session

\* The semaphore is 1 only when nobody is inside.
SemInv ==
  "abandoned" \notin upset =>
    /\ sem \in {0, 1}
    /\ sem = 1 => thread # "parse" /\ \A t \in Timers : timer[t] # "report"
    /\ thread = "parse" => \A t \in Timers : timer[t] # "report"

\* The one location outside of a session is the first fix.
OutsideInv ==
  "abandoned" \notin upset => outside = 0 \/ (outside = 1 /\ (firstFix \/ thread = "none"))

\* A position that waits to be reported is dated.
DatedInv ==
  "garbled" \notin upset =>
    /\ "undated" \notin fixes
    /\ reader.date => reader.stamp
    /\ "LAT_LONG" \in reader.flags => reader.date

(* The reader has the sentences of the list up to the last one sent; a GSV  *)
(* sentence read and not yet parsed is the next.                            *)
UpTo(k) == reader.svs = 1..k
InStep ==
  IF thread \in {"lock", "parse"} /\ line.id = "GSV"
  THEN sky = 1 \/ UpTo(sky - 1)
  ELSE UpTo(sky) \/ (reader.svs = {} /\ sky = GsvTotal)
SkyInv ==
  "cut" \notin upset =>
    /\ "part" \notin skies
    /\ reader.changed => UpTo(GsvTotal)
    /\ thread # "none" => InStep

GpsInv == GpsTypeOK /\ LifeInv /\ TimerInv /\ SemInv /\ OutsideInv /\ DatedInv /\ SkyInv

-----------------------------------------------------------------------------
(* The inductive invariant of the sensors HAL. *)

Tables == [Descriptors -> {"free", "socket", "accel", "other"}]

SensorTypeOK ==
  /\ table \in Tables
  /\ sensor_fd \in Descriptors \cup {NoFd} /\ event_fd \in Descriptors \cup {NoFd}
  /\ control_fd \in (Descriptors \X Descriptors) \cup {<<NoFd, NoFd>>}
  /\ handle \in Descriptors \cup {NoFd, NoHandle} /\ devices \subseteq {"control", "data"}

\* The socket pair is the HAL's own, and no other descriptor has its numbers.
PairInv ==
  control_fd # <<NoFd, NoFd>> =>
    \A i \in {1, 2} : table[control_fd[i]] = "socket" /\ event_fd # control_fd[i]

\* A handle on its way holds the descriptor in sensor_fd; there is no data descriptor yet.
HandleInv ==
  handle # NoHandle =>
    /\ "control" \in devices /\ sensor_fd = handle /\ event_fd = NoFd
    /\ handle # NoFd => table[handle] = "accel" /\ Free(table) # {}

\* The accelerometer is open in the handle or in the data device, and nowhere else.
AccelInv ==
  /\ \A d \in Descriptors : table[d] = "accel" => d = handle \/ (d = event_fd /\ "data" \in devices)
  /\ event_fd # NoFd =>
       /\ event_fd # sensor_fd
       /\ "data" \in devices /\ ~readFailed => table[event_fd] = "accel"

SensorInv ==
  SensorTypeOK /\ PairInv /\ HandleInv /\ AccelInv /\ OwnDescriptors

-----------------------------------------------------------------------------
(* The GPS HAL: types. *)

\* Sentences are lines.
LEMMA SentencesAreLines == ASSUME NEW s \in Sentences PROVE s \in Lines /\ s.id # "none"
<1>1. ASSUME NEW i \in {"GGA", "VTG", "GSA", "GSV"}, s = [id |-> i, bad |-> FALSE]
      PROVE  s \in Lines /\ s.id # "none"
  BY <1>1 DEF Lines
<1>2. CASE s \in [id : {"RMC", "ZDA"}, bad : BOOLEAN] BY <1>2 DEF Lines
<1> QED BY <1>1, <1>2 DEF Sentences

\* A parsed sentence leaves a reader.
LEMMA ParsedType ==
  ASSUME reader \in Readers, sky \in 1..GsvTotal, line \in Lines
  PROVE  nmea_reader_parse \in Readers
<1>1. UpdatePosition(reader) \in Readers BY DEF UpdatePosition, Readers
<1>2. UpdateRecommended(reader, line.bad) \in Readers
  BY DEF UpdateRecommended, Readers, Lines
<1>3. UpdateDate(reader, line.bad) \in Readers BY DEF UpdateDate, Readers, Lines
<1>4. [reader EXCEPT !.flags = @ \cup {"SPEED"}] \in Readers BY DEF Readers
<1>5. [reader EXCEPT !.changed = TRUE, !.flags = @ \cup {"ACCURACY"}] \in Readers BY DEF Readers
<1>6. UpdateSky(reader, sky) \in Readers
  <2> DEFINE s == IF sky = 1 THEN {1} ELSE reader.svs \cup {sky}
             c == (sky # 1 /\ reader.changed) \/ sky = GsvTotal
  <2>1. s \in SUBSET Nat BY GpsAssumption DEF Readers
  <2>2. c \in BOOLEAN OBVIOUS
  <2>3. UpdateSky(reader, sky) = [reader EXCEPT !.svs = s, !.changed = c] BY DEF UpdateSky
  <2> HIDE DEF s, c
  <2> QED BY <2>1, <2>2, <2>3 DEF Readers
<1> QED BY <1>1, <1>2, <1>3, <1>4, <1>5, <1>6 DEF nmea_reader_parse

\* The empty reader.
LEMMA NoReaderType == NoReader \in Readers
BY DEF NoReader, Readers

\* Every step keeps the types.
LEMMA GpsTypeNext ==
  ASSUME GpsInv, GpsStep
  PROVE  GpsTypeOK'
<1> USE GpsAssumption DEF GpsInv, GpsTypeOK
<1>1. CASE bug20_gps_init
  <2>1. reader' \in {reader, NoReader} /\ thread' \in {thread, "poll"} /\ sem' \in {sem, 0, 1}
    BY <1>1 DEF bug20_gps_init
  <2>2. outside' \in {0, outside} /\ UNCHANGED <<line, timer, sky>>
    BY <1>1 DEF bug20_gps_init, timers
  <2> QED BY <2>1, <2>2, NoReaderType
<1>2. CASE StoreCallbacks BY <1>2 DEF StoreCallbacks, stateThread, timers, observed
<1>3. CASE bug20_gps_start BY <1>3 DEF bug20_gps_start, shared, timers, observed
<1>4. CASE bug20_gps_stop BY <1>4 DEF bug20_gps_stop, shared, timers, observed
<1>5. CASE SetFrequency BY <1>5 DEF SetFrequency, stateThread, timers, observed
<1>6. CASE bug20_gps_cleanup BY <1>6 DEF bug20_gps_cleanup, shared, timers, observed
<1>7. CASE StateThreadJoined BY <1>7 DEF StateThreadJoined, stateThread, timers
<1>8. CASE ClearState BY <1>8, NoReaderType DEF ClearState, timers, observed
<1>9. CASE Quit BY <1>9 DEF Quit, Take, Polls, shared, timers, observed
<1>10. CASE Start BY <1>10 DEF Start, Take, Polls, timers
<1>11. CASE Stop BY <1>11 DEF Stop, Take, Polls, timers, observed
<1>12. CASE TimerJoined BY <1>12 DEF TimerJoined, shared, timers
<1>13. CASE Hangup BY <1>13 DEF Hangup, shared, timers, observed
<1>14. CASE ReadLine BY <1>14, SentencesAreLines DEF ReadLine, shared, timers
<1>15. CASE LockFix BY <1>15 DEF LockFix, timers, observed
<1>16. CASE Parse
  <2> DEFINE r == nmea_reader_parse
  <2>1. r \in Readers BY ParsedType
  <2> HIDE DEF r
  <2>2. /\ reader' \in {r, [r EXCEPT !.flags = {}]}
        /\ outside' \in {outside, outside + 1} /\ sem' = sem + 1 /\ thread' = "poll"
        /\ UNCHANGED <<timer, line, sky>>
    BY <1>16 DEF Parse, Locate, r, timers
  <2>3. reader' \in Readers BY <2>1, <2>2 DEF Readers
  <2> QED BY <2>2, <2>3
<1>17. ASSUME NEW t \in Timers, TimerLocks(t) PROVE GpsTypeOK'
  BY <1>17 DEF TimerLocks, stateThread, observed
<1>18. ASSUME NEW t \in Timers, TimerReports(t) PROVE GpsTypeOK'
  <2>1. /\ reader' \in {reader, [reader EXCEPT !.flags = {}, !.changed = FALSE]}
        /\ outside' \in {outside, outside + 1}
        /\ sem' = sem + 1 /\ timer' = [timer EXCEPT ![t] = "sleep"]
        /\ UNCHANGED <<thread, line, sky>>
    BY <1>18 DEF TimerReports, Locate, stateThread
  <2>2. [reader EXCEPT !.flags = {}, !.changed = FALSE] \in Readers BY DEF Readers
  <2> QED BY <2>1, <2>2
<1>19. ASSUME NEW t \in Timers, TimerSleeps(t) PROVE GpsTypeOK'
  BY <1>19 DEF TimerSleeps, shared, stateThread, observed
<1>20. ASSUME NEW t \in Timers, TimerWakes(t) PROVE GpsTypeOK'
  BY <1>20 DEF TimerWakes, shared, stateThread, observed
<1> QED
  BY <1>1, <1>2, <1>3, <1>4, <1>5, <1>6, <1>7, <1>8, <1>9, <1>10, <1>11, <1>12, <1>13, <1>14,
     <1>15, <1>16, <1>17, <1>18, <1>19, <1>20
     DEF GpsStep, CallStep, StateThreadStep, TimerStep

-----------------------------------------------------------------------------
(* The GPS HAL: the threads. *)

\* What went wrong is not forgotten.
LEMMA UpsetGrows == ASSUME GpsStep PROVE upset \subseteq upset'
BY DEF GpsStep, CallStep, StateThreadStep, TimerStep, bug20_gps_init, StoreCallbacks,
       bug20_gps_start, bug20_gps_stop, SetFrequency, bug20_gps_cleanup, StateThreadJoined,
       ClearState, Quit, Start, Stop, TimerJoined, Hangup, ReadLine, LockFix, Parse, TimerLocks,
       TimerReports, TimerSleeps, TimerWakes, observed

\* Every step keeps LifeInv.
LEMMA LifeNext ==
  ASSUME GpsInv, GpsStep
  PROVE  LifeInv'
<1> USE DEF GpsInv, LifeInv, STATE_QUIT, STATE_INIT, STATE_START
<1>1. CASE bug20_gps_init BY <1>1 DEF bug20_gps_init, Call
<1>2. CASE bug20_gps_start \/ bug20_gps_stop \/ SetFrequency \/ bug20_gps_cleanup
  BY <1>2 DEF bug20_gps_start, bug20_gps_stop, SetFrequency, bug20_gps_cleanup, Call, shared, stateThread
<1>3. CASE CallStep
  BY <1>3 DEF CallStep, StoreCallbacks, StateThreadJoined, ClearState, stateThread
<1>4. CASE StateThreadStep
  BY <1>4 DEF StateThreadStep, Quit, Start, Stop, TimerJoined, LockFix, Parse, Take, Polls, shared
<1>5. CASE Hangup \/ ReadLine BY <1>5 DEF Hangup, ReadLine, Polls, shared
<1>6. ASSUME NEW t \in Timers, TimerStep(t) PROVE LifeInv'
  BY <1>6 DEF TimerStep, TimerLocks, TimerReports, TimerSleeps, TimerWakes, shared, stateThread
<1> QED BY <1>1, <1>2, <1>3, <1>4, <1>5, <1>6 DEF GpsStep

\* Every step keeps TimerInv.
LEMMA TimerNext ==
  ASSUME GpsInv, GpsStep
  PROVE  TimerInv'
<1> SUFFICES ASSUME "abandoned" \notin upset' PROVE TimerInv' BY DEF TimerInv
<1>u. "abandoned" \notin upset BY UpsetGrows
<1>t. LifeInv /\ TimerInv /\ GpsTypeOK BY DEF GpsInv
<1>a. \A t \in Timers : Alive(t) =>
        /\ t = tmr /\ (started \/ thread = "stopping")
        /\ init # STATE_QUIT /\ thread # "none" /\ session
  BY <1>u, <1>t DEF TimerInv
<1>1. CASE bug20_gps_init
  <2>1. CASE init = STATE_QUIT
    <3>1. \A t \in Timers : ~Alive(t) BY <1>a, <2>1
    <3>2. timer' = timer BY <1>1 DEF bug20_gps_init, timers
    <3> QED BY <3>1, <3>2 DEF TimerInv, Alive
  <2>2. CASE init # STATE_QUIT
    <3>1. UNCHANGED <<init, thread, started, session, timer, tmr>>
      BY <1>1, <2>2 DEF bug20_gps_init, timers
    <3> QED BY <1>a, <3>1 DEF TimerInv, Alive
  <2> QED BY <2>1, <2>2
<1>2. CASE bug20_gps_start \/ bug20_gps_stop \/ SetFrequency \/ bug20_gps_cleanup \/ StoreCallbacks
  <2>1. UNCHANGED <<init, thread, started, session, timer, tmr>>
    BY <1>2 DEF bug20_gps_start, bug20_gps_stop, SetFrequency, bug20_gps_cleanup, StoreCallbacks,
                shared, stateThread, timers, observed
  <2> QED BY <1>a, <2>1 DEF TimerInv, Alive
<1>3. CASE StateThreadJoined
  <2>1. \A t \in Timers : ~Alive(t) BY <1>3 DEF StateThreadJoined
  <2>2. timer' = timer BY <1>3 DEF StateThreadJoined, timers
  <2> QED BY <2>1, <2>2 DEF TimerInv, Alive
<1>4. CASE ClearState
  <2>1. \A t \in Timers : ~Alive(t) BY <1>4, <1>a, <1>t DEF ClearState, LifeInv
  <2>2. timer' = timer BY <1>4 DEF ClearState, timers
  <2> QED BY <2>1, <2>2 DEF TimerInv, Alive
<1>5. CASE Quit \/ Hangup \/ ReadLine \/ LockFix \/ Parse
  <2>1. UNCHANGED <<init, started, session, timer, tmr>> /\ thread # "stopping" /\ thread' # "none"
    BY <1>5, <1>t DEF Quit, Hangup, ReadLine, LockFix, Parse, Take, Polls, shared, timers, observed, GpsTypeOK
  <2> QED BY <1>a, <2>1 DEF TimerInv, Alive
<1>6. CASE Start
  <2>1. thread = "poll" BY <1>6 DEF Start, Take, Polls
  <2>2. CASE started
    <3>1. UNCHANGED <<init, thread, started, session, timer, tmr>> BY <1>6, <2>2 DEF Start
    <3> QED BY <1>a, <3>1 DEF TimerInv, Alive
  <2>3. CASE ~started
    <3>1. \A t \in Timers : ~Alive(t) BY <1>a, <2>1, <2>3
    <3>2. session' = TRUE BY <1>6, <2>3 DEF Start
    <3>3. CASE timer' = timer BY <3>1, <3>3 DEF TimerInv, Alive
    <3>4. ASSUME NEW t \in Timers, timer' = [timer EXCEPT ![t] = "lock"], tmr' = t,
                 started' = TRUE, init' = STATE_START, thread' = thread
          PROVE  TimerInv'
      <4>1. \A u \in Timers : Alive(u)' => u = t BY <1>t, <3>1, <3>4 DEF Alive, GpsTypeOK
      <4>2. init' # STATE_QUIT BY <3>4 DEF STATE_START, STATE_QUIT
      <4> QED BY <2>1, <3>2, <3>4, <4>1, <4>2 DEF TimerInv
    <3> QED BY <1>6, <2>3, <3>3, <3>4 DEF Start, timers
  <2> QED BY <2>2, <2>3
<1>7. CASE Stop
  <2>1. /\ thread = "poll" /\ UNCHANGED <<session, timer, tmr>>
        /\ \/ started /\ thread' = "stopping" /\ init' = STATE_INIT
           \/ UNCHANGED <<started, init, thread>>
    BY <1>7 DEF Stop, Take, Polls, timers, observed
  <2> QED BY <1>a, <2>1 DEF TimerInv, Alive, STATE_INIT, STATE_QUIT
<1>8. CASE TimerJoined
  <2>1. timer[tmr] = "ended" /\ timer' = timer BY <1>8 DEF TimerJoined, timers
  <2>2. \A t \in Timers : ~Alive(t) BY <1>a, <2>1 DEF Alive
  <2> QED BY <2>1, <2>2 DEF TimerInv, Alive
<1>9. ASSUME NEW t \in Timers, TimerStep(t) PROVE TimerInv'
  <2>1. UNCHANGED <<init, thread, started, session, tmr>>
    BY <1>9 DEF TimerStep, TimerLocks, TimerReports, TimerSleeps, TimerWakes, shared, stateThread, observed
  <2>2. PICK where : timer' = [timer EXCEPT ![t] = where]
    BY <1>9 DEF TimerStep, TimerLocks, TimerReports, TimerSleeps, TimerWakes
  <2>3. Alive(t) BY <1>9 DEF TimerStep, TimerLocks, TimerReports, TimerSleeps, TimerWakes, Alive
  <2>4. \A u \in Timers : Alive(u)' => Alive(u) BY <1>t, <2>2, <2>3 DEF Alive, GpsTypeOK
  <2> QED BY <1>a, <2>1, <2>4 DEF TimerInv
<1> QED
  BY <1>1, <1>2, <1>3, <1>4, <1>5, <1>6, <1>7, <1>8, <1>9 DEF GpsStep, CallStep, StateThreadStep

\* Every step keeps SemInv.
LEMMA SemNext ==
  ASSUME GpsInv, GpsStep
  PROVE  SemInv'
<1> SUFFICES ASSUME "abandoned" \notin upset' PROVE SemInv' BY DEF SemInv
<1>u. "abandoned" \notin upset BY UpsetGrows
<1>t. LifeInv /\ TimerInv /\ GpsTypeOK BY DEF GpsInv
<1>a. \A t \in Timers : timer[t] = "report" => t = tmr /\ init # STATE_QUIT
  BY <1>u, <1>t DEF TimerInv, Alive
<1>b. /\ sem \in {0, 1}
      /\ sem = 1 => thread # "parse" /\ \A t \in Timers : timer[t] # "report"
      /\ thread = "parse" => \A t \in Timers : timer[t] # "report"
  BY <1>u DEF GpsInv, SemInv
<1>1. CASE bug20_gps_init
  <2>1. timer' = timer BY <1>1 DEF bug20_gps_init, timers
  <2>2. CASE init = STATE_QUIT
    <3>1. \A t \in Timers : timer[t] # "report" BY <1>a, <2>2
    <3>2. thread' # "parse" BY <1>1, <1>t, <2>2 DEF bug20_gps_init, LifeInv
    <3>3. sem' \in {0, 1} BY <1>1, <2>2 DEF bug20_gps_init
    <3> QED BY <2>1, <3>1, <3>2, <3>3 DEF SemInv
  <2>3. CASE init # STATE_QUIT
    BY <1>1, <1>b, <2>1, <2>3 DEF bug20_gps_init, SemInv
  <2> QED BY <2>2, <2>3
<1>2. CASE bug20_gps_start \/ bug20_gps_stop \/ SetFrequency \/ bug20_gps_cleanup \/ StoreCallbacks
            \/ StateThreadJoined \/ TimerJoined
  <2>1. UNCHANGED <<sem, timer>> /\ (thread' = thread \/ thread' = "poll")
    BY <1>2 DEF bug20_gps_start, bug20_gps_stop, SetFrequency, bug20_gps_cleanup, StoreCallbacks,
                StateThreadJoined, TimerJoined, shared, stateThread, timers
  <2> QED BY <1>b, <2>1 DEF SemInv
<1>3. CASE ClearState BY <1>3 DEF ClearState, SemInv
<1>4. CASE Quit \/ Hangup \/ ReadLine \/ Stop
  <2>1. UNCHANGED <<sem, timer>> /\ thread' # "parse"
    BY <1>4 DEF Quit, Hangup, ReadLine, Stop, Take, Polls, shared, timers
  <2> QED BY <1>b, <2>1 DEF SemInv
<1>5. CASE Start
  <2>1. sem' = sem /\ thread = "poll" /\ thread' # "parse" BY <1>5 DEF Start, Take, Polls
  <2>2. \A t \in Timers : timer'[t] = "report" => timer[t] = "report"
    BY <1>5, <1>t DEF Start, GpsTypeOK, timers
  <2> QED BY <1>b, <2>1, <2>2 DEF SemInv
<1>6. CASE LockFix BY <1>6, <1>b DEF LockFix, SemInv, timers
<1>7. CASE Parse
  <2>1. thread = "parse" /\ thread' = "poll" /\ sem' = sem + 1 /\ timer' = timer
    BY <1>7 DEF Parse, timers
  <2> QED BY <1>b, <2>1 DEF SemInv
<1>8. ASSUME NEW t \in Timers, TimerLocks(t) PROVE SemInv'
  <2>1. sem = 1 /\ sem' = 0 /\ thread' = thread BY <1>8, <1>b DEF TimerLocks, stateThread
  <2> QED BY <1>b, <2>1 DEF SemInv
<1>9. ASSUME NEW t \in Timers, TimerReports(t) PROVE SemInv'
  <2>1. /\ timer[t] = "report" /\ timer' = [timer EXCEPT ![t] = "sleep"] /\ sem' = sem + 1
        /\ thread' = thread
    BY <1>9 DEF TimerReports, stateThread
  <2>2. \A u \in Timers : timer'[u] # "report" BY <1>a, <1>t, <2>1 DEF GpsTypeOK
  <2> QED BY <1>b, <2>1, <2>2 DEF SemInv
<1>10. ASSUME NEW t \in Timers, TimerSleeps(t) \/ TimerWakes(t) PROVE SemInv'
  <2>1. UNCHANGED <<sem, thread>> BY <1>10 DEF TimerSleeps, TimerWakes, shared, stateThread
  <2>2. \A u \in Timers : timer'[u] = "report" => timer[u] = "report"
    BY <1>10, <1>t DEF TimerSleeps, TimerWakes, GpsTypeOK
  <2> QED BY <1>b, <2>1, <2>2 DEF SemInv
<1> QED
  BY <1>1, <1>2, <1>3, <1>4, <1>5, <1>6, <1>7, <1>8, <1>9, <1>10
     DEF GpsStep, CallStep, StateThreadStep, TimerStep

-----------------------------------------------------------------------------
(* The GPS HAL: what is reported. *)

\* Every step keeps OutsideInv.
LEMMA OutsideNext ==
  ASSUME GpsInv, GpsStep
  PROVE  OutsideInv'
<1> SUFFICES ASSUME "abandoned" \notin upset' PROVE OutsideInv' BY DEF OutsideInv
<1>u. "abandoned" \notin upset BY UpsetGrows
<1>t. LifeInv /\ TimerInv /\ GpsTypeOK BY DEF GpsInv
<1>a. outside = 0 \/ (outside = 1 /\ (firstFix \/ thread = "none")) BY <1>u DEF GpsInv, OutsideInv
<1>1. CASE bug20_gps_init
  <2>1. outside' = 0 \/ UNCHANGED <<outside, firstFix, thread>> BY <1>1 DEF bug20_gps_init
  <2> QED BY <1>a, <2>1 DEF OutsideInv
<1>2. CASE bug20_gps_start \/ bug20_gps_stop \/ SetFrequency \/ bug20_gps_cleanup \/ StoreCallbacks
            \/ StateThreadJoined
  <2>1. UNCHANGED <<outside, firstFix, thread>>
    BY <1>2 DEF bug20_gps_start, bug20_gps_stop, SetFrequency, bug20_gps_cleanup, StoreCallbacks,
                StateThreadJoined, shared, stateThread, observed
  <2> QED BY <1>a, <2>1 DEF OutsideInv
<1>3. CASE ClearState
  <2>1. thread' = "none" /\ UNCHANGED outside BY <1>3 DEF ClearState, observed
  <2> QED BY <1>a, <2>1 DEF OutsideInv
<1>4. CASE Quit \/ Start \/ Stop \/ TimerJoined \/ Hangup \/ ReadLine \/ LockFix
  <2>1. UNCHANGED <<outside, firstFix>> /\ thread # "none"
    BY <1>4 DEF Quit, Start, Stop, TimerJoined, Hangup, ReadLine, LockFix, Take, Polls, shared, observed
  <2> QED BY <1>a, <2>1 DEF OutsideInv
<1>5. CASE Parse
  <2>1. /\ thread = "parse"
        /\ \/ ~firstFix /\ firstFix' = TRUE /\ outside' \in {outside, outside + 1}
           \/ UNCHANGED <<outside, firstFix>>
    BY <1>5 DEF Parse, Locate
  <2>2. CASE ~firstFix /\ firstFix' = TRUE /\ outside' \in {outside, outside + 1}
    <3>1. outside = 0 BY <1>a, <2>1, <2>2
    <3> QED BY <2>2, <3>1 DEF OutsideInv
  <2>3. CASE UNCHANGED <<outside, firstFix>> BY <1>a, <2>1, <2>3 DEF OutsideInv
  <2> QED BY <2>1, <2>2, <2>3
<1>6. ASSUME NEW t \in Timers, TimerReports(t) PROVE OutsideInv'
  <2>1. session BY <1>6, <1>u, <1>t DEF TimerReports, TimerInv, Alive
  <2>2. UNCHANGED <<outside, thread>> /\ (firstFix' = TRUE \/ firstFix' = firstFix)
    BY <1>6, <2>1 DEF TimerReports, Locate, stateThread
  <2> QED BY <1>a, <2>2 DEF OutsideInv
<1>7. ASSUME NEW t \in Timers, TimerLocks(t) \/ TimerSleeps(t) \/ TimerWakes(t) PROVE OutsideInv'
  <2>1. UNCHANGED <<outside, firstFix, thread>>
    BY <1>7 DEF TimerLocks, TimerSleeps, TimerWakes, shared, stateThread, observed
  <2> QED BY <1>a, <2>1 DEF OutsideInv
<1> QED
  BY <1>1, <1>2, <1>3, <1>4, <1>5, <1>6, <1>7 DEF GpsStep, CallStep, StateThreadStep, TimerStep

\* Only a parsed sentence and a reporting timer change a reader that is in use.
LEMMA ReaderSteps ==
  ASSUME GpsStep
  PROVE  \/ Parse \/ \E t \in Timers : TimerReports(t)
         \/ UNCHANGED <<fixes, skies>> /\ reader' \in {reader, NoReader}
BY DEF GpsStep, CallStep, StateThreadStep, TimerStep, bug20_gps_init, StoreCallbacks,
       bug20_gps_start, bug20_gps_stop, SetFrequency, bug20_gps_cleanup, StateThreadJoined,
       ClearState, Quit, Start, Stop, TimerJoined, Hangup, ReadLine, LockFix, TimerLocks,
       TimerSleeps, TimerWakes, observed

\* What a sentence that can be parsed leaves: a position only with a date, a date with its time.
LEMMA ParsedDated ==
  ASSUME reader \in Readers, line \in Lines, ~line.bad, reader.date => reader.stamp,
         "LAT_LONG" \in reader.flags => reader.date
  PROVE  LET r == nmea_reader_parse IN
         (r.date => r.stamp) /\ ("LAT_LONG" \in r.flags => r.date)
<1> USE DEF Readers
<1> DEFINE Fit(r) == (r.date => r.stamp) /\ ("LAT_LONG" \in r.flags => r.date)
<1>1. Fit(UpdatePosition(reader)) BY DEF UpdatePosition
<1>2. Fit(UpdateRecommended(reader, line.bad)) BY DEF UpdateRecommended
<1>3. Fit(UpdateDate(reader, line.bad)) BY DEF UpdateDate
<1>4. Fit([reader EXCEPT !.flags = @ \cup {"SPEED"}]) OBVIOUS
<1>5. Fit([reader EXCEPT !.changed = TRUE, !.flags = @ \cup {"ACCURACY"}]) OBVIOUS
<1>6. Fit(UpdateSky(reader, sky)) BY DEF UpdateSky
<1>7. nmea_reader_parse \in
        {UpdatePosition(reader), UpdateRecommended(reader, line.bad), UpdateDate(reader, line.bad),
         [reader EXCEPT !.flags = @ \cup {"SPEED"}],
         [reader EXCEPT !.changed = TRUE, !.flags = @ \cup {"ACCURACY"}], UpdateSky(reader, sky)}
  BY DEF nmea_reader_parse
<1> HIDE DEF Fit
<1>8. Fit(nmea_reader_parse) BY <1>1, <1>2, <1>3, <1>4, <1>5, <1>6, <1>7
<1> QED BY <1>8 DEF Fit

\* Every step keeps DatedInv.
LEMMA DatedNext ==
  ASSUME GpsInv, GpsStep
  PROVE  DatedInv'
<1> SUFFICES ASSUME "garbled" \notin upset' PROVE DatedInv' BY DEF DatedInv
<1>u. "garbled" \notin upset BY UpsetGrows
<1>t. reader \in Readers /\ line \in Lines BY DEF GpsInv, GpsTypeOK
<1>a. /\ "undated" \notin fixes
      /\ reader.date => reader.stamp
      /\ "LAT_LONG" \in reader.flags => reader.date
  BY <1>u DEF GpsInv, DatedInv
<1>1. CASE Parse
  <2> DEFINE r == nmea_reader_parse
  <2>1. ~line.bad BY <1>1 DEF Parse
  <2>2. (r.date => r.stamp) /\ ("LAT_LONG" \in r.flags => r.date) BY <1>a, <1>t, <2>1, ParsedDated
  <2>3. r \in Readers BY <1>t, ParsedType DEF GpsInv, GpsTypeOK
  <2> HIDE DEF r
  <2>4. /\ reader' = r \/ reader' = [r EXCEPT !.flags = {}]
        /\ \/ fixes' = fixes
           \/ fixes' = fixes \cup {IF r.date /\ r.stamp THEN "dated" ELSE "undated"}
              /\ "LAT_LONG" \in r.flags
    BY <1>1 DEF Parse, Locate, r
  <2>5. "undated" \notin fixes' BY <1>a, <2>2, <2>4
  <2>6. (reader'.date => reader'.stamp) /\ ("LAT_LONG" \in reader'.flags => reader'.date)
    BY <2>2, <2>3, <2>4 DEF Readers
  <2> QED BY <2>5, <2>6 DEF DatedInv
<1>2. ASSUME NEW t \in Timers, TimerReports(t) PROVE DatedInv'
  <2>1. /\ reader' = reader \/ reader' = [reader EXCEPT !.flags = {}, !.changed = FALSE]
        /\ \/ fixes' = fixes
           \/ fixes' = fixes \cup {IF reader.date /\ reader.stamp THEN "dated" ELSE "undated"}
              /\ "LAT_LONG" \in reader.flags
    BY <1>2 DEF TimerReports, Locate
  <2>2. "undated" \notin fixes' BY <1>a, <2>1
  <2>3. (reader'.date => reader'.stamp) /\ ("LAT_LONG" \in reader'.flags => reader'.date)
    BY <1>a, <1>t, <2>1 DEF Readers
  <2> QED BY <2>2, <2>3 DEF DatedInv
<1>3. CASE UNCHANGED <<fixes, skies>> /\ reader' \in {reader, NoReader}
  BY <1>a, <1>3 DEF DatedInv, NoReader
<1> QED BY <1>1, <1>2, <1>3, ReaderSteps

\* The next GSV sentence completes the list, or brings it one further.
LEMMA ParsedSky ==
  ASSUME reader \in Readers, sky \in 1..GsvTotal, line \in Lines, line.id # "none",
         reader.changed => UpTo(GsvTotal),
         line.id = "GSV" => sky = 1 \/ UpTo(sky - 1),
         line.id = "GSA" => UpTo(GsvTotal)
  PROVE  LET r == nmea_reader_parse IN
         /\ r.svs = IF line.id = "GSV" THEN 1..sky ELSE reader.svs
         /\ r.changed => r.svs = 1..GsvTotal
<1> USE DEF Readers, UpTo
<1> DEFINE r == nmea_reader_parse
<1>1. CASE line.id = "GSV"
  <2>1. r = UpdateSky(reader, sky) BY <1>1 DEF nmea_reader_parse
  <2>2. r.svs = IF sky = 1 THEN {1} ELSE reader.svs \cup {sky} BY <2>1 DEF UpdateSky
  <2>3. r.changed => (sky # 1 /\ reader.changed) \/ sky = GsvTotal BY <2>1 DEF UpdateSky
  <2>4. sky \in Nat /\ sky >= 1 /\ sky <= GsvTotal /\ GsvTotal \in Nat BY GpsAssumption
  <2>5. 1..1 = {1} OBVIOUS
  <2>6. sky # 1 => (1..(sky - 1)) \cup {sky} = 1..sky BY <2>4
  <2>7. r.svs = 1..sky BY <1>1, <2>2, <2>5, <2>6
  <2>8. ~(sky # 1 /\ reader.changed)
    <3> SUFFICES ASSUME sky # 1, reader.changed PROVE FALSE OBVIOUS
    <3>1. 1..GsvTotal = 1..(sky - 1) BY <1>1
    <3>2. GsvTotal \in 1..GsvTotal /\ GsvTotal \notin 1..(sky - 1) BY <2>4
    <3> QED BY <3>1, <3>2
  <2> QED BY <1>1, <2>3, <2>7, <2>8
<1>2. CASE line.id = "GSA"
  <2>1. r = [reader EXCEPT !.changed = TRUE, !.flags = @ \cup {"ACCURACY"}]
    BY <1>2 DEF nmea_reader_parse
  <2>2. r.svs = reader.svs BY <2>1
  <2> QED BY <1>2, <2>2
<1>3. CASE line.id \notin {"GSV", "GSA"}
  <2>1. r.svs = reader.svs /\ (r.changed => reader.changed)
    <3>1. CASE r = UpdatePosition(reader) BY <3>1 DEF UpdatePosition
    <3>2. CASE r = UpdateRecommended(reader, line.bad) BY <3>2 DEF UpdateRecommended
    <3>3. CASE r = UpdateDate(reader, line.bad) BY <3>3 DEF UpdateDate
    <3>4. CASE r = [reader EXCEPT !.flags = @ \cup {"SPEED"}] BY <3>4
    <3> QED BY <1>3, <3>1, <3>2, <3>3, <3>4 DEF nmea_reader_parse, Lines
  <2> QED BY <1>3, <2>1
<1> QED BY <1>1, <1>2, <1>3

\* Every step keeps SkyInv.
LEMMA SkyNext ==
  ASSUME GpsInv, GpsStep
  PROVE  SkyInv'
<1> SUFFICES ASSUME "cut" \notin upset' PROVE SkyInv' BY DEF SkyInv
<1>u. "cut" \notin upset BY UpsetGrows
<1>t. GpsTypeOK /\ LifeInv BY DEF GpsInv
<1>a. /\ "part" \notin skies
      /\ reader.changed => UpTo(GsvTotal)
      /\ thread # "none" => InStep
  BY <1>u DEF GpsInv, SkyInv
<1>n. 1..0 = {} /\ GsvTotal \in Nat /\ GsvTotal >= 1 /\ sky \in Nat /\ sky >= 1 /\ sky <= GsvTotal
  BY <1>t, GpsAssumption DEF GpsTypeOK
<1>1. CASE bug20_gps_init
  <2>1. skies' = skies /\ sky' = sky BY <1>1 DEF bug20_gps_init
  <2>2. CASE UNCHANGED <<thread, reader, line>> BY <1>a, <2>1, <2>2 DEF SkyInv, UpTo, InStep
  <2>3. CASE thread' = "poll" /\ reader' = NoReader /\ sky = GsvTotal
    BY <1>a, <2>1, <2>3 DEF SkyInv, NoReader, UpTo, InStep
  <2>4. CASE thread = "none" /\ thread' = thread /\ reader' = NoReader
    BY <1>a, <2>1, <2>4 DEF SkyInv, NoReader
  <2>5. init = STATE_QUIT => thread = "none"
    BY <1>1, <1>t DEF bug20_gps_init, Call, LifeInv
  <2> QED BY <1>1, <2>2, <2>3, <2>4, <2>5 DEF bug20_gps_init
<1>2. CASE bug20_gps_start \/ bug20_gps_stop \/ SetFrequency \/ bug20_gps_cleanup \/ StoreCallbacks
            \/ StateThreadJoined
  <2>1. UNCHANGED <<thread, reader, line, sky, skies>>
    BY <1>2 DEF bug20_gps_start, bug20_gps_stop, SetFrequency, bug20_gps_cleanup, StoreCallbacks,
                StateThreadJoined, stateThread, observed
  <2> QED BY <1>a, <2>1 DEF SkyInv, UpTo, InStep
<1>3. CASE ClearState
  <2>1. thread' = "none" /\ reader' = NoReader /\ skies' = skies BY <1>3 DEF ClearState, observed
  <2> QED BY <1>a, <2>1 DEF SkyInv, NoReader
<1>4. CASE Quit \/ Start \/ Stop \/ TimerJoined \/ Hangup
  <2>1. /\ thread \notin {"none", "lock", "parse"} /\ thread' \notin {"none", "lock", "parse"}
        /\ UNCHANGED <<reader, line, sky, skies>>
    BY <1>4 DEF Quit, Start, Stop, TimerJoined, Hangup, Take, Polls, observed
  <2> QED BY <1>a, <2>1 DEF SkyInv, UpTo, InStep
<1>5. CASE ReadLine
  <2>1. PICK s \in Sentences :
          /\ sky' = IF s.id = "GSV" THEN IF sky = GsvTotal THEN 1 ELSE sky + 1 ELSE sky
          /\ line' = s /\ thread' = "lock"
    BY <1>5 DEF ReadLine
  <2>2. thread = "poll" /\ UNCHANGED <<reader, skies>> BY <1>5 DEF ReadLine, Polls
  <2>3. UpTo(sky) \/ (reader.svs = {} /\ sky = GsvTotal) BY <1>a, <2>2 DEF InStep
  <2>4. CASE s.id = "GSV"
    <3>1. sky' = 1 \/ (sky' = sky + 1 /\ UpTo(sky)) BY <2>1, <2>3, <2>4
    <3>2. sky' = 1 \/ reader.svs = 1..(sky' - 1) BY <1>n, <3>1 DEF UpTo
    <3> QED BY <1>a, <2>1, <2>2, <2>4, <3>2 DEF SkyInv, UpTo, InStep
  <2>5. CASE s.id # "GSV"
    BY <1>a, <2>1, <2>2, <2>3, <2>5 DEF SkyInv, UpTo, InStep
  <2> QED BY <2>4, <2>5
<1>6. CASE LockFix
  <2>1. thread = "lock" /\ thread' = "parse" /\ UNCHANGED <<reader, line, sky, skies>>
    BY <1>6 DEF LockFix, observed
  <2> QED BY <1>a, <2>1 DEF SkyInv, UpTo, InStep
<1>7. CASE Parse
  <2> DEFINE r == nmea_reader_parse
  <2>1. thread = "parse" /\ thread' = "poll" /\ UNCHANGED <<sky, line, skies>> BY <1>7 DEF Parse
  <2>2. line.id = "GSA" => UpTo(GsvTotal) BY <1>7 DEF Parse, UpTo
  <2>3. line.id = "GSV" => sky = 1 \/ UpTo(sky - 1) BY <1>a, <2>1 DEF InStep
  <2>4. line.id # "GSV" => UpTo(sky) \/ (reader.svs = {} /\ sky = GsvTotal) BY <1>a, <2>1 DEF InStep
  <2>5. /\ r.svs = IF line.id = "GSV" THEN 1..sky ELSE reader.svs
        /\ r.changed => r.svs = 1..GsvTotal
    BY <1>a, <1>t, <2>1, <2>2, <2>3, ParsedSky DEF GpsTypeOK
  <2>6. r \in Readers BY <1>t, ParsedType DEF GpsTypeOK
  <2> HIDE DEF r
  <2>7. reader' = r \/ reader' = [r EXCEPT !.flags = {}] BY <1>7 DEF Parse, r
  <2>8. reader'.svs = r.svs /\ (reader'.changed => r.changed) BY <2>6, <2>7 DEF Readers
  <2> QED BY <1>a, <2>1, <2>4, <2>5, <2>8 DEF SkyInv, UpTo, InStep
<1>8. ASSUME NEW t \in Timers, TimerReports(t) PROVE SkyInv'
  <2>1. /\ UNCHANGED <<thread, line, sky>>
        /\ reader' = reader \/ reader' = [reader EXCEPT !.flags = {}, !.changed = FALSE]
        /\ skies' = skies \/ (reader.changed /\ ShowSky(reader))
    BY <1>8 DEF TimerReports, stateThread
  <2>2. reader'.svs = reader.svs /\ (reader'.changed => reader.changed)
    BY <1>t, <2>1 DEF GpsTypeOK, Readers
  <2>3. "part" \notin skies' BY <1>a, <2>1 DEF ShowSky, UpTo
  <2> QED BY <1>a, <2>1, <2>2, <2>3 DEF SkyInv, UpTo, InStep
<1>9. ASSUME NEW t \in Timers, TimerLocks(t) \/ TimerSleeps(t) \/ TimerWakes(t) PROVE SkyInv'
  <2>1. UNCHANGED <<thread, reader, line, sky, skies>>
    BY <1>9 DEF TimerLocks, TimerSleeps, TimerWakes, stateThread, observed
  <2> QED BY <1>a, <2>1 DEF SkyInv, UpTo, InStep
<1> QED
  BY <1>1, <1>2, <1>3, <1>4, <1>5, <1>6, <1>7, <1>8, <1>9
     DEF GpsStep, CallStep, StateThreadStep, TimerStep

\* At the start there are no threads and the state is cleared.
LEMMA GpsInvInit == ASSUME Init PROVE GpsInv
<1> USE GpsAssumption
<1>1. GpsInit BY DEF Init
<1>2. line \in Lines BY <1>1 DEF GpsInit, Lines
<1>3. GpsTypeOK BY <1>1, <1>2, NoReaderType DEF GpsInit, GpsTypeOK
<1>4. LifeInv /\ SemInv /\ OutsideInv
  BY <1>1 DEF GpsInit, LifeInv, SemInv, OutsideInv, STATE_QUIT
<1>5. TimerInv BY <1>1 DEF GpsInit, TimerInv, Alive
<1>6. DatedInv /\ SkyInv BY <1>1 DEF GpsInit, DatedInv, SkyInv, NoReader
<1> QED BY <1>3, <1>4, <1>5, <1>6 DEF GpsInv

\* Every step keeps GpsInv.
LEMMA GpsInvNext == ASSUME GpsInv, [Next]_vars PROVE GpsInv'
<1>1. CASE GpsStep
  BY <1>1, GpsTypeNext, LifeNext, TimerNext, SemNext, OutsideNext, DatedNext, SkyNext DEF GpsInv
<1>2. CASE UNCHANGED gpsVars
  <2> USE <1>2 DEF gpsVars, shared, stateThread, timers, observed, GpsInv
  <2>1. GpsTypeOK' BY DEF GpsTypeOK
  <2>2. LifeInv' /\ SemInv' /\ OutsideInv' BY DEF LifeInv, SemInv, OutsideInv
  <2>3. TimerInv' BY DEF TimerInv, Alive
  <2>4. DatedInv' /\ SkyInv' BY DEF DatedInv, SkyInv, UpTo, InStep
  <2> QED BY <2>1, <2>2, <2>3, <2>4
<1> QED BY <1>1, <1>2 DEF Next, vars

(* Where the threads of the GPS HAL are, who holds the semaphore, and what  *)
(* the reader has gathered.                                                 *)
THEOREM GpsInvariant == Spec => []GpsInv
<1>1. Init => GpsInv BY GpsInvInit
<1>2. GpsInv /\ [Next]_vars => GpsInv' BY GpsInvNext
<1> QED BY <1>1, <1>2, PTL DEF Spec

(* In any order of start and stop commands there is at most one timer       *)
(* thread, the one that gps_state_thread joins, unless a clean-up left one   *)
(* behind.                                                                  *)
THEOREM AtMostOneTimer == Spec => []OneTimer
<1>1. GpsInv => OneTimer BY DEF GpsInv, TimerInv, OneTimer
<1> QED BY <1>1, GpsInvariant, PTL

(* fix_sem keeps the reader and the timers apart, unless a clean-up left a   *)
(* timer behind.                                                            *)
THEOREM FixIsExclusive == Spec => []FixExclusive
<1>1. ASSUME GpsInv, "abandoned" \notin upset PROVE Cardinality(InCritical) <= 1
  <2>1. PICK x : InCritical \subseteq {x}
    <3>1. CASE thread = "parse"
      <4>1. \A t \in Timers : timer[t] # "report" BY <1>1, <3>1 DEF GpsInv, SemInv
      <4>2. InCritical \subseteq {0} BY <4>1 DEF InCritical
      <4> QED BY <4>2
    <3>2. CASE thread # "parse"
      <4>1. \A t \in Timers : timer[t] = "report" => t = tmr BY <1>1 DEF GpsInv, TimerInv, Alive
      <4>2. InCritical \subseteq {tmr} BY <3>2, <4>1 DEF InCritical
      <4> QED BY <4>2
    <3> QED BY <3>1, <3>2
  <2>2. IsFiniteSet({x}) /\ Cardinality({x}) = 1 BY FS_Singleton
  <2>3. Cardinality(InCritical) <= Cardinality({x}) BY <2>1, <2>2, FS_Subset
  <2> QED BY <2>2, <2>3
<1>2. GpsInv => FixExclusive BY <1>1 DEF FixExclusive
<1> QED BY <1>2, GpsInvariant, PTL

(* A position is reported with its date and time, whenever the timer wakes, *)
(* unless one could not be parsed.                                          *)
THEOREM FixesAreDated == Spec => []FixesDated
<1>1. GpsInv => FixesDated BY DEF GpsInv, DatedInv, FixesDated
<1> QED BY <1>1, GpsInvariant, PTL

(* A satellite list of any length is reported whole, whenever the timer     *)
(* wakes, unless one of its sentences was lost or a GSA sentence came early. *)
THEOREM SkyIsWhole == Spec => []SkyWhole
<1>1. GpsInv => SkyWhole BY DEF GpsInv, SkyInv, SkyWhole
<1> QED BY <1>1, GpsInvariant, PTL

(* Between two initialisations at most the first fix is reported outside of *)
(* a session, unless a clean-up left a timer behind.                         *)
THEOREM LocationsWithinSession == Spec => []LocationsInSession
<1>1. GpsInv => LocationsInSession BY DEF GpsInv, OutsideInv, LocationsInSession
<1> QED BY <1>1, GpsInvariant, PTL

-----------------------------------------------------------------------------
(* The sensors HAL: descriptors. *)

\* The kernel gives out a descriptor that is free.
LEMMA LowestIn ==
  ASSUME NEW s, s \subseteq Nat, s # {}
  PROVE  Lowest(s) \in s
<1> DEFINE R == OpToRel(<, Nat)
<1>1. R = {r \in Nat \X Nat : r[1] < r[2]} BY DEF OpToRel
<1>2. IsWellFoundedOn(R, Nat) BY NatLessThanWellFounded
<1> HIDE DEF R
<1>3. PICK d \in s : \A e \in s : ~(<<e, d>> \in R) BY <1>2, WFMin
<1>4. \A e \in s : d <= e
  <2> SUFFICES ASSUME NEW e \in s PROVE d <= e OBVIOUS
  <2>1. d \in Nat /\ e \in Nat OBVIOUS
  <2>2. ~(e < d) BY <1>1, <1>3, <2>1
  <2> QED BY <2>1, <2>2
<1> QED BY <1>4 DEF Lowest

\* close() frees its descriptor and leaves the others.
LEMMA ClosedTable ==
  ASSUME NEW tab \in Tables, NEW d \in Descriptors \cup {NoFd}
  PROVE  /\ Closed(tab, d) \in Tables
         /\ \A e \in Descriptors : Closed(tab, d)[e] = IF e = d THEN "free" ELSE tab[e]
BY SensorAssumption DEF Closed, Tables, NoFd

\* open() takes a descriptor that is free and leaves the others.
LEMMA OpenedTable ==
  ASSUME NEW tab \in Tables, Free(tab) # {}, NEW what \in {"accel", "other"}
  PROVE  LET d == Lowest(Free(tab)) IN
         /\ d \in Descriptors /\ tab[d] = "free"
         /\ Opened(tab, what) \in Tables
         /\ \A e \in Descriptors : Opened(tab, what)[e] = IF e = d THEN what ELSE tab[e]
<1> DEFINE d == Lowest(Free(tab))
<1>1. d \in Free(tab) BY LowestIn, SensorAssumption DEF Free
<1>2. Opened(tab, what) = [tab EXCEPT ![d] = what] BY DEF Opened
<1>3. d \in Descriptors /\ tab[d] = "free" BY <1>1 DEF Free
<1> HIDE DEF d
<1> QED BY <1>2, <1>3 DEF Tables, d

\* One element less.
LEMMA OneLess ==
  ASSUME NEW S, IsFiniteSet(S), NEW x
  PROVE  /\ IsFiniteSet(S \ {x}) /\ Cardinality(S) \in Nat
         /\ Cardinality(S) > 1 => Cardinality(S \ {x}) > 0
         /\ Cardinality(S) > 2 => Cardinality(S \ {x}) > 1
         /\ Cardinality(S) > 3 => Cardinality(S \ {x}) > 2
<1> DEFINE c == Cardinality(S)
           e == Cardinality(S \ {x})
<1>1. c \in Nat BY FS_CardinalityType
<1>2. IsFiniteSet(S \ {x}) BY FS_RemoveElement
<1>3. e = IF x \in S THEN c - 1 ELSE c BY FS_RemoveElement
<1> HIDE DEF c, e
<1>4. e = c \/ e = c - 1 BY <1>3
<1>5. (c > 1 => e > 0) /\ (c > 2 => e > 1) /\ (c > 3 => e > 2) BY <1>1, <1>4
<1> QED BY <1>1, <1>2, <1>5 DEF c, e

\* Room that three descriptors, or one, do not fill.
LEMMA RoomLeft ==
  ASSUME NEW S, IsFiniteSet(S), NEW x, NEW y, NEW z
  PROVE  /\ Cardinality(S) > 1 => S \ {x} # {}
         /\ Cardinality(S) > 3 => S \ {x, y, z} # {}
<1> DEFINE T == S \ {x}
           U == T \ {y}
           V == U \ {z}
<1>1. IsFiniteSet(T) /\ (Cardinality(S) > 1 => Cardinality(T) > 0) /\ (Cardinality(S) > 3 => Cardinality(T) > 2)
  BY OneLess
<1>2. IsFiniteSet(U) /\ (Cardinality(T) > 2 => Cardinality(U) > 1)
  <2> HIDE DEF T
  <2> QED BY <1>1, OneLess
<1>3. Cardinality(U) > 1 => Cardinality(V) > 0
  <2> HIDE DEF U
  <2> QED BY <1>2, OneLess
<1>4. Cardinality({}) = 0 BY FS_EmptySet
<1>5. S \ {x, y, z} = V OBVIOUS
<1> HIDE DEF T, U, V
<1>6. Cardinality(S) > 1 => T # {} BY <1>1, <1>4
<1>7. Cardinality(S) > 3 => V # {} BY <1>1, <1>2, <1>3, <1>4
<1> QED BY <1>5, <1>6, <1>7 DEF T

\* What is free of a table is finite.
LEMMA FreeIsFinite == ASSUME NEW tab PROVE IsFiniteSet(Free(tab))
BY SensorAssumption, FS_Subset DEF Free

\* Descriptors are none of the two numbers that stand for no descriptor.
LEMMA NotDescriptors ==
  /\ NoFd \notin Descriptors /\ NoHandle \notin Descriptors /\ NoFd # NoHandle
BY SensorAssumption DEF NoFd, NoHandle

\* control_open_data_source keeps SensorInv.
LEMMA ControlOpenKeeps ==
  ASSUME SensorInv, control_open_data_source
  PROVE  SensorInv'
<1> DEFINE c0 == Lowest(Free(table))
           c1 == Lowest(Free(table) \ {c0})
           pair == IF control_fd = <<NoFd, NoFd>> THEN <<c0, c1>> ELSE control_fd
           tab == [table EXCEPT ![pair[1]] = "socket", ![pair[2]] = "socket"]
           a == Lowest(Free(tab))
<1>1. /\ "control" \in devices /\ handle = NoHandle /\ event_fd = NoFd
      /\ Cardinality(Free(table)) > 3 /\ control_fd' = pair
      /\ \/ table' = Opened(tab, "accel") /\ sensor_fd' = a
         \/ table' = tab /\ sensor_fd' = NoFd
      /\ handle' = sensor_fd' /\ UNCHANGED <<event_fd, devices, touched, readFailed>>
  BY DEF control_open_data_source
<1>2. table \in Tables /\ SensorTypeOK BY DEF SensorInv, SensorTypeOK
<1>3. /\ pair \in Descriptors \X Descriptors
      /\ table[pair[1]] \in {"free", "socket"} /\ table[pair[2]] \in {"free", "socket"}
  <2>1. CASE control_fd = <<NoFd, NoFd>>
    <3>1. Free(table) # {} /\ Free(table) \ {c0} # {}
      <4>1. 3 > 1 /\ Cardinality(Free(table)) \in Nat BY FreeIsFinite, FS_CardinalityType
      <4> QED BY <1>1, <4>1, FreeIsFinite, RoomLeft
    <3>2. Free(table) \subseteq Nat BY SensorAssumption DEF Free
    <3>3. c0 \in Free(table) BY <3>1, <3>2, LowestIn
    <3> HIDE DEF c0
    <3>4. c1 \in Free(table) \ {c0} BY <3>1, <3>2, LowestIn
    <3> HIDE DEF c1
    <3>5. pair = <<c0, c1>> BY <2>1
    <3> HIDE DEF pair
    <3> QED BY <3>3, <3>4, <3>5 DEF Free
  <2>2. CASE control_fd # <<NoFd, NoFd>>
    BY <1>2, <2>2 DEF SensorInv, SensorTypeOK, PairInv
  <2> QED BY <2>1, <2>2
<1> HIDE DEF pair
<1>4. /\ tab \in Tables /\ tab[pair[1]] = "socket" /\ tab[pair[2]] = "socket"
      /\ \A e \in Descriptors : tab[e] \in {table[e], "socket"}
      /\ \A e \in Descriptors \ {pair[1], pair[2]} : tab[e] = table[e]
  BY <1>2, <1>3 DEF Tables
<1> HIDE DEF tab
<1>5. ASSUME NEW e PROVE Free(table) \ {pair[1], pair[2], e} # {}
  BY <1>1, FreeIsFinite, RoomLeft
<1>6. Free(tab) # {}
  <2>1. Free(table) \ {pair[1], pair[2], a} \subseteq Free(tab) BY <1>4 DEF Free
  <2> QED BY <1>5, <2>1
<1>7. /\ a \in Descriptors /\ tab[a] = "free" /\ Opened(tab, "accel") \in Tables
      /\ \A e \in Descriptors : Opened(tab, "accel")[e] = IF e = a THEN "accel" ELSE tab[e]
  BY <1>4, <1>6, OpenedTable
<1> HIDE DEF a
<1>8. /\ table' \in Tables /\ table'[pair[1]] = "socket" /\ table'[pair[2]] = "socket"
      /\ \/ handle' = NoFd /\ \A e \in Descriptors : table'[e] \in {table[e], "socket"}
         \/ /\ handle' = a /\ table'[a] = "accel"
            /\ \A e \in Descriptors \ {a} : table'[e] \in {table[e], "socket"}
      /\ \A e \in Descriptors \ {pair[1], pair[2], a} : table'[e] = table[e]
  BY <1>1, <1>3, <1>4, <1>7
<1>9. \A d \in Descriptors : table[d] # "accel"
  BY <1>1, NotDescriptors DEF SensorInv, AccelInv
<1>10. Free(table') # {}
  <2>1. Free(table) \ {pair[1], pair[2], a} \subseteq Free(table') BY <1>8 DEF Free
  <2> QED BY <1>5, <2>1
<1>11. SensorTypeOK' BY <1>1, <1>2, <1>3, <1>7, <1>8 DEF SensorTypeOK
<1>12. PairInv' BY <1>1, <1>3, <1>8, NotDescriptors DEF PairInv
<1>13. HandleInv' BY <1>1, <1>7, <1>8, <1>10 DEF HandleInv
<1>14. AccelInv' BY <1>1, <1>8, <1>9 DEF AccelInv
<1>15. OwnDescriptors' BY <1>1 DEF SensorInv, OwnDescriptors
<1> QED BY <1>11, <1>12, <1>13, <1>14, <1>15 DEF SensorInv

\* sensors_open keeps SensorInv.
LEMMA SensorsOpenKeeps ==
  ASSUME SensorInv, sensors_open
  PROVE  SensorInv'
<1> DEFINE e == Lowest(Free(table))
           tab == Opened(table, "accel")
<1>1. /\ "data" \in devices /\ handle # NoHandle /\ handle' = NoHandle
      /\ \/ handle = NoFd /\ event_fd' = NoFd /\ table' = table
         \/ handle # NoFd /\ event_fd' = e /\ table' = Closed(tab, handle)
      /\ UNCHANGED <<sensor_fd, control_fd, devices, touched, readFailed>>
  BY DEF sensors_open
<1>2. SensorTypeOK /\ PairInv /\ HandleInv /\ AccelInv /\ table \in Tables
  BY DEF SensorInv, SensorTypeOK
<1>3. event_fd = NoFd /\ sensor_fd = handle BY <1>1, <1>2 DEF HandleInv
<1>4. OwnDescriptors' BY <1>1 DEF SensorInv, OwnDescriptors
<1>5. CASE handle = NoFd
  <2>1. event_fd' = NoFd /\ table' = table BY <1>1, <1>5
  <2>2. SensorTypeOK' BY <1>1, <1>2, <2>1 DEF SensorTypeOK
  <2>3. PairInv' BY <1>1, <1>2, <1>3, <2>1 DEF PairInv
  <2>4. HandleInv' BY <1>1 DEF HandleInv
  <2>5. AccelInv' BY <1>1, <1>2, <1>3, <1>5, <2>1, NotDescriptors DEF AccelInv
  <2> QED BY <1>4, <2>2, <2>3, <2>4, <2>5 DEF SensorInv
<1>6. CASE handle # NoFd
  <2>1. handle \in Descriptors /\ table[handle] = "accel" /\ Free(table) # {}
    BY <1>1, <1>2, <1>6 DEF SensorTypeOK, HandleInv
  <2>2. /\ e \in Descriptors /\ table[e] = "free" /\ tab \in Tables
        /\ \A d \in Descriptors : tab[d] = IF d = e THEN "accel" ELSE table[d]
    BY <1>2, <2>1, OpenedTable
  <2> HIDE DEF e, tab
  <2>3. event_fd' = e /\ table' = Closed(tab, handle) BY <1>1, <1>6
  <2>4. /\ table' \in Tables
        /\ \A d \in Descriptors : table'[d] = IF d = handle THEN "free" ELSE tab[d]
    BY <2>1, <2>2, <2>3, ClosedTable
  <2>5. e # handle BY <2>1, <2>2
  <2>6. \A d \in Descriptors : table[d] = "accel" => d = handle
    BY <1>2, <1>3, NotDescriptors DEF AccelInv
  <2>7. SensorTypeOK' BY <1>1, <1>2, <2>2, <2>3, <2>4 DEF SensorTypeOK
  <2>8. PairInv'
    <3> SUFFICES ASSUME control_fd # <<NoFd, NoFd>>, NEW i \in {1, 2}
                 PROVE  table'[control_fd[i]] = "socket" /\ e # control_fd[i]
      BY <1>1, <2>3 DEF PairInv
    <3>1. control_fd[i] \in Descriptors /\ table[control_fd[i]] = "socket"
      BY <1>2 DEF SensorTypeOK, PairInv
    <3> QED BY <2>1, <2>2, <2>4, <3>1
  <2>9. HandleInv' BY <1>1 DEF HandleInv
  <2>10. AccelInv' BY <1>1, <1>3, <2>2, <2>3, <2>4, <2>5, <2>6 DEF AccelInv
  <2> QED BY <1>4, <2>7, <2>8, <2>9, <2>10 DEF SensorInv
<1> QED BY <1>5, <1>6

\* A use of event_fd is one of the HAL's own descriptor, unless a read has failed.
LEMMA TouchKeeps ==
  ASSUME SensorInv, "data" \in devices, readFailed => readFailed',
         NEW op \in {"sensors_poll", "sensors_close", "close_sensors"}, Touch(op, event_fd, "accel")
  PROVE  OwnDescriptors'
<1>1. touched' \in {touched, touched \cup {op}} BY DEF Touch
<1>2. ~readFailed => touched' = touched BY DEF Touch, SensorInv, AccelInv
<1>3. CASE readFailed BY <1>1, <1>3 DEF SensorInv, OwnDescriptors
<1>4. CASE ~readFailed BY <1>2, <1>4 DEF SensorInv, OwnDescriptors
<1> QED BY <1>3, <1>4

\* The data device closes its descriptor: sensors_close, close_sensors, a read that fails.
LEMMA EventClosedKeeps ==
  ASSUME SensorInv, table' = Closed(table, event_fd), event_fd' \in {event_fd, NoFd},
         devices' = devices \/ devices' = devices \ {"data"},
         UNCHANGED <<sensor_fd, control_fd, handle>>, OwnDescriptors',
         \/ event_fd' = NoFd \/ "data" \notin devices'
         \/ readFailed' \/ UNCHANGED <<event_fd, devices, table, readFailed>>
  PROVE  SensorInv'
<1>1. SensorTypeOK /\ PairInv /\ HandleInv /\ AccelInv /\ table \in Tables
  BY DEF SensorInv, SensorTypeOK
<1>2. /\ table' \in Tables
      /\ \A e \in Descriptors : table'[e] = IF e = event_fd THEN "free" ELSE table[e]
  <2>1. event_fd \in Descriptors \cup {NoFd} BY <1>1 DEF SensorTypeOK
  <2> QED BY <1>1, <2>1, ClosedTable
<1>3. SensorTypeOK' BY <1>1, <1>2 DEF SensorTypeOK
<1>4. PairInv'
  <2> SUFFICES ASSUME control_fd # <<NoFd, NoFd>>, NEW i \in {1, 2}
               PROVE  table'[control_fd[i]] = "socket" /\ event_fd' # control_fd[i]
    BY DEF PairInv
  <2>1. /\ control_fd[i] \in Descriptors /\ table[control_fd[i]] = "socket"
        /\ event_fd # control_fd[i]
    BY <1>1 DEF SensorTypeOK, PairInv
  <2> QED BY <1>2, <2>1, NotDescriptors
<1>5. HandleInv'
  <2> SUFFICES ASSUME handle # NoHandle PROVE HandleInv' BY DEF HandleInv
  <2>1. event_fd = NoFd /\ event_fd' = NoFd BY <1>1 DEF HandleInv
  <2>2. table' = table BY <2>1 DEF Closed
  <2>3. "control" \in devices' BY <1>1 DEF HandleInv
  <2> QED BY <1>1, <2>1, <2>2, <2>3 DEF HandleInv
<1>6. AccelInv' BY <1>1, <1>2 DEF AccelInv
<1> QED BY <1>3, <1>4, <1>5, <1>6 DEF SensorInv

\* control_close keeps SensorInv.
LEMMA ControlCloseKeeps ==
  ASSUME SensorInv, control_close
  PROVE  SensorInv'
<1> DEFINE t1 == Closed(table, control_fd[1])
           t2 == Closed(t1, control_fd[2])
<1>1. /\ handle = NoHandle /\ Touch("control_close", sensor_fd, "none")
      /\ table' = Closed(t2, sensor_fd) /\ sensor_fd' = NoFd /\ control_fd' = <<NoFd, NoFd>>
      /\ devices' = devices \ {"control"} /\ UNCHANGED <<event_fd, handle, readFailed>>
  BY DEF control_close
<1>2. SensorTypeOK /\ PairInv /\ HandleInv /\ AccelInv /\ table \in Tables
  BY DEF SensorInv, SensorTypeOK
<1>3. control_fd[1] \in Descriptors \cup {NoFd} /\ control_fd[2] \in Descriptors \cup {NoFd}
  BY <1>2 DEF SensorTypeOK
<1>4. t1 \in Tables /\ \A e \in Descriptors : t1[e] = IF e = control_fd[1] THEN "free" ELSE table[e]
  BY <1>2, <1>3, ClosedTable
<1> HIDE DEF t1
<1>5. t2 \in Tables /\ \A e \in Descriptors : t2[e] = IF e = control_fd[2] THEN "free" ELSE t1[e]
  BY <1>3, <1>4, ClosedTable
<1> HIDE DEF t2
<1>6. /\ table' \in Tables
      /\ \A e \in Descriptors : table'[e] = IF e = sensor_fd THEN "free" ELSE t2[e]
  <2>1. sensor_fd \in Descriptors \cup {NoFd} BY <1>2 DEF SensorTypeOK
  <2> QED BY <1>1, <1>5, <2>1, ClosedTable
<1>7. \A e \in Descriptors : table'[e] \in {table[e], "free"} BY <1>4, <1>5, <1>6
<1>8. event_fd # NoFd => table'[event_fd] = table[event_fd]
  <2> SUFFICES ASSUME event_fd # NoFd PROVE table'[event_fd] = table[event_fd] OBVIOUS
  <2>1. event_fd \in Descriptors /\ event_fd # sensor_fd BY <1>2 DEF SensorTypeOK, AccelInv
  <2>2. event_fd # control_fd[1] /\ event_fd # control_fd[2] BY <1>2, <2>1, NotDescriptors DEF PairInv
  <2> QED BY <1>4, <1>5, <1>6, <2>1, <2>2
<1>9. SensorTypeOK' BY <1>1, <1>2, <1>6 DEF SensorTypeOK
<1>10. PairInv' BY <1>1 DEF PairInv
<1>11. HandleInv' BY <1>1 DEF HandleInv
<1>12. AccelInv' BY <1>1, <1>2, <1>7, <1>8 DEF AccelInv
<1>13. OwnDescriptors' BY <1>1 DEF SensorInv, OwnDescriptors, Touch
<1> QED BY <1>9, <1>10, <1>11, <1>12, <1>13 DEF SensorInv

\* Every step of the sensors HAL, and of the rest of its process, keeps SensorInv.
LEMMA SensorStepKeeps ==
  ASSUME SensorInv, SensorStep
  PROVE  SensorInv'
<1>t. SensorTypeOK /\ PairInv /\ HandleInv /\ AccelInv /\ table \in Tables
  BY DEF SensorInv, SensorTypeOK
<1>1. ASSUME NEW dev \in {"control", "data"}, open_sensors(dev) PROVE SensorInv'
  <2>1. /\ dev \notin devices /\ devices' = devices \cup {dev}
        /\ sensor_fd' = IF dev = "control" THEN NoFd ELSE sensor_fd
        /\ event_fd' = IF dev = "data" THEN NoFd ELSE event_fd
        /\ UNCHANGED <<table, control_fd, handle, touched, readFailed>>
    BY <1>1 DEF open_sensors
  <2>2. SensorTypeOK' BY <1>t, <2>1 DEF SensorTypeOK
  <2>3. PairInv'
    <3> SUFFICES ASSUME control_fd # <<NoFd, NoFd>>, NEW i \in {1, 2}
                 PROVE  table[control_fd[i]] = "socket" /\ event_fd' # control_fd[i]
      BY <2>1 DEF PairInv
    <3>1. control_fd[i] \in Descriptors /\ table[control_fd[i]] = "socket" /\ event_fd # control_fd[i]
      BY <1>t DEF SensorTypeOK, PairInv
    <3> QED BY <2>1, <3>1, NotDescriptors
  <2>4. HandleInv' BY <1>t, <2>1 DEF HandleInv
  <2>5. AccelInv'
    <3>1. CASE dev = "control" BY <1>t, <2>1, <3>1 DEF AccelInv
    <3>2. CASE dev = "data" BY <1>t, <2>1, <3>2 DEF AccelInv
    <3> QED BY <3>1, <3>2
  <2>6. OwnDescriptors' BY <2>1 DEF SensorInv, OwnDescriptors
  <2> QED BY <2>2, <2>3, <2>4, <2>5, <2>6 DEF SensorInv
<1>2. CASE sensors_poll
  <2>1. /\ "data" \in devices /\ Touch("sensors_poll", event_fd, "accel")
        /\ \/ UNCHANGED <<table, readFailed>>
           \/ table' = Closed(table, event_fd) /\ readFailed' = (readFailed \/ event_fd # NoFd)
        /\ UNCHANGED <<sensor_fd, event_fd, control_fd, handle, devices>>
    BY <1>2 DEF sensors_poll
  <2>2. readFailed => readFailed' BY <2>1
  <2>3. OwnDescriptors' BY <2>1, <2>2, TouchKeeps
  <2>4. CASE UNCHANGED <<table, readFailed>>
    <3>1. SensorTypeOK' /\ PairInv' /\ HandleInv' /\ AccelInv'
      BY <1>t, <2>1, <2>4 DEF SensorTypeOK, PairInv, HandleInv, AccelInv
    <3> QED BY <2>3, <3>1 DEF SensorInv
  <2>5. CASE table' = Closed(table, event_fd) /\ readFailed' = (readFailed \/ event_fd # NoFd)
    <3>1. event_fd' = NoFd \/ readFailed' BY <2>1, <2>5
    <3> QED BY <2>1, <2>3, <2>5, <3>1, EventClosedKeeps
  <2> QED BY <2>1, <2>4, <2>5
<1>3. CASE sensors_close
  <2>1. /\ "data" \in devices /\ Touch("sensors_close", event_fd, "accel")
        /\ table' = Closed(table, event_fd) /\ event_fd' = NoFd
        /\ UNCHANGED <<sensor_fd, control_fd, handle, devices, readFailed>>
    BY <1>3 DEF sensors_close
  <2>2. OwnDescriptors' BY <2>1, TouchKeeps
  <2>3. event_fd' \in {event_fd, NoFd} /\ devices' = devices BY <2>1
  <2> QED BY <2>1, <2>2, <2>3, EventClosedKeeps
<1>4. CASE close_sensors
  <2>1. /\ "data" \in devices /\ Touch("close_sensors", event_fd, "accel")
        /\ table' = Closed(table, event_fd) /\ devices' = devices \ {"data"}
        /\ UNCHANGED <<sensor_fd, event_fd, control_fd, handle, readFailed>>
    BY <1>4 DEF close_sensors
  <2>2. OwnDescriptors' BY <2>1, TouchKeeps
  <2> QED BY <2>1, <2>2, EventClosedKeeps
<1>5. ASSUME UNCHANGED <<sensor_fd, event_fd, control_fd, handle, devices, touched, readFailed>>,
             NEW d \in Descriptors, NEW use \in {"other", "free"}, table[d] \in {"other", "free"},
             table' = [table EXCEPT ![d] = use],
             use = "other" => Free(table) \ {d} # {}
      PROVE  SensorInv'
  <2>1. table' \in Tables /\ \A e \in Descriptors : table'[e] = IF e = d THEN use ELSE table[e]
    BY <1>5, <1>t DEF Tables
  <2>2. \A e \in Descriptors : table[e] \in {"socket", "accel"} => table'[e] = table[e]
    BY <1>5, <2>1
  <2>3. SensorTypeOK' BY <1>5, <1>t, <2>1 DEF SensorTypeOK
  <2>4. PairInv' BY <1>5, <1>t, <2>2 DEF SensorTypeOK, PairInv
  <2>5. Free(table) # {} => Free(table') # {}
    <3>1. CASE use = "free" BY <2>1, <3>1 DEF Free
    <3>2. CASE use = "other"
      <4>1. Free(table) \ {d} \subseteq Free(table') BY <2>1 DEF Free
      <4> QED BY <1>5, <3>2, <4>1
    <3> QED BY <1>5, <3>1, <3>2
  <2>6. HandleInv' BY <1>5, <1>t, <2>2, <2>5 DEF SensorTypeOK, HandleInv
  <2>7. AccelInv' BY <1>5, <1>t, <2>1, <2>2 DEF SensorTypeOK, AccelInv
  <2>8. OwnDescriptors' BY <1>5 DEF SensorInv, OwnDescriptors
  <2> QED BY <2>3, <2>4, <2>6, <2>7, <2>8 DEF SensorInv
<1>6. CASE OtherOpens
  <2> DEFINE d == Lowest(Free(table))
  <2>1. Cardinality(Free(table)) > 1 /\ table' = [table EXCEPT ![d] = "other"]
    BY <1>6 DEF OtherOpens, Opened
  <2>2. Free(table) \ {d} # {} BY <2>1, FreeIsFinite, RoomLeft
  <2>3. d \in Descriptors /\ table[d] = "free" BY <1>t, <2>2, OpenedTable
  <2> HIDE DEF d
  <2> QED BY <1>5, <1>6, <2>1, <2>2, <2>3 DEF OtherOpens
<1>7. CASE OtherCloses
  <2>1. PICK d \in Descriptors : table[d] = "other" /\ table' = Closed(table, d)
    BY <1>7 DEF OtherCloses
  <2>2. table' = [table EXCEPT ![d] = "free"] BY <2>1, NotDescriptors DEF Closed
  <2> QED BY <1>5, <1>7, <2>1, <2>2 DEF OtherCloses
<1> QED
  BY <1>1, <1>2, <1>3, <1>4, <1>6, <1>7, ControlOpenKeeps, SensorsOpenKeeps, ControlCloseKeeps
     DEF SensorStep

\* At the start everything is closed.
LEMMA SensorInvInit == ASSUME Init PROVE SensorInv
<1>1. SensorInit BY DEF Init
<1>2. SensorTypeOK BY <1>1 DEF SensorInit, SensorTypeOK, Tables
<1>3. PairInv /\ HandleInv BY <1>1 DEF SensorInit, PairInv, HandleInv
<1>4. AccelInv BY <1>1 DEF SensorInit, AccelInv
<1>5. OwnDescriptors BY <1>1 DEF SensorInit, OwnDescriptors
<1> QED BY <1>2, <1>3, <1>4, <1>5 DEF SensorInv

(* The descriptors of the sensors HAL are its own, and the accelerometer is *)
(* open in one place at most, for any number of descriptors and calls.       *)
THEOREM SensorInvariant == Spec => []SensorInv
<1>1. Init => SensorInv BY SensorInvInit
<1>2. SensorInv /\ [Next]_vars => SensorInv'
  <2>1. SensorInv /\ SensorStep => SensorInv' BY SensorStepKeeps
  <2>2. SensorInv /\ UNCHANGED sensorVars => SensorInv'
    BY DEF sensorVars, SensorInv, SensorTypeOK, PairInv, HandleInv, AccelInv, OwnDescriptors
  <2> QED BY <2>1, <2>2 DEF Next, vars
<1> QED BY <1>1, <1>2, PTL DEF Spec

(* No operation reads or closes a descriptor of someone else, but for       *)
(* control_close and the uses of event_fd after a read failed.               *)
THEOREM DescriptorsAreOwn == Spec => []OwnDescriptors
<1>1. SensorInv => OwnDescriptors BY DEF SensorInv
<1> QED BY <1>1, SensorInvariant, PTL

(* No descriptor of the accelerometer outlives the data device and the      *)
(* handle, in whatever order the devices are opened and closed.              *)
THEOREM AccelerometerIsClosed == Spec => []AccelerometerClosed
<1>1. SensorInv => AccelerometerClosed
  BY NotDescriptors DEF SensorInv, AccelInv, AccelerometerClosed
<1> QED BY <1>1, SensorInvariant, PTL
=============================================================================
