----------------------------- MODULE EventTime -----------------------------
(***************************************************************************)
(* The time arithmetic of delayed events (mbm/mbm-ril/u300-ril.c):         *)
(* enqueueRILEvent() adds a delay to the time of day, keeps the list       *)
(* sorted by timespec_cmp, and queueRunner() compares the first event with *)
(* the time of day again.  Module RilQueues counts time in units; a unit   *)
(* is a nanosecond here, see Nanos.                                        *)
(***************************************************************************)
EXTENDS Integers, Sequences

MicrosPerSecond == 1000000
NanosPerSecond  == 1000000000

\* struct timeval as gettimeofday() fills it in.
Timeval == [tv_sec : Nat, tv_usec : 0..(MicrosPerSecond - 1)]

\* struct timespec; pthread_cond_timedwait takes only the valid ones.
Timespec      == [tv_sec : Nat, tv_nsec : Nat]
ValidTimespec == [tv_sec : Nat, tv_nsec : 0..(NanosPerSecond - 1)]

\* The relativeTime of every event: NULL or TIMEVAL_0, TIMEVAL_SIMPOLL,
\* TIMEVAL_OPERATOR_SELECT_POLL and TIMEVAL_SIMRESET.
RelativeTimes == [tv_sec : {0, 1, 2, 60}, tv_usec : {0}]

\* The nanoseconds of the sum before it is normalised.
NanosOfSum(tv, relativeTime) == (tv.tv_usec + relativeTime.tv_usec) * 1000

\* e->abstime as enqueueRILEvent computes it.
abstime(tv, relativeTime) ==
  LET sec  == tv.tv_sec + relativeTime.tv_sec
      nsec == NanosOfSum(tv, relativeTime)
  IN  IF nsec > NanosPerSecond
      THEN [tv_sec |-> sec + 1, tv_nsec |-> nsec - NanosPerSecond]
      ELSE [tv_sec |-> sec, tv_nsec |-> nsec]

\* The time of day in queueRunner, as a timespec.
timespecOf(tv) == [tv_sec |-> tv.tv_sec, tv_nsec |-> tv.tv_usec * 1000]

\* timespec_cmp(a, b, <); with > it is timespec_less(b, a).
timespec_less(a, b) ==
  IF a.tv_sec = b.tv_sec THEN a.tv_nsec < b.tv_nsec ELSE a.tv_sec < b.tv_sec

\* The insertion of enqueueRILEvent into a list of events [id, abstime].
insertByTimespec(s, e) ==
  LET first(i) == \A j \in 1..i : ~timespec_less(e.abstime, s[j].abstime)
  IN  [i \in 1..(Len(s) + 1) |->
         IF i <= Len(s) /\ first(i) THEN s[i] ELSE IF first(i - 1) THEN e ELSE s[i - 1]]

\* The units of time of module RilQueues, and an event and a list in these.
Nanos(ts)      == NanosPerSecond * ts.tv_sec + ts.tv_nsec
InNanos(e)     == [id |-> e.id, abstime |-> Nanos(e.abstime)]
ListInNanos(s) == [i \in 1..Len(s) |-> InNanos(s[i])]
============================================================================
