---------------------------- MODULE MCRilQueues ----------------------------
(* Instances of RilQueues for TLC. *)
EXTENDS RilQueues, EventTime

CONSTANTS r1, r2

MCRequests  == {r1, r2}
MCPrio      == {r2}
MCSimStatus == {r2}
MCOne       == {r1}
MCDelays    == {0, 1}
MCNone      == {}
NoDelay     == {0}

\* The first two seconds of time, at the microseconds where the sums turn over.
Usecs      == {0, 1, 499999, 500000, 500001, 999999}
SomeTimes  == [tv_sec : {0}, tv_usec : Usecs]
Whole      == [tv_sec : {0, 1}, tv_usec : {0}]
SomeDelays == Whole \cup SomeTimes
SomeEvents == [id : 1..3, abstime : {abstime(tv, d) : tv \in SomeTimes, d \in Whole}]

\* What RilQueuesProofs proves of module EventTime, on these times.
ASSUME EventTimeSample ==
  /\ \A tv \in SomeTimes, d \in SomeDelays :
       /\ Nanos(abstime(tv, d)) = Nanos(timespecOf(tv)) + Nanos(timespecOf(d))
       /\ abstime(tv, d) \in ValidTimespec <=> tv.tv_usec + d.tv_usec # 1000000
  /\ \A a, b, c \in SomeEvents : a.id < b.id /\ b.id < c.id =>
       LET t == ListInNanos(insertByTimespec(insertByTimespec(<<a>>, b), c))
       IN  \A i, j \in 1..3 : i < j =>
             \/ t[i].abstime < t[j].abstime
             \/ t[i].abstime = t[j].abstime /\ t[i].id < t[j].id
============================================================================
