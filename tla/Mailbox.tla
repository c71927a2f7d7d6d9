------------------------------- MODULE Mailbox -------------------------------
(***************************************************************************)
(* What the acknowledgement protocol of u300-ril-messaging.c promises the  *)
(* framework: messages are shown in the order they came, one at a time,    *)
(* the next as soon as the one before is acknowledged, none twice and none *)
(* left behind.                                                            *)
(***************************************************************************)
EXTENDS Naturals, Sequences

CONSTANT Messages

VARIABLES
  posted,  \* the messages that came, in order
  shown,   \* the messages the framework has been told of
  acks     \* how many of those it has acknowledged

vars == <<posted, shown, acks>>

\* The first n messages of s, or all if there are fewer.
FirstOf(s, n) == SubSeq(s, 1, IF n < Len(s) THEN n ELSE Len(s))

Init == posted = << >> /\ shown = << >> /\ acks = 0

\* Some message is put at the end.
Post ==
  /\ Len(posted') = Len(posted) + 1
  /\ posted'[Len(posted')] \in Messages
  /\ posted' = Append(posted, posted'[Len(posted')])
  /\ UNCHANGED acks
Ack == acks < Len(shown) /\ acks' = acks + 1 /\ UNCHANGED posted

Next == /\ Post \/ Ack
        /\ shown' = FirstOf(posted', acks' + 1)

Spec == Init /\ [][Next]_vars
=============================================================================
