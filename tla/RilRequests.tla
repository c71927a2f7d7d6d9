---------------------------- MODULE RilRequests ----------------------------
(***************************************************************************)
(* What the RIL promises its caller of onRequest(): a request that was     *)
(* accepted is completed once, and the requests of one queue are completed *)
(* in the order in which they were made.  Nothing else happens to them: no *)
(* restart, timeout or lost channel is visible here.                       *)
(***************************************************************************)
EXTENDS Sequences

CONSTANTS
  Queues,     \* the request queues
  Requests    \* the tokens of the requests

VARIABLES
  accepted,   \* requests made so far
  pending,    \* per queue, accepted and not yet completed, oldest first
  done        \* per queue, in the order of RIL_onRequestComplete()

vars == <<accepted, pending, done>>

Init ==
  /\ accepted = {}
  /\ pending = [q \in Queues |-> <<>>]
  /\ done = [q \in Queues |-> <<>>]

Accept(q, r) ==
  /\ r \notin accepted
  /\ accepted' = accepted \cup {r}
  /\ pending' = [pending EXCEPT ![q] = Append(@, r)]
  /\ UNCHANGED done

Complete(q) ==
  /\ pending[q] # <<>>
  /\ done' = [done EXCEPT ![q] = Append(@, Head(pending[q]))]
  /\ pending' = [pending EXCEPT ![q] = Tail(@)]
  /\ UNCHANGED accepted

Next == \E q \in Queues : Complete(q) \/ \E r \in Requests : Accept(q, r)

Spec == Init /\ [][Next]_vars
============================================================================
