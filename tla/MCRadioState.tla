---------------------------- MODULE MCRadioState ----------------------------
(* Instances of RadioState for TLC. *)
EXTENDS RadioState

Work(p, s, f) == [power |-> p, changes |-> s, faults |-> f]

\* Requests against polls with a fault; a refused AT+CFUN=4 with a refused AT+CFUN?.
MCTwoChannels == {Work(2, 0, 1), Work(0, 0, 2)}
MCOneChannel  == {Work(1, 1, 1)}
MCNoFault     == {Work(2, 0, 0)}
=============================================================================
