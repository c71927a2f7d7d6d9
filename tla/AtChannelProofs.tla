-------------------------- MODULE AtChannelProofs --------------------------
(***************************************************************************)
(* For any set of threads and commands and any bounds: AtChannel keeps its *)
(* types, has at most one command pending, and loses no wake-up.           *)
(***************************************************************************)
EXTENDS AtChannel, TLAPS

\* The mutual exclusion of the channel needs no types: what is proved about it is
\* inductive together with the fact that pc is a function on Threads.
Control == OnePending /\ NoLostWakeup /\ pc \in [Threads -> Points]

\* At most one thread sleeps on commandcond, so a signal leaves nobody asleep.
LEMMA SignalWakesAll ==
  ASSUME OnePending, pc \in [Threads -> Points], NEW p \in SignalCommand
  PROVE  /\ p \in [Threads -> Points]
         /\ \A t \in Threads : p[t] # "commandcond"
         /\ \A t \in Threads : p[t] = pc[t] \/ (pc[t] = "commandcond" /\ p[t] = "woken")
  <1>1. CASE Sleepers = {}
    BY <1>1 DEF SignalCommand, Sleepers
  <1>2. CASE Sleepers # {}
    <2>1. PICK s \in Sleepers : p = [pc EXCEPT ![s] = "woken"]
      BY <1>2 DEF SignalCommand
    <2>2. s \in Threads /\ pc[s] = "commandcond" /\ requestmutex = s
      BY <2>1 DEF Sleepers, OnePending, Waiting
    <2>3. \A t \in Threads : t # s => pc[t] # "commandcond"
      BY <2>2 DEF OnePending, Waiting
    <2> QED
      BY <2>1, <2>2, <2>3 DEF Points
  <1> QED
    BY <1>1, <1>2

\* The exit of at_send_command_full_nolock keeps Control: the caller is the
\* thread that holds requestmutex, or nobody does.
LEMMA ReturnControl ==
  ASSUME Control, NEW t \in Threads, NEW err \in Errors,
         requestmutex = t \/ requestmutex = None,
         commandmutex = t \/ commandmutex = None,
         err # "COMMAND_PENDING",
         result \in [Threads -> [err : Errors, id : Nat, final : Lines \cup {None},
                                 lines : Seq(Lines)]],
         Return(t, err)
  PROVE  Control'
  <1> DEFINE next == pc'[t]
  <1>1. /\ response' = None /\ requestmutex' = None
        /\ readerClosed' = readerClosed
        /\ next \in {"pause", "retry", "ontimeout", "idle"}
        /\ commandmutex' = IF next \in {"pause", "retry"} THEN t ELSE None
        /\ pc' \in [Threads -> Points]
        /\ \A u \in Threads \ {t} :
             pc'[u] = IF pc[u] = "requestcond" THEN "enter" ELSE pc[u]
    BY DEF Return, AfterReturn, BroadcastRequest, Control, Points
  <1>2. \A u \in Threads : result'[u].err # "COMMAND_PENDING"
    BY DEF Return, Control, OnePending, checkIntermediate, NoResult
  <1>3. OnePending'
    <2>1. \A u \in Threads \ {t} : ~Waiting(u) /\ pc[u] \notin {"retry", "pause"}
      BY AtChannelAssumption DEF OnePending, Control
    <2>2. \A u \in Threads : ~Waiting(u)'
      BY <1>1, <2>1 DEF Waiting
    <2>3. \A u \in Threads \ {t} : pc'[u] \notin {"retry", "pause"}
      BY <1>1, <2>1
    <2>4. \A u \in Threads : commandmutex' = u <=> pc'[u] \in {"retry", "pause"}
      BY <1>1, <2>3, AtChannelAssumption
    <2> QED
      BY <1>1, <1>2, <2>2, <2>4, AtChannelAssumption DEF OnePending
  <1>4. NoLostWakeup'
    BY <1>1 DEF NoLostWakeup, Control, OnePending, Waiting
  <1> QED
    BY <1>1, <1>3, <1>4 DEF Control

\* addIntermediate keeps the response a response, and its final line.
LEMMA addIntermediateOK ==
  ASSUME response \in Responses, NEW line \in Lines
  PROVE  addIntermediate(line) \in Responses /\ addIntermediate(line).final = response.final
  <1>1. response.intermediates \in Seq(Lines)
    BY DEF Responses
  <1>2. <<line>> \o response.intermediates \in Seq(Lines)
    BY <1>1
  <1> QED
    BY <1>2 DEF addIntermediate, Responses

\* What a thread sends has a type and a prefix.
LEMMA CallOK ==
  ASSUME TypeOK, NEW t \in Threads
  PROVE  call[t] \in [type : Types, prefix : Prefixes, sms : BOOLEAN]
  <1>1. HandshakeCommand \in [type : Types, prefix : Prefixes, sms : BOOLEAN]
    BY AtChannelAssumption DEF HandshakeCommand, Types
  <1>2. call[t] \in Commands \cup {HandshakeCommand}
    BY DEF TypeOK, ThreadOK
  <1> QED
    BY <1>1, <1>2, AtChannelAssumption

\* The response that SendCommand allocates is one.
LEMMA NewResponseOK ==
  ASSUME TypeOK, NEW t \in Threads, SendCommand(t)
  PROVE  response' \in Responses /\ response'.final = None
  <1>1. call[t] \in [type : Types, prefix : Prefixes, sms : BOOLEAN]
    BY CallOK
  <1>2. sent + 1 \in Nat /\ <<>> \in Seq(Lines)
    BY DEF TypeOK, HistoryOK
  <1> QED
    BY <1>1, <1>2 DEF SendCommand, Responses

ResultOK == result \in [Threads -> [err : Errors, id : Nat, final : Lines \cup {None},
                                    lines : Seq(Lines)]]

\* No step of a command thread, of the reader or of the modem breaks Control.
LEMMA ControlStep == TypeOK /\ Control /\ [Next]_vars => Control'
  <1> SUFFICES ASSUME TypeOK, Control, [Next]_vars PROVE Control'
    OBVIOUS
  <1>a. ResultOK
    BY DEF TypeOK, ThreadOK, ResultOK
  <1> USE AtChannelAssumption DEF Control
  <1>1. ASSUME NEW t \in Threads, NEW c \in Commands, at_send_command(t, c)
        PROVE  Control'
    BY <1>1, <1>a DEF at_send_command, OnePending, NoLostWakeup, Waiting, Points, context,
                      ResultOK, NoResult
  <1>2. ASSUME NEW t \in Threads, at_handshake(t) PROVE Control'
    BY <1>2, <1>a DEF at_handshake, OnePending, NoLostWakeup, Waiting, Points, context,
                      ResultOK, NoResult
  <1>3. ASSUME NEW t \in Threads, WaitRequest(t) PROVE Control'
    BY <1>3 DEF WaitRequest, HasCommandMutex, OnePending, NoLostWakeup, Waiting, Points
  <1>4. ASSUME NEW t \in Threads, SendFails(t) PROVE Control'
    <2>1. requestmutex = None /\ response = None
      BY <1>4 DEF SendFails, OnePending
    <2>2. commandmutex = t \/ commandmutex = None
      BY <1>4 DEF SendFails, HasCommandMutex
    <2>3. Return(t, "CHANNEL_CLOSED") \/ Return(t, "GENERIC")
      BY <1>4, <2>1 DEF SendFails
    <2> QED
      BY <2>1, <2>2, <2>3, <1>a, ReturnControl DEF Errors, ResultOK
  <1>5. ASSUME NEW t \in Threads, SendCommand(t) PROVE Control'
    <2>1. response' \in Responses /\ response'.final = None
      BY <1>5, NewResponseOK DEF SendCommand
    <2> QED
      BY <1>5, <2>1 DEF SendCommand, HasCommandMutex, OnePending, NoLostWakeup, Waiting, Points
  <1>6. ASSUME NEW t \in Threads, Complete(t) PROVE Control'
    <2>1. requestmutex = t /\ commandmutex = None
      BY <1>6 DEF Complete, OnePending, Waiting
    <2>2. PICK err \in {"CHANNEL_CLOSED", "0"} : Return(t, err)
      BY <1>6 DEF Complete
    <2> QED
      BY <2>1, <2>2, <1>a, ReturnControl DEF Errors, ResultOK
  <1>7. ASSUME NEW t \in Threads, WaitAgain(t) \/ SpuriousWakeup(t) PROVE Control'
    BY <1>7 DEF WaitAgain, SpuriousWakeup, OnePending, NoLostWakeup, Waiting, Points, context
  <1>8. ASSUME NEW t \in Threads, Timeout(t) PROVE Control'
    BY <1>8 DEF Timeout, OnePending, NoLostWakeup, Waiting, Points, context
  <1>9. ASSUME NEW t \in Threads, GiveUp(t) PROVE Control'
    <2>1. requestmutex = t /\ commandmutex = None /\ Return(t, "TIMEOUT")
      BY <1>9 DEF GiveUp, OnePending, Waiting
    <2> QED
      BY <2>1, <1>a, ReturnControl DEF Errors, ResultOK
  <1>10. ASSUME NEW t \in Threads, onATTimeout(t) PROVE Control'
    BY <1>10 DEF onATTimeout, OnePending, NoLostWakeup, Waiting, Points, context
  <1>11. ASSUME NEW t \in Threads, HandshakeDone(t) PROVE Control'
    BY <1>11 DEF HandshakeDone, OnePending, NoLostWakeup, Waiting, Points
  <1>12. ASSUME NEW t \in Threads, at_set_on_reader_closed(t) PROVE Control'
    BY <1>12 DEF at_set_on_reader_closed, OnePending, NoLostWakeup, Waiting, thread
  <1>13. ASSUME NEW t \in Threads, at_close(t) PROVE Control'
    BY <1>13 DEF at_close, OnePending, NoLostWakeup, Waiting, Points
  <1>14. ASSUME NEW t \in Threads, CloseSignal(t) PROVE Control'
    <2>1. PICK p \in SignalCommand : pc' = [p EXCEPT ![t] = "kick"]
      BY <1>14 DEF CloseSignal
    <2> QED
      BY <2>1, <1>14, SignalWakesAll
      DEF CloseSignal, OnePending, NoLostWakeup, Waiting, Points
  <1>15. ASSUME NEW t \in Threads, CloseKick(t) PROVE Control'
    BY <1>15 DEF CloseKick, OnePending, NoLostWakeup, Waiting, Points, context
  <1>16. CASE processLine
    <2>1. CASE handleFinalResponse
      <3>1. pc' \in SignalCommand
        BY <2>1 DEF handleFinalResponse
      <3>2. response # None /\ response' # None
        BY <2>1, <1>16 DEF handleFinalResponse, processLine, TypeOK, ContextOK, ReaderOK, Responses
      <3> QED
        BY <3>1, <3>2, <1>16, SignalWakesAll DEF processLine, OnePending, NoLostWakeup, Waiting
    <2>2. CASE handlePrompt
      <3>1. response \in Responses /\ response' \in Responses /\ response'.final = response.final
        BY <2>2 DEF handlePrompt, TypeOK, ContextOK, Responses
      <3> QED
        BY <3>1, <2>2, <1>16 DEF handlePrompt, processLine, OnePending, NoLostWakeup, Waiting
    <2>3. CASE keepIntermediate
      <3>1. response \in Responses /\ rline \in Lines
        BY <2>3, <1>16 DEF keepIntermediate, processLine, TypeOK, ContextOK, ReaderOK
      <3>2. response' \in Responses /\ response'.final = response.final
        BY <3>1, <2>3, addIntermediateOK DEF keepIntermediate
      <3> QED
        BY <3>1, <3>2, <2>3, <1>16
        DEF keepIntermediate, processLine, OnePending, NoLostWakeup, Waiting
    <2>4. CASE handleUnsolicited
      BY <2>4, <1>16 DEF handleUnsolicited, processLine, OnePending, NoLostWakeup, Waiting
    <2> QED
      BY <1>16, <2>1, <2>2, <2>3, <2>4 DEF processLine
  <1>17. CASE onReaderClosedMark
    BY <1>17, SignalWakesAll DEF onReaderClosedMark, OnePending, NoLostWakeup, Waiting
  <1>18. CASE UNCHANGED <<context, thread>>
    BY <1>18 DEF context, thread, OnePending, NoLostWakeup, Waiting
  <1>19. CASE ReaderStep
    <2>1. CASE ReadLine \/ ReadSecondLine \/ ReadEOF \/ ReadKicked \/ ReadClosed
               \/ onReaderClosedTest \/ onReaderClosedCallback
      BY <2>1, <1>18 DEF ReadLine, ReadSecondLine, ReadEOF, ReadKicked, ReadClosed, ReaderFails,
                         onReaderClosedTest, onReaderClosedCallback
    <2> QED
      BY <1>19, <2>1, <1>16, <1>17 DEF ReaderStep
  <1>20. CASE ModemStep
    BY <1>20, <1>18 DEF ModemStep, ModemInfo, ModemPrompt, ModemFinal, ModemLose,
                        ModemUnsolicited, ModemHangUp, ModemOther
  <1>21. CASE UNCHANGED vars
    BY <1>21, <1>18 DEF vars
  <1>22. ASSUME NEW t \in Threads, ThreadStep(t) PROVE Control'
    BY <1>22, <1>1, <1>2, <1>3, <1>4, <1>5, <1>6, <1>7, <1>8, <1>9, <1>10, <1>11, <1>12,
       <1>13, <1>14, <1>15 DEF ThreadStep
  <1> QED
    BY <1>19, <1>20, <1>21, <1>22 DEF Next

\* reverseIntermediates returns a sequence of lines.
LEMMA reverseIntermediatesOK ==
  ASSUME NEW s \in Seq(Lines)
  PROVE  reverseIntermediates(s) \in Seq(Lines)
  <1>1. Len(s) \in Nat /\ \A i \in 1..Len(s) : s[i] \in Lines
    OBVIOUS
  <1>2. \A i \in 1..Len(s) : Len(s) + 1 - i \in 1..Len(s)
    BY <1>1
  <1>3. reverseIntermediates(s) \in [1..Len(s) -> Lines]
    BY <1>1, <1>2 DEF reverseIntermediates
  <1> QED
    BY <1>1, <1>3

\* The result of a call that has not returned has the type of a result.
LEMMA NoResultOK ==
  NoResult \in [err : Errors, id : Nat, final : Lines \cup {None}, lines : Seq(Lines)]
  <1>1. <<>> \in Seq(Lines) /\ "none" \in Errors
    BY DEF Errors
  <1> QED
    BY <1>1 DEF NoResult

\* The exit of at_send_command_full_nolock keeps the types.
LEMMA ReturnTypes ==
  ASSUME TypeOK, NEW t \in Threads, NEW err \in Errors, Return(t, err)
  PROVE  ContextOK' /\ ThreadOK' /\ abandoned' \in Nat
  <1> USE AtChannelAssumption
  <1>1. ContextOK'
    BY DEF Return, TypeOK, ContextOK
  <1>2. pc' \in [Threads -> Points]
    BY DEF Return, AfterReturn, BroadcastRequest, TypeOK, ThreadOK, Points
  <1>3. call' = call /\ calls' = calls /\ tries' \in [Threads -> 0..HandshakeRetries]
    <2>1. AfterReturn(t, err) = "retry" => tries[t] > 1
      BY DEF AfterReturn
    <2>2. tries[t] \in 0..HandshakeRetries /\ HandshakeRetries \in Nat
      BY DEF TypeOK, ThreadOK
    <2>3. (IF AfterReturn(t, err) = "retry" THEN tries[t] - 1 ELSE 0) \in 0..HandshakeRetries
      BY <2>1, <2>2
    <2> QED
      BY <2>3 DEF Return, TypeOK, ThreadOK
  <1>4. ResultOK'
    <2> DEFINE R == [err : Errors, id : Nat, final : Lines \cup {None}, lines : Seq(Lines)]
    <2>1. [NoResult EXCEPT !.err = err] \in R
      BY NoResultOK
    <2>2. ASSUME response # None
          PROVE  [err |-> checkIntermediate(call[t], err, response), id |-> response.id,
                  final |-> response.final,
                  lines |-> reverseIntermediates(response.intermediates)] \in R
      <3>1. response \in Responses
        BY <2>2 DEF TypeOK, ContextOK
      <3>2. /\ response.id \in Nat /\ response.final \in Lines \cup {None}
            /\ response.intermediates \in Seq(Lines)
        BY <3>1 DEF Responses
      <3>3. checkIntermediate(call[t], err, response) \in Errors
        BY DEF checkIntermediate, Errors
      <3>4. reverseIntermediates(response.intermediates) \in Seq(Lines)
        BY <3>2, reverseIntermediatesOK
      <3> QED
        BY <3>2, <3>3, <3>4
    <2> QED
      BY <2>1, <2>2 DEF Return, ResultOK, TypeOK, ThreadOK
  <1>5. abandoned' \in Nat
    BY DEF Return, TypeOK, HistoryOK
  <1> QED
    BY <1>1, <1>2, <1>3, <1>4, <1>5 DEF ThreadOK, ResultOK, TypeOK

\* A signal on commandcond leaves pc a function to control points.
LEMMA SignalTypes ==
  ASSUME pc \in [Threads -> Points], NEW p \in SignalCommand
  PROVE  p \in [Threads -> Points]
  BY DEF SignalCommand, Sleepers, Points

\* The lines the modem sends are lines, and what it appends stays a sequence of them.
LEMMA EmitOK ==
  ASSUME TypeOK, NEW s \in Seq(Lines), Emit(s)
  PROVE  fromModem' \in Seq(Lines)
  BY DEF TypeOK, ModemOK, Emit

\* Every step of a command thread keeps the types.
LEMMA ThreadTypes ==
  ASSUME TypeOK, NEW t \in Threads, ThreadStep(t)
  PROVE  TypeOK'
  <1> USE AtChannelAssumption
  <1>c. UNCHANGED context => ContextOK'
    BY DEF TypeOK, ContextOK, context
  <1>r. UNCHANGED reader => ReaderOK'
    BY DEF TypeOK, ReaderOK, reader
  <1>m. UNCHANGED modem => ModemOK'
    BY DEF TypeOK, ModemOK, modem
  <1>h. UNCHANGED history => HistoryOK'
    BY DEF TypeOK, HistoryOK, history
  <1>p. pc' \in [Threads -> Points] /\ UNCHANGED <<call, tries, calls, result>> => ThreadOK'
    BY DEF TypeOK, ThreadOK
  <1>1. ASSUME NEW c \in Commands, at_send_command(t, c) PROVE TypeOK'
    <2>1. call' \in [Threads -> Commands \cup {HandshakeCommand}]
      BY <1>1 DEF at_send_command, TypeOK, ThreadOK
    <2>2. /\ result' \in [Threads -> [err : Errors, id : Nat, final : Lines \cup {None}, lines : Seq(Lines)]]
          /\ tries' \in [Threads -> 0..HandshakeRetries]
      BY <1>1, NoResultOK DEF at_send_command, TypeOK, ThreadOK
    <2>3. pc' \in [Threads -> Points] /\ calls' \in [Threads -> Nat]
      BY <1>1 DEF at_send_command, TypeOK, ThreadOK, Points
    <2>4. ThreadOK'
      BY <2>1, <2>2, <2>3 DEF ThreadOK
    <2> QED
      BY <2>4, <1>1, <1>c, <1>r, <1>m, <1>h DEF at_send_command, TypeOK
  <1>2. CASE at_handshake(t)
    <2>1. ThreadOK'
      BY <1>2, NoResultOK DEF at_handshake, TypeOK, ThreadOK, Points
    <2> QED
      BY <2>1, <1>2, <1>c, <1>r, <1>m, <1>h DEF at_handshake, TypeOK
  <1>3. CASE WaitRequest(t)
    <2>1. ThreadOK'
      BY <1>3, <1>p DEF WaitRequest, TypeOK, ThreadOK, Points
    <2>2. ContextOK'
      BY <1>3 DEF WaitRequest, TypeOK, ContextOK
    <2> QED
      BY <2>1, <2>2, <1>3, <1>r, <1>m, <1>h DEF WaitRequest, TypeOK
  <1>4. ASSUME NEW err \in Errors, Return(t, err),
               UNCHANGED <<reader, modem, sent, leaked, mixed, streamClosed>>
        PROVE  TypeOK'
    <2>1. ContextOK' /\ ThreadOK' /\ abandoned' \in Nat
      BY <1>4, ReturnTypes
    <2> QED
      BY <2>1, <1>4 DEF TypeOK, ReaderOK, ModemOK, HistoryOK, reader, modem
  <1>5. CASE SendFails(t)
    <2>1. PICK err \in {"COMMAND_PENDING", "CHANNEL_CLOSED", "GENERIC"} : Return(t, err)
      BY <1>5 DEF SendFails
    <2> QED
      BY <2>1, <1>4, <1>5 DEF SendFails, Errors
  <1>6. CASE SendCommand(t)
    <2>1. response' \in Responses
      BY <1>6, NewResponseOK
    <2>2. call[t] \in [type : Types, prefix : Prefixes, sms : BOOLEAN]
      BY CallOK
    <2>3. toModem' \in Seq([id : Nat, type : Types, prefix : Prefixes, sms : BOOLEAN])
      BY <1>6, <2>2 DEF SendCommand, TypeOK, ModemOK, HistoryOK
    <2>4. ContextOK'
      BY <1>6, <2>1 DEF SendCommand, TypeOK, ContextOK
    <2>5. ThreadOK'
      BY <1>6, <1>p DEF SendCommand, TypeOK, ThreadOK, Points
    <2>6. ModemOK' /\ HistoryOK'
      BY <1>6, <2>3 DEF SendCommand, TypeOK, ModemOK, HistoryOK
    <2> QED
      BY <1>6, <2>4, <2>5, <2>6, <1>r DEF SendCommand, TypeOK
  <1>7. CASE Complete(t)
    <2>1. PICK err \in {"CHANNEL_CLOSED", "0"} : Return(t, err)
      BY <1>7 DEF Complete
    <2> QED
      BY <2>1, <1>4, <1>7 DEF Complete, Errors
  <1>8. CASE GiveUp(t)
    BY <1>8, <1>4 DEF GiveUp, Errors
  <1>9. CASE WaitAgain(t) \/ SpuriousWakeup(t) \/ Timeout(t) \/ CloseKick(t) \/ onATTimeout(t)
    <2>1. ThreadOK'
      BY <1>9, <1>p DEF WaitAgain, SpuriousWakeup, Timeout, CloseKick, onATTimeout, TypeOK, ThreadOK, Points
    <2>2. ReaderOK' /\ ModemOK'
      BY <1>9, <1>r, <1>m DEF WaitAgain, SpuriousWakeup, Timeout, CloseKick, onATTimeout, TypeOK, ReaderOK,
                              ModemOK, reader
    <2> QED
      BY <1>9, <2>1, <2>2, <1>c, <1>h DEF WaitAgain, SpuriousWakeup, Timeout, CloseKick, onATTimeout, TypeOK
  <1>11. CASE HandshakeDone(t) \/ at_set_on_reader_closed(t) \/ at_close(t)
    <2>1. ThreadOK'
      BY <1>11, <1>p DEF HandshakeDone, at_set_on_reader_closed, at_close, TypeOK, ThreadOK,
                         Points, thread
    <2>2. ContextOK'
      BY <1>11 DEF HandshakeDone, at_set_on_reader_closed, at_close, TypeOK, ContextOK
    <2> QED
      BY <1>11, <2>1, <2>2, <1>r, <1>m, <1>h
      DEF HandshakeDone, at_set_on_reader_closed, at_close, TypeOK
  <1>10. CASE CloseSignal(t)
    <2>1. PICK p \in SignalCommand : pc' = [p EXCEPT ![t] = "kick"]
      BY <1>10 DEF CloseSignal
    <2>2. pc' \in [Threads -> Points]
      BY <2>1, SignalTypes DEF TypeOK, ThreadOK, Points
    <2>3. ContextOK'
      BY <1>10 DEF CloseSignal, TypeOK, ContextOK
    <2> QED
      BY <1>10, <2>2, <2>3, <1>p, <1>r, <1>m, <1>h DEF CloseSignal, TypeOK
  <1> QED
    BY <1>1, <1>2, <1>3, <1>5, <1>6, <1>7, <1>8, <1>9, <1>10, <1>11 DEF ThreadStep

\* Every step of the reader thread keeps the types.
LEMMA ReaderTypes ==
  ASSUME TypeOK, ReaderStep
  PROVE  TypeOK'
  <1> USE AtChannelAssumption
  <1>c. UNCHANGED context => ContextOK'
    BY DEF TypeOK, ContextOK, context
  <1>t. UNCHANGED thread => ThreadOK'
    BY DEF TypeOK, ThreadOK, thread
  <1>m. UNCHANGED modem => ModemOK'
    BY DEF TypeOK, ModemOK, modem
  <1>h. UNCHANGED history => HistoryOK'
    BY DEF TypeOK, HistoryOK, history
  <1>1. CASE ReadEOF \/ ReadKicked \/ ReadClosed
    <2>1. ReaderFails
      BY <1>1 DEF ReadEOF, ReadKicked, ReadClosed
    <2>2. ReaderOK'
      BY <2>1 DEF ReaderFails, TypeOK, ReaderOK, ReaderPoints
    <2>3. HistoryOK'
      BY <2>1 DEF ReaderFails, TypeOK, HistoryOK
    <2> QED
      BY <2>1, <2>2, <2>3, <1>c, <1>t, <1>m DEF ReaderFails, TypeOK
  <1>2. CASE ReadLine \/ ReadSecondLine
    <2>1. fromModem # <<>>
      BY <1>2 DEF ReadLine, ReadSecondLine
    <2>2. Head(fromModem) \in Lines /\ Tail(fromModem) \in Seq(Lines)
      BY <2>1 DEF TypeOK, ModemOK
    <2>3. ModemOK'
      BY <1>2, <2>2 DEF ReadLine, ReadSecondLine, TypeOK, ModemOK
    <2>4. ReaderOK'
      BY <1>2, <2>2 DEF ReadLine, ReadSecondLine, TypeOK, ReaderOK, ReaderPoints
    <2>5. HistoryOK'
      BY <1>2, <1>h DEF ReadLine, ReadSecondLine, TypeOK, HistoryOK
    <2> QED
      BY <1>2, <2>3, <2>4, <2>5, <1>c, <1>t DEF ReadLine, ReadSecondLine, TypeOK
  <1>3. CASE processLine
    <2>1. rline \in Lines
      BY <1>3 DEF processLine, TypeOK, ReaderOK
    <2>2. response' \in Responses \cup {None}
      <3>1. CASE handleFinalResponse
        BY <3>1, <2>1 DEF handleFinalResponse, TypeOK, ContextOK, Responses
      <3>2. CASE handlePrompt
        BY <3>2 DEF handlePrompt, TypeOK, ContextOK, Responses
      <3>3. CASE keepIntermediate
        BY <3>3, <2>1, addIntermediateOK DEF keepIntermediate, TypeOK, ContextOK
      <3>4. CASE handleUnsolicited
        BY <3>4 DEF handleUnsolicited, TypeOK, ContextOK
      <3> QED
        BY <1>3, <3>1, <3>2, <3>3, <3>4 DEF processLine
    <2>3. pc' \in [Threads -> Points]
      BY <1>3, SignalTypes DEF processLine, handleFinalResponse, handlePrompt, keepIntermediate,
                               handleUnsolicited, TypeOK, ThreadOK
    <2>4. prompt' \in {"no", "shown", "passed"}
      BY <1>3 DEF processLine, handleFinalResponse, handlePrompt, keepIntermediate,
                  handleUnsolicited, TypeOK, ModemOK
    <2>5. leaked' \in BOOLEAN /\ mixed' \in BOOLEAN
      BY <1>3 DEF processLine, handleFinalResponse, handlePrompt, keepIntermediate,
                  handleUnsolicited, TypeOK, HistoryOK
    <2>6. ContextOK'
      BY <1>3, <2>2 DEF processLine, TypeOK, ContextOK
    <2>7. ThreadOK'
      BY <1>3, <2>3 DEF processLine, TypeOK, ThreadOK
    <2>8. ReaderOK'
      BY <1>3 DEF processLine, TypeOK, ReaderOK, ReaderPoints
    <2>9. ModemOK'
      BY <1>3, <2>4 DEF processLine, TypeOK, ModemOK
    <2>10. HistoryOK'
      BY <1>3, <2>5 DEF processLine, TypeOK, HistoryOK
    <2> QED
      BY <2>6, <2>7, <2>8, <2>9, <2>10 DEF TypeOK
  <1>4. CASE onReaderClosedTest \/ onReaderClosedCallback
    <2>1. ReaderOK'
      BY <1>4 DEF onReaderClosedTest, onReaderClosedCallback, TypeOK, ReaderOK, ReaderPoints
    <2> QED
      BY <1>4, <2>1, <1>c, <1>t, <1>m, <1>h
      DEF onReaderClosedTest, onReaderClosedCallback, TypeOK
  <1>5. CASE onReaderClosedMark
    <2>1. ReaderOK' /\ ContextOK'
      BY <1>5 DEF onReaderClosedMark, TypeOK, ReaderOK, ReaderPoints, ContextOK
    <2>2. ThreadOK'
      BY <1>5, SignalTypes DEF onReaderClosedMark, TypeOK, ThreadOK
    <2> QED
      BY <1>5, <2>1, <2>2, <1>m, <1>h DEF onReaderClosedMark, TypeOK
  <1> QED
    BY <1>1, <1>2, <1>3, <1>4, <1>5 DEF ReaderStep

\* Every step of the modem keeps the types.
LEMMA ModemTypes ==
  ASSUME TypeOK, ModemStep
  PROVE  TypeOK'
  <1> USE AtChannelAssumption
  <1> DEFINE Sent == [id : Nat, type : Types, prefix : Prefixes, sms : BOOLEAN]
  <1>1. UNCHANGED ModemOther => ContextOK' /\ ThreadOK' /\ ReaderOK' /\ HistoryOK'
    BY DEF ModemOther, TypeOK, ContextOK, ThreadOK, ReaderOK, HistoryOK, context, thread,
           reader, history
  <1>2. ASSUME toModem # <<>>
        PROVE  /\ Head(toModem) \in Sent /\ Tail(toModem) \in Seq(Sent)
               /\ Head(toModem).id \in Nat /\ Head(toModem).prefix \in Prefixes
    <2>1. Head(toModem) \in Sent /\ Tail(toModem) \in Seq(Sent)
      <3>1. toModem \in Seq(Sent)
        BY DEF TypeOK, ModemOK
      <3> HIDE DEF Sent
      <3> QED
        BY <3>1, <1>2
    <2> QED
      BY <2>1
  <1>3. ASSUME NEW kind \in {"final", "info", "prompt", "sms", "pdu"}, NEW ok \in BOOLEAN,
               NEW prefix \in Prefixes, NEW of \in Nat, NEW n \in Nat
        PROVE  Line(kind, ok, prefix, of, n) \in Lines
    BY DEF Line, Lines
  <1>i. infoSent \in Nat /\ infoSent + 1 \in Nat
    BY DEF TypeOK, ModemOK
  <1>e. ASSUME NEW l \in Lines, Emit(<<l>>)
        PROVE  fromModem' \in Seq(Lines)
    <2>1. <<l>> \in Seq(Lines)
      OBVIOUS
    <2> QED
      BY <2>1, <1>e, EmitOK
  <1>n. NoPrefix \in Prefixes
    OBVIOUS
  <1>4. CASE ModemInfo
    <2>1. Line("info", FALSE, Head(toModem).prefix, Head(toModem).id, infoSent + 1) \in Lines
      <3>1. toModem # <<>>
        BY <1>4 DEF ModemInfo
      <3> QED
        BY <3>1, <1>2, <1>3, <1>i
    <2>e. Emit(<<Line("info", FALSE, Head(toModem).prefix, Head(toModem).id, infoSent + 1)>>)
      BY <1>4 DEF ModemInfo
    <2>2. fromModem' \in Seq(Lines)
      BY <2>1, <2>e, <1>e
    <2>3. ModemOK'
      BY <1>4, <2>2 DEF ModemInfo, TypeOK, ModemOK
    <2> QED
      BY <1>4, <2>3, <1>1 DEF ModemInfo, TypeOK
  <1>5. CASE ModemPrompt
    <2>1. Line("prompt", FALSE, NoPrefix, Head(toModem).id, 0) \in Lines
      <3>1. toModem # <<>>
        BY <1>5 DEF ModemPrompt
      <3> QED
        BY <3>1, <1>2, <1>3, <1>n
    <2>e. Emit(<<Line("prompt", FALSE, NoPrefix, Head(toModem).id, 0)>>)
      BY <1>5 DEF ModemPrompt
    <2>2. fromModem' \in Seq(Lines)
      BY <2>1, <2>e, <1>e
    <2>3. ModemOK'
      BY <1>5, <2>2 DEF ModemPrompt, TypeOK, ModemOK
    <2> QED
      BY <1>5, <2>3, <1>1 DEF ModemPrompt, TypeOK
  <1>6. CASE ModemFinal
    <2>1. PICK ok \in BOOLEAN :
            Emit(<<Line("final", ok, Head(toModem).prefix, Head(toModem).id, infoSent)>>)
      BY <1>6 DEF ModemFinal
    <2>2. Line("final", ok, Head(toModem).prefix, Head(toModem).id, infoSent) \in Lines
      <3>1. toModem # <<>>
        BY <1>6 DEF ModemFinal
      <3> QED
        BY <3>1, <1>2, <1>3, <1>i
    <2>3. fromModem' \in Seq(Lines)
      BY <2>1, <2>2, <1>e
    <2>4. ModemOK'
      BY <1>6, <2>3, <1>2 DEF ModemFinal, TypeOK, ModemOK
    <2> QED
      BY <1>6, <2>4, <1>1 DEF ModemFinal, TypeOK
  <1>7. CASE ModemLose
    <2>1. ModemOK'
      BY <1>7, <1>2 DEF ModemLose, TypeOK, ModemOK
    <2> QED
      BY <1>7, <2>1, <1>1 DEF ModemLose, TypeOK
  <1>8. CASE ModemUnsolicited
    <2>2. fromModem' \in Seq(Lines)
      <3>1. \A p \in UnsolPrefixes : Line("info", FALSE, p, 0, 0) \in Lines
        BY <1>3
      <3>2. /\ Line("sms", FALSE, NoPrefix, 0, 0) \in Lines
            /\ Line("pdu", FALSE, NoPrefix, 0, 0) \in Lines
            /\ Line("final", FALSE, NoPrefix, 0, 0) \in Lines
        BY <1>3, <1>n
      <3>3. CASE \E p \in UnsolPrefixes : Emit(<<Line("info", FALSE, p, 0, 0)>>)
        BY <3>1, <3>3, <1>e
      <3>4. CASE Emit(<<Line("sms", FALSE, NoPrefix, 0, 0),
                        Line("pdu", FALSE, NoPrefix, 0, 0)>>)
        <4>1. <<Line("sms", FALSE, NoPrefix, 0, 0),
                Line("pdu", FALSE, NoPrefix, 0, 0)>> \in Seq(Lines)
          <5>1. ASSUME NEW a \in Lines, NEW b \in Lines PROVE <<a, b>> \in Seq(Lines)
            OBVIOUS
          <5> QED
            BY <5>1, <3>2
        <4> QED
          BY <4>1, <3>4, EmitOK
      <3>5. CASE Emit(<<Line("final", FALSE, NoPrefix, 0, 0)>>)
        BY <3>2, <3>5, <1>e
      <3> QED
        BY <1>8, <3>3, <3>4, <3>5 DEF ModemUnsolicited
    <2>3. ModemOK'
      BY <1>8, <2>2 DEF ModemUnsolicited, TypeOK, ModemOK
    <2> QED
      BY <1>8, <2>3, <1>1 DEF ModemUnsolicited, TypeOK
  <1>9. CASE ModemHangUp
    <2>1. ModemOK'
      BY <1>9 DEF ModemHangUp, TypeOK, ModemOK
    <2> QED
      BY <1>9, <2>1, <1>1 DEF ModemHangUp, TypeOK
  <1> QED
    BY <1>4, <1>5, <1>6, <1>7, <1>8, <1>9 DEF ModemStep

\* Types hold initially and are kept by every step.
LEMMA TypeInit == Init => TypeOK
  <1> SUFFICES ASSUME Init PROVE TypeOK
    OBVIOUS
  <1>1. <<>> \in Seq(Lines)
        /\ <<>> \in Seq([id : Nat, type : Types, prefix : Prefixes, sms : BOOLEAN])
    OBVIOUS
  <1>2. ContextOK /\ ReaderOK
    BY AtChannelAssumption DEF Init, ContextOK, ReaderOK, ReaderPoints
  <1>3. ThreadOK
    BY NoResultOK, AtChannelAssumption DEF Init, ThreadOK, Points
  <1>4. ModemOK /\ HistoryOK
    BY <1>1, AtChannelAssumption DEF Init, ModemOK, HistoryOK
  <1> QED
    BY <1>2, <1>3, <1>4 DEF TypeOK

LEMMA TypeStep == TypeOK /\ [Next]_vars => TypeOK'
  <1> SUFFICES ASSUME TypeOK, [Next]_vars PROVE TypeOK'
    OBVIOUS
  <1>1. CASE UNCHANGED vars
    BY <1>1 DEF vars, context, thread, reader, modem, history,
                TypeOK, ContextOK, ThreadOK, ReaderOK, ModemOK, HistoryOK
  <1> QED
    BY <1>1, ThreadTypes, ReaderTypes, ModemTypes DEF Next

LEMMA ControlInit == Init => Control
  BY AtChannelAssumption DEF Init, Control, OnePending, NoLostWakeup, Waiting, Points, NoResult

\* The type invariant of the channel: in every reachable state, for any threads,
\* commands and bounds, the context, threads, reader and modem are well typed.
THEOREM TypeCorrect == Spec => []TypeOK
  <1> QED
    BY TypeInit, TypeStep, PTL DEF Spec

\* requestmutex makes the command in flight unique: its holder is the one thread
\* that waits for the response, and AT_ERROR_COMMAND_PENDING is never returned.
THEOREM OneCommandPending == Spec => []OnePending
  <1>1. Control => OnePending
    BY DEF Control
  <1> QED
    BY <1>1, TypeInit, TypeStep, ControlInit, ControlStep, PTL DEF Spec

\* A thread never sleeps on commandcond after its final line or the end of the
\* channel, nor on requestcond while nobody is there to broadcast.
THEOREM WakeupsNotLost == Spec => []NoLostWakeup
  <1>1. Control => NoLostWakeup
    BY DEF Control
  <1> QED
    BY <1>1, TypeInit, TypeStep, ControlInit, ControlStep, PTL DEF Spec
============================================================================
