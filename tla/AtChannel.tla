----------------------------- MODULE AtChannel -----------------------------
(***************************************************************************)
(* The AT command channel of the MBM RIL, mbm/mbm-ril/atchannel.c: command *)
(* threads that share one struct atcontext, the reader thread that at_open *)
(* started, and the modem at the other end of the descriptor, for one      *)
(* session (at_open ... at_close).                                         *)
(*                                                                         *)
(* A critical section of commandmutex that neither sleeps nor waits is one *)
(* action; commandmutex is a variable because at_handshake keeps it across *)
(* its retries and across its pause.  The fields fd, readerClosed and      *)
(* onReaderClosed are read and written outside the mutex where the code    *)
(* does so.  Sleeping on a condition variable and being woken are          *)
(* different control points, so a lost wake-up would show.                 *)
(***************************************************************************)
EXTENDS Integers, Sequences, FiniteSets

CONSTANTS
  Threads,          \* threads whose getAtContext() is this context
  Owner,            \* the queue runner: it opened the channel and closes it
  None,             \* "nobody" for a mutex, NULL for a pointer
  Prefixes,         \* how lines begin
  Commands,         \* the commands callers issue: [type, prefix, sms]
  UnsolPrefixes,    \* prefixes of the modem's unsolicited lines
  MaxCalls,         \* bound: calls per thread
  HandshakeRetries, \* HANDSHAKE_RETRY_COUNT
  MaxInfo,          \* bound: lines the modem answers a MULTILINE command with
  MaxUnsol,         \* bound: unsolicited lines
  MaxLost,          \* bound: commands the modem never answers
  MaxWire           \* bound: lines the modem is ahead of the reader (flow control)

Types == {"NO_RESULT", "NUMERIC", "SINGLELINE", "MULTILINE"}

\* The first character of a NUMERIC answer, as a prefix of its own.
Digit == "digit"
NoPrefix == "none"

\* The ATE0Q0V1 of at_handshake, told apart from every caller's command.
HandshakeCommand == [type |-> "NO_RESULT", prefix |-> "handshake", sms |-> FALSE]

\* A line the modem sends, and ac->response with what belongs to its command.
Lines == [kind : {"final", "info", "prompt", "sms", "pdu"}, ok : BOOLEAN,
          prefix : Prefixes, of : Nat, n : Nat]

Responses == [id : Nat, type : Types, prefix : Prefixes, smsPDU : BOOLEAN,
              intermediates : Seq(Lines), final : Lines \cup {None}]

ASSUME AtChannelAssumption ==
  /\ Owner \in Threads
  /\ None \notin Threads
  /\ Commands \subseteq [type : Types, prefix : Prefixes, sms : BOOLEAN]
  /\ HandshakeCommand \notin Commands
  /\ UnsolPrefixes \subseteq Prefixes
  /\ {Digit, NoPrefix, HandshakeCommand.prefix} \subseteq Prefixes
  /\ \A c \in Commands : c.type = "NUMERIC" => c.prefix = Digit
  /\ MaxCalls \in Nat /\ MaxInfo \in Nat /\ MaxUnsol \in Nat /\ MaxLost \in Nat
  /\ MaxWire \in Nat
  /\ HandshakeRetries \in Nat \ {0}
  /\ None \notin Lines /\ None \notin Responses

VARIABLES
  fd,             \* TRUE while ac->fd >= 0
  readerClosed,   \* ac->readerClosed
  callbackSet,    \* ac->onReaderClosed != NULL
  commandmutex,   \* a thread between two of its steps, or None
  requestmutex,   \* the thread whose command is pending, or None
  response,       \* ac->response with type, responsePrefix and smsPDU, or None
  pc,             \* control point of each command thread
  call,           \* the command each thread is sending
  tries,          \* handshake attempts left
  calls,          \* calls made so far
  result,         \* what the last call of each thread returned
  rpc,            \* control point of the reader thread
  rline,          \* the line readline() returned
  kick,           \* a byte is in the readerCmdFds pipe
  toModem,        \* commands written and not yet answered
  fromModem,      \* lines the modem sent and the reader has not read
  infoSent,       \* lines sent in answer to the command at the head of toModem
  prompt,         \* SMS prompt of that command: "no", "shown", "passed"
  hup,            \* the stream ended at the modem's side
  unsolLeft,      \* unsolicited lines the modem may still send
  lostLeft,       \* commands it may still drop
  sent,           \* history: commands written so far; the last one's id
  abandoned,      \* history: commands that ended without the final line of any
  leaked,         \* history: the handler got a line that answers a command
  mixed,          \* history: an unsolicited line was kept as an intermediate
  streamClosed    \* history: readline() failed before at_close() was entered

thread   == <<pc, call, tries, calls, result>>
reader   == <<rpc, rline, kick>>
modem    == <<toModem, fromModem, infoSent, prompt, hup, unsolLeft, lostLeft>>
history  == <<sent, abandoned, leaked, mixed, streamClosed>>
context  == <<fd, readerClosed, callbackSet, commandmutex, requestmutex, response>>
vars     == <<context, thread, reader, modem, history>>

----------------------------------------------------------------------------
\* Lines.  `of` is the id of the command a line answers, 0 for an unsolicited
\* line; `n` numbers the lines that answer one command, and the final line
\* carries how many there were (and the prefix of its command, for the record).
Line(kind, ok, prefix, of, n) ==
  [kind |-> kind, ok |-> ok, prefix |-> prefix, of |-> of, n |-> n]

\* What a call in progress has returned so far.
NoResult == [err |-> "none", id |-> 0, final |-> None, lines |-> <<>>]

\* Variant: an intermediate line taken for a result code.
isFinalResponse_TooWide(line) == line.kind \in {"final", "info"}

\* isFinalResponseSuccess, isFinalResponseError
isFinalResponse(line) == line.kind = "final"

\* isSMSUnsolicited: +CMT:, +CDS: and +CBM: announce a second line.
isSMSUnsolicited(line) == line.kind = "sms"

\* Variant: MULTILINE stops after its first line, like SINGLELINE.
isIntermediate_FirstOnly(line) ==
  /\ response.intermediates = <<>>
  /\ response.type # "NO_RESULT"
  /\ line.prefix = response.prefix

\* The branches of processLine that keep a line as an intermediate response.
isIntermediate(line) ==
  LET first == response.intermediates = <<>> IN
  \/ response.type = "NUMERIC"    /\ first /\ line.prefix = Digit
  \/ response.type = "SINGLELINE" /\ first /\ line.prefix = response.prefix
  \/ response.type = "MULTILINE"  /\ line.prefix = response.prefix

\* addIntermediate puts the line at the head of the list.
addIntermediate(line) ==
  [response EXCEPT !.intermediates = <<line>> \o @]

\* Variant: the list is handed out as the reader built it.
reverseIntermediates_Not(s) == s

\* reverseIntermediates flips the list back before the caller sees it.
reverseIntermediates(s) == [i \in 1..Len(s) |-> s[Len(s) + 1 - i]]

\* at_send_command_singleline, _numeric and _sms: a success needs an
\* intermediate response.
checkIntermediate(c, err, r) ==
  IF /\ err = "0"
     /\ c.type \in {"SINGLELINE", "NUMERIC"}
     /\ r.final.ok /\ r.intermediates = <<>>
  THEN "INVALID_RESPONSE"
  ELSE err

\* pthread_cond_signal(&ac->commandcond): one sleeper wakes, if there is one.
Sleepers == {t \in Threads : pc[t] = "commandcond"}

\* Variant: the signal is forgotten.
SignalCommand_Nobody == {pc}

\* The control points after `signal` on commandcond: the set of possible pc.
SignalCommand ==
  IF Sleepers = {} THEN {pc}
  ELSE {[pc EXCEPT ![t] = "woken"] : t \in Sleepers}

\* Variant: the broadcast is forgotten.
BroadcastRequest_Nobody(p) == p

\* pthread_cond_broadcast(&ac->requestcond)
BroadcastRequest(p) ==
  [t \in Threads |-> IF p[t] = "requestcond" THEN "enter" ELSE p[t]]

----------------------------------------------------------------------------
\* Where a caller of at_send_command_full_nolock goes on: at_handshake pauses, or
\* tries again; at_send_command_full reports a timeout, or returns.
AfterReturn(t, err) ==
  IF call[t] = HandshakeCommand
  THEN IF err = "0" THEN "pause" ELSE IF tries[t] > 1 THEN "retry" ELSE "idle"
  ELSE IF err = "TIMEOUT" THEN "ontimeout" ELSE "idle"

\* The common exit of at_send_command_full_nolock: clearPendingCommand,
\* broadcast, unlock requestmutex.  at_handshake keeps commandmutex for its next
\* attempt and its pause, at_send_command_full releases it.
Return(t, err) ==
  LET c    == call[t]
      r    == response
      next == AfterReturn(t, err)
  IN  /\ response' = None
      /\ requestmutex' = None
      /\ commandmutex' = IF next \in {"pause", "retry"} THEN t ELSE None
      /\ pc' = [BroadcastRequest(pc) EXCEPT ![t] = next]
      /\ tries' = [tries EXCEPT ![t] = IF next = "retry" THEN @ - 1 ELSE 0]
      /\ result' = [result EXCEPT ![t] =
           IF r = None
           THEN [NoResult EXCEPT !.err = err]
           ELSE [err |-> checkIntermediate(c, err, r), id |-> r.id, final |-> r.final,
                 lines |-> reverseIntermediates(r.intermediates)]]
      /\ abandoned' = IF r # None /\ (r.final = None \/ r.final.of = 0)
                      THEN abandoned + 1 ELSE abandoned
      /\ UNCHANGED <<fd, readerClosed, callbackSet, call, calls>>

----------------------------------------------------------------------------
(* Command threads *)

\* at_handshake() < 0: the runner (initializeCommon) only closes the channel then.
HandshakeFailed(t) ==
  call[t] = HandshakeCommand /\ result[t].err \notin {"none", "0"}

\* at_send_command*() on a thread that is not the reader.
at_send_command(t, c) ==
  /\ pc[t] = "idle" /\ calls[t] < MaxCalls /\ callbackSet
  /\ t = Owner => fd /\ ~HandshakeFailed(t)
  /\ calls' = [calls EXCEPT ![t] = @ + 1]
  /\ call' = [call EXCEPT ![t] = c]
  /\ result' = [result EXCEPT ![t] = NoResult]
  /\ pc' = [pc EXCEPT ![t] = "enter"]
  /\ UNCHANGED <<context, tries, reader, modem, history>>

\* Variant: the retry loop runs once too often.
at_handshake_OnceMore(t) ==
  /\ t = Owner /\ pc[t] = "idle" /\ calls[t] < MaxCalls /\ callbackSet /\ fd
  /\ calls' = [calls EXCEPT ![t] = @ + 1]
  /\ call' = [call EXCEPT ![t] = HandshakeCommand]
  /\ tries' = [tries EXCEPT ![t] = HandshakeRetries + 1]
  /\ result' = [result EXCEPT ![t] = NoResult]
  /\ pc' = [pc EXCEPT ![t] = "enter"]
  /\ UNCHANGED <<context, reader, modem, history>>

\* at_handshake(): the runner calls it when it has opened the channel.
at_handshake(t) ==
  /\ t = Owner /\ pc[t] = "idle" /\ calls[t] < MaxCalls /\ callbackSet /\ fd
  /\ calls' = [calls EXCEPT ![t] = @ + 1]
  /\ call' = [call EXCEPT ![t] = HandshakeCommand]
  /\ tries' = [tries EXCEPT ![t] = HandshakeRetries]
  /\ result' = [result EXCEPT ![t] = NoResult]
  /\ pc' = [pc EXCEPT ![t] = "enter"]
  /\ UNCHANGED <<context, reader, modem, history>>

\* Variant: the internal function is entered without the lock.
HasCommandMutex_Unlocked(t) == pc[t] \in {"enter", "retry"}

\* commandmutex is free, or the handshake kept it from its last attempt.
HasCommandMutex(t) ==
  \/ pc[t] = "enter" /\ commandmutex = None
  \/ pc[t] = "retry" /\ commandmutex = t

\* pthread_mutex_trylock(&ac->requestmutex) == EBUSY: wait on requestcond.
WaitRequest(t) ==
  /\ HasCommandMutex(t)
  /\ requestmutex # None
  /\ pc' = [pc EXCEPT ![t] = "requestcond"]
  /\ commandmutex' = None
  /\ UNCHANGED <<fd, readerClosed, callbackSet, requestmutex, response,
                 call, tries, calls, result, reader, modem, history>>

\* The request mutex is taken and the command cannot be written: another
\* response is pending, the channel is closed, or write() fails on a stream
\* that ended.
SendFails(t) ==
  /\ HasCommandMutex(t)
  /\ requestmutex = None
  /\ \/ response # None /\ Return(t, "COMMAND_PENDING")
     \/ response = None /\ (~fd \/ readerClosed) /\ Return(t, "CHANNEL_CLOSED")
     \/ response = None /\ ~readerClosed /\ (hup \/ ~fd) /\ Return(t, "GENERIC")
  /\ UNCHANGED <<reader, modem, sent, leaked, mixed, streamClosed>>

\* writeline() succeeds, the response is allocated and the thread sleeps on
\* commandcond, which releases commandmutex.
SendCommand(t) ==
  LET c == call[t] IN
  /\ HasCommandMutex(t)
  /\ requestmutex = None
  /\ response = None /\ fd /\ ~readerClosed
  /\ requestmutex' = t
  /\ commandmutex' = None
  /\ sent' = sent + 1
  /\ response' = [id |-> sent + 1, type |-> c.type, prefix |-> c.prefix,
                  smsPDU |-> c.sms, intermediates |-> <<>>, final |-> None]
  /\ toModem' = Append(toModem, [id |-> sent + 1, type |-> c.type,
                                 prefix |-> c.prefix, sms |-> c.sms])
  /\ pc' = [pc EXCEPT ![t] = "commandcond"]
  /\ UNCHANGED <<fd, readerClosed, callbackSet, call, tries, calls, result, reader,
                 fromModem, infoSent, prompt, hup, unsolLeft, lostLeft, abandoned,
                 leaked, mixed, streamClosed>>

\* Woken with commandmutex again: the loop condition holds no more, and the
\* response goes to the caller.
Complete(t) ==
  /\ pc[t] = "woken" /\ commandmutex = None
  /\ response.final # None \/ readerClosed
  /\ Return(t, IF readerClosed THEN "CHANNEL_CLOSED" ELSE "0")
  /\ UNCHANGED <<reader, modem, sent, leaked, mixed, streamClosed>>

\* POSIX lets a thread wake up without a signal.
SpuriousWakeup(t) ==
  /\ pc[t] \in {"commandcond", "requestcond"}
  /\ pc' = [pc EXCEPT ![t] = IF @ = "commandcond" THEN "woken" ELSE "enter"]
  /\ UNCHANGED <<context, call, tries, calls, result, reader, modem, history>>

\* Woken for nothing: the loop waits again.
WaitAgain(t) ==
  /\ pc[t] = "woken" /\ commandmutex = None
  /\ response.final = None /\ ~readerClosed
  /\ pc' = [pc EXCEPT ![t] = "commandcond"]
  /\ UNCHANGED <<context, call, tries, calls, result, reader, modem, history>>

\* The timed wait ends with ETIMEDOUT; the thread has to get commandmutex
\* back before it can act on it.
Timeout(t) ==
  /\ pc[t] = "commandcond"
  /\ pc' = [pc EXCEPT ![t] = "timedout"]
  /\ UNCHANGED <<context, call, tries, calls, result, reader, modem, history>>

\* err == ETIMEDOUT: the answer is not looked at again, even if it has come.
GiveUp(t) ==
  /\ pc[t] = "timedout" /\ commandmutex = None
  /\ Return(t, "TIMEOUT")
  /\ UNCHANGED <<reader, modem, sent, leaked, mixed, streamClosed>>

\* ac->onTimeout(), which is onATTimeout: at_send_escape, and the queues are
\* told to close; the channel itself stays open.
onATTimeout(t) ==
  /\ pc[t] = "ontimeout"
  /\ pc' = [pc EXCEPT ![t] = "idle"]
  /\ prompt' = IF fd /\ prompt = "shown" THEN "passed" ELSE prompt
  /\ UNCHANGED <<context, call, tries, calls, result, reader, toModem, fromModem,
                 infoSent, hup, unsolLeft, lostLeft, history>>

\* The end of at_handshake: the pause is over and commandmutex is released.
HandshakeDone(t) ==
  /\ pc[t] = "pause"
  /\ pc' = [pc EXCEPT ![t] = "idle"]
  /\ commandmutex' = None
  /\ UNCHANGED <<fd, readerClosed, callbackSet, requestmutex, response, call, tries,
                 calls, result, reader, modem, history>>

\* The runner, back from at_open: at_set_on_reader_closed, at_set_on_timeout.
at_set_on_reader_closed(t) ==
  /\ t = Owner /\ ~callbackSet
  /\ callbackSet' = TRUE
  /\ UNCHANGED <<fd, readerClosed, commandmutex, requestmutex, response, thread,
                 reader, modem, history>>

\* at_close(), first part: close(ac->fd); ac->fd = -1, without the mutex.
at_close(t) ==
  /\ t = Owner /\ pc[t] = "idle" /\ callbackSet /\ fd
  /\ fd' = FALSE
  /\ pc' = [pc EXCEPT ![t] = "closing"]
  /\ UNCHANGED <<readerClosed, callbackSet, commandmutex, requestmutex, response,
                 call, tries, calls, result, reader, modem, history>>

\* at_close(), second part: under commandmutex, readerClosed and the signal.
CloseSignal(t) ==
  /\ pc[t] = "closing" /\ commandmutex = None
  /\ readerClosed' = TRUE
  /\ \E p \in SignalCommand : pc' = [p EXCEPT ![t] = "kick"]
  /\ UNCHANGED <<fd, callbackSet, commandmutex, requestmutex, response, call, tries,
                 calls, result, reader, modem, history>>

\* at_close(), last part: kick the reader out of poll().
CloseKick(t) ==
  /\ pc[t] = "kick"
  /\ kick' = TRUE
  /\ pc' = [pc EXCEPT ![t] = "idle"]
  /\ UNCHANGED <<context, call, tries, calls, result, rpc, rline, modem, history>>

----------------------------------------------------------------------------
(* The reader thread *)

\* readline() returns NULL: the reader leaves its loop.  A two-line message of
\* which only the first line came is dropped here.
ReaderFails ==
  /\ rpc \in {"read", "second"}
  /\ rpc' = "eof"
  /\ streamClosed' = (streamClosed \/ fd)
  /\ UNCHANGED <<context, thread, rline, kick, modem, sent, abandoned, leaked, mixed>>

\* readline() has a full line, from its buffer or from the descriptor.  What the
\* buffer holds when the descriptor is closed is still read.
ReadLine ==
  LET line == Head(fromModem) IN
  /\ rpc = "read" /\ fromModem # <<>>
  /\ fromModem' = Tail(fromModem)
  /\ \/ isSMSUnsolicited(line)  /\ rpc' = "second"  /\ rline' = None
     \/ ~isSMSUnsolicited(line) /\ rpc' = "process" /\ rline' = line
  /\ UNCHANGED <<context, thread, kick, toModem, infoSent, prompt, hup, unsolLeft,
                 lostLeft, history>>

\* The second line of a message: both go to the handler, without commandmutex.
ReadSecondLine ==
  /\ rpc = "second" /\ fromModem # <<>>
  /\ fromModem' = Tail(fromModem)
  /\ leaked' = (leaked \/ Head(fromModem).of # 0)
  /\ rpc' = "read"
  /\ UNCHANGED <<context, thread, rline, kick, toModem, infoSent, prompt, hup,
                 unsolLeft, lostLeft, sent, abandoned, mixed, streamClosed>>

\* The stream ended and nothing is left to read.
ReadEOF == hup /\ fromModem = <<>> /\ ReaderFails

\* at_close kicked the reader out of poll(): it finds ac->fd < 0.
ReadKicked == kick /\ ReaderFails

\* The reader was not in poll() when the descriptor went: it finds ac->fd < 0
\* without the kick.
ReadClosed == ~fd /\ ReaderFails

\* handleFinalResponse: keep the line and signal the command thread.
handleFinalResponse ==
  /\ response # None /\ isFinalResponse(rline)
  /\ response' = [response EXCEPT !.final = rline]
  /\ pc' \in SignalCommand
  /\ UNCHANGED <<prompt, leaked, mixed>>

\* The "> " prompt of a command with a PDU: writeCtrlZ, once.
handlePrompt ==
  /\ response # None /\ rline.kind = "prompt" /\ response.smsPDU
  /\ response' = [response EXCEPT !.smsPDU = FALSE]
  /\ prompt' = IF fd /\ ~readerClosed /\ ~hup /\ prompt = "shown" THEN "passed" ELSE prompt
  /\ UNCHANGED <<pc, leaked, mixed>>

keepIntermediate ==
  /\ response # None /\ rline.kind = "info" /\ isIntermediate(rline)
  /\ response' = addIntermediate(rline)
  /\ mixed' = (mixed \/ rline.of = 0)
  /\ UNCHANGED <<pc, prompt, leaked>>

\* handleUnsolicited: no command is pending, or the line is not part of its
\* answer.
handleUnsolicited ==
  /\ \/ response = None
     \/ /\ response # None
        /\ ~isFinalResponse(rline)
        /\ ~(rline.kind = "prompt" /\ response.smsPDU)
        /\ ~(rline.kind = "info" /\ isIntermediate(rline))
  /\ leaked' = (leaked \/ rline.of # 0)
  /\ UNCHANGED <<response, pc, prompt, mixed>>

\* processLine: the whole function runs under commandmutex.
processLine ==
  /\ rpc = "process" /\ commandmutex = None
  /\ handleFinalResponse \/ handlePrompt \/ keepIntermediate \/ handleUnsolicited
  /\ rpc' = "read" /\ rline' = None
  /\ UNCHANGED <<fd, readerClosed, callbackSet, commandmutex, requestmutex, call,
                 tries, calls, result, kick, toModem, fromModem, infoSent, hup,
                 unsolLeft, lostLeft, sent, abandoned, streamClosed>>

\* onReaderClosed(): the test of the callback and of readerClosed is made
\* before the mutex is taken.
onReaderClosedTest ==
  /\ rpc = "eof"
  /\ rpc' = IF callbackSet /\ ~readerClosed THEN "mark" ELSE "exited"
  /\ UNCHANGED <<context, thread, rline, kick, modem, history>>

onReaderClosedMark ==
  /\ rpc = "mark" /\ commandmutex = None
  /\ readerClosed' = TRUE
  /\ pc' \in SignalCommand
  /\ rpc' = "callback"
  /\ UNCHANGED <<fd, callbackSet, commandmutex, requestmutex, response, call, tries,
                 calls, result, rline, kick, modem, history>>

onReaderClosedCallback ==
  /\ rpc = "callback"
  /\ rpc' = "exited"
  /\ UNCHANGED <<context, thread, rline, kick, modem, history>>

----------------------------------------------------------------------------
(* The modem, as the channel's code expects it: it answers commands in the *)
(* order they were written, may send unsolicited lines between any two     *)
(* lines, may be slow, may drop a command, and may go away.                *)

Emit(lines) ==
  /\ ~hup /\ fd
  /\ Len(fromModem) + Len(lines) <= MaxWire
  /\ fromModem' = fromModem \o lines

ModemOther == <<context, thread, reader, history>>

\* A line of the answer.
ModemInfo ==
  /\ toModem # <<>>
  /\ LET c == Head(toModem) IN
     /\ c.type # "NO_RESULT"
     /\ infoSent < IF c.type = "MULTILINE" THEN MaxInfo ELSE 1
     /\ c.sms => prompt = "passed"
     /\ Emit(<<Line("info", FALSE, c.prefix, c.id, infoSent + 1)>>)
  /\ infoSent' = infoSent + 1
  /\ UNCHANGED <<ModemOther, toModem, prompt, hup, unsolLeft, lostLeft>>

\* The "> " prompt of AT+CMGS.
ModemPrompt ==
  /\ toModem # <<>>
  /\ Head(toModem).sms /\ prompt = "no"
  /\ Emit(<<Line("prompt", FALSE, NoPrefix, Head(toModem).id, 0)>>)
  /\ prompt' = "shown"
  /\ UNCHANGED <<ModemOther, toModem, infoSent, hup, unsolLeft, lostLeft>>

\* The final result code.
ModemFinal ==
  /\ toModem # <<>>
  /\ LET c == Head(toModem) IN
     \E ok \in BOOLEAN :
       /\ ok /\ c.sms => prompt = "passed"
       /\ ~ok => infoSent = 0
       /\ Emit(<<Line("final", ok, c.prefix, c.id, infoSent)>>)
  /\ toModem' = Tail(toModem)
  /\ infoSent' = 0 /\ prompt' = "no"
  /\ UNCHANGED <<ModemOther, hup, unsolLeft, lostLeft>>

\* A command that is never answered.
ModemLose ==
  /\ toModem # <<>> /\ lostLeft > 0
  /\ toModem' = Tail(toModem)
  /\ infoSent' = 0 /\ prompt' = "no"
  /\ lostLeft' = lostLeft - 1
  /\ UNCHANGED <<ModemOther, fromModem, hup, unsolLeft>>

\* Unsolicited lines: one line, a two-line message, or a result code such as
\* NO CARRIER, of which the code warns that it is "sometimes unsolicited".
ModemUnsolicited ==
  /\ unsolLeft > 0
  /\ \/ \E p \in UnsolPrefixes : Emit(<<Line("info", FALSE, p, 0, 0)>>)
     \/ Emit(<<Line("sms", FALSE, NoPrefix, 0, 0), Line("pdu", FALSE, NoPrefix, 0, 0)>>)
     \/ Emit(<<Line("final", FALSE, NoPrefix, 0, 0)>>)
  /\ unsolLeft' = unsolLeft - 1
  /\ UNCHANGED <<ModemOther, toModem, infoSent, prompt, hup, lostLeft>>

ModemHangUp ==
  /\ ~hup
  /\ hup' = TRUE
  /\ UNCHANGED <<ModemOther, toModem, fromModem, infoSent, prompt, unsolLeft, lostLeft>>

----------------------------------------------------------------------------
\* at_open() has returned: the reader runs.  The callback is still set when an
\* earlier session on the same context set it.
Init ==
  /\ fd = TRUE /\ readerClosed = FALSE /\ callbackSet \in BOOLEAN
  /\ commandmutex = None /\ requestmutex = None /\ response = None
  /\ pc = [t \in Threads |-> "idle"]
  /\ call = [t \in Threads |-> HandshakeCommand]
  /\ tries = [t \in Threads |-> 0]
  /\ calls = [t \in Threads |-> 0]
  /\ result = [t \in Threads |-> NoResult]
  /\ rpc = "read" /\ rline = None /\ kick = FALSE
  /\ toModem = <<>> /\ fromModem = <<>> /\ infoSent = 0 /\ prompt = "no"
  /\ hup = FALSE /\ unsolLeft = MaxUnsol /\ lostLeft = MaxLost
  /\ sent = 0 /\ abandoned = 0 /\ leaked = FALSE /\ mixed = FALSE
  /\ streamClosed = FALSE

ThreadStep(t) ==
  \/ \E c \in Commands : at_send_command(t, c)
  \/ at_handshake(t)
  \/ WaitRequest(t) \/ SendFails(t) \/ SendCommand(t)
  \/ Complete(t) \/ SpuriousWakeup(t) \/ WaitAgain(t) \/ Timeout(t) \/ GiveUp(t)
  \/ onATTimeout(t) \/ HandshakeDone(t)
  \/ at_set_on_reader_closed(t)
  \/ at_close(t) \/ CloseSignal(t) \/ CloseKick(t)

ReaderStep ==
  \/ ReadLine \/ ReadSecondLine \/ ReadEOF \/ ReadKicked \/ ReadClosed
  \/ processLine
  \/ onReaderClosedTest \/ onReaderClosedMark \/ onReaderClosedCallback

ModemStep ==
  \/ ModemInfo \/ ModemPrompt \/ ModemFinal \/ ModemLose
  \/ ModemUnsolicited \/ ModemHangUp

Next == (\E t \in Threads : ThreadStep(t)) \/ ReaderStep \/ ModemStep

Spec == Init /\ [][Next]_vars

\* What runs does run: the steps of a thread that has been called, of the reader
\* and of a modem that is there.  Callers need not call, the stream need not
\* end, and nothing here relies on a timeout.
Fairness ==
  /\ \A t \in Threads :
       WF_vars(\/ WaitRequest(t) \/ SendFails(t) \/ SendCommand(t)
               \/ Complete(t) \/ WaitAgain(t) \/ GiveUp(t) \/ onATTimeout(t)
               \/ HandshakeDone(t) \/ CloseSignal(t) \/ CloseKick(t))
  /\ WF_vars(at_set_on_reader_closed(Owner))
  /\ WF_vars(\/ ReadLine \/ ReadSecondLine \/ ReadEOF \/ ReadKicked \/ processLine
             \/ onReaderClosedTest \/ onReaderClosedMark \/ onReaderClosedCallback)
  /\ WF_vars(ModemFinal) /\ WF_vars(ModemPrompt)

FairSpec == Spec /\ Fairness

----------------------------------------------------------------------------
(* Properties *)

Points == {"idle", "enter", "retry", "requestcond", "commandcond", "woken",
           "timedout", "ontimeout", "pause", "closing", "kick"}

ReaderPoints == {"read", "second", "process", "eof", "mark", "callback", "exited"}

Errors == {"none", "0", "COMMAND_PENDING", "CHANNEL_CLOSED", "GENERIC", "TIMEOUT",
           "INVALID_RESPONSE"}

ContextOK ==
  /\ fd \in BOOLEAN /\ readerClosed \in BOOLEAN /\ callbackSet \in BOOLEAN
  /\ commandmutex \in Threads \cup {None}
  /\ requestmutex \in Threads \cup {None}
  /\ response \in Responses \cup {None}

ThreadOK ==
  /\ pc \in [Threads -> Points]
  /\ call \in [Threads -> Commands \cup {HandshakeCommand}]
  /\ tries \in [Threads -> 0..HandshakeRetries]
  /\ calls \in [Threads -> Nat]
  /\ result \in [Threads -> [err : Errors, id : Nat, final : Lines \cup {None},
                             lines : Seq(Lines)]]

ReaderOK ==
  /\ rpc \in ReaderPoints
  /\ rline \in Lines \cup {None}
  /\ rpc = "process" => rline # None
  /\ kick \in BOOLEAN

ModemOK ==
  /\ toModem \in Seq([id : Nat, type : Types, prefix : Prefixes, sms : BOOLEAN])
  /\ fromModem \in Seq(Lines)
  /\ infoSent \in Nat
  /\ prompt \in {"no", "shown", "passed"}
  /\ hup \in BOOLEAN /\ unsolLeft \in Nat /\ lostLeft \in Nat

HistoryOK ==
  /\ sent \in Nat /\ abandoned \in Nat
  /\ leaked \in BOOLEAN /\ mixed \in BOOLEAN /\ streamClosed \in BOOLEAN

\* Every field of the context, thread, reader and modem state has the type the
\* code gives it; a line is at hand whenever processLine is entered, and the
\* handshake never has more than HANDSHAKE_RETRY_COUNT attempts left.
TypeOK == ContextOK /\ ThreadOK /\ ReaderOK /\ ModemOK /\ HistoryOK

\* The control points at which a thread has a command pending.
Waiting(t) == pc[t] \in {"commandcond", "woken", "timedout"}

\* requestmutex does what its FIXME asks of it: a response is pending exactly
\* while one thread, its holder, waits for it, so that no thread frees the
\* response of another (AT_ERROR_COMMAND_PENDING is never returned), and only
\* at_handshake keeps commandmutex between two steps.
OnePending ==
  /\ response = None <=> requestmutex = None
  /\ \A t \in Threads : Waiting(t) <=> requestmutex = t
  /\ \A t \in Threads : commandmutex = t <=> pc[t] \in {"retry", "pause"}
  /\ \A t \in Threads : result[t].err # "COMMAND_PENDING"

\* No wake-up is lost: a thread sleeps on commandcond only while its final line
\* is missing and the channel is open, and on requestcond only while another
\* thread holds requestmutex and will broadcast.
NoLostWakeup ==
  /\ \A t \in Threads : pc[t] = "commandcond" =>
       response # None /\ response.final = None /\ ~readerClosed
  /\ \A t \in Threads : pc[t] = "requestcond" => requestmutex # None

\* A call that succeeds got its own final line, unless commands before it were
\* abandoned (a timeout, or a stray result code taken for the answer): then it
\* may get the answer of an earlier one, at most as many commands back as were
\* abandoned, and never the answer of a later command.
ResponseLag ==
  \A t \in Threads :
    LET r == result[t] IN
    r.err \in {"0", "INVALID_RESPONSE"} /\ r.final.of # 0
      => r.final.of \in (r.id - abandoned)..r.id

\* While no command was abandoned, the lines a successful MULTILINE call hands
\* out hold every line the modem answered with, in the order it sent them.
AnswerInOrder ==
  \A t \in Threads :
    LET r   == result[t]
        own == {i \in 1..Len(r.lines) : r.lines[i].of = r.id}
    IN  abandoned = 0 /\ r.err = "0" /\ call[t].type = "MULTILINE"
        => /\ {r.lines[i].n : i \in own} = 1..r.final.n
           /\ \A i, j \in own : i < j => r.lines[i].n < r.lines[j].n
           /\ \A i \in 1..Len(r.lines) : r.lines[i].of \in {0, r.id}

\* A line that answers a command reaches the unsolicited handler only when a
\* command was abandoned or an unsolicited line with the command's own prefix
\* was taken for the answer.
NoLeak == leaked => abandoned > 0 \/ mixed

\* Every call returns although the waits were without limit: the answer, the
\* end of the stream or at_close wakes the pending thread, and its broadcast the
\* threads behind it.  Two exceptions are left to the timeout: a command the
\* modem dropped, and a reader that ended before at_set_on_reader_closed was
\* called, which leaves readerClosed at 0.
CallsReturn ==
  \A t \in Threads :
    pc[t] # "idle" ~> \/ pc[t] = "idle"
                      \/ lostLeft < MaxLost
                      \/ rpc = "exited" /\ ~readerClosed

\* No call that is not a handshake is answered by a line the handshake was sent.
NotAnsweredByHandshake ==
  \A t \in Threads :
    pc[t] = "idle" /\ result[t].err = "0" /\ call[t] # HandshakeCommand
      => result[t].final.prefix # HandshakeCommand.prefix

\* "Pause for a bit to let the input buffer drain any unmatched OK's (they will
\* appear as extraneous unsolicited responses)": an OK that the reader holds while
\* at_handshake pauses is never the answer of a later command.
HandshakeDrained ==
  [](pc[Owner] = "pause" /\ rpc = "process" => []NotAnsweredByHandshake)

\* The callback runs "when the input stream closes before you call at_close (not
\* when you call at_close())".
CallbackOnlyOnStreamClose == rpc = "callback" => streamClosed
============================================================================
