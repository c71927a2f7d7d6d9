--------------------------- MODULE HandlersProofs ---------------------------
(***************************************************************************)
(* What the request handlers keep to, for any workload: every request is   *)
(* completed once, no answer is fatal but the ones named, the screen lock  *)
(* is released, a silent screen stays silent, a file is read from where it *)
(* was asked for.  All of it rests on one invariant, which says what a     *)
(* task is at each control point; a step of one handler leaves the points  *)
(* of the others alone.                                                    *)
(***************************************************************************)
EXTENDS RilHandlers, SequenceTheorems, TLAPS

(* The control points of each handler. *)
ScreenPoints == {"screen", "report"}
RegistrationPoints == {"reg", "on", "query", "reason?", "erinfo", "cgeqneg", "answer"}
RegPoints == ScreenPoints \cup RegistrationPoints \cup {"off", "cops=0", "cops?"}
SetupPoints == {"setup", "cgdcont", "cscs?", "ucs2", "eiaauw", "cscs", "enap", "wait", "ipcfg",
                "config", "recheck", "error", "down"}
DeactivatePoints == {"enap?", "enap=0", "poll", "ifdown"}
DataPoints == SetupPoints \cup DeactivatePoints
CardPoints == {"cpin", "cardtype"}
FilePoints == {"type", "type2", "crsm", "channel", "cuad", "ccho", "select", "cgla"}
SimPoints == CardPoints \cup FilePoints
\* Where a handler may be left or taken up.
Between == {"idle", "return", "crash"}

IsTask(t) ==
  t \in [req : {t.req}, pc : {t.pc}, arg : {t.arg}, n : Nat, resp : Responses, done : Nat]
AreTasks(f) == f \in [Queues -> {f[q] : q \in Queues}] /\ \A q \in Queues : IsTask(f[q])

Events == [req : SimpleEvents \cup {"pollOperatorSelected"}, n : Nat]
DueTypeOK == due \in [Queues -> Seq(Events)]

\* Which request is in hand at which point.
RequestOK(t) ==
  /\ t.pc = "send" => t.req \in SimpleKinds
  /\ t.pc \in ScreenPoints => t.req = "SCREEN_STATE"
  /\ t.pc \in RegistrationPoints \cup {"off"} => t.req \in Registrations
  /\ t.pc \in {"erinfo", "cgeqneg"} => t.req = "GPRS_REGISTRATION_STATE"
  /\ t.pc = "cops=0" => t.req = "SET_NETWORK_SELECTION_AUTOMATIC"
  /\ t.pc = "cops?" => t.req = "pollOperatorSelected"
  /\ t.pc \in SetupPoints => t.req = "SETUP_DATA_CALL"
  /\ t.pc \in DeactivatePoints => t.req = "DEACTIVATE_DATA_CALL"
  /\ t.pc \in FilePoints => t.req = "SIM_IO"
  /\ t.pc \in CardPoints => t.req = "GET_SIM_STATUS"
  /\ t.pc = "ack" => t.req = "SMS_ACKNOWLEDGE"

\* How often it has been completed there.
DoneOK(t) ==
  /\ t.pc \notin Between \cup {"off"} => t.done = 0
  /\ t.pc \in RegistrationPoints \cup {"send", "cops=0", "cops?"} => t.arg = "none"
  /\ t.pc = "off" =>
       \/ t.done = 1 /\ t.arg = "none"
       \/ t.done = 0 /\ t.arg = "malformed" /\ t.req = "GPRS_REGISTRATION_STATE"
  /\ t.pc = "return" => t.done \in Completions(t)

\* The command a handler of SimpleRequests is at, and the response it holds there.
CommandOK(t) ==
  t.pc = "send" => t.n \in 1..Len(Handler[t.req]) /\ t.resp = Handler[t.req][t.n].before

CrashOK(t) == t.pc = "crash" => t.arg \in NotHandled(t.req)

TaskOK(t) == RequestOK(t) /\ DoneOK(t) /\ CommandOK(t) /\ CrashOK(t)
Tasks == AreTasks(task) /\ \A q \in Queues : TaskOK(task[q])

(* A handler with points P goes on in task t, or completes its request and  *)
(* ends: u is the task then.                                                *)
GoesOn(t, u, P) == t.pc \in P /\ u.pc \in P /\ u.req = t.req /\ u.done = t.done
Ends(t, u, P) == t.pc \in P /\ u.pc = "return" /\ u.req = t.req /\ u.done = t.done + 1

Only(q) == AreTasks(task') /\ \A p \in Queues \ {q} : task'[p] = task[p]
Moved(q, P) == Only(q) /\ (GoesOn(task[q], task'[q], P) \/ Ends(task[q], task'[q], P))

\* A step of the handlers with points P: others are left alone, and tasks stay what they are.
StepOf(P) ==
  /\ AreTasks(task')
  /\ \A q \in Queues :
       \/ task'[q] = task[q]
       \/ /\ task[q].pc \in P \cup {"idle"} /\ task'[q].pc \in P \cup {"return", "crash"}
          /\ TaskOK(task'[q])

-----------------------------------------------------------------------------
(* Registration. *)

LockedPoints == {"report", "on", "query", "reason?", "erinfo", "cgeqneg", "answer", "off"}
AskingPoints == {"query", "reason?", "erinfo", "cgeqneg", "answer", "off"}

RegTypeOK == screen \in BOOLEAN /\ noisy \in BOOLEAN /\ reports \in [Reporting -> BOOLEAN]

\* The mutex is held only where a handler holds it.
LockInv == screenLock = "free" \/ task["NORMAL"].pc \in LockedPoints

\* What has been turned off, while a screen that is off was not disturbed.
QuietInv ==
  LET t == task["NORMAL"] IN
  /\ t.pc = "screen" => t.n = 1 /\ t.arg \in {"on", "off", "other"}
  /\ t.pc = "report" => t.n \in 1..4 /\ t.arg \in {"on", "off"} /\ (t.arg = "on" <=> screen)
  /\ t.pc = "report" /\ t.arg = "off" => t.n \in 1..3
  /\ ~screen /\ ~noisy =>
       \A c \in Reporting :
         \/ ~reports[c]
         \/ t.pc = "report" /\ t.n = 1
         \/ t.pc = "report" /\ t.n = 2 /\ c = "CGREG"
         \/ t.pc \in AskingPoints /\ c = ReportOf(t.req)

RegInv == RegTypeOK /\ LockInv /\ QuietInv

-----------------------------------------------------------------------------
(* SIM files. *)

IsFileName(f) == f = [path |-> f.path, id |-> f.id] /\ f.path \in Seq(STRING)

SimTypeOK ==
  /\ io \in [file : Files \cup {NoFile}, get : BOOLEAN]
  /\ IsFileName(cached) /\ IsFileName(selected)
  /\ lcOpen \in BOOLEAN /\ astray \in BOOLEAN

SimInv ==
  LET t == task["NORMAL"] IN
  /\ SimTypeOK
  /\ t.pc \in {"type", "type2", "channel", "cuad", "ccho"} => t.n = 1
  /\ t.pc \in FilePoints => io.file \in Files
  /\ t.pc = "select" =>
       /\ t.n \in 1..(Len(io.file.path) + 1)
       /\ t.n > 1 /\ lcOpen => selected = [path |-> SubSeq(io.file.path, 1, t.n - 1), id |-> "none"]
  /\ t.pc = "cgla" => cached = io.file
  /\ ~lcOpen => selected.id = "none"
  /\ selected.id # "none" => selected.id = cached.id /\ (selected.path = cached.path \/ astray)
  /\ ReadsTheFileAsked

-----------------------------------------------------------------------------
(* Tasks. *)

\* Handlers that only need to know which request is in hand.
Uniform == {ScreenPoints, SetupPoints, DeactivatePoints, FilePoints, CardPoints, {"ack"}}

\* Such a handler may go on at any of its points ...
LEMMA UniformGoesOn ==
  ASSUME NEW P \in Uniform, NEW t, IsTask(t), TaskOK(t), NEW u, IsTask(u), GoesOn(t, u, P)
  PROVE  TaskOK(u)
BY DEF Uniform, GoesOn, TaskOK, RequestOK, DoneOK, CommandOK, CrashOK, Between, ScreenPoints,
       RegistrationPoints, SetupPoints, DeactivatePoints, FilePoints, CardPoints, IsTask

\* ... and has completed its request once when it ends.
LEMMA UniformEnds ==
  ASSUME NEW P \in Uniform, NEW t, IsTask(t), TaskOK(t), NEW u, IsTask(u), Ends(t, u, P)
  PROVE  TaskOK(u)
BY DEF Uniform, Ends, TaskOK, RequestOK, DoneOK, CommandOK, CrashOK, Between, ScreenPoints,
       RegistrationPoints, SetupPoints, DeactivatePoints, FilePoints, CardPoints, IsTask,
       Completions

\* So its steps keep what is known of the tasks.
LEMMA UniformStep ==
  ASSUME Tasks, NEW q \in Queues, NEW P \in Uniform, NEW Q, P \subseteq Q, Moved(q, P)
  PROVE  StepOf(Q)
<1>1. IsTask(task[q]) /\ TaskOK(task[q]) /\ IsTask(task'[q])
  BY DEF Tasks, Moved, Only, AreTasks
<1>2. TaskOK(task'[q]) BY <1>1, UniformGoesOn, UniformEnds DEF Moved
<1>3. task[q].pc \in Q /\ task'[q].pc \in Q \cup {"return"} BY DEF Moved, GoesOn, Ends
<1> QED BY <1>2, <1>3 DEF StepOf, Moved, Only

\* A runner takes up a task.
LEMMA BeginStep ==
  ASSUME Tasks, NEW q \in Queues, IdleAt(q), NEW t, IsTask(t), TaskOK(t), NEW P,
         t.pc \in P \cup {"return"}, task' = [task EXCEPT ![q] = t]
  PROVE  StepOf(P)
BY DEF Tasks, StepOf, IdleAt, AreTasks

\* A step that touches no task is one of any handler.
LEMMA NoTaskStep ==
  ASSUME Tasks, task' = task, NEW P
  PROVE  StepOf(P)
BY DEF Tasks, StepOf

\* What a step of any handlers leaves of the tasks.
LEMMA StepKeepsTasks ==
  ASSUME Tasks, NEW P, StepOf(P)
  PROVE  Tasks'
BY DEF Tasks, StepOf

(* How the handlers write it: a jump, a completion, and assignments to the   *)
(* fields of the task on the way.                                            *)

\* Goto within the points.
LEMMA GotoMoves ==
  ASSUME Tasks, NEW q \in Queues, NEW P, task[q].pc \in P, NEW p \in P, Goto(q, p)
  PROVE  Moved(q, P)
BY DEF Tasks, Moved, Only, GoesOn, Goto, AreTasks, IsTask

\* The request is completed and the handler left.
LEMMA CompleteMoves ==
  ASSUME Tasks, NEW q \in Queues, NEW P, task[q].pc \in P, CompleteAndGoto(q, "return")
  PROVE  Moved(q, P)
BY DEF Tasks, Moved, Only, Ends, CompleteAndGoto, AreTasks, IsTask

\* What a jump leaves of the task ...
LEMMA GotoChanges ==
  ASSUME Tasks, NEW q \in Queues, NEW p, Goto(q, p)
  PROVE  /\ Only(q) /\ task'[q].pc = p /\ task'[q].req = task[q].req
         /\ task'[q].arg = task[q].arg /\ task'[q].n = task[q].n /\ task'[q].done = task[q].done
BY DEF Tasks, Only, Goto, AreTasks, IsTask

\* ... and a completion.
LEMMA CompleteChanges ==
  ASSUME Tasks, NEW q \in Queues, NEW p, CompleteAndGoto(q, p)
  PROVE  /\ Only(q) /\ task'[q].pc = p /\ task'[q].req = task[q].req
         /\ task'[q].arg = task[q].arg /\ task'[q].n = task[q].n
         /\ task'[q].done = task[q].done + 1
BY DEF Tasks, Only, CompleteAndGoto, AreTasks, IsTask

\* A task is assigned to, the request in hand stays and is not completed.
LEMMA AssignMoves ==
  ASSUME Tasks, NEW q \in Queues, NEW P, task[q].pc \in P, NEW u, IsTask(u), u.pc \in P,
         u.req = task[q].req, u.done = task[q].done, task' = [task EXCEPT ![q] = u]
  PROVE  Moved(q, P)
BY DEF Tasks, Moved, Only, GoesOn, AreTasks

\* A jump with the response variable assigned to.
LEMMA ResponseMoves ==
  ASSUME Tasks, NEW q \in Queues, NEW P, task[q].pc \in P, NEW p \in P,
         NEW r \in Responses, task' = [task EXCEPT ![q].pc = p, ![q].resp = r]
  PROVE  Moved(q, P)
<1> DEFINE u == [task[q] EXCEPT !.pc = p, !.resp = r]
<1>1. IsTask(task[q]) BY DEF Tasks, AreTasks
<1>2. IsTask(u) /\ u.pc \in P /\ u.req = task[q].req /\ u.done = task[q].done BY <1>1 DEF IsTask
<1>3. task' = [task EXCEPT ![q] = u] OBVIOUS
<1> QED BY <1>2, <1>3, AssignMoves

\* A jump with the counter assigned to.
LEMMA CounterMoves ==
  ASSUME Tasks, NEW q \in Queues, NEW P, task[q].pc \in P, NEW p \in P,
         NEW n \in Nat, task' = [task EXCEPT ![q].pc = p, ![q].n = n]
  PROVE  Moved(q, P)
<1> DEFINE u == [task[q] EXCEPT !.pc = p, !.n = n]
<1>1. IsTask(task[q]) BY DEF Tasks, AreTasks
<1>2. IsTask(u) /\ u.pc \in P /\ u.req = task[q].req /\ u.done = task[q].done BY <1>1 DEF IsTask
<1>3. task' = [task EXCEPT ![q] = u] OBVIOUS
<1> QED BY <1>2, <1>3, AssignMoves

\* Another round of a loop.
LEMMA RoundMoves ==
  ASSUME Tasks, NEW q \in Queues, NEW P, task[q].pc \in P,
         task' = [task EXCEPT ![q].n = @ + 1]
  PROVE  Moved(q, P)
<1> DEFINE u == [task[q] EXCEPT !.n = @ + 1]
<1>1. IsTask(task[q]) BY DEF Tasks, AreTasks
<1>2. IsTask(u) /\ u.pc \in P /\ u.req = task[q].req /\ u.done = task[q].done BY <1>1 DEF IsTask
<1>3. task' = [task EXCEPT ![q] = u] OBVIOUS
<1> QED BY <1>2, <1>3, AssignMoves

\* A jump with the response variable and the argument assigned to.
LEMMA ArgumentMoves ==
  ASSUME Tasks, NEW q \in Queues, NEW P, task[q].pc \in P, NEW p \in P,
         NEW r \in Responses, NEW arg,
         task' = [task EXCEPT ![q].arg = arg, ![q].pc = p, ![q].resp = r]
  PROVE  Moved(q, P)
<1> DEFINE u == [task[q] EXCEPT !.arg = arg, !.pc = p, !.resp = r]
<1>1. IsTask(task[q]) BY DEF Tasks, AreTasks
<1>2. IsTask(u) /\ u.pc \in P /\ u.req = task[q].req /\ u.done = task[q].done BY <1>1 DEF IsTask
<1>3. task' = [task EXCEPT ![q] = u] OBVIOUS
<1> QED BY <1>2, <1>3, AssignMoves

\* What a command leaves in the response variable is a response.
LEMMA ResponseType ==
  ASSUME NEW kind, NEW o, NEW before \in Responses
  PROVE  RespAfter(kind, o, before) \in Responses
BY DEF RespAfter, Responses

\* A task at its beginning.
LEMMA TaskType ==
  ASSUME NEW r, NEW p, NEW arg
  PROVE  /\ IsTask(Task(r, p, arg))
         /\ Task(r, p, arg).req = r /\ Task(r, p, arg).pc = p /\ Task(r, p, arg).arg = arg
         /\ Task(r, p, arg).n = 1 /\ Task(r, p, arg).done = 0
BY DEF Task, IsTask, Responses

\* A request that is let through becomes the task of its runner.
LEMMA AcceptStep ==
  ASSUME Tasks, NEW r, NEW t, IsTask(t), TaskOK(t), NEW P, t.pc \in P \cup {"return"},
         Accept(r, t)
  PROVE  StepOf(P)
<1>1. QueueOf(r) \in Queues BY DEF QueueOf, Queues
<1> QED BY <1>1, BeginStep DEF Accept

\* A handler does not survive an answer that is named in NotHandled.
LEMMA CrashStep ==
  ASSUME Tasks, NEW q \in Queues, NEW P, task[q].pc \in P, NEW u, IsTask(u), u.pc = "crash",
         u.arg \in NotHandled(u.req), task' = [task EXCEPT ![q] = u]
  PROVE  StepOf(P)
<1>1. TaskOK(u)
  BY DEF TaskOK, RequestOK, DoneOK, CommandOK, CrashOK, Between, ScreenPoints, RegistrationPoints,
         SetupPoints, DeactivatePoints, FilePoints, CardPoints
<1>2. AreTasks(task') BY DEF Tasks, AreTasks
<1> QED BY <1>1, <1>2 DEF Tasks, AreTasks, StepOf

\* A task is assigned to, with what must hold where it is then.
LEMMA AssignStep ==
  ASSUME Tasks, NEW q \in Queues, NEW P, task[q].pc \in P, NEW u, IsTask(u), TaskOK(u),
         u.pc \in P \cup {"return", "crash"}, task' = [task EXCEPT ![q] = u]
  PROVE  StepOf(P)
<1>1. AreTasks(task') BY DEF Tasks, AreTasks
<1> QED BY <1>1 DEF Tasks, AreTasks, StepOf

-----------------------------------------------------------------------------
(* The data call. *)

\* Every step of the data call's handlers keeps the tasks.
LEMMA DataTasks ==
  ASSUME Tasks, DataStep
  PROVE  StepOf(DataPoints)
<1> DEFINE t == task["NORMAL"]
<1> "NORMAL" \in Queues BY DEF Queues
<1>a. ASSUME NEW P \in {SetupPoints, DeactivatePoints}, Moved("NORMAL", P)
      PROVE  StepOf(DataPoints)
  <2>1. P \in Uniform /\ P \subseteq DataPoints BY DEF Uniform, DataPoints
  <2> QED BY <1>a, <2>1, UniformStep
<1>b. ASSUME NEW P \in {SetupPoints, DeactivatePoints}, NEW p \in P, t.pc \in P, Goto("NORMAL", p)
      PROVE  StepOf(DataPoints)
  <2>1. Moved("NORMAL", P) BY <1>b, GotoMoves
  <2> QED BY <1>a, <2>1
<1>c. ASSUME t.pc \in DataPoints, CompleteAndGoto("NORMAL", "return")
      PROVE  StepOf(DataPoints)
  <2>1. PICK P \in {SetupPoints, DeactivatePoints} : t.pc \in P BY <1>c DEF DataPoints
  <2>2. Moved("NORMAL", P) BY <1>c, <2>1, CompleteMoves
  <2> QED BY <1>a, <2>2
<1>d. ASSUME NEW p \in SetupPoints, NEW r \in Responses, t.pc \in SetupPoints, Next2(p, r)
      PROVE  StepOf(DataPoints)
  <2>1. Moved("NORMAL", SetupPoints) BY <1>d, ResponseMoves DEF Next2
  <2> QED BY <1>a, <2>1
<1>e. ASSUME t.pc \in DataPoints, task' = [task EXCEPT !["NORMAL"].n = @ + 1]
      PROVE  StepOf(DataPoints)
  <2>1. PICK P \in {SetupPoints, DeactivatePoints} : t.pc \in P BY <1>e DEF DataPoints
  <2>2. Moved("NORMAL", P) BY <1>e, <2>1, RoundMoves
  <2> QED BY <1>a, <2>2
<1>f. ASSUME NEW kind, NEW o PROVE RespAfter(kind, o, "NULL") \in Responses
  BY ResponseType DEF Responses
<1>1. CASE NetworkActs \/ \E q \in Queues : ReadReport(q)
  BY <1>1, NoTaskStep DEF NetworkActs, ReadReport
<1>2. CASE StartSetup
  <2> DEFINE u == Task("SETUP_DATA_CALL", "setup", "none")
  <2>1. IsTask(u) /\ u.pc = "setup" /\ u.req = "SETUP_DATA_CALL" /\ u.done = 0 BY TaskType
  <2> HIDE DEF u
  <2>2. TaskOK(u)
    BY <2>1 DEF TaskOK, RequestOK, DoneOK, CommandOK, CrashOK, ScreenPoints, RegistrationPoints,
                SetupPoints, DeactivatePoints, FilePoints, CardPoints
  <2>3. u.pc \in DataPoints BY <2>1 DEF DataPoints, SetupPoints
  <2> QED BY <1>2, <2>1, <2>2, <2>3, AcceptStep DEF StartSetup, u
<1>3. CASE SetupBegins
  <2>1. t.pc \in SetupPoints BY <1>3 DEF SetupBegins, Runs, At, SetupPoints
  <2>2. CASE Goto("NORMAL", "cgdcont") \/ Goto("NORMAL", "error") BY <1>b, <2>1, <2>2 DEF SetupPoints
  <2> QED BY <1>3, <2>2 DEF SetupBegins, Next1
<1>4. CASE AwaitConnection
  <2>1. t.pc \in SetupPoints BY <1>4 DEF AwaitConnection, Runs, At, SetupPoints
  <2>2. CASE Goto("NORMAL", "down") \/ Goto("NORMAL", "ipcfg") BY <1>b, <2>1, <2>2 DEF SetupPoints
  <2>3. CASE task' = [task EXCEPT !["NORMAL"].n = @ + 1] BY <1>e, <2>1, <2>3 DEF DataPoints
  <2> QED BY <1>4, <2>2, <2>3 DEF AwaitConnection, Goto
<1>5. CASE Configure
  <2>1. t.pc \in SetupPoints BY <1>5 DEF Configure, Runs, At, SetupPoints
  <2>2. CASE Goto("NORMAL", "down") \/ Goto("NORMAL", "recheck") BY <1>b, <2>1, <2>2 DEF SetupPoints
  <2> QED BY <1>5, <2>2 DEF Configure, Next1
<1>6. CASE SetupEnds
  <2>1. t.pc \in SetupPoints BY <1>6 DEF SetupEnds, Runs, At, SetupPoints
  <2>2. CASE Goto("NORMAL", "down") BY <1>b, <2>1, <2>2 DEF SetupPoints
  <2>3. CASE CompleteAndGoto("NORMAL", "return") BY <1>c, <2>1, <2>3 DEF DataPoints
  <2> QED BY <1>6, <2>2, <2>3 DEF SetupEnds, Next1
<1>7. CASE StartDeactivate
  <2> DEFINE u == Task("DEACTIVATE_DATA_CALL", "enap?", "none")
  <2>1. IsTask(u) /\ u.pc = "enap?" /\ u.req = "DEACTIVATE_DATA_CALL" /\ u.done = 0 BY TaskType
  <2> HIDE DEF u
  <2>2. TaskOK(u)
    BY <2>1 DEF TaskOK, RequestOK, DoneOK, CommandOK, CrashOK, ScreenPoints, RegistrationPoints,
                SetupPoints, DeactivatePoints, FilePoints, CardPoints
  <2>3. u.pc \in DataPoints BY <2>1 DEF DataPoints, DeactivatePoints
  <2> QED BY <1>7, <2>1, <2>2, <2>3, AcceptStep DEF StartDeactivate, u
<1>8. CASE InterfaceDown
  <2>1. t.pc \in DeactivatePoints BY <1>8 DEF InterfaceDown, Runs, At, DeactivatePoints
  <2>2. CASE CompleteAndGoto("NORMAL", "return") BY <1>c, <2>1, <2>2 DEF DataPoints
  <2> QED BY <1>8, <2>2 DEF InterfaceDown, EndDeactivate
<1>9. ASSUME NEW o \in Outcomes("line"), ReadCharset(o) PROVE StepOf(DataPoints)
  <2>1. t.pc \in SetupPoints BY <1>9 DEF ReadCharset, Runs, At, SetupPoints
  <2>2. CASE Next2("error", RespAfter("line", o, "NULL")) BY <1>d, <1>f, <2>1, <2>2 DEF SetupPoints
  <2>3. CASE \E p \in {"eiaauw", "ucs2"}, r \in {"NULL", "lines"} :
               task' = [task EXCEPT !["NORMAL"].arg = charset, !["NORMAL"].pc = p,
                                    !["NORMAL"].resp = r]
    <3>1. PICK p \in {"eiaauw", "ucs2"}, r \in {"NULL", "lines"} :
               task' = [task EXCEPT !["NORMAL"].arg = charset, !["NORMAL"].pc = p,
                                    !["NORMAL"].resp = r]
      BY <2>3
    <3>2. p \in SetupPoints /\ r \in Responses BY DEF SetupPoints, Responses
    <3>3. Moved("NORMAL", SetupPoints)
      BY <2>1, <3>1, <3>2, ArgumentMoves
    <3> QED BY <1>a, <3>3
  <2> QED BY <1>9, <2>2, <2>3 DEF ReadCharset
<1>10. ASSUME NEW o \in Outcomes("line"), ReadAddress(o) PROVE StepOf(DataPoints)
  <2>1. t.pc \in SetupPoints BY <1>10 DEF ReadAddress, Runs, At, SetupPoints
  <2>2. \E p \in {"error", "config"} : Next2(p, RespAfter("line", o, "NULL")) BY <1>10 DEF ReadAddress
  <2> QED BY <1>d, <1>f, <2>1, <2>2 DEF SetupPoints
<1>11. ASSUME NEW o \in Outcomes("line"), AskConnection(o) PROVE StepOf(DataPoints)
  <2>1. t.pc \in DeactivatePoints BY <1>11 DEF AskConnection, Runs, At, DeactivatePoints
  <2>2. CASE Goto("NORMAL", "enap=0") BY <1>b, <2>1, <2>2 DEF DeactivatePoints
  <2>3. CASE CompleteAndGoto("NORMAL", "return") BY <1>c, <2>1, <2>3 DEF DataPoints
  <2> QED BY <1>11, <2>2, <2>3 DEF AskConnection, Next1, EndDeactivate
<1>12. ASSUME NEW o \in Outcomes("line"), AwaitDisconnection(o) PROVE StepOf(DataPoints)
  <2>1. t.pc \in DeactivatePoints BY <1>12 DEF AwaitDisconnection, Runs, At, DeactivatePoints
  <2>2. CASE Goto("NORMAL", "ifdown") BY <1>b, <2>1, <2>2 DEF DeactivatePoints
  <2>3. CASE CompleteAndGoto("NORMAL", "return") BY <1>c, <2>1, <2>3 DEF DataPoints
  <2>4. CASE task' = [task EXCEPT !["NORMAL"].n = @ + 1] BY <1>e, <2>1, <2>4 DEF DataPoints
  <2> QED BY <1>12, <2>2, <2>3, <2>4 DEF AwaitDisconnection, Next1, EndDeactivate
<1>13. ASSUME NEW o \in Outcomes("plain"), DefineContext(o) PROVE StepOf(DataPoints)
  <2>1. t.pc \in SetupPoints BY <1>13 DEF DefineContext, Runs, At, SetupPoints
  <2>2. CASE Goto("NORMAL", "cscs?") BY <1>b, <2>1, <2>2 DEF SetupPoints
  <2>3. CASE Next2("error", RespAfter("plain", o, "NULL")) BY <1>d, <1>f, <2>1, <2>3 DEF SetupPoints
  <2> QED BY <1>13, <2>2, <2>3 DEF DefineContext, Next1
<1>14. ASSUME NEW o \in Outcomes("plain"), ToUcs2(o) PROVE StepOf(DataPoints)
  <2>1. t.pc \in SetupPoints BY <1>14 DEF ToUcs2, Runs, At, SetupPoints
  <2>2. CASE Goto("NORMAL", "error") BY <1>b, <2>1, <2>2 DEF SetupPoints
  <2>3. CASE Next2("eiaauw", "NULL") BY <1>d, <2>1, <2>3 DEF SetupPoints, Responses
  <2> QED BY <1>14, <2>2, <2>3 DEF ToUcs2, Next1
<1>15. ASSUME NEW o \in Outcomes("plain"), SetUser(o) PROVE StepOf(DataPoints)
  <2>1. t.pc \in SetupPoints BY <1>15 DEF SetUser, Runs, At, SetupPoints
  <2>2. CASE Goto("NORMAL", "cscs") \/ Goto("NORMAL", "error") BY <1>b, <2>1, <2>2 DEF SetupPoints
  <2> QED BY <1>15, <2>2 DEF SetUser, Next1
<1>16. ASSUME NEW o \in Outcomes("plain"), RestoreCharset(o) PROVE StepOf(DataPoints)
  <2>1. t.pc \in SetupPoints BY <1>16 DEF RestoreCharset, Runs, At, SetupPoints
  <2>2. CASE Goto("NORMAL", "enap") \/ Goto("NORMAL", "error") BY <1>b, <2>1, <2>2 DEF SetupPoints
  <2> QED BY <1>16, <2>2 DEF RestoreCharset, Next1
<1>17. ASSUME NEW o \in Outcomes("plain"), Connect(o) PROVE StepOf(DataPoints)
  <2>1. t.pc \in SetupPoints BY <1>17 DEF Connect, Runs, At, SetupPoints
  <2>2. CASE Goto("NORMAL", "wait") BY <1>b, <2>1, <2>2 DEF SetupPoints
  <2>3. CASE Next2("error", RespAfter("plain", o, "NULL")) BY <1>d, <1>f, <2>1, <2>3 DEF SetupPoints
  <2> QED BY <1>17, <2>2, <2>3 DEF Connect, Next1
<1>18. ASSUME NEW o \in Outcomes("plain"), SetupFails(o) PROVE StepOf(DataPoints)
  <2>1. t.pc \in SetupPoints BY <1>18 DEF SetupFails, Runs, At, SetupPoints
  <2>2. CASE CompleteAndGoto("NORMAL", "return") BY <1>c, <2>1, <2>2 DEF DataPoints
  <2>3. CASE /\ RespAfter("plain", o, "stale") = "stale"
             /\ task' = [task EXCEPT !["NORMAL"].pc = "crash", !["NORMAL"].arg = o,
                                     !["NORMAL"].done = @ + 1]
    <3>1. o \in {"timeout", "dead"} BY <2>3 DEF RespAfter
    <3>2. IsTask(t) /\ t.req = "SETUP_DATA_CALL" BY <2>1 DEF Tasks, AreTasks, TaskOK, RequestOK
    <3> DEFINE d == t.done + 1
               u == [t EXCEPT !.pc = "crash", !.arg = o, !.done = d]
    <3>3. task' = [task EXCEPT !["NORMAL"] = u] BY <2>3
    <3>a. d \in Nat BY <3>2 DEF IsTask
    <3> HIDE DEF t, d
    <3>4. IsTask(u) /\ u.pc = "crash" /\ u.req = t.req /\ u.arg = o BY <3>2, <3>a DEF IsTask
    <3> HIDE DEF u
    <3> USE DEF t
    <3>5. u.arg \in NotHandled(u.req) BY <3>1, <3>2, <3>4 DEF NotHandled
    <3>6. t.pc \in DataPoints BY <2>1 DEF DataPoints
    <3> QED BY <3>3, <3>4, <3>5, <3>6, CrashStep
  <2> QED BY <1>18, <2>2, <2>3 DEF SetupFails
<1>19. ASSUME NEW o \in Outcomes("plain"), Disconnect(o) PROVE StepOf(DataPoints)
  <2>1. t.pc \in DeactivatePoints BY <1>19 DEF Disconnect, Runs, At, DeactivatePoints
  <2>2. CASE Goto("NORMAL", "poll") BY <1>b, <2>1, <2>2 DEF DeactivatePoints
  <2>3. CASE CompleteAndGoto("NORMAL", "return") BY <1>c, <2>1, <2>3 DEF DataPoints
  <2> QED BY <1>19, <2>2, <2>3 DEF Disconnect, Next1, EndDeactivate
<1> QED BY <1>1, <1>2, <1>3, <1>4, <1>5, <1>6, <1>7, <1>8, <1>9, <1>10, <1>11, <1>12, <1>13,
           <1>14, <1>15, <1>16, <1>17, <1>18, <1>19 DEF DataStep

-----------------------------------------------------------------------------
(* The handlers of SimpleRequests. *)

\* No outcome of command c but those of bad makes the handler crash.
Safe(c, bad) ==
  /\ c.before \in Responses
  /\ \A o \in Outcomes("multi") :
       /\ o \in c.stop /\ RespAfter(c.kind, o, c.before) = "stale" => o \in bad
       /\ o \in c.end /\ c.uses /\ RespAfter(c.kind, o, c.before) # "lines" => o \in bad

\* Its commands are safe, and the last leads nowhere else.
Sound(h, bad) ==
  /\ Len(h) \in Nat \ {0}
  /\ \A n \in 1..Len(h) : Safe(h[n], bad) /\ (h[n].go # {} => n < Len(h))

\* A handler of one command ...
LEMMA SoundOne ==
  ASSUME NEW c, NEW bad, Safe(c, bad), c.go = {}
  PROVE  Sound(<<c>>, bad)
<1>1. Len(<<c>>) = 1 /\ <<c>>[1] = c OBVIOUS
<1> QED BY <1>1 DEF Sound

\* ... and of two.
LEMMA SoundTwo ==
  ASSUME NEW c, NEW d, NEW bad, Safe(c, bad), Safe(d, bad), d.go = {}
  PROVE  Sound(<<c, d>>, bad)
<1>1. Len(<<c, d>>) = 2 /\ <<c, d>>[1] = c /\ <<c, d>>[2] = d OBVIOUS
<1> QED BY <1>1 DEF Sound

\* A command that expects no line.
LEMMA PlainSafe == ASSUME NEW bad PROVE Safe(Plain, bad) /\ Plain.go = {}
BY DEF Plain, Safe, Command, Outcomes, RespAfter, AllBad, AllErr, Bad, Err, Lost, Responses

\* A command whose line is read when it has come.
LEMMA QuerySafe == ASSUME NEW bad PROVE Safe(Query, bad) /\ Query.go = {}
BY DEF Query, Safe, Command, Outcomes, RespAfter, AllBad, AllErr, Bad, Err, Lost, Responses

\* A command whose line is passed on.
LEMMA NumericSafe == ASSUME NEW bad PROVE Safe(Numeric, bad) /\ Numeric.go = {}
BY DEF Numeric, Safe, Command, Outcomes, RespAfter, AllBad, AllErr, Bad, Err, Lost, Responses

\* The software version: no line is not seen to be missing.
LEMMA SvnSafe ==
  /\ Safe(SvnQuery, {"empty"}) /\ Safe(SvnFallback, {"empty"}) /\ SvnFallback.go = {}
BY DEF SvnQuery, SvnFallback, Safe, Command, Outcomes, RespAfter, AllBad, AllErr, Bad, Err, Lost, Responses

\* Every handler is sound but for the outcomes NotHandled names.
LEMMA HandlersSound ==
  ASSUME NEW r \in SimpleKinds
  PROVE  Sound(Handler[r], NotHandled(r))
<1>1. CASE r \in {"SET_SMSC_ADDRESS", "GSM_SET_BROADCAST_SMS_CONFIG",
                 "SET_NETWORK_SELECTION_MANUAL", "SET_PREFERRED_NETWORK_TYPE",
                 "SET_FACILITY_LOCK"}
  <2>1. Handler[r] = <<Plain>>
    BY <1>1 DEF Handler, requestSetSMSCAddress, requestGSMSetBroadcastSMSConfig,
               requestSetNetworkSelectionManual, requestSetPreferredNetworkType,
               requestSetFacilityLock
  <2> QED BY <2>1, PlainSafe, SoundOne
<1>2. CASE r \in {"SEND_SMS", "GET_SMSC_ADDRESS", "GSM_GET_BROADCAST_SMS_CONFIG",
                 "QUERY_NETWORK_SELECTION_MODE", "QUERY_FACILITY_LOCK", "pollSignalStrength"}
  <2>1. Handler[r] = <<Query>>
    BY <1>2 DEF Handler, requestSendSMS, requestGetSMSCAddress, requestGSMGetBroadcastSMSConfig,
               requestQueryNetworkSelectionMode, requestQueryFacilityLock, pollSignalStrength
  <2> QED BY <2>1, QuerySafe, SoundOne
<1>3. CASE r \in {"GET_IMSI", "GET_IMEI", "BASEBAND_VERSION"}
  <2>1. Handler[r] = <<Numeric>>
    BY <1>3 DEF Handler, requestGetIMSI, requestGetIMEI, requestBasebandVersion
  <2> QED BY <2>1, NumericSafe, SoundOne
<1>4. CASE r \in {"QUERY_AVAILABLE_NETWORKS", "OPERATOR"}
  <2> DEFINE c == Command("multi", AllBad("multi") \cup {"empty", "malformed"}, {}, {"ok"}, TRUE, "NULL")
  <2>a. Handler[r] \in {requestQueryAvailableNetworks, requestOperator} BY <1>4 DEF Handler
  <2>1. Handler[r] = <<c>> BY <2>a, Zenon DEF requestQueryAvailableNetworks, requestOperator
  <2>2. NotHandled(r) = {} BY <1>4 DEF NotHandled
  <2>3. Safe(c, {}) /\ c.go = {}
    BY DEF Safe, Command, Outcomes, RespAfter, AllBad, AllErr, Bad, Err, Lost, Responses
  <2> QED BY <2>1, <2>2, <2>3, SoundOne
<1>5. CASE r \in {"GET_PREFERRED_NETWORK_TYPE"}
  <2> DEFINE c == Command("line", AllErr("line") \cup {"malformed"}, {}, {"ok", "refused"}, TRUE, "stale")
  <2>a. Handler[r] \in {requestGetPreferredNetworkType} BY <1>5 DEF Handler
  <2>1. Handler[r] = <<c>> BY <2>a, Zenon DEF requestGetPreferredNetworkType
  <2>2. NotHandled(r) = {"refused", "timeout", "dead"} BY <1>5 DEF NotHandled
  <2>3. Safe(c, {"refused", "timeout", "dead"}) /\ c.go = {}
    BY DEF Safe, Command, Outcomes, RespAfter, AllBad, AllErr, Bad, Err, Lost, Responses
  <2> QED BY <2>1, <2>2, <2>3, SoundOne
<1>6. CASE r \in {"GET_CURRENT_CALLS"}
  <2> DEFINE c == Command("multi", AllBad("multi"), {}, {"ok", "empty", "malformed"}, FALSE, "NULL")
  <2>a. Handler[r] \in {requestGetCurrentCalls} BY <1>6 DEF Handler
  <2>1. Handler[r] = <<c>> BY <2>a, Zenon DEF requestGetCurrentCalls
  <2>2. NotHandled(r) = {} BY <1>6 DEF NotHandled
  <2>3. Safe(c, {}) /\ c.go = {}
    BY DEF Safe, Command, Outcomes, RespAfter, AllBad, AllErr, Bad, Err, Lost, Responses
  <2> QED BY <2>1, <2>2, <2>3, SoundOne
<1>7. CASE r \in {"OEM_HOOK_STRINGS"}
  <2> DEFINE c == Command("plain", AllErr("plain"), {}, {"ok", "refused"}, FALSE, "NULL")
  <2>a. Handler[r] \in {requestOEMHookStrings} BY <1>7 DEF Handler
  <2>1. Handler[r] = <<c>> BY <2>a, Zenon DEF requestOEMHookStrings
  <2>2. NotHandled(r) = {} BY <1>7 DEF NotHandled
  <2>3. Safe(c, {}) /\ c.go = {}
    BY DEF Safe, Command, Outcomes, RespAfter, AllBad, AllErr, Bad, Err, Lost, Responses
  <2> QED BY <2>1, <2>2, <2>3, SoundOne
<1>8. CASE r \in {"DATA_CALL_LIST", "onPDPContextListChanged"}
  <2> DEFINE c == Command("multi", AllBad("multi") \cup {"malformed"}, {}, {"ok", "empty"}, TRUE, "NULL")
  <2>a. Handler[r] \in {requestOrSendPDPContextList} BY <1>8 DEF Handler
  <2>1. Handler[r] = <<c>> BY <2>a, Zenon DEF requestOrSendPDPContextList
  <2>2. NotHandled(r) = {"empty"} BY <1>8 DEF NotHandled
  <2>3. Safe(c, {"empty"}) /\ c.go = {}
    BY DEF Safe, Command, Outcomes, RespAfter, AllBad, AllErr, Bad, Err, Lost, Responses
  <2> QED BY <2>1, <2>2, <2>3, SoundOne
<1>9. CASE r \in {"GSM_SMS_BROADCAST_ACTIVATION"}
  <2> DEFINE c == [Query EXCEPT !.go = {"ok"}, !.end = {}]
             d == [Plain EXCEPT !.before = "stale"]
  <2>1. Handler[r] = <<c, d>>
    BY <1>9 DEF Handler, requestGSMSMSBroadcastActivation
  <2>2. NotHandled(r) = {"timeout", "dead"} BY <1>9 DEF NotHandled
  <2>3. Safe(c, {"timeout", "dead"})
    BY DEF Query, Plain, Safe, Command, Outcomes, RespAfter, AllBad, AllErr, Bad, Err, Lost, Responses
  <2>4. Safe(d, {"timeout", "dead"}) /\ d.go = {}
    BY DEF Query, Plain, Safe, Command, Outcomes, RespAfter, AllBad, AllErr, Bad, Err, Lost, Responses
  <2> QED BY <2>1, <2>2, <2>3, <2>4, SoundTwo
<1>10. CASE r \in {"SIGNAL_STRENGTH"}
  <2> DEFINE c == [Query EXCEPT !.go = {"ok"}]
             d == Query
  <2>1. Handler[r] = <<c, d>>
    BY <1>10 DEF Handler, requestSignalStrength
  <2>2. NotHandled(r) = {} BY <1>10 DEF NotHandled
  <2>3. Safe(c, {})
    BY DEF Query, Safe, Command, Outcomes, RespAfter, AllBad, AllErr, Bad, Err, Lost, Responses
  <2>4. Safe(d, {}) /\ d.go = {}
    BY DEF Query, Safe, Command, Outcomes, RespAfter, AllBad, AllErr, Bad, Err, Lost, Responses
  <2> QED BY <2>1, <2>2, <2>3, <2>4, SoundTwo
<1>11. CASE r \in {"ENTER_SIM_PIN", "CHANGE_SIM_PIN"}
  <2> DEFINE c == Command("plain", AllBad("plain"), {"ok", "refused"}, {}, FALSE, "NULL")
             d == getNumRetries
  <2>a. Handler[r] = requestEnterSimPin BY <1>11 DEF Handler, requestChangePassword
  <2>1. Handler[r] = <<c, d>> BY <2>a, Zenon DEF requestEnterSimPin
  <2>2. NotHandled(r) = {"empty", "refused"} \cup Lost BY <1>11 DEF NotHandled
  <2>3. Safe(c, {"empty", "refused"} \cup Lost)
    BY DEF getNumRetries, Safe, Command, Outcomes, RespAfter, AllBad, AllErr, Bad, Err, Lost, Responses
  <2>4. Safe(d, {"empty", "refused"} \cup Lost) /\ d.go = {}
    BY DEF getNumRetries, Safe, Command, Outcomes, RespAfter, AllBad, AllErr, Bad, Err, Lost, Responses
  <2> QED BY <2>1, <2>2, <2>3, <2>4, SoundTwo
<1>12. CASE r \in {"ENTER_NETWORK_DEPERSONALIZATION"}
  <2> DEFINE c == Command("plain", AllBad("plain"), {"ok", "refused"}, {}, FALSE, "NULL")
             d == [getNumRetries EXCEPT !.uses = FALSE]
  <2>e. Handler[r] = EnterNetworkDepersonalization BY <1>12 DEF Handler
  <2>a. Handler[r] = [requestEnterSimPin EXCEPT ![2] = d]
    BY <2>e, Zenon DEF EnterNetworkDepersonalization
  <2>b. requestEnterSimPin = <<c, getNumRetries>> BY Zenon DEF requestEnterSimPin
  <2> HIDE DEF c, d
  <2>1. Handler[r] = <<c, d>> BY <2>a, <2>b
  <2> USE DEF c, d
  <2>2. NotHandled(r) = {} BY <1>12 DEF NotHandled
  <2>3. Safe(c, {})
    BY DEF getNumRetries, Safe, Command, Outcomes, RespAfter, AllBad, AllErr, Bad, Err, Lost, Responses
  <2>4. Safe(d, {}) /\ d.go = {}
    BY DEF getNumRetries, Safe, Command, Outcomes, RespAfter, AllBad, AllErr, Bad, Err, Lost, Responses
  <2> QED BY <2>1, <2>2, <2>3, <2>4, SoundTwo
<1>13. CASE r = "GET_IMEISV"
  <2>1. Handler[r] = <<SvnQuery, SvnFallback>> BY <1>13 DEF Handler, requestGetIMEISV
  <2>2. NotHandled(r) = {"empty"} BY <1>13 DEF NotHandled
  <2> QED BY <2>1, <2>2, SvnSafe, SoundTwo
<1>14. CASE r = "DEVICE_IDENTITY"
  <2> DEFINE c == [Numeric EXCEPT !.go = {"ok", "malformed"}, !.end = {}]
             h == <<c, SvnQuery, SvnFallback>>
  <2>1. Handler[r] = h BY <1>14 DEF Handler, requestDeviceIdentity
  <2>2. NotHandled(r) = {"empty"} BY <1>14 DEF NotHandled
  <2>3. Safe(c, {"empty"})
    BY DEF Numeric, Safe, Command, Outcomes, RespAfter, AllBad, AllErr, Bad, Err, Lost, Responses
  <2> HIDE DEF c
  <2>4. Len(h) = 3 /\ h[1] = c /\ h[2] = SvnQuery /\ h[3] = SvnFallback OBVIOUS
  <2> HIDE DEF h
  <2> QED BY <2>1, <2>2, <2>3, <2>4, SvnSafe DEF Sound
<1> QED BY <1>1, <1>2, <1>3, <1>4, <1>5, <1>6, <1>7, <1>8, <1>9, <1>10, <1>11, <1>12, <1>13,
           <1>14 DEF SimpleKinds, Handler

\* A handler begins with its first command.
LEMMA SimpleBegins ==
  ASSUME NEW r \in SimpleKinds
  PROVE  IsTask(SimpleTask(r)) /\ TaskOK(SimpleTask(r)) /\ SimpleTask(r).pc = "send"
<1> DEFINE u == SimpleTask(r)
           b == Handler[r][1].before
<1>1. Len(Handler[r]) \in Nat \ {0} /\ b \in Responses
  <2>1. Sound(Handler[r], NotHandled(r)) BY HandlersSound
  <2>2. 1 \in 1..Len(Handler[r]) BY <2>1 DEF Sound
  <2> QED BY <2>1, <2>2 DEF Sound, Safe
<1> HIDE DEF b
<1>2. u = [Task(r, "send", "none") EXCEPT !.resp = b] BY Zenon DEF SimpleTask, b
<1>3. /\ u.req = r /\ u.pc = "send" /\ u.arg = "none" /\ u.n = 1 /\ u.resp = b /\ u.done = 0
      /\ IsTask(u)
  BY <1>1, <1>2 DEF Task, IsTask
<1> HIDE DEF u
<1>4. CommandOK(u) BY <1>1, <1>3 DEF CommandOK, b
<1>5. TaskOK(u)
  BY <1>3, <1>4 DEF TaskOK, RequestOK, DoneOK, CrashOK, ScreenPoints, RegistrationPoints,
                    SetupPoints, DeactivatePoints, FilePoints, CardPoints
<1> QED BY <1>3, <1>5 DEF u

\* What a handler that has returned, and one that has not survived, must satisfy.
LEMMA ReturnedOK ==
  ASSUME NEW u, IsTask(u), u.pc = "return", u.done \in Completions(u)
  PROVE  TaskOK(u)
BY DEF TaskOK, RequestOK, DoneOK, CommandOK, CrashOK, Between, ScreenPoints, RegistrationPoints,
       SetupPoints, DeactivatePoints, FilePoints, CardPoints

\* A handler returns.
LEMMA ReturnStep ==
  ASSUME Tasks, NEW q \in Queues, NEW P, task[q].pc \in P, Only(q), task'[q].pc = "return",
         task'[q].done \in Completions(task'[q])
  PROVE  StepOf(P)
<1>1. IsTask(task'[q]) BY DEF Only, AreTasks
<1>2. TaskOK(task'[q]) BY <1>1, ReturnedOK
<1> QED BY <1>2 DEF Only, StepOf

\* A command of such a handler, with any outcome.
LEMMA CommandStep ==
  ASSUME Tasks, NEW q \in Queues, NEW o \in Outcomes("multi"), SendCommand(q, o)
  PROVE  StepOf({"send"})
<1> DEFINE t == task[q]
           h == Handler[t.req]
           c == h[t.n]
           resp == RespAfter(c.kind, o, t.resp)
           e == ErrorCompletions(t, o)
<1>1. /\ t.pc = "send" /\ IsTask(t) /\ t.req \in SimpleKinds /\ t.done = 0 /\ t.arg = "none"
      /\ t.n \in 1..Len(h) /\ t.resp = c.before
  <2>1. t.pc = "send" BY DEF SendCommand, At
  <2>2. IsTask(t) /\ TaskOK(t) BY DEF Tasks, AreTasks
  <2> QED BY <2>1, <2>2 DEF TaskOK, RequestOK, DoneOK, CommandOK, Between
<1>2. Sound(h, NotHandled(t.req)) BY <1>1, HandlersSound
<1>3. Safe(c, NotHandled(t.req)) /\ (c.go # {} => t.n < Len(h)) BY <1>1, <1>2 DEF Sound
<1>4. t.resp \in Responses /\ resp \in Responses
  BY <1>1, <1>3, ResponseType DEF Safe
<1>5. e \in 1..2 /\ (e = 2 => t.req = "SIGNAL_STRENGTH" /\ t.n = 1) BY DEF ErrorCompletions
<1>6. PICK path \in {"stop", "go", "end"} :
        o \in c[path] /\ task' = [task EXCEPT ![q] = AfterCommand(t, c, o, path)]
  BY DEF SendCommand
<1> DEFINE u == AfterCommand(t, c, o, path)
<1>7. t.done + 1 \in Nat /\ t.done + e \in Nat /\ t.n + 1 \in Nat BY <1>1, <1>5 DEF IsTask
<1>8. CASE u = [[t EXCEPT !.resp = resp, !.arg = o] EXCEPT !.pc = "crash"] /\ o \in NotHandled(t.req)
  <2> HIDE DEF t, resp, u
  <2>1. IsTask(u) /\ u.pc = "crash" /\ u.arg = o /\ u.req = t.req BY <1>1, <1>4, <1>8 DEF IsTask
  <2>2. u.arg \in NotHandled(u.req) BY <1>8, <2>1
  <2>3. task[q].pc \in {"send"} BY <1>1 DEF t
  <2> QED BY <1>6, <2>1, <2>2, <2>3, CrashStep DEF u, t
<1>9. CASE \E d \in {1, e} : u = [t EXCEPT !.pc = "return", !.resp = "NULL", !.done = d]
  <2>1. PICK d \in {1, e} : u = [t EXCEPT !.pc = "return", !.resp = "NULL", !.done = d] BY <1>9
  <2>2. d \in Nat BY <1>5
  <2> HIDE DEF t, u, e
  <2>3. IsTask(u) /\ u.pc = "return" /\ u.arg = "none" /\ u.req = t.req /\ u.n = t.n /\ u.done = d
    BY <1>1, <2>1, <2>2 DEF IsTask, Responses
  <2>4. u.done \in Completions(u) BY <1>5, <2>3 DEF Completions
  <2>5. TaskOK(u) BY <2>3, <2>4, ReturnedOK
  <2>6. task[q].pc \in {"send"} BY <1>1 DEF t
  <2> QED BY <1>6, <2>3, <2>5, <2>6, AssignStep DEF u, t
<1>10. CASE path = "go"
  <2> DEFINE b == h[t.n + 1].before
  <2>1. u = [t EXCEPT !.n = t.n + 1, !.resp = b] BY <1>10 DEF AfterCommand
  <2>2. c.go # {} BY <1>6, <1>10
  <2> HIDE DEF t, h, c, e, u, resp
  <2>s. Len(h) \in Nat BY <1>2 DEF Sound
  <2>3. t.n + 1 \in 1..Len(h) BY <1>1, <1>3, <2>2, <2>s
  <2> USE DEF t, h, c, e, u, resp
  <2>4. b \in Responses BY <1>2, <2>3 DEF Sound, Safe
  <2> HIDE DEF b
  <2>5. /\ IsTask(u) /\ u.pc = "send" /\ u.arg = "none" /\ u.req = t.req /\ u.n = t.n + 1 /\ u.done = 0
        /\ u.resp = b
    BY <1>1, <1>7, <2>1, <2>4 DEF IsTask
  <2>6. CommandOK(u) BY <2>3, <2>5 DEF CommandOK, b
  <2> HIDE DEF u
  <2>7. TaskOK(u)
    BY <1>1, <2>5, <2>6 DEF TaskOK, RequestOK, DoneOK, CrashOK, ScreenPoints, RegistrationPoints,
                    SetupPoints, DeactivatePoints, FilePoints, CardPoints
  <2> QED BY <1>1, <1>6, <2>5, <2>7, AssignStep DEF u
<1>11. CASE path = "stop"
  <2>1. o \in c.stop BY <1>6, <1>11
  <2>2. CASE resp = "stale"
    <3>1. o \in NotHandled(t.req) BY <1>1, <1>3, <2>1, <2>2 DEF Safe
    <3>2. u = [[t EXCEPT !.resp = resp, !.arg = o] EXCEPT !.pc = "crash"]
      BY <1>11, <2>2 DEF AfterCommand
    <3> QED BY <1>8, <3>1, <3>2
  <2>3. CASE resp # "stale"
    <3>1. u = [t EXCEPT !.pc = "return", !.resp = "NULL", !.done = @ + e]
      BY <1>11, <2>3 DEF AfterCommand
    <3>2. t.done + e = e BY <1>1, <1>5
    <3> QED BY <1>9, <3>1, <3>2
  <2> QED BY <2>2, <2>3
<1>12. CASE path = "end"
  <2>1. o \in c.end BY <1>6, <1>12
  <2>2. CASE c.uses /\ resp # "lines"
    <3>1. o \in NotHandled(t.req) BY <1>1, <1>3, <2>1, <2>2 DEF Safe
    <3>2. u = [[t EXCEPT !.resp = resp, !.arg = o] EXCEPT !.pc = "crash"]
      BY <1>12, <2>2 DEF AfterCommand
    <3> QED BY <1>8, <3>1, <3>2
  <2>3. CASE ~(c.uses /\ resp # "lines")
    <3>1. u = [t EXCEPT !.pc = "return", !.resp = "NULL", !.done = @ + 1]
      BY <1>12, <2>3 DEF AfterCommand
    <3>2. t.done + 1 = 1 BY <1>1
    <3> QED BY <1>9, <3>1, <3>2
  <2> QED BY <2>2, <2>3
<1> QED BY <1>10, <1>11, <1>12

\* Every step of the handlers without state keeps the tasks.
LEMMA SimpleTasks ==
  ASSUME Tasks, SimpleStep
  PROVE  StepOf({"send"})
<1>1. CASE StartSimple
  <2>1. PICK r \in SimpleKinds : Accept(r, SimpleTask(r)) BY <1>1 DEF StartSimple
  <2> QED BY <2>1, SimpleBegins, AcceptStep
<1>2. CASE StartSimpleEvent
  <2>1. PICK q \in Queues, r \in SimpleEvents :
          IdleAt(q) /\ task' = [task EXCEPT ![q] = SimpleTask(r)]
    BY <1>2 DEF StartSimpleEvent, TakeEvent
  <2>2. r \in SimpleKinds BY DEF SimpleEvents, SimpleKinds, Handler
  <2> QED BY <2>1, <2>2, SimpleBegins, BeginStep
<1>3. CASE onSignalStrengthChanged BY <1>3, NoTaskStep DEF onSignalStrengthChanged
<1>4. ASSUME NEW q \in Queues, RejectArguments(q) PROVE StepOf({"send"})
  <2>1. task[q].pc = "send" /\ IsTask(task[q]) /\ TaskOK(task[q]) /\ task[q].req \in ChecksArguments
    BY <1>4 DEF RejectArguments, At, Tasks, AreTasks
  <2>2. task[q].done = 0 /\ task[q].arg = "none" BY <2>1 DEF TaskOK, DoneOK, Between
  <2>3. /\ Only(q) /\ task'[q].pc = "return" /\ task'[q].req = task[q].req
        /\ task'[q].arg = task[q].arg /\ task'[q].done = task[q].done + 1
    BY <1>4, CompleteChanges DEF RejectArguments
  <2>4. task'[q].done \in Completions(task'[q])
    BY <2>1, <2>2, <2>3 DEF Completions, ChecksArguments
  <2> QED BY <2>1, <2>3, <2>4, ReturnStep
<1> QED BY <1>1, <1>2, <1>3, <1>4, CommandStep DEF SimpleStep

-----------------------------------------------------------------------------
(* Acknowledgements, registration and selection. *)

\* What a step of a handler must leave.
LEMMA OnlyStep ==
  ASSUME Tasks, NEW q \in Queues, NEW P, task[q].pc \in P, Only(q),
         task'[q].pc \in P \cup {"return", "crash"}, TaskOK(task'[q])
  PROVE  StepOf(P)
BY DEF Only, StepOf

\* Every step of the acknowledgement's handler keeps the tasks.
LEMMA SmsTasks ==
  ASSUME Tasks, SmsStep
  PROVE  StepOf({"ack"})
<1> "NORMAL" \in Queues BY DEF Queues
<1>1. CASE MessageArrives BY <1>1, NoTaskStep DEF MessageArrives
<1>2. CASE AckRequested
  <2> DEFINE u == Task("SMS_ACKNOWLEDGE", "ack", "none")
  <2>1. IsTask(u) /\ u.pc = "ack" /\ u.req = "SMS_ACKNOWLEDGE" /\ u.done = 0 BY TaskType
  <2> HIDE DEF u
  <2>2. TaskOK(u)
    BY <2>1 DEF TaskOK, RequestOK, DoneOK, CommandOK, CrashOK, ScreenPoints, RegistrationPoints,
                SetupPoints, DeactivatePoints, FilePoints, CardPoints
  <2>3. CASE task' = task BY <2>3, NoTaskStep
  <2>4. CASE task' = [task EXCEPT !["NORMAL"] = u] /\ IdleAt("NORMAL")
    BY <2>1, <2>2, <2>4, BeginStep
  <2> QED BY <1>2, <2>3, <2>4 DEF AckRequested, u
<1>3. CASE AckExecuted
  <2>1. task["NORMAL"].pc \in {"ack"} /\ CompleteAndGoto("NORMAL", "return")
    BY <1>3 DEF AckExecuted, At
  <2>2. Moved("NORMAL", {"ack"}) BY <2>1, CompleteMoves
  <2>3. {"ack"} \in Uniform BY DEF Uniform
  <2> QED BY <2>2, <2>3, UniformStep
<1> QED BY <1>1, <1>2, <1>3 DEF SmsStep

\* A registration request at work ...
LEMMA AtWorkOK ==
  ASSUME NEW u, IsTask(u), u.pc \in RegistrationPoints, u.req \in Registrations,
         u.pc \in {"erinfo", "cgeqneg"} => u.req = "GPRS_REGISTRATION_STATE",
         u.done = 0, u.arg = "none"
  PROVE  TaskOK(u)
BY DEF TaskOK, RequestOK, DoneOK, CommandOK, CrashOK, ScreenPoints, RegistrationPoints,
       SetupPoints, DeactivatePoints, FilePoints, CardPoints

\* ... and at its end.
LEMMA AtEndOK ==
  ASSUME NEW u, IsTask(u), u.pc = "off", u.req \in Registrations,
         \/ u.done = 1 /\ u.arg = "none"
         \/ u.done = 0 /\ u.arg = "malformed" /\ u.req = "GPRS_REGISTRATION_STATE"
  PROVE  TaskOK(u)
BY DEF TaskOK, RequestOK, DoneOK, CommandOK, CrashOK, ScreenPoints, RegistrationPoints,
       SetupPoints, DeactivatePoints, FilePoints, CardPoints, Between

\* The steps of the two registration requests, the parts that touch their task.
LEMMA RegistrationTasks ==
  ASSUME Tasks, task["NORMAL"].pc \in RegistrationPoints \cup {"off"},
         \/ /\ task["NORMAL"].pc # "off"
            /\ \/ \E p \in {"on", "query", "reason?", "answer"} : Goto("NORMAL", p)
               \/ CompleteAndGoto("NORMAL", "off")
         \/ /\ task["NORMAL"].req = "GPRS_REGISTRATION_STATE" /\ task["NORMAL"].pc # "off"
            /\ \/ \E p \in {"erinfo", "cgeqneg"} : Goto("NORMAL", p)
               \/ task' = [task EXCEPT !["NORMAL"].pc = "off", !["NORMAL"].arg = "malformed"]
         \/ task["NORMAL"].pc = "off" /\ Goto("NORMAL", "return")
  PROVE  StepOf(RegPoints)
<1> DEFINE t == task["NORMAL"]
           u == task'["NORMAL"]
<1> "NORMAL" \in Queues BY DEF Queues
<1>1. IsTask(t) /\ TaskOK(t) /\ t.pc \in RegPoints BY DEF Tasks, AreTasks, RegPoints
<1>2. t.req \in Registrations BY <1>1 DEF TaskOK, RequestOK
<1>3. t.pc # "off" => t.done = 0 /\ t.arg = "none"
  BY <1>1 DEF TaskOK, DoneOK, Between, RegistrationPoints
<1>4. SUFFICES Only("NORMAL") /\ u.pc \in RegPoints \cup {"return", "crash"} /\ TaskOK(u)
  BY <1>1, <1>4, OnlyStep
<1>5. ASSUME Only("NORMAL") PROVE IsTask(u) BY <1>5 DEF Only, AreTasks
<1>6. ASSUME NEW p \in {"on", "query", "reason?", "answer", "erinfo", "cgeqneg"},
             Goto("NORMAL", p), t.pc # "off",
             p \in {"erinfo", "cgeqneg"} => t.req = "GPRS_REGISTRATION_STATE"
      PROVE  Only("NORMAL") /\ u.pc \in RegPoints \cup {"return", "crash"} /\ TaskOK(u)
  <2>1. Only("NORMAL") /\ u.pc = p /\ u.req = t.req /\ u.arg = t.arg /\ u.done = t.done
    BY <1>6, GotoChanges
  <2>2. u.pc \in RegistrationPoints /\ u.pc \in RegPoints BY <2>1 DEF RegistrationPoints, RegPoints
  <2> QED BY <1>2, <1>3, <1>5, <1>6, <2>1, <2>2, AtWorkOK
<1>7. CASE t.pc # "off" /\ CompleteAndGoto("NORMAL", "off")
  <2>1. Only("NORMAL") /\ u.pc = "off" /\ u.req = t.req /\ u.arg = t.arg /\ u.done = t.done + 1
    BY <1>7, CompleteChanges
  <2>2. TaskOK(u) BY <1>2, <1>3, <1>5, <1>7, <2>1, AtEndOK
  <2> QED BY <2>1, <2>2 DEF RegPoints
<1>8. CASE /\ t.req = "GPRS_REGISTRATION_STATE" /\ t.pc # "off"
           /\ task' = [task EXCEPT !["NORMAL"].pc = "off", !["NORMAL"].arg = "malformed"]
  <2>1. Only("NORMAL") /\ u.pc = "off" /\ u.req = t.req /\ u.arg = "malformed" /\ u.done = t.done
    BY <1>8 DEF Tasks, Only, AreTasks, IsTask
  <2>2. TaskOK(u) BY <1>2, <1>3, <1>5, <1>8, <2>1, AtEndOK
  <2> QED BY <2>1, <2>2 DEF RegPoints
<1>9. CASE t.pc = "off" /\ Goto("NORMAL", "return")
  <2>1. Only("NORMAL") /\ u.pc = "return" /\ u.req = t.req /\ u.arg = t.arg /\ u.done = t.done
    BY <1>9, GotoChanges
  <2>2. u.done \in Completions(u)
    BY <1>1, <1>2, <1>9, <2>1 DEF TaskOK, DoneOK, Completions, Registrations
  <2>3. TaskOK(u) BY <1>5, <2>1, <2>2, ReturnedOK
  <2> QED BY <2>1, <2>3
<1> QED BY <1>6, <1>7, <1>8, <1>9

\* The steps of a selection and its polls, the parts that touch their task.
LEMMA SelectionTasks ==
  ASSUME Tasks, NEW q \in Queues, task[q].pc \in {"cops=0", "cops?"},
         \/ CompleteAndGoto(q, "return")
         \/ task' = [task EXCEPT ![q].pc = "return", ![q].arg = "polling"]
  PROVE  StepOf(RegPoints)
<1> DEFINE t == task[q]
           u == task'[q]
<1>1. IsTask(t) /\ TaskOK(t) /\ t.pc \in RegPoints BY DEF Tasks, AreTasks, RegPoints
<1>2. t.req \in {"SET_NETWORK_SELECTION_AUTOMATIC", "pollOperatorSelected"} /\ t.done = 0 /\ t.arg = "none"
  BY <1>1 DEF TaskOK, RequestOK, DoneOK, Between
<1>3. CASE CompleteAndGoto(q, "return")
  <2>1. Only(q) /\ u.pc = "return" /\ u.req = t.req /\ u.arg = t.arg /\ u.done = t.done + 1
    BY <1>3, CompleteChanges
  <2>2. u.done \in Completions(u) BY <1>2, <2>1 DEF Completions
  <2> QED BY <1>1, <2>1, <2>2, ReturnStep
<1>4. CASE task' = [task EXCEPT ![q].pc = "return", ![q].arg = "polling"]
  <2>1. Only(q) /\ u.pc = "return" /\ u.req = t.req /\ u.arg = "polling" /\ u.done = t.done
    BY <1>4 DEF Tasks, Only, AreTasks, IsTask
  <2>2. u.done \in Completions(u) BY <1>2, <2>1 DEF Completions
  <2> QED BY <1>1, <2>1, <2>2, ReturnStep
<1> QED BY <1>3, <1>4

\* The tasks with which registration and selection begin.
LEMMA RegBegins ==
  /\ \A on : IsTask(Task("SCREEN_STATE", "screen", on)) /\ TaskOK(Task("SCREEN_STATE", "screen", on))
  /\ \A r \in Registrations : IsTask(Task(r, "reg", "none")) /\ TaskOK(Task(r, "reg", "none"))
  /\ IsTask(Task("SET_NETWORK_SELECTION_AUTOMATIC", "cops=0", "none"))
  /\ TaskOK(Task("SET_NETWORK_SELECTION_AUTOMATIC", "cops=0", "none"))
<1>1. ASSUME NEW on, NEW u, u = Task("SCREEN_STATE", "screen", on)
      PROVE  IsTask(u) /\ TaskOK(u)
  <2>1. IsTask(u) /\ u.pc = "screen" /\ u.req = "SCREEN_STATE" /\ u.done = 0 BY <1>1, TaskType
  <2> QED BY <2>1 DEF TaskOK, RequestOK, DoneOK, CommandOK, CrashOK, ScreenPoints, RegistrationPoints,
                SetupPoints, DeactivatePoints, FilePoints, CardPoints
<1>2. ASSUME NEW r \in Registrations, NEW u, u = Task(r, "reg", "none")
      PROVE  IsTask(u) /\ TaskOK(u)
  <2>1. IsTask(u) /\ u.pc = "reg" /\ u.req = r /\ u.done = 0 /\ u.arg = "none" BY <1>2, TaskType
  <2> QED BY <2>1 DEF TaskOK, RequestOK, DoneOK, CommandOK, CrashOK, ScreenPoints, RegistrationPoints,
                SetupPoints, DeactivatePoints, FilePoints, CardPoints
<1>3. ASSUME NEW u, u = Task("SET_NETWORK_SELECTION_AUTOMATIC", "cops=0", "none")
      PROVE  IsTask(u) /\ TaskOK(u)
  <2>1. /\ IsTask(u) /\ u.pc = "cops=0" /\ u.req = "SET_NETWORK_SELECTION_AUTOMATIC"
        /\ u.done = 0 /\ u.arg = "none"
    BY <1>3, TaskType
  <2> QED BY <2>1 DEF TaskOK, RequestOK, DoneOK, CommandOK, CrashOK, ScreenPoints, RegistrationPoints,
                SetupPoints, DeactivatePoints, FilePoints, CardPoints
<1> QED BY <1>1, <1>2, <1>3

\* Every step of registration, screen state and selection keeps the tasks.
LEMMA RegTasks ==
  ASSUME Tasks, DueTypeOK, NEW inCall, RegStep(inCall)
  PROVE  StepOf(RegPoints)
<1> DEFINE t == task["NORMAL"]
<1> "NORMAL" \in Queues BY DEF Queues
<1>a. IsTask(t) /\ TaskOK(t) BY DEF Tasks, AreTasks
<1>1. CASE StartScreenState
  <2>1. PICK on \in {"on", "off", "other"} : Accept("SCREEN_STATE", Task("SCREEN_STATE", "screen", on))
    BY <1>1 DEF StartScreenState
  <2>2. Task("SCREEN_STATE", "screen", on).pc \in RegPoints BY TaskType DEF RegPoints, ScreenPoints
  <2> QED BY <2>1, <2>2, RegBegins, AcceptStep
<1>2. CASE StartRegistration
  <2>1. PICK r \in Registrations : Accept(r, Task(r, "reg", "none")) BY <1>2 DEF StartRegistration
  <2>2. Task(r, "reg", "none").pc \in RegPoints BY TaskType DEF RegPoints, RegistrationPoints
  <2> QED BY <2>1, <2>2, RegBegins, AcceptStep
<1>3. CASE StartSelection
  <2>1. Task("SET_NETWORK_SELECTION_AUTOMATIC", "cops=0", "none").pc \in RegPoints
    BY TaskType DEF RegPoints
  <2> QED BY <1>3, <2>1, RegBegins, AcceptStep DEF StartSelection
<1>4. CASE StartPoll
  <2>q. PICK q \in Queues : \E i \in DOMAIN due[q] :
          TakeEvent(q, i, [Task("pollOperatorSelected", "cops?", "none") EXCEPT !.n = due[q][i].n])
    BY <1>4 DEF StartPoll
  <2>1. PICK i \in DOMAIN due[q] :
          TakeEvent(q, i, [Task("pollOperatorSelected", "cops?", "none") EXCEPT !.n = due[q][i].n])
    BY <2>q
  <2> DEFINE n == due[q][i].n
             u == [Task("pollOperatorSelected", "cops?", "none") EXCEPT !.n = n]
  <2>2. n \in Nat
    <3>1. due[q] \in Seq(Events) BY DEF DueTypeOK
    <3>2. due[q][i] \in Events BY <3>1
    <3> QED BY <3>2 DEF Events
  <2> HIDE DEF n
  <2>3. /\ IsTask(u) /\ u.pc = "cops?" /\ u.req = "pollOperatorSelected" /\ u.done = 0
        /\ u.arg = "none"
    BY <2>2 DEF Task, IsTask, Responses
  <2>4. IdleAt(q) /\ task' = [task EXCEPT ![q] = u] BY <2>1 DEF TakeEvent, n
  <2> HIDE DEF u
  <2>5. TaskOK(u)
    BY <2>3 DEF TaskOK, RequestOK, DoneOK, CommandOK, CrashOK, ScreenPoints, RegistrationPoints,
                SetupPoints, DeactivatePoints, FilePoints, CardPoints
  <2>6. u.pc \in RegPoints BY <2>3 DEF RegPoints
  <2> QED BY <2>3, <2>4, <2>5, <2>6, BeginStep
<1>5. CASE OperatorFound \/ onSIMReady BY <1>5, NoTaskStep DEF OperatorFound, onSIMReady
<1>6. ASSUME t.pc \in ScreenPoints, Moved("NORMAL", ScreenPoints) PROVE StepOf(RegPoints)
  BY <1>6, UniformStep DEF Uniform, RegPoints
<1>7. CASE ScreenBegins
  <2>1. t.pc \in ScreenPoints BY <1>7 DEF ScreenBegins, Here, At, ScreenPoints
  <2>2. CASE CompleteAndGoto("NORMAL", "return") BY <1>6, <2>1, <2>2, CompleteMoves
  <2>3. CASE Goto("NORMAL", "report") BY <1>6, <2>1, <2>3, GotoMoves DEF ScreenPoints
  <2> QED BY <1>7, <2>2, <2>3 DEF ScreenBegins, GoOn
<1>8. ASSUME NEW o \in Outcomes("plain"), ScreenCommand(o) PROVE StepOf(RegPoints)
  <2>1. t.pc \in ScreenPoints BY <1>8 DEF ScreenCommand, Here, At, ScreenPoints
  <2>2. CASE CompleteAndGoto("NORMAL", "return") BY <1>6, <2>1, <2>2, CompleteMoves
  <2>3. CASE task' = [task EXCEPT !["NORMAL"].n = @ + 1] BY <1>6, <2>1, <2>3, RoundMoves
  <2> QED BY <1>8, <2>2, <2>3 DEF ScreenCommand
<1>9. CASE RegistrationBegins
  <2>1. t.pc = "reg" BY <1>9 DEF RegistrationBegins, Here, At
  <2>2. \E p \in {"on", "query"} : Goto("NORMAL", p) BY <1>9 DEF RegistrationBegins, GoOn
  <2> QED BY <2>1, <2>2, RegistrationTasks DEF RegistrationPoints
<1>10. CASE AnswerRegistration \/ AnswerGprsRegistration
  <2>1. t.pc = "answer" /\ CompleteAndGoto("NORMAL", "off")
    BY <1>10 DEF AnswerRegistration, AnswerGprsRegistration, Here, At
  <2> QED BY <2>1, RegistrationTasks DEF RegistrationPoints
<1>11. ASSUME NEW o \in Outcomes("line"), QueryCreg(o) \/ QueryReason(o) PROVE StepOf(RegPoints)
  <2>1. t.pc \in {"query", "reason?"} BY <1>11 DEF QueryCreg, QueryReason, Here, At
  <2>2. CompleteAndGoto("NORMAL", "off") \/ \E p \in {"reason?", "answer"} : Goto("NORMAL", p)
    BY <1>11 DEF QueryCreg, QueryReason, GoOn
  <2> QED BY <2>1, <2>2, RegistrationTasks DEF RegistrationPoints
<1>12. ASSUME NEW o \in Outcomes("line"), QueryCgreg(o) \/ QueryRadioInfo(o, inCall)
      PROVE StepOf(RegPoints)
  <2>1. t.pc \in {"query", "erinfo", "cgeqneg"}
    BY <1>12 DEF QueryCgreg, QueryRadioInfo, Here, At
  <2>2. t.req = "GPRS_REGISTRATION_STATE"
    BY <1>12, <1>a DEF QueryCgreg, QueryRadioInfo, Here, At, InHand, TaskOK, RequestOK
  <2>3. \/ CompleteAndGoto("NORMAL", "off")
        \/ Goto("NORMAL", "answer")
        \/ \E p \in {"erinfo", "cgeqneg"} : Goto("NORMAL", p)
        \/ task' = [task EXCEPT !["NORMAL"].pc = "off", !["NORMAL"].arg = "malformed"]
    BY <1>12 DEF QueryCgreg, QueryRadioInfo, GoOn
  <2> QED BY <2>1, <2>2, <2>3, RegistrationTasks DEF RegistrationPoints
<1>13. ASSUME NEW o \in Outcomes("plain"), ReportsOn(o) PROVE StepOf(RegPoints)
  <2>1. t.pc = "on" /\ Goto("NORMAL", "query") BY <1>13 DEF ReportsOn, Here, At, GoOn
  <2> QED BY <2>1, RegistrationTasks DEF RegistrationPoints
<1>14. ASSUME NEW o \in Outcomes("plain"), RegistrationEnds(o) PROVE StepOf(RegPoints)
  <2>1. t.pc = "off" /\ Goto("NORMAL", "return") BY <1>14 DEF RegistrationEnds, Here, At, GoOn
  <2> QED BY <2>1, RegistrationTasks DEF RegistrationPoints
<1>15. ASSUME NEW o \in Outcomes("plain"), requestSetNetworkSelectionAutomatic(o)
       PROVE  StepOf(RegPoints)
  <2>1. t.pc = "cops=0" BY <1>15 DEF requestSetNetworkSelectionAutomatic, Here, At
  <2>2. \/ CompleteAndGoto("NORMAL", "return")
        \/ task' = [task EXCEPT !["NORMAL"].pc = "return", !["NORMAL"].arg = "polling"]
    BY <1>15 DEF requestSetNetworkSelectionAutomatic
  <2> QED BY <2>1, <2>2, SelectionTasks
<1>16. ASSUME NEW o \in Outcomes("line"), NEW q \in Queues, pollOperatorSelected(q, o)
       PROVE  StepOf(RegPoints)
  <2>1. task[q].pc = "cops?" BY <1>16 DEF pollOperatorSelected, At
  <2>2. \/ CompleteAndGoto(q, "return")
        \/ task' = [task EXCEPT ![q].pc = "return", ![q].arg = "polling"]
    BY <1>16 DEF pollOperatorSelected, Repoll
  <2> QED BY <2>1, <2>2, SelectionTasks
<1> QED BY <1>1, <1>2, <1>3, <1>4, <1>5, <1>7, <1>8, <1>9, <1>10, <1>11, <1>12, <1>13, <1>14,
           <1>15, <1>16 DEF RegStep

-----------------------------------------------------------------------------
(* SIM files. *)

\* Every step of the SIM's handlers keeps the tasks.
LEMMA SimTasks ==
  ASSUME Tasks, SimStep
  PROVE  StepOf(SimPoints)
<1> DEFINE t == task["NORMAL"]
<1> "NORMAL" \in Queues BY DEF Queues
<1>a. ASSUME NEW P \in {CardPoints, FilePoints}, Moved("NORMAL", P)
      PROVE  StepOf(SimPoints)
  <2>1. P \in Uniform /\ P \subseteq SimPoints BY DEF Uniform, SimPoints
  <2> QED BY <1>a, <2>1, UniformStep
<1>b. ASSUME NEW P \in {CardPoints, FilePoints}, t.pc \in P,
             Finish \/ \E p \in P : Proceed(p)
      PROVE  StepOf(SimPoints)
  <2>1. Moved("NORMAL", P) BY <1>b, GotoMoves, CompleteMoves DEF Finish, Proceed
  <2> QED BY <1>a, <2>1
<1>c. ASSUME NEW r \in {"GET_SIM_STATUS", "SIM_IO"}, NEW p,
             r = "GET_SIM_STATUS" => p = "cpin", r = "SIM_IO" => p = "type",
             Accept(r, Task(r, p, "none"))
      PROVE  StepOf(SimPoints)
  <2> DEFINE u == Task(r, p, "none")
  <2>1. IsTask(u) /\ u.pc = p /\ u.req = r /\ u.done = 0 BY TaskType
  <2> HIDE DEF u
  <2>2. TaskOK(u)
    BY <1>c, <2>1 DEF TaskOK, RequestOK, DoneOK, CommandOK, CrashOK, ScreenPoints,
                RegistrationPoints, SetupPoints, DeactivatePoints, FilePoints, CardPoints
  <2>3. u.pc \in SimPoints BY <1>c, <2>1 DEF SimPoints, CardPoints, FilePoints
  <2> QED BY <1>c, <2>1, <2>2, <2>3, AcceptStep DEF u
<1>1. CASE StartGetSimStatus BY <1>1, <1>c DEF StartGetSimStatus
<1>2. CASE StartSimIo BY <1>2, <1>c DEF StartSimIo
<1>3. CASE CardChanges BY <1>3, NoTaskStep DEF CardChanges
<1>4. CASE LogicalChannel \/ SkipSelection
  <2>1. t.pc \in FilePoints
    BY <1>4 DEF LogicalChannel, SkipSelection, Now, At, FilePoints
  <2>2. Finish \/ \E p \in {"select", "cuad", "cgla"} : Proceed(p)
    BY <1>4 DEF LogicalChannel, SkipSelection
  <2> QED BY <1>b, <2>1, <2>2 DEF FilePoints
<1>5. ASSUME NEW o \in Outcomes("line"), CardStatus(o) \/ CardType(o) PROVE StepOf(SimPoints)
  <2>1. t.pc \in CardPoints BY <1>5 DEF CardStatus, CardType, Now, At, CardPoints
  <2>2. Finish \/ Proceed("cardtype") BY <1>5 DEF CardStatus, CardType
  <2> QED BY <1>b, <2>1, <2>2 DEF CardPoints
<1>6. ASSUME NEW o \in Outcomes("line"),
             FirstType(o) \/ sendSimIOCmdICC(o) \/ ReadApplication(o) \/ AccessFile(o)
      PROVE  StepOf(SimPoints)
  <2>1. t.pc \in FilePoints
    BY <1>6 DEF FirstType, sendSimIOCmdICC, ReadApplication, AccessFile, Now, At, FilePoints
  <2>2. Finish \/ \E p \in {"type2", "channel", "ccho"} : Proceed(p)
    BY <1>6 DEF FirstType, sendSimIOCmdICC, ReadApplication, AccessFile
  <2> QED BY <1>b, <2>1, <2>2 DEF FilePoints
<1>7. ASSUME NEW o \in Outcomes("line"), SecondType(o) PROVE StepOf(SimPoints)
  <2>1. t.pc \in FilePoints BY <1>7 DEF SecondType, Now, At, FilePoints
  <2>2. PICK n \in {1, 2} : task' = [task EXCEPT !["NORMAL"].pc = "crsm", !["NORMAL"].n = n]
    BY <1>7 DEF SecondType
  <2>3. n \in Nat /\ "crsm" \in FilePoints BY DEF FilePoints
  <2>4. Moved("NORMAL", FilePoints) BY <2>1, <2>2, <2>3, CounterMoves
  <2> QED BY <1>a, <2>4
<1>8. ASSUME NEW o \in Outcomes("line"), OpenChannel(o) PROVE StepOf(SimPoints)
  <2>1. t.pc \in FilePoints BY <1>8 DEF OpenChannel, Now, At, FilePoints
  <2>2. CASE Finish \/ Proceed("channel") BY <1>b, <2>1, <2>2 DEF FilePoints
  <2>3. CASE /\ RespAfter("line", o, "stale") = "stale"
             /\ task' = [task EXCEPT !["NORMAL"].pc = "crash", !["NORMAL"].arg = o]
    <3>1. o \in {"timeout", "dead"} BY <2>3 DEF RespAfter
    <3>2. IsTask(t) /\ t.req = "SIM_IO" BY <2>1 DEF Tasks, AreTasks, TaskOK, RequestOK
    <3> DEFINE u == [t EXCEPT !.pc = "crash", !.arg = o]
    <3>3. task' = [task EXCEPT !["NORMAL"] = u] BY <2>3
    <3> HIDE DEF t
    <3>4. IsTask(u) /\ u.pc = "crash" /\ u.req = t.req /\ u.arg = o BY <3>2 DEF IsTask
    <3> HIDE DEF u
    <3>5. u.arg \in NotHandled(u.req) BY <3>1, <3>2, <3>4 DEF NotHandled
    <3>6. task["NORMAL"].pc \in SimPoints BY <2>1 DEF SimPoints, t
    <3> QED BY <3>3, <3>4, <3>5, <3>6, CrashStep
  <2> QED BY <1>8, <2>2, <2>3 DEF OpenChannel
<1>9. ASSUME NEW o \in Outcomes("line"), simIOSelectFile(o) PROVE StepOf(SimPoints)
  <2>1. t.pc \in FilePoints BY <1>9 DEF simIOSelectFile, Now, At, FilePoints
  <2>2. CASE Finish \/ Proceed("cgla") BY <1>b, <2>1, <2>2 DEF FilePoints
  <2>3. CASE task' = [task EXCEPT !["NORMAL"].n = @ + 1] BY <1>a, <2>1, <2>3, RoundMoves
  <2> QED BY <1>9, <2>2, <2>3 DEF simIOSelectFile
<1> QED BY <1>1, <1>2, <1>3, <1>4, <1>5, <1>6, <1>7, <1>8, <1>9 DEF SimStep

-----------------------------------------------------------------------------
(* The events that are due. *)

DueStep ==
  \/ due' = due
  \/ \E q \in Queues, e \in Events : Enqueue(q, e)
  \/ \E q \in Queues, i \in Nat \ {0} :
       /\ i <= Len(due[q])
       /\ due' = [due EXCEPT ![q] = SubSeq(@, 1, i - 1) \o SubSeq(@, i + 1, Len(@))]

\* Events are put at the end and taken from anywhere.
LEMMA DueKept ==
  ASSUME DueTypeOK, DueStep
  PROVE  DueTypeOK'
<1>1. ASSUME NEW q \in Queues, NEW e \in Events, Enqueue(q, e) PROVE DueTypeOK'
  <2>1. due[q] \in Seq(Events) BY DEF DueTypeOK
  <2>2. Append(due[q], e) \in Seq(Events) BY <2>1
  <2> QED BY <1>1, <2>2 DEF DueTypeOK, Enqueue
<1>2. ASSUME NEW q \in Queues, NEW i \in Nat \ {0}, i <= Len(due[q]),
             due' = [due EXCEPT ![q] = SubSeq(@, 1, i - 1) \o SubSeq(@, i + 1, Len(@))]
      PROVE  DueTypeOK'
  <2> DEFINE s == due[q]
  <2>1. s \in Seq(Events) BY DEF DueTypeOK
  <2> HIDE DEF s
  <2>2. SubSeq(s, 1, i - 1) \in Seq(Events) BY <1>2, <2>1 DEF s
  <2>3. SubSeq(s, i + 1, Len(s)) \in Seq(Events) BY <1>2, <2>1 DEF s
  <2>4. SubSeq(s, 1, i - 1) \o SubSeq(s, i + 1, Len(s)) \in Seq(Events) BY <2>2, <2>3
  <2>5. due' = [due EXCEPT ![q] = SubSeq(s, 1, i - 1) \o SubSeq(s, i + 1, Len(s))] BY <1>2 DEF s
  <2> QED BY <2>4, <2>5 DEF DueTypeOK
<1> QED BY <1>1, <1>2 DEF DueStep, DueTypeOK

\* What queueRunner does to the events when it takes one.
LEMMA TakeEventDue ==
  ASSUME DueTypeOK, NEW q \in Queues, NEW i \in DOMAIN due[q], NEW t, TakeEvent(q, i, t)
  PROVE  DueStep
<1>1. i \in Nat \ {0} /\ i <= Len(due[q]) BY DEF DueTypeOK
<1> QED BY <1>1 DEF TakeEvent, DueStep

\* No step of the handlers does more to them.
LEMMA DueSteps ==
  ASSUME Tasks, DueTypeOK, [Next]_vars
  PROVE  DueStep
<1>a. ASSUME NEW e \in SimpleEvents \cup {"pollOperatorSelected"}, NEW n \in Nat
      PROVE  [req |-> e, n |-> n] \in Events
  BY DEF Events
<1>1. CASE RunnerStep
  BY <1>1 DEF RunnerStep, Refuse, Return, StreamEnds, requestLastPDPFailCause, Accept, RadioChanges,
              DueStep
<1>2. CASE SimpleStep
  <2>1. CASE StartSimple BY <2>1 DEF StartSimple, Accept, DueStep
  <2>2. CASE StartSimpleEvent BY <2>2, TakeEventDue DEF StartSimpleEvent
  <2>3. CASE onSignalStrengthChanged
    BY <1>a, <2>3 DEF onSignalStrengthChanged, DueStep, SimpleEvents, Queues
  <2>4. CASE \E q \in Queues : RejectArguments(q) BY <2>4 DEF RejectArguments, DueStep
  <2>5. CASE \E q \in Queues, o \in Outcomes("multi") : SendCommand(q, o)
    BY <2>5 DEF SendCommand, DueStep
  <2> QED BY <1>2, <2>1, <2>2, <2>3, <2>4, <2>5 DEF SimpleStep
<1>3. CASE SmsStep
  BY <1>3 DEF SmsStep, MessageArrives, AckRequested, AckExecuted, DueStep
<1>4. CASE DataStep
  <2>1. CASE \E q \in Queues : ReadReport(q)
    BY <1>a, <2>1 DEF ReadReport, onConnectionStateChanged, DueStep, SimpleEvents, Queues
  <2> QED BY <1>4, <2>1 DEF DataStep, NetworkActs, StartSetup, SetupBegins, AwaitConnection,
        Configure, SetupEnds, StartDeactivate, InterfaceDown, ReadCharset, ReadAddress,
        AskConnection, AwaitDisconnection, DefineContext, ToUcs2, SetUser, RestoreCharset, Connect,
        SetupFails, Disconnect, Accept, DeactivateUnchanged, SetCharset, DueStep
<1>5. CASE RegStep(e2nap = CONNECTED)
  <2>1. CASE StartPoll BY <2>1, TakeEventDue DEF StartPoll
  <2>2. ASSUME NEW o \in Outcomes("plain"), requestSetNetworkSelectionAutomatic(o) PROVE DueStep
    BY <1>a, <2>2 DEF requestSetNetworkSelectionAutomatic, DueStep, Queues
  <2>3. ASSUME NEW o \in Outcomes("line"), NEW q \in Queues, pollOperatorSelected(q, o)
        PROVE  DueStep
    <3>1. task[q].n + 1 \in Nat BY DEF Tasks, AreTasks, IsTask
    <3> QED BY <1>a, <2>3, <3>1 DEF pollOperatorSelected, Repoll, DueStep, Queues
  <2> QED BY <1>5, <2>1, <2>2, <2>3 DEF RegStep, StartScreenState, ScreenBegins, StartRegistration,
        RegistrationBegins, AnswerRegistration, AnswerGprsRegistration, StartSelection,
        OperatorFound, onSIMReady, QueryCreg, QueryCgreg, QueryReason, QueryRadioInfo,
        ScreenCommand, ReportsOn, RegistrationEnds, Accept, DueStep
<1>6. CASE SimStep
  BY <1>6 DEF SimStep, StartGetSimStatus, StartSimIo, LogicalChannel, SkipSelection, CardChanges,
      CardStatus, CardType, FirstType, SecondType, sendSimIOCmdICC, ReadApplication, OpenChannel,
      simIOSelectFile, AccessFile, Accept, DueStep
<1>7. CASE \E q \in Queues : ReopenChannel(q) BY <1>7 DEF ReopenChannel, Reopen, DueStep
<1>8. CASE UNCHANGED vars BY <1>8 DEF vars, taskVars, DueStep
<1> QED BY <1>1, <1>2, <1>3, <1>4, <1>5, <1>6, <1>7, <1>8 DEF Next

-----------------------------------------------------------------------------
(* The runners, and all steps together. *)

\* A handler returns to its runner.
Returned(q) == task[q].pc = "return" /\ Only(q) /\ task'[q] = Idle

\* The runners' own steps: a return, or a request that is answered at once or not taken.
LEMMA RunnerTasks ==
  ASSUME Tasks, RunnerStep
  PROVE  StepOf({}) \/ \E q \in Queues : Returned(q)
<1>1. CASE \E q \in Queues : Return(q)
  <2>1. PICK q \in Queues : task[q].pc = "return" /\ task' = [task EXCEPT ![q] = Idle]
    BY <1>1 DEF Return, At
  <2>2. IsTask(Idle) BY TaskType DEF Idle
  <2> HIDE DEF Idle
  <2>3. Only(q) /\ task'[q] = Idle BY <2>1, <2>2 DEF Tasks, Only, AreTasks
  <2> QED BY <2>1, <2>3 DEF Returned
<1>2. CASE requestLastPDPFailCause
  <2> DEFINE u == [Task("LAST_DATA_CALL_FAIL_CAUSE", "return", "none") EXCEPT !.done = 1]
  <2>1. IsTask(u) /\ u.pc = "return" /\ u.req = "LAST_DATA_CALL_FAIL_CAUSE" /\ u.done = 1
    BY DEF Task, IsTask, Responses
  <2> HIDE DEF u
  <2>2. TaskOK(u) BY <2>1, ReturnedOK DEF Completions
  <2>3. u.pc \in {} \cup {"return"} BY <2>1
  <2> QED BY <1>2, <2>1, <2>2, <2>3, AcceptStep DEF requestLastPDPFailCause, u
<1>3. CASE task' = task BY <1>3, NoTaskStep
<1> QED BY <1>1, <1>2, <1>3 DEF RunnerStep, Refuse, StreamEnds, RadioChanges

\* An idle runner.
LEMMA IdleOK == IsTask(Idle) /\ TaskOK(Idle) /\ Idle.pc = "idle"
<1>1. IsTask(Idle) /\ Idle.pc = "idle" /\ Idle.req = "none" /\ Idle.done = 0 BY TaskType DEF Idle
<1> HIDE DEF Idle
<1> QED BY <1>1 DEF TaskOK, RequestOK, DoneOK, CommandOK, CrashOK, Between, ScreenPoints,
       RegistrationPoints, SetupPoints, DeactivatePoints, FilePoints, CardPoints

TaskInv == Tasks /\ DueTypeOK

\* The tasks are what they must be at the start ...
LEMMA TaskInvInit == ASSUME Init PROVE TaskInv
<1>1. task = [q \in Queues |-> Idle] /\ due = [q \in Queues |-> << >>] BY DEF Init, TaskInit
<1>2. Tasks
  <2> HIDE DEF Idle
  <2> QED BY <1>1, IdleOK DEF Tasks, AreTasks
<1>3. DueTypeOK BY <1>1 DEF DueTypeOK
<1> QED BY <1>2, <1>3 DEF TaskInv

\* ... and after every step.
LEMMA TaskInvNext == ASSUME TaskInv, [Next]_vars PROVE TaskInv'
<1>a. Tasks /\ DueTypeOK BY DEF TaskInv
<1>1. DueTypeOK' BY <1>a, DueSteps, DueKept
<1> SUFFICES Tasks' BY <1>1 DEF TaskInv
<1>2. ASSUME NEW q \in Queues, Returned(q) PROVE Tasks'
  <2> HIDE DEF Idle
  <2> QED BY <1>2, <1>a, IdleOK DEF Returned, Tasks, Only
<1>b. ASSUME NEW P, StepOf(P) PROVE Tasks' BY <1>a, <1>b, StepKeepsTasks
<1>3. CASE RunnerStep BY <1>2, <1>3, <1>a, <1>b, RunnerTasks
<1>4. CASE SimpleStep BY <1>4, <1>a, <1>b, SimpleTasks
<1>5. CASE SmsStep BY <1>5, <1>a, <1>b, SmsTasks
<1>6. CASE DataStep BY <1>6, <1>a, <1>b, DataTasks
<1>7. CASE RegStep(e2nap = CONNECTED) BY <1>7, <1>a, <1>b, RegTasks
<1>8. CASE SimStep BY <1>8, <1>a, <1>b, SimTasks
<1>9. CASE (\E q \in Queues : ReopenChannel(q)) \/ UNCHANGED vars
  <2>1. task' = task BY <1>9 DEF ReopenChannel, Reopen, vars, taskVars
  <2> QED BY <1>a, <2>1 DEF Tasks
<1> QED BY <1>3, <1>4, <1>5, <1>6, <1>7, <1>8, <1>9 DEF Next

(* What a runner has in hand fits the point its handler is at: the request, *)
(* how often it was completed, the command sent and the response variable.   *)
THEOREM TasksFit == Spec => []TaskInv
BY TaskInvInit, TaskInvNext, PTL DEF Spec

(* Every request is completed exactly once on every path of every handler,  *)
(* in any workload and however its commands end, but for the exceptions of   *)
(* Completions.                                                             *)
THEOREM RequestsCompletedOnce == Spec => []CompletedOnce
<1>1. TaskInv => CompletedOnce BY DEF TaskInv, Tasks, TaskOK, DoneOK, CompletedOnce, At
<1> QED BY <1>1, TasksFit, PTL

(* No answer of the modem and no lost command makes a handler read a line   *)
(* that is not there or free a response twice, but for the handlers and      *)
(* outcomes of NotHandled.                                                  *)
THEOREM OtherAnswersHandled == Spec => []AnswersHandled
<1>1. TaskInv => AnswersHandled BY DEF TaskInv, Tasks, TaskOK, CrashOK, AnswersHandled, At
<1> QED BY <1>1, TasksFit, PTL

-----------------------------------------------------------------------------
(* Registration: who else moves its task. *)

\* A step that does not concern the handlers with points P.
Foreign(P) ==
  \A q \in Queues : task'[q] = task[q] \/ (task[q].pc \notin P /\ task'[q].pc \notin P)

\* Handlers with other points do not.
LEMMA StepForeign ==
  ASSUME NEW P, NEW Q, P \cap Q = {}, P \cap Between = {}, StepOf(Q)
  PROVE  Foreign(P)
BY DEF StepOf, Foreign, Between

\* Neither do the runners, nor does a channel opened again.
LEMMA RunnerForeign ==
  ASSUME Tasks, NEW P, P \cap Between = {},
         RunnerStep \/ (\E q \in Queues : ReopenChannel(q)) \/ UNCHANGED vars
  PROVE  Foreign(P)
<1>1. CASE RunnerStep
  <2>1. CASE StepOf({}) BY <2>1, StepForeign
  <2>2. ASSUME NEW q \in Queues, Returned(q) PROVE Foreign(P)
    <3> HIDE DEF Idle
    <3> QED BY <2>2, IdleOK DEF Returned, Only, Foreign, Between
  <2> QED BY <1>1, <2>1, <2>2, RunnerTasks
<1>2. CASE (\E q \in Queues : ReopenChannel(q)) \/ UNCHANGED vars
  BY <1>2 DEF ReopenChannel, Reopen, vars, taskVars, Foreign
<1> QED BY <1>1, <1>2

\* A step of Next is one of registration, or leaves its points alone.
LEMMA NextIsReg ==
  ASSUME TaskInv, [Next]_vars
  PROVE  \/ RegStep(e2nap = CONNECTED)
         \/ /\ Foreign(RegPoints)
            /\ UNCHANGED regVars \/ \E q \in Queues : ReopenChannel(q) /\ task' = task
<1>p. RegPoints \cap Between = {} BY DEF RegPoints, Between, ScreenPoints, RegistrationPoints
<1>1. CASE SimpleStep /\ UNCHANGED regVars
  <2>1. RegPoints \cap {"send"} = {} BY DEF RegPoints, ScreenPoints, RegistrationPoints
  <2> QED BY <1>1, <1>p, <2>1, SimpleTasks, StepForeign DEF TaskInv
<1>2. CASE SmsStep /\ UNCHANGED regVars
  <2>1. RegPoints \cap {"ack"} = {} BY DEF RegPoints, ScreenPoints, RegistrationPoints
  <2> QED BY <1>2, <1>p, <2>1, SmsTasks, StepForeign DEF TaskInv
<1>3. CASE DataStep /\ UNCHANGED regVars
  <2>1. RegPoints \cap DataPoints = {}
    BY DEF RegPoints, ScreenPoints, RegistrationPoints, DataPoints, SetupPoints, DeactivatePoints
  <2> QED BY <1>3, <1>p, <2>1, DataTasks, StepForeign DEF TaskInv
<1>4. CASE SimStep /\ UNCHANGED regVars
  <2>1. RegPoints \cap SimPoints = {}
    BY DEF RegPoints, ScreenPoints, RegistrationPoints, SimPoints, CardPoints, FilePoints
  <2> QED BY <1>4, <1>p, <2>1, SimTasks, StepForeign DEF TaskInv
<1>5. CASE RunnerStep /\ UNCHANGED regVars BY <1>5, <1>p, RunnerForeign DEF TaskInv
<1>6. CASE \E q \in Queues : ReopenChannel(q)
  <2>1. task' = task BY <1>6 DEF ReopenChannel, Reopen
  <2> QED BY <1>6, <1>p, <2>1, RunnerForeign DEF TaskInv
<1>7. CASE UNCHANGED vars BY <1>7, <1>p, RunnerForeign DEF TaskInv, vars
<1> QED BY <1>1, <1>2, <1>3, <1>4, <1>5, <1>6, <1>7 DEF Next

\* At the start the lock is free and the screen on.
LEMMA RegInvInit == ASSUME Init PROVE RegInv
<1>1. task["NORMAL"] = Idle BY DEF Init, TaskInit, Queues
<1>2. task["NORMAL"].pc = "idle" BY <1>1, IdleOK, Zenon
<1> HIDE DEF Idle
<1> QED BY <1>2 DEF Init, RegInit, RegInv, RegTypeOK, LockInv, QuietInv

\* The parts of the state RegInv is about, when the lock is not needed before or after.
LEMMA RegInvForeign ==
  ASSUME RegInv, UNCHANGED <<screen, screenLock, reports, noisy>>,
         task["NORMAL"].pc \notin {"screen"} \cup LockedPoints,
         task'["NORMAL"].pc \notin {"screen"} \cup LockedPoints
  PROVE  RegInv'
BY DEF RegInv, RegTypeOK, LockInv, QuietInv, LockedPoints, AskingPoints

\* They do not change and neither does the task.
LEMMA RegInvSame ==
  ASSUME RegInv, UNCHANGED <<screen, screenLock, reports, noisy>>,
         task'["NORMAL"] = task["NORMAL"]
  PROVE  RegInv'
BY DEF RegInv, RegTypeOK, LockInv, QuietInv

\* A question is asked under the lock: it may have turned on what it asks about.
LEMMA RegInvAsking ==
  ASSUME RegInv, task["NORMAL"].pc \in AskingPoints, task'["NORMAL"].pc \in AskingPoints,
         task'["NORMAL"].req = task["NORMAL"].req, UNCHANGED <<screen, screenLock, reports, noisy>>
  PROVE  RegInv'
BY DEF RegInv, RegTypeOK, LockInv, QuietInv, LockedPoints, AskingPoints

\* What a command that sets reports leaves.
LEMMA SetReportsChanges ==
  ASSUME RegTypeOK, NEW c \in Reporting, NEW on \in BOOLEAN, NEW o, SetReports(c, on, o)
  PROVE  /\ reports' \in [Reporting -> BOOLEAN] /\ noisy' \in BOOLEAN
         /\ \A d \in Reporting \ {c} : reports'[d] = reports[d]
         /\ ~noisy' => ~noisy /\ reports'[c] = on
BY DEF RegTypeOK, SetReports

\* The steps of registration, screen state and selection keep RegInv.
LEMMA RegInvStep ==
  ASSUME TaskInv, RegInv, NEW inCall, RegStep(inCall)
  PROVE  RegInv'
<1> DEFINE t == task["NORMAL"]
           u == task'["NORMAL"]
<1> "NORMAL" \in Queues BY DEF Queues
<1>a. Tasks /\ IsTask(t) /\ TaskOK(t) /\ RegTypeOK BY DEF TaskInv, Tasks, AreTasks, RegInv
<1>b. ASSUME NEW r, NEW v, r \notin PrioRequests, Accept(r, v)
      PROVE  t.pc = "idle" /\ u = v /\ t.pc \notin {"screen"} \cup LockedPoints
  BY <1>a, <1>b DEF Accept, QueueOf, IdleAt, Tasks, AreTasks, LockedPoints
<1>1. CASE StartScreenState
  <2>1. PICK on \in {"on", "off", "other"} :
          Accept("SCREEN_STATE", Task("SCREEN_STATE", "screen", on)) /\ UNCHANGED regVars
    BY <1>1 DEF StartScreenState
  <2>2. t.pc = "idle" /\ u = Task("SCREEN_STATE", "screen", on) BY <1>b, <2>1 DEF PrioRequests
  <2>3. u.pc = "screen" /\ u.n = 1 /\ u.arg = on BY <2>2, TaskType
  <2> QED BY <2>1, <2>2, <2>3
       DEF regVars, RegInv, RegTypeOK, LockInv, QuietInv, LockedPoints, AskingPoints
<1>2. CASE StartRegistration \/ StartSelection
  <2>1. PICK r \in Registrations \cup {"SET_NETWORK_SELECTION_AUTOMATIC"}, p \in {"reg", "cops=0"} :
          Accept(r, Task(r, p, "none")) /\ UNCHANGED regVars
    BY <1>2 DEF StartRegistration, StartSelection
  <2>2. u = Task(r, p, "none") /\ t.pc \notin {"screen"} \cup LockedPoints
    BY <1>b, <2>1 DEF PrioRequests, Registrations
  <2>3. u.pc = p BY <2>2, TaskType
  <2>4. u.pc \notin {"screen"} \cup LockedPoints BY <2>3 DEF LockedPoints
  <2> QED BY <2>1, <2>2, <2>4, RegInvForeign DEF regVars
<1>3. CASE StartPoll
  <2>1. PICK q \in Queues : \E i \in DOMAIN due[q] :
          /\ TakeEvent(q, i, [Task("pollOperatorSelected", "cops?", "none") EXCEPT !.n = due[q][i].n])
          /\ UNCHANGED regVars
    BY <1>3 DEF StartPoll
  <2>2. PICK i \in DOMAIN due[q] :
          /\ TakeEvent(q, i, [Task("pollOperatorSelected", "cops?", "none") EXCEPT !.n = due[q][i].n])
          /\ UNCHANGED regVars
    BY <2>1
  <2> DEFINE n == due[q][i].n
             v == [Task("pollOperatorSelected", "cops?", "none") EXCEPT !.n = n]
  <2> HIDE DEF n
  <2>3. v.pc = "cops?" BY DEF Task
  <2>4. task[q].pc = "idle" /\ task' = [task EXCEPT ![q] = v] BY <2>2 DEF TakeEvent, IdleAt, n
  <2> HIDE DEF v
  <2>5. CASE q = "NORMAL"
    <3>1. t.pc = "idle" /\ u.pc = "cops?" BY <1>a, <2>3, <2>4, <2>5 DEF Tasks, AreTasks
    <3> QED BY <2>2, <3>1, RegInvForeign DEF LockedPoints, regVars
  <2>6. CASE q # "NORMAL"
    <3>1. u = t BY <1>a, <2>4, <2>6 DEF Tasks, AreTasks
    <3> QED BY <2>2, <3>1, RegInvSame DEF regVars
  <2> QED BY <2>5, <2>6
<1>4. CASE OperatorFound
  BY <1>4, RegInvSame DEF OperatorFound
<1>5. CASE onSIMReady
  BY <1>5 DEF onSIMReady, RegInv, RegTypeOK, LockInv, QuietInv, Reporting
<1>6. CASE ScreenBegins
  <2>1. t.pc = "screen" /\ t.n = 1 /\ t.arg \in {"on", "off", "other"} /\ UNCHANGED reports
    BY <1>6 DEF ScreenBegins, Here, At, RegInv, QuietInv
  <2>2. CASE t.arg = "other"
    <3>1. screen' = TRUE /\ noisy' = FALSE /\ screenLock' = "free" /\ CompleteAndGoto("NORMAL", "return")
      BY <1>6, <2>2 DEF ScreenBegins
    <3>2. u.pc = "return" BY <1>a, <3>1, CompleteChanges
    <3> QED BY <1>a, <2>1, <3>1, <3>2 DEF RegInv, RegTypeOK, LockInv, QuietInv, AskingPoints
  <2>3. CASE t.arg # "other"
    <3>1. screen' = (t.arg = "on") /\ noisy' = FALSE /\ Goto("NORMAL", "report")
      BY <1>6, <2>1, <2>3 DEF ScreenBegins, GoOn
    <3>2. u.pc = "report" /\ u.n = 1 /\ u.arg = t.arg BY <1>a, <2>1, <3>1, GotoChanges
    <3>3. (t.arg = "on" /\ screen' = TRUE) \/ (t.arg = "off" /\ screen' = FALSE) BY <2>1, <2>3, <3>1
    <3>4. RegTypeOK' BY <1>a, <2>1, <3>1, <3>3 DEF RegTypeOK
    <3>5. LockInv' BY <3>2 DEF LockInv, LockedPoints
    <3>6. QuietInv'
      <4>1. CASE t.arg = "on" BY <3>2, <3>3, <4>1 DEF QuietInv, AskingPoints
      <4>2. CASE t.arg = "off" BY <3>2, <3>3, <4>2 DEF QuietInv, AskingPoints
      <4> QED BY <3>3, <4>1, <4>2
    <3> QED BY <3>4, <3>5, <3>6 DEF RegInv
  <2> QED BY <2>2, <2>3
<1>7. ASSUME NEW o \in Outcomes("plain"), ScreenCommand(o) PROVE RegInv'
  <2> DEFINE c == ScreenCommands(t.arg)[t.n]
             l == Len(ScreenCommands(t.arg))
  <2>1. /\ t.pc = "report" /\ t.n \in 1..4 /\ t.arg \in {"on", "off"} /\ (t.arg = "on" <=> screen)
        /\ t.arg = "off" => t.n \in 1..3
        /\ UNCHANGED screen
    BY <1>7 DEF ScreenCommand, Here, At, RegInv, QuietInv
  <2>2. /\ l = IF t.arg = "on" THEN 4 ELSE 3
        /\ c = IF t.n = 1 THEN "CREG" ELSE IF t.n = 2 THEN "CGREG" ELSE IF t.n = 3 THEN "CGEREP" ELSE "CMER"
    BY <2>1 DEF ScreenCommands
  <2>3. /\ IF c \in Reporting THEN SetReports(c, t.arg = "on", o) ELSE UNCHANGED <<reports, noisy>>
        /\ \/ CompleteAndGoto("NORMAL", "return") /\ screenLock' = "free" /\ (Err("plain", o) \/ t.n = l)
           \/ /\ task' = [task EXCEPT !["NORMAL"].n = @ + 1] /\ UNCHANGED screenLock
              /\ ~Err("plain", o) /\ t.n # l
    BY <1>7 DEF ScreenCommand, Unlock
  <2> HIDE DEF c, l
  <2>4. RegTypeOK'
    BY <1>a, <2>1, <2>3, SetReportsChanges DEF RegTypeOK
  <2>5. CASE CompleteAndGoto("NORMAL", "return") /\ screenLock' = "free" /\ (Err("plain", o) \/ t.n = l)
    <3>1. u.pc = "return" BY <1>a, <2>5, CompleteChanges
    <3>2. ~screen' /\ ~noisy' => \A d \in Reporting : ~reports'[d]
      <4> SUFFICES ASSUME ~screen', ~noisy' PROVE \A d \in Reporting : ~reports'[d] OBVIOUS
      <4>1. t.arg = "off" /\ ~screen BY <2>1
      <4>2. ~noisy /\ (c \in Reporting => ~reports'[c] /\ \A d \in Reporting \ {c} : reports'[d] = reports[d])
            /\ (c \notin Reporting => UNCHANGED reports)
        BY <1>a, <2>3, <4>1, SetReportsChanges
      <4>3. t.n # 1
        <5>1. CASE t.n = 1
          <6>1. SetReports(c, t.arg = "on", o) BY <2>2, <2>3, <5>1 DEF Reporting
          <6>2. o = "ok" BY <6>1 DEF SetReports
          <6> QED BY <2>2, <2>5, <4>1, <5>1, <6>2 DEF Err, Lost
        <5> QED BY <5>1
      <4> QED BY <2>1, <2>2, <4>1, <4>2, <4>3 DEF RegInv, QuietInv, Reporting, AskingPoints
    <3> QED BY <2>4, <2>5, <3>1, <3>2 DEF RegInv, LockInv, QuietInv
  <2>6. CASE task' = [task EXCEPT !["NORMAL"].n = @ + 1] /\ UNCHANGED screenLock /\ t.n # l
    <3>1. u.pc = "report" /\ u.n = t.n + 1 /\ u.arg = t.arg
      BY <1>a, <2>1, <2>6 DEF Tasks, AreTasks, IsTask
    <3>2. u.n \in 2..4 /\ (t.arg = "off" => u.n \in 2..3) BY <2>1, <2>2, <2>6, <3>1
    <3>3. ~screen' /\ ~noisy' => \A d \in Reporting : ~reports'[d] \/ (u.n = 2 /\ d = "CGREG")
      <4> SUFFICES ASSUME ~screen', ~noisy'
                   PROVE  \A d \in Reporting : ~reports'[d] \/ (u.n = 2 /\ d = "CGREG")
        OBVIOUS
      <4>1. t.arg = "off" /\ ~screen BY <2>1
      <4>2. ~noisy /\ (c \in Reporting => ~reports'[c] /\ \A d \in Reporting \ {c} : reports'[d] = reports[d])
            /\ (c \notin Reporting => UNCHANGED reports)
        BY <1>a, <2>3, <4>1, SetReportsChanges
      <4> QED BY <2>1, <2>2, <3>1, <4>1, <4>2 DEF RegInv, QuietInv, Reporting, AskingPoints
    <3> QED BY <2>1, <2>4, <2>6, <3>1, <3>2, <3>3 DEF RegInv, LockInv, QuietInv, LockedPoints
  <2> QED BY <2>3, <2>5, <2>6
<1>8. CASE RegistrationBegins
  <2>1. /\ t.pc = "reg" /\ UNCHANGED <<screen, reports, noisy>>
        /\ \/ screen /\ Goto("NORMAL", "query")
           \/ ~screen /\ Goto("NORMAL", "on")
    BY <1>8 DEF RegistrationBegins, Here, At, GoOn
  <2>2. u.pc \in {"on", "query"} /\ (u.pc = "query" => screen) BY <1>a, <2>1, GotoChanges
  <2> QED BY <1>a, <2>1, <2>2 DEF RegInv, RegTypeOK, LockInv, QuietInv, AskingPoints, LockedPoints
<1>9. ASSUME NEW o \in Outcomes("plain"), ReportsOn(o) PROVE RegInv'
  <2>1. /\ t.pc = "on" /\ UNCHANGED <<screen, screenLock>> /\ Goto("NORMAL", "query")
        /\ SetReports(ReportOf(t.req), TRUE, o)
    BY <1>9 DEF ReportsOn, Here, At, GoOn, InHand
  <2>2. u.pc = "query" /\ u.req = t.req BY <1>a, <2>1, GotoChanges
  <2>3. ReportOf(t.req) \in Reporting BY DEF ReportOf, Reporting
  <2>4. RegTypeOK' BY <1>a, <2>1, <2>3, SetReportsChanges DEF RegTypeOK
  <2>5. ~noisy' => ~noisy BY <1>a, <2>1, <2>3, SetReportsChanges
  <2>6. \A d \in Reporting \ {ReportOf(t.req)} : reports'[d] = reports[d]
    BY <1>a, <2>1, <2>3, SetReportsChanges
  <2> QED BY <2>1, <2>2, <2>4, <2>5, <2>6 DEF RegInv, LockInv, QuietInv, AskingPoints, LockedPoints
<1>10. ASSUME t.pc \in AskingPoints, UNCHANGED <<screen, screenLock, reports, noisy>>,
              \/ \E p \in AskingPoints : Goto("NORMAL", p) \/ CompleteAndGoto("NORMAL", p)
              \/ task' = [task EXCEPT !["NORMAL"].pc = "off", !["NORMAL"].arg = "malformed"]
       PROVE  RegInv'
  <2>1. u.pc \in AskingPoints /\ u.req = t.req
    <3>1. CASE \E p \in AskingPoints : Goto("NORMAL", p) \/ CompleteAndGoto("NORMAL", p)
      BY <1>a, <3>1, GotoChanges, CompleteChanges
    <3>2. CASE task' = [task EXCEPT !["NORMAL"].pc = "off", !["NORMAL"].arg = "malformed"]
      BY <1>a, <3>2 DEF Tasks, AreTasks, IsTask, AskingPoints
    <3> QED BY <1>10, <3>1, <3>2
  <2> QED BY <1>10, <2>1, RegInvAsking
<1>11. CASE AnswerRegistration \/ AnswerGprsRegistration
  <2>1. t.pc \in AskingPoints
    BY <1>11 DEF AnswerRegistration, AnswerGprsRegistration, Here, At, AskingPoints
  <2>2. CompleteAndGoto("NORMAL", "off") /\ UNCHANGED <<screen, screenLock, reports, noisy>>
    BY <1>11 DEF AnswerRegistration, AnswerGprsRegistration, regVars
  <2> QED BY <1>10, <2>1, <2>2 DEF AskingPoints
<1>12. ASSUME NEW o \in Outcomes("line"),
              QueryCreg(o) \/ QueryCgreg(o) \/ QueryReason(o) \/ QueryRadioInfo(o, inCall)
       PROVE  RegInv'
  <2>1. t.pc \in AskingPoints
    BY <1>12 DEF QueryCreg, QueryCgreg, QueryReason, QueryRadioInfo, Here, At, AskingPoints
  <2>2. UNCHANGED <<screen, screenLock, reports, noisy>>
    BY <1>12 DEF QueryCreg, QueryCgreg, QueryReason, QueryRadioInfo, regVars
  <2>3. \/ \E p \in {"reason?", "erinfo", "cgeqneg", "answer"} : Goto("NORMAL", p)
        \/ CompleteAndGoto("NORMAL", "off")
        \/ task' = [task EXCEPT !["NORMAL"].pc = "off", !["NORMAL"].arg = "malformed"]
    BY <1>12 DEF QueryCreg, QueryCgreg, QueryReason, QueryRadioInfo, GoOn
  <2> QED BY <1>10, <2>1, <2>2, <2>3 DEF AskingPoints
<1>13. ASSUME NEW o \in Outcomes("plain"), RegistrationEnds(o) PROVE RegInv'
  <2>1. t.pc = "off" /\ UNCHANGED screen /\ screenLock' = "free" /\ Goto("NORMAL", "return")
    BY <1>13 DEF RegistrationEnds, Here, At, GoOn, Unlock
  <2>2. (screen /\ UNCHANGED <<reports, noisy>>) \/ (~screen /\ SetReports(ReportOf(t.req), FALSE, o))
    BY <1>13 DEF RegistrationEnds, InHand
  <2>3. u.pc = "return" BY <1>a, <2>1, GotoChanges
  <2>4. ReportOf(t.req) \in Reporting BY DEF ReportOf, Reporting
  <2>5. RegTypeOK' BY <1>a, <2>1, <2>2, <2>4, SetReportsChanges DEF RegTypeOK
  <2>6. ~screen' /\ ~noisy' => /\ ~noisy /\ ~reports'[ReportOf(t.req)]
                              /\ \A d \in Reporting \ {ReportOf(t.req)} : reports'[d] = reports[d]
    BY <1>a, <2>1, <2>2, <2>4, SetReportsChanges
  <2> QED BY <2>1, <2>3, <2>5, <2>6 DEF RegInv, LockInv, QuietInv, AskingPoints
<1>14. ASSUME NEW q \in Queues, task[q].pc \in {"cops=0", "cops?"}, UNCHANGED regVars,
              \/ CompleteAndGoto(q, "return")
              \/ task' = [task EXCEPT ![q].pc = "return", ![q].arg = "polling"]
       PROVE  RegInv'
  <2>1. CASE q = "NORMAL"
    <3>1. u.pc = "return" BY <1>a, <1>14, <2>1 DEF CompleteAndGoto, Tasks, AreTasks, IsTask
    <3>2. t.pc \notin {"screen"} \cup LockedPoints BY <1>14, <2>1 DEF LockedPoints
    <3>3. u.pc \notin {"screen"} \cup LockedPoints BY <3>1 DEF LockedPoints
    <3> QED BY <1>14, <3>2, <3>3, RegInvForeign DEF regVars
  <2>2. CASE q # "NORMAL"
    <3>1. u = t BY <1>a, <1>14, <2>2 DEF CompleteAndGoto, Tasks, AreTasks, IsTask
    <3> QED BY <1>14, <3>1, RegInvSame DEF regVars
  <2> QED BY <2>1, <2>2
<1>15. ASSUME NEW o \in Outcomes("plain"), requestSetNetworkSelectionAutomatic(o)
       PROVE  RegInv'
  BY <1>14, <1>15 DEF requestSetNetworkSelectionAutomatic, Here, At
<1>16. ASSUME NEW o \in Outcomes("line"), NEW q \in Queues, pollOperatorSelected(q, o)
       PROVE  RegInv'
  BY <1>14, <1>16 DEF pollOperatorSelected, Repoll, At
<1> QED BY <1>1, <1>2, <1>3, <1>4, <1>5, <1>6, <1>7, <1>8, <1>9, <1>11, <1>12, <1>13, <1>15,
           <1>16 DEF RegStep

\* Every step keeps RegInv.
LEMMA RegInvNext ==
  ASSUME TaskInv, RegInv, [Next]_vars
  PROVE  RegInv'
<1> "NORMAL" \in Queues BY DEF Queues
<1>1. CASE RegStep(e2nap = CONNECTED) BY <1>1, RegInvStep
<1>2. CASE Foreign(RegPoints) /\ UNCHANGED regVars
  <2>1. CASE task'["NORMAL"] = task["NORMAL"] BY <1>2, <2>1, RegInvSame DEF regVars
  <2>2. CASE task["NORMAL"].pc \notin RegPoints /\ task'["NORMAL"].pc \notin RegPoints
    <3>1. {"screen"} \cup LockedPoints \subseteq RegPoints
      BY DEF LockedPoints, RegPoints, ScreenPoints, RegistrationPoints
    <3> QED BY <1>2, <2>2, <3>1, RegInvForeign DEF regVars
  <2> QED BY <1>2, <2>1, <2>2 DEF Foreign
<1>3. ASSUME NEW q \in Queues, ReopenChannel(q), task' = task PROVE RegInv'
  BY <1>3 DEF ReopenChannel, RegReopen, RegInv, RegTypeOK, LockInv, QuietInv, Reporting
<1> QED BY <1>1, <1>2, <1>3, NextIsReg

(* The lock is held only where a handler holds it, and with a silent screen *)
(* only what a handler has turned on for its question reports.               *)
THEOREM RegistrationInvariant == Spec => []RegInv
<1>1. Init => RegInv BY RegInvInit
<1>2. TaskInv /\ RegInv /\ [Next]_vars => RegInv' BY RegInvNext
<1> QED BY <1>1, <1>2, TasksFit, PTL DEF Spec

(* s_screen_state_mutex is free between requests, whatever paths the        *)
(* handlers that take it have gone, in any workload.                        *)
THEOREM ScreenLockAlwaysReleased == Spec => []ScreenLockReleased
<1>1. RegInv => ScreenLockReleased
  BY DEF RegInv, LockInv, ScreenLockReleased, Here, At, LockedPoints
<1> QED BY <1>1, RegistrationInvariant, PTL

(* With the screen off, and no command that failed and no restart since it  *)
(* went off, the modem reports no registration changes between requests.     *)
THEOREM ScreenOffIsQuiet == Spec => []QuietWhenScreenOff
<1>1. RegInv => QuietWhenScreenOff
  BY DEF RegInv, QuietInv, QuietWhenScreenOff, Here, At, AskingPoints
<1> QED BY <1>1, RegistrationInvariant, PTL

-----------------------------------------------------------------------------
(* SIM files. *)

\* A step of Next is one of the SIM's handlers, or leaves their points alone.
LEMMA NextIsSim ==
  ASSUME TaskInv, [Next]_vars
  PROVE  SimStep \/ (Foreign(SimPoints) /\ UNCHANGED simVars)
<1>p. SimPoints \cap Between = {} BY DEF SimPoints, Between, CardPoints, FilePoints
<1>1. CASE SimpleStep /\ UNCHANGED simVars
  <2>1. SimPoints \cap {"send"} = {} BY DEF SimPoints, CardPoints, FilePoints
  <2> QED BY <1>1, <1>p, <2>1, SimpleTasks, StepForeign DEF TaskInv
<1>2. CASE SmsStep /\ UNCHANGED simVars
  <2>1. SimPoints \cap {"ack"} = {} BY DEF SimPoints, CardPoints, FilePoints
  <2> QED BY <1>2, <1>p, <2>1, SmsTasks, StepForeign DEF TaskInv
<1>3. CASE DataStep /\ UNCHANGED simVars
  <2>1. SimPoints \cap DataPoints = {}
    BY DEF SimPoints, CardPoints, FilePoints, DataPoints, SetupPoints, DeactivatePoints
  <2> QED BY <1>3, <1>p, <2>1, DataTasks, StepForeign DEF TaskInv
<1>4. CASE RegStep(e2nap = CONNECTED) /\ UNCHANGED simVars
  <2>1. SimPoints \cap RegPoints = {}
    BY DEF RegPoints, ScreenPoints, RegistrationPoints, SimPoints, CardPoints, FilePoints
  <2> QED BY <1>4, <1>p, <2>1, RegTasks, StepForeign DEF TaskInv
<1>5. CASE RunnerStep /\ UNCHANGED simVars BY <1>5, <1>p, RunnerForeign DEF TaskInv
<1>6. CASE \E q \in Queues : ReopenChannel(q)
  <2>1. UNCHANGED simVars BY <1>6 DEF ReopenChannel
  <2> QED BY <1>6, <1>p, <2>1, RunnerForeign DEF TaskInv
<1>7. CASE UNCHANGED vars BY <1>7, <1>p, RunnerForeign DEF TaskInv, vars
<1> QED BY <1>1, <1>2, <1>3, <1>4, <1>5, <1>6, <1>7 DEF Next

\* What simIOSelectPath and the card go through, but the part of SimInv on the file in hand.
fileVars == <<io, cached, lcOpen, selected, served, astray>>

\* At the start nothing is selected and nothing remembered.
LEMMA SimInvInit == ASSUME Init PROVE SimInv
<1>1. task["NORMAL"] = Idle BY DEF Init, TaskInit, Queues
<1>2. task["NORMAL"].pc = "idle" BY <1>1, IdleOK, Zenon
<1> HIDE DEF Idle
<1>3. IsFileName(NoFile) BY DEF IsFileName, NoFile
<1> QED BY <1>2, <1>3 DEF Init, SimInit, SimInv, SimTypeOK, FilePoints, ReadsTheFileAsked, NoFile

\* Nothing changes that SimInv is about.
LEMMA SimInvSame ==
  ASSUME SimInv, UNCHANGED fileVars, task'["NORMAL"] = task["NORMAL"]
  PROVE  SimInv'
BY DEF SimInv, SimTypeOK, ReadsTheFileAsked, fileVars

\* The handler is left, or was elsewhere all the time.
LEMMA SimInvAway ==
  ASSUME SimInv, UNCHANGED fileVars, task'["NORMAL"].pc \notin FilePoints
  PROVE  SimInv'
BY DEF SimInv, SimTypeOK, ReadsTheFileAsked, fileVars, FilePoints

\* It goes on before the selection.
LEMMA SimInvBefore ==
  ASSUME SimInv, UNCHANGED fileVars, task["NORMAL"].pc \in FilePoints,
         \/ task'["NORMAL"].pc \in {"type2", "channel", "cuad", "ccho", "select"} /\ task'["NORMAL"].n = 1
         \/ task'["NORMAL"].pc = "crsm"
  PROVE  SimInv'
<1>1. io.file \in Files BY DEF SimInv
<1>2. Len(io.file.path) \in Nat BY <1>1, FilesAssumption
<1> QED BY <1>1, <1>2 DEF SimInv, SimTypeOK, ReadsTheFileAsked, fileVars, FilePoints

\* A file as the framework names it.
LEMMA FileShape ==
  ASSUME NEW f \in Files
  PROVE  /\ IsFileName(f) /\ f.path \in Seq(STRING) /\ Len(f.path) \in Nat \ {0}
         /\ f.path[1] = MasterFile /\ MasterFile \in STRING
         /\ \A n \in 2..Len(f.path) : f.path[n] # MasterFile
<1>1. f \in [path : Seq(STRING), id : STRING] BY FilesAssumption
<1>2. f.path # << >> /\ f.path[1] = MasterFile /\ \A n \in 2..Len(f.path) : f.path[n] # MasterFile
  BY FilesAssumption
<1>3. f.path \in Seq(STRING) /\ f = [path |-> f.path, id |-> f.id] BY <1>1
<1>4. Len(f.path) \in Nat \ {0} BY <1>2, <1>3
<1>5. 1 \in 1..Len(f.path) BY <1>4
<1>6. f.path[1] \in STRING BY <1>3, <1>5
<1> QED BY <1>2, <1>3, <1>4, <1>6 DEF IsFileName

\* The directory selected after the n-th SELECT is the path's first n elements.
LEMMA SelectsPath ==
  ASSUME NEW f \in Files, NEW n \in 1..Len(f.path), IsFileName(selected),
         n > 1 => selected = [path |-> SubSeq(f.path, 1, n - 1), id |-> "none"]
  PROVE  SelectOnCard(f, n) = [path |-> SubSeq(f.path, 1, n), id |-> "none"]
<1>1. f.path \in Seq(STRING) /\ Len(f.path) \in Nat /\ f.path[1] = MasterFile
  BY FileShape
<1>2. ~IsFile(f, n) BY <1>1 DEF IsFile
<1>3. CASE n = 1
  <2>1. SubSeq(f.path, 1, 1) = <<f.path[1]>>
    <3> DEFINE p == f.path
    <3>1. p \in Seq(STRING) /\ 1 <= Len(p) /\ p[1] \in STRING BY <1>1, <1>3, FileShape
    <3> HIDE DEF p
    <3>2. SubSeq(p, 1, 1) \in Seq(STRING) /\ Len(SubSeq(p, 1, 1)) = 1 /\ SubSeq(p, 1, 1)[1] = p[1]
      BY <3>1
    <3>3. <<p[1]>> \in Seq(STRING) /\ Len(<<p[1]>>) = 1 /\ <<p[1]>>[1] = p[1] BY <3>1
    <3> DEFINE a == SubSeq(p, 1, 1)
               b == <<p[1]>>
    <3> HIDE DEF a, b
    <3>4. \A i \in 1..Len(a) : a[i] = b[i] BY <3>2, <3>3 DEF a, b
    <3>5. a = b
      <4>1. a \in Seq(STRING) /\ b \in Seq(STRING) /\ Len(a) = Len(b) BY <3>2, <3>3 DEF a, b
      <4> QED BY <3>4, <4>1, SeqEqual
    <3> QED BY <3>5 DEF p, a, b
  <2> QED BY <1>1, <1>2, <1>3, <2>1 DEF SelectOnCard
<1>4. CASE n > 1
  <2>1. f.path[n] # MasterFile BY <1>1, <1>4, FileShape
  <2>2. Append(SubSeq(f.path, 1, n - 1), f.path[n]) = SubSeq(f.path, 1, n)
    <3> DEFINE p == f.path
    <3>1. p \in Seq(STRING) /\ n \in 2..Len(p) BY <1>1, <1>4
    <3> HIDE DEF p
    <3>2. Append(SubSeq(p, 1, n - 1), p[n]) = SubSeq(p, 1, n) BY <3>1
    <3> QED BY <3>2 DEF p
  <2>3. selected.path = SubSeq(f.path, 1, n - 1) BY <1>4
  <2>4. SelectOnCard(f, n) = [path |-> Append(selected.path, f.path[n]), id |-> "none"]
    BY <1>2, <2>1 DEF SelectOnCard
  <2> QED BY <2>2, <2>3, <2>4, Zenon
<1> QED BY <1>3, <1>4

\* Each step of the SIM's handlers keeps SimInv.
LEMMA SimInvStep ==
  ASSUME TaskInv, SimInv, SimStep
  PROVE  SimInv'
<1> DEFINE t == task["NORMAL"]
           u == task'["NORMAL"]
<1> "NORMAL" \in Queues BY DEF Queues
<1>a. Tasks /\ IsTask(t) /\ TaskOK(t) BY DEF TaskInv, Tasks, AreTasks
<1>b. ASSUME NEW p, Proceed(p) PROVE u.pc = p /\ u.n = t.n BY <1>a, <1>b, GotoChanges DEF Proceed
<1>c. ASSUME Finish PROVE u.pc = "return" /\ u.pc \notin FilePoints
  BY <1>a, <1>c, CompleteChanges DEF Finish, FilePoints
<1>d. ASSUME NEW r, NEW v, r \notin PrioRequests, Accept(r, v) PROVE u = v
  BY <1>a, <1>d DEF Accept, QueueOf, Tasks, AreTasks
<1>1. CASE StartGetSimStatus
  <2>1. u = Task("GET_SIM_STATUS", "cpin", "none") /\ UNCHANGED fileVars
    BY <1>1, <1>d DEF StartGetSimStatus, PrioRequests, simVars, fileVars
  <2>2. u.pc = "cpin" BY <2>1, TaskType
  <2>3. u.pc \notin FilePoints BY <2>2 DEF FilePoints
  <2> QED BY <2>1, <2>3, SimInvAway
<1>2. CASE StartSimIo
  <2>1. u = Task("SIM_IO", "type", "none") BY <1>2, <1>d DEF StartSimIo, PrioRequests
  <2>2. u.pc = "type" /\ u.n = 1 BY <2>1, TaskType
  <2>3. io' \in [file : Files, get : BOOLEAN] /\ UNCHANGED <<cached, lcOpen, selected, served, astray>>
    BY <1>2 DEF StartSimIo
  <2> QED BY <2>2, <2>3 DEF SimInv, SimTypeOK, ReadsTheFileAsked, FilePoints
<1>3. CASE CardChanges
  <2>1. u = t /\ lcOpen' = FALSE /\ selected' = NoFile /\ UNCHANGED <<io, cached, served, astray>>
    BY <1>3 DEF CardChanges
  <2>2. IsFileName(NoFile) /\ NoFile.id = "none" BY DEF IsFileName, NoFile
  <2> QED BY <2>1, <2>2 DEF SimInv, SimTypeOK, ReadsTheFileAsked
<1>4. CASE LogicalChannel
  <2>1. t.pc = "channel" /\ t.n = 1 /\ UNCHANGED fileVars
    BY <1>4 DEF LogicalChannel, Now, At, SimInv, simVars, fileVars
  <2>2. CASE Finish BY <1>c, <2>1, <2>2, SimInvAway
  <2>3. CASE Proceed("select") \/ Proceed("cuad")
    BY <1>b, <2>1, <2>3, SimInvBefore DEF FilePoints
  <2> QED BY <1>4, <2>2, <2>3 DEF LogicalChannel
<1>5. ASSUME NEW o \in Outcomes("line"), CardStatus(o) \/ CardType(o) PROVE SimInv'
  <2>1. UNCHANGED fileVars BY <1>5 DEF CardStatus, CardType, simVars, fileVars
  <2>2. Finish \/ Proceed("cardtype") BY <1>5 DEF CardStatus, CardType
  <2>3. u.pc \notin FilePoints BY <1>b, <1>c, <2>2 DEF FilePoints
  <2> QED BY <2>1, <2>3, SimInvAway
<1>6. ASSUME NEW o \in Outcomes("line"), FirstType(o) PROVE SimInv'
  <2>1. t.pc = "type" /\ t.n = 1 /\ UNCHANGED fileVars /\ Proceed("type2")
    BY <1>6 DEF FirstType, Now, At, SimInv, fileVars
  <2> QED BY <1>b, <2>1, SimInvBefore DEF FilePoints
<1>7. ASSUME NEW o \in Outcomes("line"), SecondType(o) PROVE SimInv'
  <2>1. t.pc = "type2" /\ UNCHANGED fileVars BY <1>7 DEF SecondType, Now, At, fileVars
  <2>2. PICK n \in {1, 2} : task' = [task EXCEPT !["NORMAL"].pc = "crsm", !["NORMAL"].n = n]
    BY <1>7 DEF SecondType
  <2>3. u.pc = "crsm" BY <1>a, <2>2 DEF Tasks, AreTasks, IsTask
  <2> QED BY <2>1, <2>3, SimInvBefore DEF FilePoints
<1>8. ASSUME NEW o \in Outcomes("line"), sendSimIOCmdICC(o) PROVE SimInv'
  <2>1. t.pc = "crsm" /\ UNCHANGED fileVars BY <1>8 DEF sendSimIOCmdICC, Now, At, simVars, fileVars
  <2>2. CASE Finish BY <1>c, <2>1, <2>2, SimInvAway
  <2>3. CASE t.n = 1 /\ Proceed("channel") BY <1>b, <2>1, <2>3, SimInvBefore DEF FilePoints
  <2> QED BY <1>8, <2>2, <2>3 DEF sendSimIOCmdICC
<1>9. ASSUME NEW o \in Outcomes("line"), ReadApplication(o) PROVE SimInv'
  <2>1. t.pc = "cuad" /\ t.n = 1 /\ UNCHANGED fileVars
    BY <1>9 DEF ReadApplication, Now, At, SimInv, simVars, fileVars
  <2>2. CASE Finish BY <1>c, <2>1, <2>2, SimInvAway
  <2>3. CASE Proceed("ccho") BY <1>b, <2>1, <2>3, SimInvBefore DEF FilePoints
  <2> QED BY <1>9, <2>2, <2>3 DEF ReadApplication
<1>10. ASSUME NEW o \in Outcomes("line"), OpenChannel(o) PROVE SimInv'
  <2>1. /\ t.pc = "ccho" /\ t.n = 1 /\ UNCHANGED <<io, cached, selected, served, astray>>
        /\ lcOpen' \in BOOLEAN /\ (lcOpen => lcOpen')
    BY <1>10 DEF OpenChannel, Now, At, SimInv, SimTypeOK
  <2>2. u.pc \in {"return", "crash"} \/ (u.pc = "channel" /\ u.n = 1)
    <3>1. CASE task' = [task EXCEPT !["NORMAL"].pc = "crash", !["NORMAL"].arg = o]
      BY <1>a, <3>1 DEF Tasks, AreTasks, IsTask
    <3>2. CASE Finish \/ Proceed("channel") BY <1>b, <1>c, <2>1, <3>2
    <3> QED BY <1>10, <3>1, <3>2 DEF OpenChannel
  <2> QED BY <2>1, <2>2 DEF SimInv, SimTypeOK, ReadsTheFileAsked, FilePoints
<1>11. CASE SkipSelection
  <2>1. /\ t.pc = "select" /\ cached = io.file /\ cached' = cached /\ Proceed("cgla")
        /\ UNCHANGED fileVars
    BY <1>11 DEF SkipSelection, Now, At, CacheHit, fileVars
  <2>2. u.pc = "cgla" BY <1>b, <2>1
  <2> QED BY <2>1, <2>2 DEF SimInv, SimTypeOK, ReadsTheFileAsked, FilePoints, fileVars
<1>12. ASSUME NEW o \in Outcomes("line"), AccessFile(o) PROVE SimInv'
  <2>1. t.pc = "cgla" /\ cached = io.file /\ UNCHANGED <<io, cached, lcOpen>> /\ Finish
    BY <1>12 DEF AccessFile, Now, At, SimInv
  <2>2. u.pc \notin FilePoints BY <1>c, <2>1
  <2>3. \/ /\ lcOpen /\ selected' = [selected EXCEPT !.id = io.file.id]
           /\ astray' = (astray \/ selected.id = "none")
        \/ UNCHANGED <<selected, astray>>
    BY <1>12 DEF AccessFile
  <2>4. served' = [asked |-> io.file, read |-> selected] \/ served' = served
    BY <1>12 DEF AccessFile
  <2>5. IsFileName(selected) /\ IsFileName(selected') /\ astray' \in BOOLEAN /\ (astray => astray')
    BY <2>3 DEF SimInv, SimTypeOK, IsFileName
  <2>6. SimTypeOK' BY <2>1, <2>5 DEF SimInv, SimTypeOK
  <2>7. /\ ~lcOpen' => selected'.id = "none"
        /\ selected'.id # "none" => selected'.id = cached'.id /\ (selected'.path = cached'.path \/ astray')
    BY <2>1, <2>3, <2>5 DEF SimInv, IsFileName
  <2>8. ReadsTheFileAsked' BY <2>1, <2>4, <2>5 DEF SimInv, ReadsTheFileAsked
  <2> QED BY <2>2, <2>6, <2>7, <2>8 DEF SimInv, FilePoints
<1>13. ASSUME NEW o \in Outcomes("line"), simIOSelectFile(o) PROVE SimInv'
  <2> DEFINE f == io.file
             n == t.n
             good == o = "ok" /\ lcOpen
  <2>1. /\ t.pc = "select" /\ f \in Files /\ n \in 1..(Len(f.path) + 1)
        /\ n > 1 /\ lcOpen => selected = [path |-> SubSeq(f.path, 1, n - 1), id |-> "none"]
    BY <1>13 DEF simIOSelectFile, Now, At, SimInv, FilePoints
  <2>2. /\ \/ lcOpen /\ selected' = SelectOnCard(f, n)
           \/ ~good /\ UNCHANGED selected
        /\ cached' = IF IsFile(f, n) THEN f ELSE cached
        /\ \/ ~good /\ Finish
           \/ good /\ IsFile(f, n) /\ Proceed("cgla")
           \/ good /\ ~IsFile(f, n) /\ task' = [task EXCEPT !["NORMAL"].n = @ + 1]
        /\ UNCHANGED <<lcOpen, served, astray, io>>
    BY <1>13 DEF simIOSelectFile
  <2>3. IsFileName(f) /\ f.path \in Seq(STRING) /\ Len(f.path) \in Nat \ {0} BY <2>1, FileShape
  <2>4. IsFileName(selected) /\ IsFileName(cached) BY DEF SimInv, SimTypeOK
  <2>5. CASE IsFile(f, n)
    <3>1. n = Len(f.path) + 1 /\ n > 1 BY <2>3, <2>5 DEF IsFile
    <3>2. SubSeq(f.path, 1, n - 1) = f.path
      <4> DEFINE p == f.path
      <4>1. p \in Seq(STRING) /\ n - 1 = Len(p) BY <2>3, <3>1
      <4> HIDE DEF p
      <4>2. SubSeq(p, 1, Len(p)) = p BY <4>1
      <4> QED BY <4>1, <4>2 DEF p
    <3>3. lcOpen => selected = [path |-> f.path, id |-> "none"] BY <2>1, <3>1, <3>2
    <3>4. \/ lcOpen /\ selected' = [path |-> f.path, id |-> f.id]
          \/ selected' = selected /\ selected.id = "none"
      <4>1. CASE lcOpen /\ selected' = SelectOnCard(f, n)
        BY <2>5, <3>3, <4>1 DEF SelectOnCard
      <4>2. CASE selected' = selected
        BY <3>3, <4>2 DEF SimInv
      <4> QED BY <2>2, <4>1, <4>2
    <3>5. cached' = f /\ u.pc \in {"return", "cgla"} BY <1>b, <1>c, <2>2, <2>5
    <3>6. SimTypeOK' BY <2>2, <2>3, <2>4, <3>4, <3>5 DEF SimInv, SimTypeOK, IsFileName
    <3>7. /\ ~lcOpen' => selected'.id = "none"
          /\ selected'.id # "none" => selected'.id = cached'.id /\ (selected'.path = cached'.path \/ astray')
      BY <2>2, <2>3, <3>4, <3>5 DEF IsFileName
    <3> QED BY <2>1, <2>2, <3>5, <3>6, <3>7 DEF SimInv, ReadsTheFileAsked, FilePoints
  <2>6. CASE ~IsFile(f, n)
    <3>1. n \in 1..Len(f.path) BY <2>1, <2>3, <2>6 DEF IsFile
    <3>2. lcOpen => SelectOnCard(f, n) = [path |-> SubSeq(f.path, 1, n), id |-> "none"]
      BY <2>1, <2>4, <3>1, SelectsPath
    <3>3. SubSeq(f.path, 1, n) \in Seq(STRING)
      <4> DEFINE p == f.path
      <4>1. p \in Seq(STRING) /\ n \in 1..Len(p) BY <2>3, <3>1
      <4> HIDE DEF p
      <4>2. SubSeq(p, 1, n) \in Seq(STRING) BY <4>1
      <4> QED BY <4>2 DEF p
    <3>4. \/ lcOpen /\ selected' = [path |-> SubSeq(f.path, 1, n), id |-> "none"]
          \/ ~good /\ selected' = selected
      BY <2>2, <3>2
    <3>a. IsFileName([path |-> SubSeq(f.path, 1, n), id |-> "none"])
      <4> DEFINE p == SubSeq(f.path, 1, n)
      <4> HIDE DEF p
      <4>1. IsFileName([path |-> p, id |-> "none"]) BY <3>3 DEF IsFileName, p
      <4> QED BY <4>1 DEF p
    <3>5. cached' = cached /\ IsFileName(selected')
      <4>1. cached' = cached BY <2>2, <2>6
      <4>2. CASE selected' = selected BY <2>4, <4>1, <4>2
      <4>3. CASE selected' = [path |-> SubSeq(f.path, 1, n), id |-> "none"] BY <3>a, <4>1, <4>3
      <4> QED BY <3>4, <4>2, <4>3
    <3>6. SimTypeOK' BY <2>2, <2>4, <3>5 DEF SimInv, SimTypeOK
    <3>7. /\ ~lcOpen' => selected'.id = "none"
          /\ selected'.id # "none" => selected'.id = cached'.id /\ (selected'.path = cached'.path \/ astray')
      BY <2>2, <3>4, <3>5 DEF SimInv
    <3>8. CASE ~good /\ Finish
      <4>1. u.pc \notin FilePoints BY <1>c, <3>8
      <4> QED BY <2>2, <3>6, <3>7, <4>1 DEF SimInv, ReadsTheFileAsked, FilePoints
    <3>9. CASE good /\ task' = [task EXCEPT !["NORMAL"].n = @ + 1]
      <4>1. u.pc = "select" /\ u.n = n + 1 BY <1>a, <2>1, <3>9 DEF Tasks, AreTasks, IsTask
      <4>2. u.n \in 1..(Len(f.path) + 1) /\ u.n - 1 = n BY <2>3, <3>1, <4>1
      <4>3. selected' = [path |-> SubSeq(f.path, 1, u.n - 1), id |-> "none"] BY <3>4, <3>9, <4>2
      <4> QED BY <2>1, <2>2, <3>6, <3>7, <4>1, <4>2, <4>3 DEF SimInv, ReadsTheFileAsked, FilePoints
    <3> QED BY <2>2, <2>6, <3>8, <3>9
  <2> QED BY <2>5, <2>6
<1> QED BY <1>1, <1>2, <1>3, <1>4, <1>5, <1>6, <1>7, <1>8, <1>9, <1>10, <1>11, <1>12, <1>13
     DEF SimStep

\* Every step keeps SimInv.
LEMMA SimInvNext ==
  ASSUME TaskInv, SimInv, [Next]_vars
  PROVE  SimInv'
<1> "NORMAL" \in Queues BY DEF Queues
<1>1. CASE SimStep BY <1>1, SimInvStep
<1>2. CASE Foreign(SimPoints) /\ UNCHANGED simVars
  <2>1. UNCHANGED fileVars BY <1>2 DEF simVars, fileVars
  <2>2. FilePoints \subseteq SimPoints BY DEF SimPoints
  <2> QED BY <1>2, <2>1, <2>2, SimInvSame, SimInvAway DEF Foreign
<1> QED BY <1>1, <1>2, NextIsSim

(* What the card has selected is what the RIL remembers, or nothing, or was *)
(* selected by the id alone.                                                *)
THEOREM SimInvariant == Spec => []SimInv
<1>1. Init => SimInv BY SimInvInit
<1>2. TaskInv /\ SimInv /\ [Next]_vars => SimInv' BY SimInvNext
<1> QED BY <1>1, <1>2, TasksFit, PTL DEF Spec

(* A read over the logical channel is answered from the file asked for, for *)
(* any files and any number of requests, lost commands, restarts and card    *)
(* changes, but for the directory once astray.                              *)
THEOREM AlwaysReadsTheFileAsked == Spec => []ReadsTheFileAsked
<1>1. SimInv => ReadsTheFileAsked BY DEF SimInv
<1> QED BY <1>1, SimInvariant, PTL
=============================================================================
