----------------------- MODULE AtChannelAnswerProofs -----------------------
(***************************************************************************)
(* For any set of threads and commands and any bounds: whose answer a call *)
(* of the AT channel gets, that a MULTILINE answer comes whole and in      *)
(* order, and when lines of an answer leak to the unsolicited handler.     *)
(***************************************************************************)
EXTENDS AtChannelProofs, SequenceTheorems

----------------------------------------------------------------------------
(* The lines under way.  The reader holds one line at most, at 0; those it *)
(* has not read are at 1, 2, ...                                           *)

Ahead == {i \in 0..Len(fromModem) : i = 0 => rpc = "process"}
At(i) == IF i = 0 THEN rline ELSE fromModem[i]

\* No line is added, and nothing changes that the modem is yet to answer.
LinesKept ==
  /\ UNCHANGED <<toModem, infoSent>>
  /\ \E d \in {0, 1} : \A i \in Ahead' : i + d \in Ahead /\ At(i)' = At(i + d)

\* The last line that is under way now is l.
Joins(l) ==
  \A i \in Ahead' : \/ i \in Ahead /\ At(i)' = At(i)
                    \/ At(i)' = l /\ \A j \in Ahead' : j <= i

\* What is under way are lines.
LEMMA AheadLines ==
  ASSUME TypeOK, NEW i \in Ahead
  PROVE  /\ At(i) \in Lines /\ i \in Nat
         /\ i # 0 => i \in 1..Len(fromModem)
  BY DEF TypeOK, ReaderOK, ModemOK, Ahead, At

\* The reader does not touch them.
LEMMA LinesStay ==
  ASSUME UNCHANGED <<fromModem, toModem, infoSent>>, rpc' = "process" => UNCHANGED <<rpc, rline>>
  PROVE  LinesKept
  <1>1. \A i \in Ahead' : i + 0 \in Ahead /\ At(i)' = At(i + 0)
    BY DEF Ahead, At
  <1> QED
    BY <1>1 DEF LinesKept

\* The reader is done with its line.
LEMMA LineDone ==
  ASSUME UNCHANGED <<fromModem, toModem, infoSent>>, rpc' # "process"
  PROVE  /\ LinesKept
         /\ \A i \in Ahead' : i \in Ahead /\ i > 0 /\ At(i)' = At(i)
  <1>1. \A i \in Ahead' : i \in Ahead /\ i > 0 /\ At(i)' = At(i)
    BY DEF Ahead, At
  <1>2. \A i \in Ahead' : i + 0 = i
    BY DEF Ahead
  <1>3. \A i \in Ahead' : i + 0 \in Ahead /\ At(i)' = At(i + 0)
    BY <1>1, <1>2
  <1> QED
    BY <1>1, <1>3 DEF LinesKept

\* It reads a line, to process it or not.
LEMMA LineRead ==
  ASSUME TypeOK, fromModem # <<>>, fromModem' = Tail(fromModem), UNCHANGED <<toModem, infoSent>>,
         rpc' = "process" => rline' = Head(fromModem)
  PROVE  LinesKept
  <1>0. fromModem \in Seq(Lines)
    BY DEF TypeOK, ModemOK
  <1>1. /\ Len(fromModem) \in Nat \ {0} /\ Len(fromModem') = Len(fromModem) - 1
        /\ Head(fromModem) = fromModem[1]
        /\ \A i \in 1..Len(fromModem') : fromModem'[i] = fromModem[i + 1]
    BY <1>0
  <1>2. ASSUME NEW i \in Ahead' PROVE i + 1 \in Ahead /\ At(i)' = At(i + 1)
    <2>1. CASE i = 0
      BY <1>1, <1>2, <2>1 DEF Ahead, At
    <2>2. CASE i # 0
      BY <1>1, <1>2, <2>2 DEF Ahead, At
    <2> QED
      BY <2>1, <2>2
  <1> QED
    BY <1>2 DEF LinesKept

\* The modem sends one line.
LEMMA LineJoins ==
  ASSUME TypeOK, NEW l, Emit(<<l>>), UNCHANGED <<rpc, rline>>
  PROVE  Joins(l)
  <1>0. fromModem \in Seq(Lines) /\ fromModem' = Append(fromModem, l)
    BY DEF TypeOK, ModemOK, Emit
  <1>1. /\ Len(fromModem) \in Nat /\ Len(fromModem') = Len(fromModem) + 1
        /\ fromModem'[Len(fromModem) + 1] = l
        /\ \A i \in 1..Len(fromModem) : fromModem'[i] = fromModem[i]
    BY <1>0
  <1>2. ASSUME NEW i \in Ahead'
        PROVE  \/ i \in Ahead /\ At(i)' = At(i)
               \/ At(i)' = l /\ \A j \in Ahead' : j <= i
    <2>1. CASE i = Len(fromModem) + 1
      <3>1. At(i)' = l
        BY <1>1, <2>1 DEF At
      <3>2. \A j \in Ahead' : j <= i
        BY <1>1, <2>1 DEF Ahead
      <3> QED
        BY <3>1, <3>2
    <2>2. CASE i # Len(fromModem) + 1
      BY <1>1, <2>2 DEF Ahead, At
    <2> QED
      BY <2>1, <2>2
  <1> QED
    BY <1>2 DEF Joins

\* The modem sends unsolicited lines.
LEMMA LinesUnsolicited ==
  ASSUME TypeOK, NEW s \in Seq(Lines), Emit(s), UNCHANGED <<rpc, rline>>,
         \A k \in 1..Len(s) : s[k].of = 0
  PROVE  \A i \in Ahead' : (i \in Ahead /\ At(i)' = At(i)) \/ At(i)'.of = 0
  <1>0. fromModem \in Seq(Lines) /\ fromModem' = fromModem \o s
    BY DEF TypeOK, ModemOK, Emit
  <1>1. /\ Len(fromModem) \in Nat /\ Len(s) \in Nat /\ Len(fromModem') = Len(fromModem) + Len(s)
        /\ \A i \in 1..Len(fromModem) : fromModem'[i] = fromModem[i]
        /\ \A i \in (Len(fromModem) + 1)..Len(fromModem') : fromModem'[i] = s[i - Len(fromModem)]
    BY <1>0
  <1> SUFFICES ASSUME NEW i \in Ahead'
               PROVE  (i \in Ahead /\ At(i)' = At(i)) \/ At(i)'.of = 0
    OBVIOUS
  <1>2. CASE i <= Len(fromModem)
    BY <1>1, <1>2 DEF Ahead, At
  <1>3. CASE i > Len(fromModem)
    <2>1. i - Len(fromModem) \in 1..Len(s) /\ i # 0
      BY <1>1, <1>3 DEF Ahead
    <2>2. fromModem'[i] = s[i - Len(fromModem)]
      BY <1>1, <1>3 DEF Ahead
    <2> QED
      BY <2>1, <2>2 DEF At
  <1>4. i \in Nat
    BY <1>1 DEF Ahead
  <1> QED
    BY <1>1, <1>2, <1>3, <1>4

----------------------------------------------------------------------------
(* Whose answer a call gets.  Commands are answered in the order they were *)
(* sent.  A command whose answer is still to come is at most as far behind *)
(* the last one as commands were abandoned: every other one since then had *)
(* an answer, which came before.                                           *)

\* The pending command has not got the final line of any command.
Unanswered == response # None /\ (response.final = None \/ response.final.of = 0)

\* Of the commands from id on `abandoned` at most have ended, and one may wait.
Recent(id) ==
  id \in 1..sent /\ sent <= id + abandoned /\ (sent = id + abandoned => Unanswered)

\* A line l comes before the answer, or a line of the answer, of command id.
Ordered(l, id) == l.of # 0 => l.of <= id /\ (l.kind = "final" => l.of < id)

LineOrder ==
  /\ \A i \in Ahead, j \in Ahead : i < j /\ At(j).of # 0 => Ordered(At(i), At(j).of)
  /\ \A i \in Ahead, j \in 1..Len(toModem) : Ordered(At(i), toModem[j].id)
  /\ \A i \in 1..Len(toModem), j \in 1..Len(toModem) : i < j => toModem[i].id < toModem[j].id

AllRecent ==
  /\ \A i \in Ahead : At(i).of # 0 => Recent(At(i).of)
  /\ \A j \in 1..Len(toModem) : Recent(toModem[j].id)

\* The pending response belongs to the last command.
LastPending ==
  response # None =>
    /\ response.id = sent
    /\ response.final # None /\ response.final.of # 0
         => response.final.of \in (sent - abandoned)..sent

LagInv == LineOrder /\ AllRecent /\ LastPending /\ ResponseLag

\* What is counted is natural.
LEMMA Numbers ==
  ASSUME TypeOK
  PROVE  /\ sent \in Nat /\ abandoned \in Nat /\ infoSent \in Nat
         /\ Len(toModem) \in Nat
         /\ \A i \in Ahead : i \in Nat /\ At(i).of \in Nat /\ At(i).n \in Nat
         /\ \A j \in 1..Len(toModem) : toModem[j].id \in Nat
         /\ response # None => response.id \in Nat
         /\ response # None /\ response.final # None => response.final.of \in Nat
  <1>1. \A i \in Ahead : i \in Nat /\ At(i).of \in Nat /\ At(i).n \in Nat
    BY AheadLines DEF Lines
  <1>2. Len(toModem) \in Nat /\ \A j \in 1..Len(toModem) : toModem[j].id \in Nat
    <2> DEFINE C == [id : Nat, type : Types, prefix : Prefixes, sms : BOOLEAN]
    <2>1. toModem \in Seq(C)
      BY DEF TypeOK, ModemOK
    <2>2. \A c \in C : c.id \in Nat
      OBVIOUS
    <2> HIDE DEF C
    <2>3. Len(toModem) \in Nat /\ \A j \in 1..Len(toModem) : toModem[j] \in C
      BY <2>1
    <2> QED
      BY <2>2, <2>3
  <1>3. response # None => response.id \in Nat /\ response.final \in Lines \cup {None}
    BY DEF TypeOK, ContextOK, Responses
  <1>4. response # None /\ response.final # None => response.final.of \in Nat
    BY <1>3 DEF Lines
  <1> QED
    BY <1>1, <1>2, <1>3, <1>4 DEF TypeOK, HistoryOK, ModemOK

\* No line is added.
LEMMA OrderKept ==
  ASSUME TypeOK, LineOrder, LinesKept
  PROVE  LineOrder'
  <1>1. PICK d \in {0, 1} : \A i \in Ahead' : i + d \in Ahead /\ At(i)' = At(i + d)
    BY DEF LinesKept
  <1>2. toModem' = toModem
    BY DEF LinesKept
  <1>3. ASSUME NEW i \in Ahead', NEW j \in Ahead', i < j, At(j)'.of # 0
        PROVE  Ordered(At(i)', At(j)'.of)
    <2>1. i + d < j + d
      BY <1>3 DEF Ahead
    <2> QED
      BY <1>1, <1>3, <2>1 DEF LineOrder
  <1> QED
    BY <1>1, <1>2, <1>3 DEF LineOrder

\* A command that is counted, or waits to be, stays so.
LEMMA CountKept ==
  ASSUME sent \in Nat, abandoned \in Nat, abandoned' \in Nat, abandoned <= abandoned',
         NEW id \in Nat, sent <= id + abandoned
  PROVE  sent <= id + abandoned' /\ (sent = id + abandoned' => sent = id + abandoned /\ abandoned' = abandoned)
  <1>1. PICK s \in Nat, a \in Nat, b \in Nat : s = sent /\ a = abandoned /\ b = abandoned'
    OBVIOUS
  <1>2. s <= id + a /\ a <= b
    BY <1>1
  <1>3. ASSUME NEW x \in Nat, NEW y \in Nat, NEW z \in Nat, x <= id + y, y <= z
        PROVE  x <= id + z /\ (x = id + z => x = id + y /\ z = y)
    BY <1>3
  <1>4. s <= id + b /\ (s = id + b => s = id + a /\ b = a)
    BY <1>2, <1>3
  <1> QED
    BY <1>1, <1>4

\* Nor does a command end without being counted.
LEMMA RecentKept ==
  ASSUME TypeOK, TypeOK', AllRecent, LinesKept, sent' = sent, abandoned <= abandoned',
         Unanswered => Unanswered' \/ abandoned' # abandoned
  PROVE  AllRecent'
  <1>1. PICK d \in {0, 1} : \A i \in Ahead' : i + d \in Ahead /\ At(i)' = At(i + d)
    BY DEF LinesKept
  <1>2. ASSUME NEW id \in Nat, Recent(id) PROVE Recent(id)'
    <2>1. sent \in Nat /\ abandoned \in Nat /\ abandoned' \in Nat
      BY DEF TypeOK, HistoryOK
    <2>2. id \in 1..sent /\ sent <= id + abandoned
      BY <1>2 DEF Recent
    <2>3. sent = id + abandoned => Unanswered
      BY <1>2 DEF Recent
    <2>4. /\ sent <= id + abandoned'
          /\ sent = id + abandoned' => sent = id + abandoned /\ abandoned' = abandoned
      BY <2>1, <2>2, CountKept
    <2>5. sent = id + abandoned' => Unanswered'
      BY <2>3, <2>4
    <2> QED
      BY <2>2, <2>4, <2>5 DEF Recent
  <1> QED
    BY <1>1, <1>2, Numbers DEF AllRecent, LinesKept

\* The handling of the answer of a command takes it out of what is to come.
LEMMA RecentAnswered ==
  ASSUME TypeOK, TypeOK', LineOrder, AllRecent, rpc = "process",
         rline.kind = "final", rline.of # 0, UNCHANGED <<fromModem, toModem, sent, abandoned>>,
         rpc' # "process"
  PROVE  AllRecent'
  <1>0. 0 \in Ahead /\ At(0) = rline
    BY DEF Ahead, At, TypeOK, ModemOK
  <1>1. \A i \in Ahead' : i \in Ahead /\ i > 0 /\ At(i)' = At(i)
    BY DEF Ahead, At
  <1>2. /\ sent \in Nat /\ abandoned \in Nat /\ rline.of \in Nat
    BY <1>0, Numbers
  <1>3. sent <= rline.of + abandoned
    BY <1>0 DEF AllRecent, Recent
  <1>4. ASSUME NEW id \in Nat, id \in 1..sent, rline.of < id PROVE Recent(id)'
    <2>1. sent <= id + abandoned /\ sent # id + abandoned
      BY <1>2, <1>3, <1>4
    <2> QED
      BY <1>4, <2>1 DEF Recent
  <1>5. ASSUME NEW i \in Ahead', At(i)'.of # 0 PROVE Recent(At(i).of)'
    <2>1. At(i)' = At(i) /\ At(i).of # 0 /\ i \in Ahead /\ 0 < i
      BY <1>1, <1>5
    <2>2. At(i).of \in Nat /\ At(i).of \in 1..sent
      BY <2>1, Numbers DEF AllRecent, Recent
    <2>3. rline.of < At(i).of
      BY <1>0, <2>1 DEF LineOrder, Ordered
    <2> QED
      BY <1>4, <2>1, <2>2, <2>3
  <1>6. ASSUME NEW j \in 1..Len(toModem) PROVE Recent(toModem[j].id)'
    <2>1. toModem[j].id \in Nat /\ toModem[j].id \in 1..sent
      BY Numbers DEF AllRecent, Recent
    <2>2. rline.of < toModem[j].id
      BY <1>0 DEF LineOrder, Ordered
    <2> QED
      BY <1>4, <2>1, <2>2
  <1> QED
    BY <1>5, <1>6 DEF AllRecent

\* A new command is the last one.
LEMMA LinesSend ==
  ASSUME TypeOK, TypeOK', LineOrder, AllRecent, NEW t \in Threads, SendCommand(t)
  PROVE  LineOrder' /\ AllRecent'
  <1> DEFINE m == Len(toModem)
             c == [id |-> sent + 1, type |-> call[t].type, prefix |-> call[t].prefix,
                   sms |-> call[t].sms]
  <1>0. /\ sent \in Nat /\ abandoned \in Nat /\ sent' = sent + 1 /\ abandoned' = abandoned
        /\ m \in Nat /\ response = None
    BY Numbers DEF SendCommand
  <1>1. /\ Len(toModem') = m + 1 /\ toModem'[m + 1].id = sent + 1
        /\ \A j \in 1..m : toModem'[j] = toModem[j]
    <2>1. toModem' = Append(toModem, c)
      BY DEF SendCommand
    <2>2. toModem \in Seq([id : Nat, type : Types, prefix : Prefixes, sms : BOOLEAN])
      BY DEF TypeOK, ModemOK
    <2>3. c.id = sent + 1
      OBVIOUS
    <2> HIDE DEF c
    <2>4. /\ Len(toModem') = m + 1 /\ toModem'[m + 1] = c
          /\ \A j \in 1..m : toModem'[j] = toModem[j]
      BY <2>1, <2>2
    <2> QED
      BY <2>3, <2>4
  <1>2. Ahead' = Ahead /\ \A i \in Ahead : At(i)' = At(i)
    BY DEF SendCommand, reader, Ahead, At
  <1>3. \A i \in Ahead : At(i).of # 0 => At(i).of \in 1..sent
    BY DEF AllRecent, Recent
  <1>4. \A j \in 1..m : toModem[j].id \in 1..sent
    BY DEF AllRecent, Recent
  <1>5. Unanswered'
    BY NewResponseOK, AtChannelAssumption DEF Unanswered, SendCommand
  <1>6. ASSUME NEW id, Recent(id) PROVE Recent(id)'
    <2>1. id \in 1..sent /\ sent <= id + abandoned
      BY <1>6 DEF Recent
    <2>2. sent # id + abandoned
      BY <1>0, <1>6 DEF Recent, Unanswered
    <2>3. id \in 1..(sent + 1) /\ sent + 1 <= id + abandoned
      BY <1>0, <2>1, <2>2
    <2> QED
      BY <1>0, <1>5, <2>3 DEF Recent
  <1> HIDE DEF m
  <1>7. LineOrder'
    <2>1. ASSUME NEW i \in Ahead, NEW j \in 1..(m + 1) PROVE Ordered(At(i), toModem'[j].id)
      <3>1. CASE j = m + 1
        BY <1>0, <1>1, <1>3, <3>1 DEF Ordered
      <3>2. CASE j # m + 1
        <4>1. j \in 1..m
          BY <1>0, <3>2
        <4> QED
          BY <4>1, <1>1 DEF LineOrder, m
      <3> QED
        BY <3>1, <3>2
    <2>2. ASSUME NEW i \in 1..(m + 1), NEW j \in 1..(m + 1), i < j
          PROVE  toModem'[i].id < toModem'[j].id
      <3>0. i \in 1..m
        BY <1>0, <2>2
      <3>1. CASE j = m + 1
        BY <1>0, <1>1, <1>4, <3>0, <3>1
      <3>2. CASE j # m + 1
        <4>1. j \in 1..m
          BY <1>0, <3>2
        <4> QED
          BY <2>2, <3>0, <4>1, <1>1 DEF LineOrder, m
      <3> QED
        BY <3>1, <3>2
    <2> QED
      BY <1>1, <1>2, <2>1, <2>2 DEF LineOrder
  <1>8. AllRecent'
    <2>1. PICK k \in Nat : k = sent + 1
      BY <1>0
    <2>4. Recent(k)'
      <3>1. sent' = k /\ k \in 1..k /\ k <= k + abandoned'
        BY <1>0, <2>1
      <3> QED
        BY <1>5, <3>1 DEF Recent
    <2>2. ASSUME NEW j \in 1..(m + 1) PROVE Recent(toModem[j].id)'
      <3>1. CASE j = m + 1
        BY <1>1, <2>1, <2>4, <3>1
      <3>2. CASE j # m + 1
        <4>1. j \in 1..m
          BY <1>0, <3>2
        <4>2. Recent(toModem[j].id)
          BY <4>1 DEF AllRecent, m
        <4>3. PICK id : id = toModem[j].id
          OBVIOUS
        <4>4. Recent(id)'
          BY <1>6, <4>2, <4>3
        <4> QED
          BY <4>1, <4>3, <4>4, <1>1
      <3> QED
        BY <3>1, <3>2
    <2>3. ASSUME NEW i \in Ahead', At(i)'.of # 0 PROVE Recent(At(i).of)'
      BY <1>2, <1>6, <2>3 DEF AllRecent
    <2> QED
      BY <1>1, <2>2, <2>3 DEF AllRecent
  <1> QED
    BY <1>7, <1>8

\* The modem sends a line of the answer to the first command, the final one when
\* it is done with it.
LEMMA LinesAnswer ==
  ASSUME TypeOK, LineOrder, AllRecent, NEW l, Joins(l), NEW e \in {0, 1},
         toModem # <<>>, l.of = toModem[1].id, l.kind = "final" => e = 1,
         \A j \in 1..Len(toModem') : j + e \in 1..Len(toModem) /\ toModem'[j] = toModem[j + e],
         UNCHANGED <<response, sent, abandoned>>
  PROVE  LineOrder' /\ AllRecent'
  <1>0. 1 \in 1..Len(toModem) /\ \A j \in 1..Len(toModem) : j \in Nat /\ toModem[j].id \in Nat
    <2>1. toModem \in Seq([id : Nat, type : Types, prefix : Prefixes, sms : BOOLEAN])
      BY DEF TypeOK, ModemOK
    <2>2. Len(toModem) \in Nat /\ Len(toModem) # 0
      BY <2>1
    <2> QED
      BY <2>2, Numbers
  <1>1. \A id : Recent(id) => Recent(id)'
    BY DEF Recent, Unanswered
  <1>2. ASSUME NEW i \in Ahead', NEW j \in Ahead', i < j, At(j)'.of # 0
        PROVE  Ordered(At(i)', At(j)'.of)
    <2>0. i \in Nat /\ j \in Nat /\ ~(j <= i)
      BY <1>2 DEF Ahead
    <2>1. i \in Ahead /\ At(i)' = At(i)
      BY <1>2, <2>0 DEF Joins
    <2>2. CASE j \in Ahead /\ At(j)' = At(j)
      BY <1>2, <2>1, <2>2 DEF LineOrder
    <2>3. CASE At(j)' = l
      BY <1>0, <2>1, <2>3 DEF LineOrder
    <2> QED
      BY <2>2, <2>3 DEF Joins
  <1>3. ASSUME NEW i \in Ahead', NEW j \in 1..Len(toModem')
        PROVE  Ordered(At(i)', toModem'[j].id)
    <2>0. PICK k \in 1..Len(toModem) : k = j + e /\ toModem'[j] = toModem[k]
      OBVIOUS
    <2>1. CASE i \in Ahead /\ At(i)' = At(i)
      BY <2>0, <2>1 DEF LineOrder
    <2>2. CASE At(i)' = l
      <3>1. CASE k = 1
        <4>1. e = 0
          BY <2>0, <3>1
        <4>2. l.kind # "final" /\ l.of <= toModem[k].id
          BY <1>0, <3>1, <4>1
        <4> QED
          BY <2>0, <2>2, <4>2 DEF Ordered
      <3>2. CASE k # 1
        <4>1. 1 < k
          BY <3>2
        <4>2. toModem[1].id < toModem[k].id
          BY <1>0, <4>1 DEF LineOrder
        <4>3. l.of < toModem[k].id /\ l.of <= toModem[k].id
          BY <1>0, <4>2
        <4> QED
          BY <2>0, <2>2, <4>3 DEF Ordered
      <3> QED
        BY <3>1, <3>2
    <2> QED
      BY <2>1, <2>2 DEF Joins
  <1>4. ASSUME NEW i \in 1..Len(toModem'), NEW j \in 1..Len(toModem'), i < j
        PROVE  toModem'[i].id < toModem'[j].id
    <2>1. i + e \in 1..Len(toModem) /\ j + e \in 1..Len(toModem) /\ i + e < j + e
      BY <1>4
    <2> QED
      BY <2>1 DEF LineOrder
  <1>5. LineOrder'
    BY <1>2, <1>3, <1>4 DEF LineOrder
  <1>6. ASSUME NEW i \in Ahead', At(i)'.of # 0 PROVE Recent(At(i).of)'
    <2>1. Recent(At(i)'.of)
      BY <1>0, <1>6 DEF Joins, AllRecent
    <2>2. PICK id : id = At(i)'.of
      OBVIOUS
    <2> QED
      BY <1>1, <2>1, <2>2
  <1>7. ASSUME NEW j \in 1..Len(toModem') PROVE Recent(toModem[j].id)'
    <2>1. PICK id : id = toModem'[j].id
      OBVIOUS
    <2>2. Recent(id)
      BY <2>1 DEF AllRecent
    <2> QED
      BY <1>1, <2>1, <2>2
  <1> QED
    BY <1>5, <1>6, <1>7 DEF AllRecent

\* It drops the first command, or sends lines that answer none.
LEMMA LinesOther ==
  ASSUME TypeOK, LineOrder, AllRecent, NEW e \in {0, 1},
         \A i \in Ahead' : (i \in Ahead /\ At(i)' = At(i)) \/ At(i)'.of = 0,
         \A j \in 1..Len(toModem') : j + e \in 1..Len(toModem) /\ toModem'[j] = toModem[j + e],
         UNCHANGED <<response, sent, abandoned>>
  PROVE  LineOrder' /\ AllRecent'
  <1>1. \A id : Recent(id) => Recent(id)'
    BY DEF Recent, Unanswered
  <1>2. ASSUME NEW i \in Ahead', NEW j \in Ahead', i < j, At(j)'.of # 0
        PROVE  Ordered(At(i)', At(j)'.of)
    <2>1. j \in Ahead /\ At(j)' = At(j)
      BY <1>2
    <2>2. CASE i \in Ahead /\ At(i)' = At(i)
      BY <1>2, <2>1, <2>2 DEF LineOrder
    <2>3. CASE At(i)'.of = 0
      BY <2>3 DEF Ordered
    <2> QED
      BY <2>2, <2>3
  <1>3. ASSUME NEW i \in Ahead', NEW j \in 1..Len(toModem')
        PROVE  Ordered(At(i)', toModem'[j].id)
    <2>1. CASE i \in Ahead /\ At(i)' = At(i)
      BY <2>1 DEF LineOrder
    <2>2. CASE At(i)'.of = 0
      BY <2>2 DEF Ordered
    <2> QED
      BY <2>1, <2>2
  <1>4. ASSUME NEW i \in 1..Len(toModem'), NEW j \in 1..Len(toModem'), i < j
        PROVE  toModem'[i].id < toModem'[j].id
    <2>1. i + e \in 1..Len(toModem) /\ j + e \in 1..Len(toModem) /\ i + e < j + e
      BY <1>4
    <2> QED
      BY <2>1 DEF LineOrder
  <1>5. LineOrder'
    BY <1>2, <1>3, <1>4 DEF LineOrder
  <1>6. ASSUME NEW i \in Ahead', At(i)'.of # 0 PROVE Recent(At(i).of)'
    <2>1. Recent(At(i)'.of)
      BY <1>6 DEF AllRecent
    <2>2. PICK id : id = At(i)'.of
      OBVIOUS
    <2> QED
      BY <1>1, <2>1, <2>2
  <1>7. ASSUME NEW j \in 1..Len(toModem') PROVE Recent(toModem[j].id)'
    <2>1. PICK id : id = toModem'[j].id
      OBVIOUS
    <2>2. Recent(id)
      BY <2>1 DEF AllRecent
    <2> QED
      BY <1>1, <2>1, <2>2
  <1> QED
    BY <1>5, <1>6, <1>7 DEF AllRecent

\* The commands the modem has are all there, or the first one is gone.
LEMMA CommandsShift ==
  ASSUME TypeOK, \/ toModem' = toModem
                 \/ toModem # <<>> /\ toModem' = Tail(toModem)
  PROVE  \E e \in {0, 1} :
           /\ toModem' = Tail(toModem) => e = 1
           /\ \A j \in 1..Len(toModem') : j + e \in 1..Len(toModem) /\ toModem'[j] = toModem[j + e]
  <1> DEFINE C == [id : Nat, type : Types, prefix : Prefixes, sms : BOOLEAN]
  <1>1. toModem \in Seq(C)
    BY DEF TypeOK, ModemOK
  <1> HIDE DEF C
  <1>2. CASE toModem # <<>> /\ toModem' = Tail(toModem)
    <2>1. /\ Len(toModem) \in Nat /\ Len(toModem') = Len(toModem) - 1
          /\ \A j \in 1..Len(toModem') : toModem'[j] = toModem[j + 1]
      BY <1>1, <1>2
    <2>2. \A j \in 1..Len(toModem') : j + 1 \in 1..Len(toModem)
      BY <2>1
    <2> QED
      BY <2>1, <2>2
  <1>3. CASE toModem' = toModem /\ (toModem = <<>> \/ toModem' # Tail(toModem))
    <2>1. \A j \in 1..Len(toModem') : j + 0 \in 1..Len(toModem) /\ toModem'[j] = toModem[j + 0]
      BY <1>3
    <2>2. Len(toModem') = 0 \/ toModem' # Tail(toModem)
      BY <1>3
    <2>3. Len(toModem') = 0 => \A j \in 1..Len(toModem') :
            j + 1 \in 1..Len(toModem) /\ toModem'[j] = toModem[j + 1]
      OBVIOUS
    <2> QED
      BY <2>1, <2>2, <2>3
  <1> QED
    BY <1>2, <1>3

\* Its unsolicited lines answer no command; the second line of a message comes
\* with the first.
LEMMA UnsolicitedLines ==
  ASSUME ModemUnsolicited
  PROVE  \E s : /\ Emit(s) /\ s \in Seq(Lines)
                /\ \A i \in 1..Len(s) : s[i].of = 0 /\ s[i].kind # "prompt"
                /\ \A i \in 1..Len(s) : s[i].kind = "sms" => i < Len(s)
  <1> DEFINE U(k, p) == Line(k, FALSE, p, 0, 0)
  <1>1. \A k \in {"final", "info", "sms", "pdu"}, p \in Prefixes :
          U(k, p) \in Lines /\ U(k, p).of = 0 /\ U(k, p).kind = k
    BY DEF Line, Lines
  <1>2. NoPrefix \in Prefixes /\ UnsolPrefixes \subseteq Prefixes
    BY AtChannelAssumption
  <1> DEFINE Good(s) == /\ s \in Seq(Lines)
                        /\ \A i \in 1..Len(s) : s[i].of = 0 /\ s[i].kind # "prompt"
                        /\ \A i \in 1..Len(s) : s[i].kind = "sms" => i < Len(s)
  <1>a. ASSUME NEW l \in Lines, l.of = 0, l.kind \notin {"sms", "prompt"} PROVE Good(<<l>>)
    BY <1>a
  <1>b. ASSUME NEW l \in Lines, NEW m \in Lines, l.of = 0, m.of = 0,
               l.kind # "prompt", m.kind \notin {"sms", "prompt"}
        PROVE  Good(<<l, m>>)
    BY <1>b
  <1>7. /\ \A p \in Prefixes : /\ U("info", p) \in Lines /\ U("info", p).of = 0
                                 /\ U("info", p).kind \notin {"sms", "prompt"}
        /\ U("sms", NoPrefix) \in Lines /\ U("sms", NoPrefix).of = 0 /\ U("sms", NoPrefix).kind # "prompt"
        /\ U("pdu", NoPrefix) \in Lines /\ U("pdu", NoPrefix).of = 0 /\ U("pdu", NoPrefix).kind \notin {"sms", "prompt"}
        /\ U("final", NoPrefix) \in Lines /\ U("final", NoPrefix).of = 0
        /\ U("final", NoPrefix).kind \notin {"sms", "prompt"}
    BY <1>1, <1>2
  <1> HIDE DEF U, Good
  <1>3. ASSUME NEW p \in UnsolPrefixes PROVE Good(<<U("info", p)>>)
    BY <1>2, <1>7, <1>a
  <1>4. Good(<<U("sms", NoPrefix), U("pdu", NoPrefix)>>)
    BY <1>7, <1>b
  <1>5. Good(<<U("final", NoPrefix)>>)
    BY <1>7, <1>a
  <1>6. \/ \E p \in UnsolPrefixes : Emit(<<U("info", p)>>)
        \/ Emit(<<U("sms", NoPrefix), U("pdu", NoPrefix)>>)
        \/ Emit(<<U("final", NoPrefix)>>)
    BY DEF ModemUnsolicited, U
  <1>8. \E s : Emit(s) /\ Good(s)
    BY <1>3, <1>4, <1>5, <1>6
  <1> QED
    BY <1>8 DEF Good

\* Every step of the modem.
LEMMA LinesModem ==
  ASSUME TypeOK, LineOrder, AllRecent, ModemStep
  PROVE  LineOrder' /\ AllRecent'
  <1>0. UNCHANGED <<response, sent, abandoned, rpc, rline>>
    BY DEF ModemStep, ModemInfo, ModemPrompt, ModemFinal, ModemLose, ModemUnsolicited, ModemHangUp,
           ModemOther, context, reader, history
  <1>1. CASE ModemInfo \/ ModemPrompt \/ ModemFinal
    <2>1. PICK l : /\ Emit(<<l>>) /\ toModem # <<>> /\ l.of = toModem[1].id
                   /\ \/ l.kind # "final" /\ toModem' = toModem
                      \/ toModem' = Tail(toModem)
      <3>0. Head(toModem) = toModem[1]
        OBVIOUS
      <3>2. CASE ModemInfo
        <4> DEFINE l == Line("info", FALSE, Head(toModem).prefix, Head(toModem).id, infoSent + 1)
        <4>1. /\ toModem # <<>> /\ toModem' = toModem /\ Emit(<<l>>)
          BY <3>2 DEF ModemInfo
        <4>2. l.kind # "final" /\ l.of = toModem[1].id
          BY <3>0 DEF Line
        <4> HIDE DEF l
        <4> QED
          BY <4>1, <4>2
      <3>3. CASE ModemPrompt
        <4> DEFINE l == Line("prompt", FALSE, NoPrefix, Head(toModem).id, 0)
        <4>1. /\ toModem # <<>> /\ toModem' = toModem /\ Emit(<<l>>)
          BY <3>3 DEF ModemPrompt
        <4>2. l.kind # "final" /\ l.of = toModem[1].id
          BY <3>0 DEF Line
        <4> HIDE DEF l
        <4> QED
          BY <4>1, <4>2
      <3>4. CASE ModemFinal
        <4>1. PICK ok \in BOOLEAN :
                Emit(<<Line("final", ok, Head(toModem).prefix, Head(toModem).id, infoSent)>>)
          BY <3>4 DEF ModemFinal
        <4> DEFINE l == Line("final", ok, Head(toModem).prefix, Head(toModem).id, infoSent)
        <4>2. /\ toModem # <<>> /\ toModem' = Tail(toModem) /\ Emit(<<l>>)
          BY <3>4, <4>1 DEF ModemFinal
        <4>3. l.of = toModem[1].id
          BY <3>0 DEF Line
        <4> HIDE DEF l
        <4> QED
          BY <4>2, <4>3
      <3> QED
        BY <1>1, <3>2, <3>3, <3>4
    <2>2. Joins(l)
      BY <1>0, <2>1, LineJoins
    <2>3. PICK e \in {0, 1} :
            /\ toModem' = Tail(toModem) => e = 1
            /\ \A j \in 1..Len(toModem') : j + e \in 1..Len(toModem) /\ toModem'[j] = toModem[j + e]
      BY <2>1, CommandsShift
    <2> QED
      BY <1>0, <2>1, <2>2, <2>3, LinesAnswer
  <1>2. CASE ModemLose \/ ModemHangUp
    <2>1. /\ fromModem' = fromModem
          /\ \/ toModem' = toModem
             \/ toModem # <<>> /\ toModem' = Tail(toModem)
      BY <1>2 DEF ModemLose, ModemHangUp
    <2>2. PICK e \in {0, 1} :
            \A j \in 1..Len(toModem') : j + e \in 1..Len(toModem) /\ toModem'[j] = toModem[j + e]
      BY <2>1, CommandsShift
    <2>3. \A i \in Ahead' : i \in Ahead /\ At(i)' = At(i)
      BY <1>0, <2>1 DEF Ahead, At
    <2> QED
      BY <1>0, <2>2, <2>3, LinesOther
  <1>3. CASE ModemUnsolicited
    <2>1. PICK s : Emit(s) /\ s \in Seq(Lines) /\ \A k \in 1..Len(s) : s[k].of = 0
      BY <1>3, UnsolicitedLines
    <2>2. \A i \in Ahead' : (i \in Ahead /\ At(i)' = At(i)) \/ At(i)'.of = 0
      BY <1>0, <2>1, LinesUnsolicited
    <2>3. \A j \in 1..Len(toModem') : j + 0 \in 1..Len(toModem) /\ toModem'[j] = toModem[j + 0]
      BY <1>3 DEF ModemUnsolicited
    <2> QED
      BY <1>0, <2>2, <2>3, LinesOther
  <1> QED
    BY <1>1, <1>2, <1>3 DEF ModemStep

----------------------------------------------------------------------------
(* The steps of threads and of the reader, by what they do to the dialogue *)

\* Calls in progress and results stay, or a call begins.
ResultsKept ==
  \A u \in Threads : result'[u].err = "none" \/ (result'[u] = result[u] /\ call'[u] = call[u])

\* The command of the pending thread is the same.
CallKept ==
  requestmutex' = requestmutex /\ (requestmutex # None => call'[requestmutex] = call[requestmutex])

Quiet ==
  /\ LinesKept /\ ResultsKept /\ CallKept
  /\ UNCHANGED <<response, sent, abandoned, mixed>>
  /\ prompt' = "no" <=> prompt = "no"
  /\ leaked' = leaked \/ ReadSecondLine

\* The call of thread t ends.  It is the pending one, or none is.
Returns(t, err) ==
  /\ Return(t, err)
  /\ UNCHANGED <<reader, modem, sent, mixed, leaked>>
  /\ response # None => requestmutex = t
  /\ err = "0" => response # None /\ response.final # None
  /\ err \notin {"none", "INVALID_RESPONSE"}

\* What a thread does: it sends a command, ends a call, or leaves the answers alone.
LEMMA ThreadKinds ==
  ASSUME TypeOK, Control, NEW t \in Threads, ThreadStep(t)
  PROVE  Quiet \/ SendCommand(t) \/ \E err \in Errors : Returns(t, err)
  <1>1. ASSUME pc[t] = "idle", NEW c, NEW p, call' = [call EXCEPT ![t] = c],
               result' = [result EXCEPT ![t] = NoResult],
               UNCHANGED <<context, reader, modem, history>>
        PROVE  Quiet
    <2>1. LinesKept
      BY <1>1, LinesStay DEF reader, modem
    <2>2. ResultsKept
      BY <1>1 DEF ResultsKept, NoResult, TypeOK, ThreadOK
    <2>3. requestmutex # t
      BY <1>1 DEF Control, OnePending, Waiting
    <2>4. CallKept
      BY <1>1, <2>3 DEF CallKept, context, TypeOK, ThreadOK, ContextOK
    <2> QED
      BY <1>1, <2>1, <2>2, <2>4 DEF Quiet, context, modem, history
  <1>2. ASSUME UNCHANGED <<response, requestmutex, call, result, rpc, rline, fromModem, toModem,
                           infoSent, history>>,
               prompt' = "no" <=> prompt = "no"
        PROVE  Quiet
    <2>1. LinesKept
      BY <1>2, LinesStay
    <2>2. ResultsKept /\ CallKept
      BY <1>2 DEF ResultsKept, CallKept
    <2> QED
      BY <1>2, <2>1, <2>2 DEF Quiet, history
  <1>3. CASE (\E c \in Commands : at_send_command(t, c)) \/ at_handshake(t)
    BY <1>1, <1>3 DEF at_send_command, at_handshake
  <1>4. CASE \/ WaitRequest(t) \/ SpuriousWakeup(t) \/ WaitAgain(t) \/ Timeout(t) \/ HandshakeDone(t)
             \/ at_set_on_reader_closed(t) \/ at_close(t) \/ CloseSignal(t) \/ CloseKick(t)
    <2>1. /\ UNCHANGED <<response, requestmutex, call, result, rpc, rline, fromModem, toModem,
                         infoSent, history>>
          /\ prompt' = prompt
      BY <1>4 DEF WaitRequest, SpuriousWakeup, WaitAgain, Timeout, HandshakeDone,
                  at_set_on_reader_closed, at_close, CloseSignal, CloseKick, context, thread,
                  reader, modem
    <2> QED
      BY <1>2, <2>1
  <1>5. CASE onATTimeout(t)
    <2>1. UNCHANGED <<response, requestmutex, call, result, rpc, rline, fromModem, toModem,
                      infoSent, history>>
      BY <1>5 DEF onATTimeout, context, reader
    <2>2. prompt' = "no" <=> prompt = "no"
      BY <1>5 DEF onATTimeout
    <2> QED
      BY <1>2, <2>1, <2>2
  <1>6. CASE SendFails(t)
    <2>1. requestmutex = None /\ response = None
      BY <1>6 DEF SendFails, Control, OnePending
    <2>2. PICK err \in {"CHANNEL_CLOSED", "GENERIC"} : Return(t, err)
      BY <1>6, <2>1 DEF SendFails
    <2>3. Returns(t, err) /\ err \in Errors
      BY <1>6, <2>1, <2>2 DEF Returns, SendFails, Errors
    <2> QED
      BY <2>3
  <1>7. CASE Complete(t)
    <2>1. requestmutex = t
      BY <1>7 DEF Complete, Control, OnePending, Waiting
    <2>2. response # None
      BY <2>1, AtChannelAssumption DEF Control, OnePending
    <2>3. PICK err \in {"CHANNEL_CLOSED", "0"} :
            Return(t, err) /\ (err = "0" => response.final # None)
      BY <1>7 DEF Complete
    <2>4. Returns(t, err) /\ err \in Errors
      BY <1>7, <2>1, <2>2, <2>3 DEF Returns, Complete, Errors
    <2> QED
      BY <2>4
  <1>8. CASE GiveUp(t)
    <2>1. requestmutex = t
      BY <1>8 DEF GiveUp, Control, OnePending, Waiting
    <2>2. Returns(t, "TIMEOUT") /\ "TIMEOUT" \in Errors
      BY <1>8, <2>1 DEF Returns, GiveUp, Errors
    <2> QED
      BY <2>2
  <1> QED
    BY <1>3, <1>4, <1>5, <1>6, <1>7, <1>8 DEF ThreadStep

\* What the reader does: it processes a line, or leaves the answers alone.
LEMMA ReaderKinds ==
  ASSUME TypeOK, ReaderStep
  PROVE  Quiet \/ processLine
  <1>1. ASSUME LinesKept, UNCHANGED <<context, thread, prompt, sent, abandoned, mixed>>,
               leaked' = leaked \/ ReadSecondLine
        PROVE  Quiet
    BY <1>1 DEF Quiet, ResultsKept, CallKept, context, thread
  <1>2. CASE ReadLine
    <2>1. fromModem # <<>> /\ fromModem' = Tail(fromModem) /\ UNCHANGED <<toModem, infoSent>>
          /\ (rpc' = "process" => rline' = Head(fromModem))
      BY <1>2 DEF ReadLine
    <2>2. LinesKept
      BY <2>1, LineRead
    <2> QED
      BY <1>1, <1>2, <2>2 DEF ReadLine, history
  <1>3. CASE ReadSecondLine
    <2>1. fromModem # <<>> /\ fromModem' = Tail(fromModem) /\ UNCHANGED <<toModem, infoSent>>
          /\ rpc' # "process"
      BY <1>3 DEF ReadSecondLine
    <2>2. LinesKept
      BY <2>1, LineRead
    <2> QED
      BY <1>1, <1>3, <2>2 DEF ReadSecondLine
  <1>4. CASE \/ ReadEOF \/ ReadKicked \/ ReadClosed \/ onReaderClosedTest \/ onReaderClosedCallback
    <2>1. /\ rpc' # "process" /\ UNCHANGED <<context, thread, modem>>
          /\ UNCHANGED <<sent, abandoned, mixed, leaked>>
      BY <1>4 DEF ReadEOF, ReadKicked, ReadClosed, ReaderFails, onReaderClosedTest,
                  onReaderClosedCallback, history
    <2>2. LinesKept
      BY <2>1, LineDone DEF modem
    <2> QED
      BY <1>1, <2>1, <2>2 DEF modem
  <1>5. CASE onReaderClosedMark
    <2>1. /\ rpc' # "process" /\ UNCHANGED <<response, requestmutex, call, result, modem, history>>
      BY <1>5 DEF onReaderClosedMark
    <2>2. LinesKept
      BY <2>1, LineDone DEF modem
    <2> QED
      BY <2>1, <2>2 DEF Quiet, ResultsKept, CallKept, modem, history
  <1> QED
    BY <1>2, <1>3, <1>4, <1>5 DEF ReaderStep

----------------------------------------------------------------------------
(* Every step keeps the order of the lines and what is counted             *)

\* More commands abandoned allow a longer lag.
LEMMA LagGrows ==
  ASSUME NEW a \in Nat, NEW b \in Nat, a <= b, NEW id \in Nat, NEW of \in (id - a)..id
  PROVE  of \in (id - b)..id
  OBVIOUS

\* A call that begins, or none that ends.
LEMMA LagKept ==
  ASSUME ResponseLag, ResultsKept, UNCHANGED abandoned
  PROVE  ResponseLag'
  BY DEF ResponseLag, ResultsKept

\* Nothing is sent, answered or given up.
LEMMA LagQuiet ==
  ASSUME TypeOK, TypeOK', LagInv, Quiet
  PROVE  LagInv'
  <1>1. abandoned \in Nat /\ abandoned' = abandoned /\ sent' = sent /\ response' = response
    BY DEF Quiet, TypeOK, HistoryOK
  <1>2. LineOrder'
    BY OrderKept DEF LagInv, Quiet
  <1>3. Unanswered' = Unanswered
    BY <1>1 DEF Unanswered
  <1>4. AllRecent'
    BY <1>1, <1>3, RecentKept DEF LagInv, Quiet
  <1>5. LastPending'
    BY <1>1 DEF LagInv, LastPending
  <1>6. ResponseLag'
    BY <1>1, LagKept DEF LagInv, Quiet
  <1> QED
    BY <1>2, <1>4, <1>5, <1>6 DEF LagInv

\* A command is sent: it is the last one, and none was pending.
LEMMA LagSend ==
  ASSUME TypeOK, TypeOK', LagInv, NEW t \in Threads, SendCommand(t)
  PROVE  LagInv'
  <1>1. LineOrder' /\ AllRecent'
    BY LinesSend DEF LagInv
  <1>2. response'.id = sent' /\ response'.final = None
    BY NewResponseOK DEF SendCommand
  <1>3. LastPending'
    BY <1>2 DEF LastPending
  <1>4. ResponseLag'
    <2>1. UNCHANGED <<result, abandoned>>
      BY DEF SendCommand
    <2> QED
      BY <2>1 DEF LagInv, ResponseLag
  <1> QED
    BY <1>1, <1>3, <1>4 DEF LagInv

\* The call that ends is counted when it got no answer.
LEMMA LagReturn ==
  ASSUME TypeOK, TypeOK', LagInv, NEW t \in Threads, NEW err, Returns(t, err)
  PROVE  LagInv'
  <1>0. /\ abandoned \in Nat /\ abandoned' \in Nat /\ sent' = sent /\ sent \in Nat
        /\ abandoned' = IF Unanswered THEN abandoned + 1 ELSE abandoned
    BY DEF Returns, Return, Unanswered, TypeOK, HistoryOK
  <1>1. /\ abandoned <= abandoned'
        /\ Unanswered => abandoned' # abandoned
    BY <1>0
  <1>2. LinesKept
    BY LinesStay DEF Returns, reader, modem
  <1>3. LineOrder'
    BY <1>2, OrderKept DEF LagInv
  <1>4. AllRecent'
    BY <1>0, <1>1, <1>2, RecentKept DEF LagInv
  <1>5. LastPending'
    BY DEF LastPending, Returns, Return
  <1>6. ResponseLag'
    <2> SUFFICES ASSUME NEW u \in Threads, result'[u].err \in {"0", "INVALID_RESPONSE"},
                        result'[u].final.of # 0
                 PROVE  result'[u].final.of \in (result'[u].id - abandoned')..result'[u].id
      BY DEF ResponseLag
    <2>0. result'[u].id \in Nat
      BY DEF TypeOK, ThreadOK
    <2>1. CASE u # t
      <3>1. result'[u] = result[u]
        BY <2>1 DEF Returns, Return, TypeOK, ThreadOK
      <3>2. result'[u].final.of \in (result'[u].id - abandoned)..result'[u].id
        BY <3>1 DEF LagInv, ResponseLag
      <3> QED
        BY <1>0, <1>1, <2>0, <3>2, LagGrows
    <2>2. CASE u = t
      <3>1. result'[t] = IF response = None THEN [NoResult EXCEPT !.err = err]
                         ELSE [err |-> checkIntermediate(call[t], err, response), id |-> response.id,
                               final |-> response.final,
                               lines |-> reverseIntermediates(response.intermediates)]
        BY DEF Returns, Return, TypeOK, ThreadOK
      <3>2. response # None /\ response.final # None
        <4>1. CASE response = None
          BY <2>2, <3>1, <4>1 DEF NoResult, Returns
        <4>2. CASE response # None
          BY <2>2, <3>1, <4>2 DEF checkIntermediate, Returns
        <4> QED
          BY <4>1, <4>2
      <3>3. result'[t].id = response.id /\ result'[t].final = response.final
        BY <3>1, <3>2
      <3>4. result'[t].final.of \in (result'[t].id - abandoned)..result'[t].id
        BY <2>2, <3>2, <3>3 DEF LagInv, LastPending
      <3> QED
        BY <1>0, <1>1, <2>0, <2>2, <3>4, LagGrows
    <2> QED
      BY <2>1, <2>2
  <1> QED
    BY <1>3, <1>4, <1>5, <1>6 DEF LagInv

\* A line is processed: the answer of a command, or any other.
LEMMA LagProcess ==
  ASSUME TypeOK, TypeOK', LagInv, processLine
  PROVE  LagInv'
  <1>0. /\ UNCHANGED <<fromModem, toModem, infoSent, sent, abandoned, result, call>>
        /\ rpc = "process" /\ rpc' # "process"
        /\ abandoned \in Nat /\ sent \in Nat
    BY DEF processLine, TypeOK, HistoryOK
  <1>1. LinesKept
    BY <1>0, LineDone
  <1>2. LineOrder'
    BY <1>1, OrderKept DEF LagInv
  <1>3. ResponseLag'
    BY <1>0 DEF LagInv, ResponseLag
  <1>4. 0 \in Ahead /\ At(0) = rline /\ rline \in Lines
    BY <1>0, AheadLines DEF Ahead, At, TypeOK, ModemOK
  <1>5. CASE handleFinalResponse
    <2>0. response # None /\ rline.kind = "final"
      BY <1>5 DEF handleFinalResponse, isFinalResponse
    <2>1. response' # None /\ response'.id = response.id /\ response'.final = rline
      <3>1. response \in Responses
        BY <2>0 DEF TypeOK, ContextOK
      <3>2. response' = [response EXCEPT !.final = rline]
        BY <1>5 DEF handleFinalResponse
      <3>3. response' \in Responses /\ response'.id = response.id /\ response'.final = rline
        BY <1>4, <3>1, <3>2 DEF Responses
      <3> QED
        BY <3>3, AtChannelAssumption
    <2>2. CASE rline.of = 0
      <3>1. Unanswered'
        BY <2>1, <2>2 DEF Unanswered
      <3>2. AllRecent'
        BY <1>0, <1>1, <3>1, RecentKept DEF LagInv
      <3>3. LastPending'
        BY <1>0, <2>0, <2>1, <2>2 DEF LagInv, LastPending
      <3> QED
        BY <1>2, <1>3, <3>2, <3>3 DEF LagInv
    <2>3. CASE rline.of # 0
      <3>1. AllRecent'
        BY <1>0, <2>0, <2>3, RecentAnswered DEF LagInv
      <3>2. rline.of \in 1..sent /\ sent <= rline.of + abandoned
        BY <1>4, <2>3 DEF LagInv, AllRecent, Recent
      <3>3. rline.of \in (sent - abandoned)..sent
        BY <1>0, <3>2
      <3>4. LastPending'
        BY <1>0, <2>0, <2>1, <3>3 DEF LagInv, LastPending
      <3> QED
        BY <1>2, <1>3, <3>1, <3>4 DEF LagInv
    <2> QED
      BY <2>2, <2>3
  <1>6. CASE handlePrompt \/ keepIntermediate \/ handleUnsolicited
    <2>1. /\ response' = None <=> response = None
          /\ response # None => response'.id = response.id /\ response'.final = response.final
      <3>1. CASE handleUnsolicited
        BY <3>1 DEF handleUnsolicited
      <3>2. CASE handlePrompt \/ keepIntermediate
        <4>1. response \in Responses
          BY <3>2 DEF handlePrompt, keepIntermediate, TypeOK, ContextOK
        <4>2. \/ response' = [response EXCEPT !.smsPDU = FALSE]
              \/ response' = addIntermediate(rline)
          BY <3>2 DEF handlePrompt, keepIntermediate
        <4>3. response'.id = response.id /\ response'.final = response.final
          BY <4>1, <4>2 DEF addIntermediate, Responses
        <4>4. response' # None
          <5>1. CASE response' = [response EXCEPT !.smsPDU = FALSE]
            BY <4>1, <5>1, AtChannelAssumption DEF Responses
          <5>2. CASE response' = addIntermediate(rline)
            BY <1>4, <4>1, <5>2, addIntermediateOK, AtChannelAssumption
          <5> QED
            BY <4>2, <5>1, <5>2
        <4> QED
          BY <3>2, <4>3, <4>4 DEF handlePrompt, keepIntermediate
      <3> QED
        BY <1>6, <3>1, <3>2
    <2>2. Unanswered' <=> Unanswered
      BY <2>1 DEF Unanswered
    <2>3. AllRecent'
      BY <1>0, <1>1, <2>2, RecentKept DEF LagInv
    <2>4. LastPending'
      BY <1>0, <2>1 DEF LagInv, LastPending
    <2> QED
      BY <1>2, <1>3, <2>3, <2>4 DEF LagInv
  <1> QED
    BY <1>5, <1>6 DEF processLine

\* The modem answers in the order of the commands.
LEMMA LagModem ==
  ASSUME TypeOK, TypeOK', LagInv, ModemStep
  PROVE  LagInv'
  <1>1. UNCHANGED <<response, result, sent, abandoned>>
    BY DEF ModemStep, ModemInfo, ModemPrompt, ModemFinal, ModemLose, ModemUnsolicited, ModemHangUp,
           ModemOther, context, thread, history
  <1>2. LineOrder' /\ AllRecent'
    BY LinesModem DEF LagInv
  <1>3. LastPending' /\ ResponseLag'
    BY <1>1 DEF LagInv, LastPending, ResponseLag
  <1> QED
    BY <1>2, <1>3 DEF LagInv

\* The order of the lines is there initially and kept by every step.
LEMMA LagInit == Init => LagInv
  <1> SUFFICES ASSUME Init PROVE LagInv
    OBVIOUS
  <1>1. Ahead = {} /\ toModem = <<>>
    BY DEF Init, Ahead
  <1> QED
    BY <1>1 DEF Init, LagInv, LineOrder, AllRecent, LastPending, ResponseLag, NoResult

\* Whatever the threads, the reader and the modem do.
LEMMA LagStep ==
  ASSUME TypeOK, TypeOK', Control, LagInv, [Next]_vars
  PROVE  LagInv'
  <1>1. ASSUME NEW t \in Threads, ThreadStep(t) PROVE LagInv'
    BY <1>1, ThreadKinds, LagQuiet, LagSend, LagReturn
  <1>2. CASE ReaderStep
    BY <1>2, ReaderKinds, LagQuiet, LagProcess
  <1>3. CASE UNCHANGED vars
    <2>1. Ahead' = Ahead /\ \A i : At(i)' = At(i)
      BY <1>3 DEF vars, reader, modem, Ahead, At
    <2>2. UNCHANGED <<toModem, sent, abandoned, response, result>>
      BY <1>3 DEF vars, context, thread, modem, history
    <2>3. Unanswered' <=> Unanswered
      BY <2>2 DEF Unanswered
    <2> QED
      BY <2>1, <2>2, <2>3 DEF LagInv, LineOrder, AllRecent, Recent, LastPending, ResponseLag
  <1> QED
    BY <1>1, <1>2, <1>3, LagModem DEF Next

\* Whatever is lost, late or unsolicited: the answer a successful call gets is
\* that of its own command or of one at most as many commands back as callers
\* gave up, and never that of a later command.
THEOREM AnswersLagByAbandoned == Spec => []ResponseLag
  <1>1. LagInv => ResponseLag
    BY DEF LagInv
  <1> QED
    BY <1>1, TypeInit, TypeStep, ControlInit, ControlStep, LagInit, LagStep, PTL DEF Spec

----------------------------------------------------------------------------
(* What the wire carries, whoever reads it.                                *)

\* The modem has said nothing when there is no command to answer.
ModemIdle == toModem = <<>> => infoSent = 0 /\ prompt = "no"

\* A message is unsolicited, a prompt is not.
LineKinds ==
  \A i \in Ahead : /\ At(i).kind \in {"sms", "pdu"} => At(i).of = 0
                   /\ At(i).kind = "prompt" => At(i).of # 0

\* The second line of a message follows the first.
SecondLines ==
  /\ \A i \in 1..Len(fromModem) :
       fromModem[i].kind = "sms" => i < Len(fromModem) /\ fromModem[i + 1].of = 0
  /\ rpc = "second" => fromModem # <<>> /\ fromModem[1].of = 0

WireInv == ModemIdle /\ LineKinds /\ SecondLines

\* A line comes after those that are under way.
LEMMA LineAdded ==
  ASSUME TypeOK, NEW l \in Lines, Emit(<<l>>), UNCHANGED <<rpc, rline>>
  PROVE  /\ fromModem' = Append(fromModem, l)
         /\ \E m \in Nat : /\ m # 0 /\ Ahead' = Ahead \cup {m} /\ At(m)' = l
                           /\ \A i \in Ahead : i < m /\ At(i)' = At(i)
  <1>0. fromModem \in Seq(Lines) /\ fromModem' = Append(fromModem, l)
    BY DEF TypeOK, ModemOK, Emit
  <1>1. /\ Len(fromModem) \in Nat /\ Len(fromModem') = Len(fromModem) + 1
        /\ fromModem'[Len(fromModem) + 1] = l
        /\ \A i \in 1..Len(fromModem) : fromModem'[i] = fromModem[i]
    BY <1>0
  <1>2. PICK m \in Nat : m = Len(fromModem) + 1
    BY <1>1
  <1>3. m # 0 /\ At(m)' = l
    BY <1>1, <1>2 DEF At
  <1>4. Ahead' = Ahead \cup {m}
    BY <1>1, <1>2 DEF Ahead
  <1>5. \A i \in Ahead : i < m /\ At(i)' = At(i)
    BY <1>1, <1>2 DEF Ahead, At
  <1> QED
    BY <1>0, <1>3, <1>4, <1>5

\* Unsolicited lines come after them, too.
LEMMA LinesAdded ==
  ASSUME TypeOK, NEW s \in Seq(Lines), Emit(s), UNCHANGED <<rpc, rline>>,
         \A k \in 1..Len(s) : s[k].of = 0 /\ s[k].kind # "prompt"
  PROVE  /\ \A i \in Ahead : i \in Ahead' /\ At(i)' = At(i)
         /\ \A i \in Ahead' : (i \in Ahead /\ At(i)' = At(i)) \/ (At(i)'.of = 0 /\ At(i)'.kind # "prompt")
  <1>0. fromModem \in Seq(Lines) /\ fromModem' = fromModem \o s
    BY DEF TypeOK, ModemOK, Emit
  <1>1. /\ Len(fromModem) \in Nat /\ Len(s) \in Nat /\ Len(fromModem') = Len(fromModem) + Len(s)
        /\ \A i \in 1..Len(fromModem) : fromModem'[i] = fromModem[i]
        /\ \A i \in (Len(fromModem) + 1)..Len(fromModem') : fromModem'[i] = s[i - Len(fromModem)]
    BY <1>0
  <1>2. \A i \in Ahead : i \in Ahead' /\ At(i)' = At(i)
    BY <1>1 DEF Ahead, At
  <1>3. ASSUME NEW i \in Ahead', i \notin Ahead
        PROVE  At(i)'.of = 0 /\ At(i)'.kind # "prompt"
    <2>1. i \in Nat /\ i > Len(fromModem) /\ i <= Len(fromModem')
      BY <1>1, <1>3 DEF Ahead
    <2>2. i - Len(fromModem) \in 1..Len(s) /\ i # 0 /\ fromModem'[i] = s[i - Len(fromModem)]
      BY <1>1, <2>1
    <2> QED
      BY <2>2 DEF At
  <1> QED
    BY <1>2, <1>3

\* A line that is no message, or lines among which each message is complete, are
\* added to lines of which that holds.
LEMMA SecondLinesAdded ==
  ASSUME TypeOK, SecondLines, NEW s \in Seq(Lines), Emit(s), UNCHANGED rpc,
         \A k \in 1..Len(s) : s[k].kind = "sms" => k + 1 \in 1..Len(s) /\ s[k + 1].of = 0
  PROVE  SecondLines'
  <1>0. fromModem \in Seq(Lines) /\ fromModem' = fromModem \o s
    BY DEF TypeOK, ModemOK, Emit
  <1> DEFINE n == Len(fromModem)
  <1>1. /\ n \in Nat /\ Len(s) \in Nat /\ Len(fromModem') = n + Len(s)
        /\ \A i \in 1..n : fromModem'[i] = fromModem[i]
        /\ \A i \in 1..Len(s) : fromModem'[n + i] = s[i]
    BY <1>0
  <1> HIDE DEF n
  <1>2. ASSUME NEW i \in 1..Len(fromModem'), fromModem'[i].kind = "sms"
        PROVE  i < Len(fromModem') /\ fromModem'[i + 1].of = 0
    <2>1. CASE i <= n
      <3>1. i \in 1..n
        BY <1>1, <2>1
      <3>2. i < n /\ fromModem[i + 1].of = 0
        BY <1>1, <1>2, <3>1 DEF SecondLines, n
      <3> QED
        BY <1>1, <3>1, <3>2
    <2>2. CASE i > n
      <3>1. PICK k \in 1..Len(s) : i = n + k
        <4>1. i - n \in 1..Len(s) /\ i = n + (i - n)
          BY <1>1, <2>2
        <4> QED
          BY <4>1
      <3>2. k + 1 \in 1..Len(s) /\ s[k + 1].of = 0
        BY <1>1, <1>2, <3>1
      <3>3. i + 1 = n + (k + 1) /\ i < n + Len(s)
        BY <1>1, <3>1, <3>2
      <3>4. fromModem'[i + 1] = s[k + 1]
        BY <1>1, <3>2, <3>3
      <3> QED
        BY <1>1, <3>2, <3>3, <3>4
    <2> QED
      BY <1>1, <2>1, <2>2
  <1>3. rpc' = "second" => fromModem' # <<>> /\ fromModem'[1].of = 0
    <2>1. fromModem # <<>> => n # 0
      BY <1>0 DEF n
    <2>2. ASSUME n # 0 PROVE fromModem'[1] = fromModem[1] /\ Len(fromModem') # 0
      BY <1>1, <2>2
    <2> QED
      BY <2>1, <2>2 DEF SecondLines
  <1> QED
    BY <1>2, <1>3 DEF SecondLines

\* The reader takes the first line.
LEMMA SecondLinesRead ==
  ASSUME TypeOK, SecondLines, fromModem # <<>>, fromModem' = Tail(fromModem),
         rpc' = "second" => fromModem[1].kind = "sms"
  PROVE  SecondLines'
  <1>0. fromModem \in Seq(Lines)
    BY DEF TypeOK, ModemOK
  <1>1. /\ Len(fromModem) \in Nat \ {0} /\ Len(fromModem') = Len(fromModem) - 1
        /\ \A i \in 1..Len(fromModem') : fromModem'[i] = fromModem[i + 1]
    BY <1>0
  <1>2. ASSUME NEW i \in 1..Len(fromModem'), fromModem'[i].kind = "sms"
        PROVE  i < Len(fromModem') /\ fromModem'[i + 1].of = 0
    <2>1. i + 1 \in 1..Len(fromModem) /\ fromModem[i + 1].kind = "sms"
      BY <1>1, <1>2
    <2>2. i + 1 < Len(fromModem) /\ fromModem[i + 1 + 1].of = 0
      BY <2>1 DEF SecondLines
    <2>3. i + 1 \in 1..Len(fromModem')
      BY <1>1, <2>1, <2>2
    <2> QED
      BY <1>1, <2>1, <2>2, <2>3
  <1>3. rpc' = "second" => fromModem' # <<>> /\ fromModem'[1].of = 0
    <2>1. ASSUME rpc' = "second" PROVE Len(fromModem') # 0 /\ fromModem'[1].of = 0
      <3>1. 1 \in 1..Len(fromModem) /\ fromModem[1].kind = "sms"
        BY <1>1, <2>1
      <3>2. 1 < Len(fromModem) /\ fromModem[1 + 1].of = 0
        BY <3>1 DEF SecondLines
      <3>3. 1 \in 1..Len(fromModem')
        BY <1>1, <3>2
      <3> QED
        BY <1>1, <3>2, <3>3
    <2> QED
      BY <2>1
  <1> QED
    BY <1>2, <1>3 DEF SecondLines

\* Every step keeps the kinds of the lines.
LEMMA LineKindsKept ==
  ASSUME LineKinds, LinesKept
  PROVE  LineKinds'
  BY DEF LineKinds, LinesKept

\* The wire is unchanged, or the reader takes a line.
LEMMA WireKept ==
  ASSUME WireInv, LinesKept, SecondLines', infoSent' = infoSent, toModem' = toModem,
         prompt = "no" => prompt' = "no"
  PROVE  WireInv'
  BY LineKindsKept DEF WireInv, ModemIdle

\* What a command thread does to it.
LEMMA WireThread ==
  ASSUME TypeOK, TypeOK', Control, WireInv, NEW t \in Threads, ThreadStep(t)
  PROVE  WireInv'
  <1>1. UNCHANGED <<fromModem, rpc, rline, infoSent>>
    BY DEF ThreadStep, at_send_command, at_handshake, WaitRequest, SendFails, SendCommand, Complete,
           SpuriousWakeup, WaitAgain, Timeout, GiveUp, onATTimeout, HandshakeDone,
           at_set_on_reader_closed, at_close, CloseSignal, CloseKick, modem, reader
  <1>2. SecondLines'
    BY <1>1 DEF WireInv, SecondLines
  <1>3. CASE SendCommand(t)
    <2>1. Ahead' = Ahead /\ \A i \in Ahead : At(i)' = At(i)
      BY <1>1 DEF Ahead, At
    <2>2. LineKinds'
      BY <2>1 DEF WireInv, LineKinds
    <2>3. toModem' # <<>>
      <3> DEFINE C == [id : Nat, type : Types, prefix : Prefixes, sms : BOOLEAN]
      <3>1. \E c : toModem' = Append(toModem, c)
        BY <1>3 DEF SendCommand
      <3>2. toModem \in Seq(C)
        BY DEF TypeOK, ModemOK
      <3> HIDE DEF C
      <3> QED
        BY <3>1, <3>2
    <2> QED
      BY <1>2, <2>2, <2>3 DEF WireInv, ModemIdle
  <1>4. CASE Quiet
    BY <1>2, <1>4, WireKept DEF Quiet, LinesKept
  <1>5. ASSUME NEW err, Returns(t, err) PROVE WireInv'
    BY <1>1, <1>2, <1>5, WireKept, LinesStay DEF Returns, modem
  <1> QED
    BY <1>3, <1>4, <1>5, ThreadKinds

\* What the reader does to it.
LEMMA WireReader ==
  ASSUME TypeOK, WireInv, ReaderStep
  PROVE  WireInv'
  <1>1. CASE ReadLine \/ ReadSecondLine
    <2>1. /\ fromModem # <<>> /\ fromModem' = Tail(fromModem)
          /\ rpc' = "second" => fromModem[1].kind = "sms"
      BY <1>1 DEF ReadLine, ReadSecondLine, isSMSUnsolicited
    <2>2. SecondLines'
      BY <2>1, SecondLinesRead DEF WireInv
    <2>3. Quiet
      BY <1>1, ReaderKinds DEF ReadLine, ReadSecondLine, processLine
    <2> QED
      BY <2>2, <2>3, WireKept DEF Quiet, LinesKept
  <1>2. CASE \/ ReadEOF \/ ReadKicked \/ ReadClosed \/ onReaderClosedTest \/ onReaderClosedMark
             \/ onReaderClosedCallback
    <2>1. UNCHANGED <<fromModem, toModem, infoSent, prompt>> /\ rpc' \notin {"second", "process"}
      BY <1>2 DEF ReadEOF, ReadKicked, ReadClosed, ReaderFails, onReaderClosedTest, onReaderClosedMark,
                  onReaderClosedCallback, modem
    <2>2. SecondLines'
      BY <2>1 DEF WireInv, SecondLines
    <2> QED
      BY <2>1, <2>2, LineDone, WireKept
  <1>3. CASE processLine
    <2>1. /\ UNCHANGED <<fromModem, toModem, infoSent>> /\ rpc' = "read"
          /\ prompt = "no" => prompt' = "no"
      BY <1>3 DEF processLine, handleFinalResponse, handlePrompt, keepIntermediate, handleUnsolicited
    <2>2. SecondLines'
      BY <2>1 DEF WireInv, SecondLines
    <2> QED
      BY <2>1, <2>2, LineDone, WireKept
  <1> QED
    BY <1>1, <1>2, <1>3 DEF ReaderStep

\* The command the modem is answering.
LEMMA HeadOK ==
  ASSUME TypeOK, AllRecent, toModem # <<>>
  PROVE  /\ 1 \in 1..Len(toModem) /\ Head(toModem) = toModem[1]
         /\ toModem[1].id \in Nat /\ toModem[1].id # 0
         /\ toModem[1].prefix \in Prefixes /\ toModem[1].type \in Types
  <1> DEFINE C == [id : Nat, type : Types, prefix : Prefixes, sms : BOOLEAN]
  <1>1. toModem \in Seq(C)
    BY DEF TypeOK, ModemOK
  <1>2. \A c \in C : c.id \in Nat /\ c.prefix \in Prefixes /\ c.type \in Types
    OBVIOUS
  <1> HIDE DEF C
  <1>3. 1 \in 1..Len(toModem) /\ Head(toModem) = toModem[1] /\ toModem[1] \in C
    BY <1>1
  <1>4. toModem[1].id \in 1..sent
    BY <1>3 DEF AllRecent, Recent
  <1>5. toModem[1].id # 0
    BY <1>4 DEF TypeOK, HistoryOK
  <1> QED
    BY <1>2, <1>3, <1>5

\* What the modem adds to it.
LEMMA WireModem ==
  ASSUME TypeOK, AllRecent, WireInv, ModemStep
  PROVE  WireInv'
  <1>0. UNCHANGED <<rpc, rline>>
    BY DEF ModemStep, ModemInfo, ModemPrompt, ModemFinal, ModemLose, ModemUnsolicited, ModemHangUp,
           ModemOther, reader
  <1>1. ASSUME NEW l \in Lines, Emit(<<l>>), l.kind \notin {"sms", "pdu"},
               l.kind = "prompt" => l.of # 0
        PROVE  LineKinds' /\ SecondLines'
    <2>1. PICK m \in Nat : /\ Ahead' = Ahead \cup {m} /\ At(m)' = l
                           /\ \A i \in Ahead : At(i)' = At(i)
      BY <1>0, <1>1, LineAdded
    <2>2. ASSUME NEW i \in Ahead'
          PROVE  /\ At(i)'.kind \in {"sms", "pdu"} => At(i)'.of = 0
                 /\ At(i)'.kind = "prompt" => At(i)'.of # 0
      <3>1. CASE i \in Ahead
        BY <2>1, <3>1 DEF WireInv, LineKinds
      <3>2. CASE i = m
        BY <1>1, <2>1, <3>2
      <3> QED
        BY <2>1, <2>2, <3>1, <3>2
    <2>3. /\ Len(<<l>>) = 1 /\ <<l>>[1] = l /\ <<l>> \in Seq(Lines)
      BY <1>1
    <2>4. \A k \in 1..Len(<<l>>) : <<l>>[k].kind # "sms"
      BY <1>1, <2>3
    <2>5. SecondLines'
      BY <1>0, <1>1, <2>3, <2>4, SecondLinesAdded DEF WireInv
    <2> QED
      BY <2>2, <2>5 DEF LineKinds
  <1>2. CASE ModemInfo \/ ModemPrompt \/ ModemFinal
    <2>0. toModem # <<>>
      BY <1>2 DEF ModemInfo, ModemPrompt, ModemFinal
    <2>1. \E l \in Lines : Emit(<<l>>) /\ l.kind \notin {"sms", "pdu"} /\ (l.kind = "prompt" => l.of # 0)
      <3> DEFINE L(k, ok, p, n) == Line(k, ok, p, Head(toModem).id, n)
      <3>1. \A k \in {"info", "final", "prompt"}, ok \in BOOLEAN, p \in Prefixes, n \in Nat :
              L(k, ok, p, n) \in Lines /\ L(k, ok, p, n).kind = k /\ L(k, ok, p, n).of # 0
        BY <2>0, HeadOK DEF Line, Lines
      <3>2. /\ Head(toModem).prefix \in Prefixes /\ NoPrefix \in Prefixes /\ infoSent \in Nat
            /\ infoSent + 1 \in Nat /\ 0 \in Nat /\ FALSE \in BOOLEAN
        BY <2>0, HeadOK, AtChannelAssumption DEF TypeOK, ModemOK
      <3>3. \E k \in {"info", "final", "prompt"}, ok \in BOOLEAN, p \in Prefixes, n \in Nat :
              Emit(<<L(k, ok, p, n)>>)
        <4>1. CASE ModemInfo
          BY <3>2, <4>1 DEF ModemInfo
        <4>2. CASE ModemPrompt
          BY <3>2, <4>2 DEF ModemPrompt
        <4>3. CASE ModemFinal
          BY <3>2, <4>3 DEF ModemFinal
        <4> QED
          BY <1>2, <4>1, <4>2, <4>3
      <3> HIDE DEF L
      <3> QED
        BY <3>1, <3>3
    <2>2. LineKinds' /\ SecondLines'
      BY <1>1, <2>1
    <2>3. ModemIdle'
      BY <1>2, <2>0 DEF ModemInfo, ModemPrompt, ModemFinal, ModemIdle
    <2> QED
      BY <2>2, <2>3 DEF WireInv
  <1>3. CASE ModemLose \/ ModemHangUp
    <2>1. UNCHANGED fromModem
      BY <1>3 DEF ModemLose, ModemHangUp
    <2>2. LineKinds' /\ SecondLines'
      BY <1>0, <2>1 DEF WireInv, LineKinds, SecondLines, Ahead, At
    <2>3. ModemIdle'
      BY <1>3 DEF ModemLose, ModemHangUp, WireInv, ModemIdle
    <2> QED
      BY <2>2, <2>3 DEF WireInv
  <1>4. CASE ModemUnsolicited
    <2>1. PICK s : /\ Emit(s) /\ s \in Seq(Lines)
                   /\ \A k \in 1..Len(s) : s[k].of = 0 /\ s[k].kind # "prompt"
                   /\ \A k \in 1..Len(s) : s[k].kind = "sms" => k < Len(s)
      BY <1>4, UnsolicitedLines
    <2>2. Len(s) \in Nat
      BY <2>1
    <2>3. \A k \in 1..Len(s) : k < Len(s) => k + 1 \in 1..Len(s)
      BY <2>2
    <2>4. \A k \in 1..Len(s) : s[k].kind = "sms" => k + 1 \in 1..Len(s) /\ s[k + 1].of = 0
      BY <2>1, <2>3
    <2>5. SecondLines'
      BY <1>0, <2>1, <2>4, SecondLinesAdded DEF WireInv
    <2>6. LineKinds'
      <3>1. \A i \in Ahead' : (i \in Ahead /\ At(i)' = At(i)) \/ (At(i)'.of = 0 /\ At(i)'.kind # "prompt")
        BY <1>0, <2>1, LinesAdded
      <3> QED
        BY <3>1 DEF WireInv, LineKinds
    <2>7. ModemIdle'
      BY <1>4 DEF ModemUnsolicited, WireInv, ModemIdle
    <2> QED
      BY <2>5, <2>6, <2>7 DEF WireInv
  <1> QED
    BY <1>2, <1>3, <1>4 DEF ModemStep

----------------------------------------------------------------------------
(* The dialogue while no command was abandoned: there is one command at    *)
(* most, and every line under way that answers a command answers it.       *)

\* The pending response is that of its thread's command.
PendingOK ==
  response # None => /\ response.type = call[requestmutex].type
                     /\ response.type = "NUMERIC" => response.prefix = Digit

\* What the processing of a line leaves alone.
LEMMA ProcessKeeps ==
  ASSUME TypeOK, processLine
  PROVE  /\ response' = None <=> response = None
         /\ response # None => /\ response'.id = response.id /\ response'.type = response.type
                               /\ response'.prefix = response.prefix
         /\ response # None /\ ~keepIntermediate => response'.intermediates = response.intermediates
         /\ response # None /\ ~handlePrompt => response'.smsPDU = response.smsPDU
         /\ response # None /\ ~handleFinalResponse => response'.final = response.final
         /\ handleFinalResponse => response'.final = rline
  <1>1. CASE handleUnsolicited
    BY <1>1 DEF handleUnsolicited, handleFinalResponse
  <1>2. CASE handleFinalResponse \/ handlePrompt \/ keepIntermediate
    <2>1. response \in Responses /\ response # None /\ rline \in Lines
      BY <1>2 DEF handleFinalResponse, handlePrompt, keepIntermediate, TypeOK, ContextOK, ReaderOK,
                  processLine
    <2>2. CASE handleFinalResponse
      <3>1. response' = [response EXCEPT !.final = rline]
        BY <2>2 DEF handleFinalResponse
      <3>2. ~keepIntermediate /\ ~handlePrompt
        BY <2>2 DEF handleFinalResponse, isFinalResponse, keepIntermediate, handlePrompt
      <3>3. response' \in Responses
        BY <2>1, <3>1 DEF Responses
      <3> QED
        BY <2>1, <2>2, <3>1, <3>2, <3>3, AtChannelAssumption DEF Responses
    <2>3. CASE handlePrompt
      <3>1. response' = [response EXCEPT !.smsPDU = FALSE]
        BY <2>3 DEF handlePrompt
      <3>2. ~keepIntermediate /\ ~handleFinalResponse
        BY <2>3 DEF handleFinalResponse, isFinalResponse, keepIntermediate, handlePrompt
      <3>3. response' \in Responses
        BY <2>1, <3>1 DEF Responses
      <3> QED
        BY <2>1, <2>3, <3>1, <3>2, <3>3, AtChannelAssumption DEF Responses
    <2>4. CASE keepIntermediate
      <3>1. response' = addIntermediate(rline)
        BY <2>4 DEF keepIntermediate
      <3>2. ~handlePrompt /\ ~handleFinalResponse
        BY <2>4 DEF handleFinalResponse, isFinalResponse, keepIntermediate, handlePrompt
      <3>3. response' \in Responses /\ response'.final = response.final
        BY <2>1, <3>1, addIntermediateOK
      <3>4. /\ response'.id = response.id /\ response'.type = response.type
            /\ response'.prefix = response.prefix /\ response'.smsPDU = response.smsPDU
        BY <2>1, <3>1 DEF addIntermediate, Responses
      <3> QED
        BY <2>1, <2>4, <3>2, <3>3, <3>4, AtChannelAssumption
    <2> QED
      BY <1>2, <2>2, <2>3, <2>4
  <1> QED
    BY <1>1, <1>2 DEF processLine

\* The pending response stays that of the thread that holds requestmutex.
LEMMA PendingStep ==
  ASSUME TypeOK, Control, PendingOK, [Next]_vars
  PROVE  PendingOK'
  <1>1. ASSUME UNCHANGED response, CallKept PROVE PendingOK'
    <2>1. response # None => requestmutex # None
      BY DEF Control, OnePending
    <2> QED
      BY <1>1, <2>1 DEF PendingOK, CallKept
  <1>2. ASSUME NEW t \in Threads, ThreadStep(t) PROVE PendingOK'
    <2>1. CASE SendCommand(t)
      <3>1. /\ response'.type = call[t].type /\ response'.prefix = call[t].prefix
            /\ requestmutex' = t /\ call' = call
        BY <2>1 DEF SendCommand
      <3>2. call[t].type = "NUMERIC" => call[t].prefix = Digit
        BY AtChannelAssumption DEF TypeOK, ThreadOK, HandshakeCommand
      <3> QED
        BY <3>1, <3>2 DEF PendingOK
    <2>2. CASE \E err \in Errors : Returns(t, err)
      BY <2>2 DEF PendingOK, Returns, Return
    <2> QED
      BY <1>1, <1>2, <2>1, <2>2, ThreadKinds DEF Quiet
  <1>3. CASE processLine
    <2>1. UNCHANGED <<requestmutex, call>>
      BY <1>3 DEF processLine
    <2> QED
      BY <1>3, <2>1, ProcessKeeps DEF PendingOK
  <1>4. CASE ReaderStep
    BY <1>1, <1>3, <1>4, ReaderKinds DEF Quiet
  <1>5. CASE ModemStep \/ UNCHANGED vars
    BY <1>1, <1>5 DEF CallKept, ModemStep, ModemInfo, ModemPrompt, ModemFinal, ModemLose, ModemUnsolicited,
           ModemHangUp, ModemOther, context, thread, vars
  <1> QED
    BY <1>2, <1>4, <1>5 DEF Next

\* A line under way, or kept already, that answers a command.
Own(i, kind) == i \in Ahead /\ At(i).of # 0 /\ At(i).kind = kind
Kept(i) == i \in 1..Len(response.intermediates) /\ response.intermediates[i].of # 0

\* Line n of the answer has been sent: it is kept, or under way.
Numbered(n) ==
  \/ \E i \in 1..Len(response.intermediates) : Kept(i) /\ response.intermediates[i].n = n
  \/ \E i \in Ahead : Own(i, "info") /\ At(i).n = n

\* The command the modem answers is the pending one.
HeadPending ==
  toModem # <<>> =>
    /\ toModem[1].type = response.type /\ toModem[1].prefix = response.prefix
    /\ toModem[1].sms /\ prompt = "no" => response.smsPDU

\* The pending command is one that such a line answers.
InfoExpected ==
  \A i \in Ahead : Own(i, "info") =>
    /\ At(i).prefix = response.prefix /\ response.type # "NO_RESULT"
    /\ toModem # <<>> => infoSent # 0

\* The prompt comes once, and the PDU has not been sent.
PromptExpected ==
  \A i \in Ahead : Own(i, "prompt") =>
    /\ response.smsPDU
    /\ toModem # <<>> => prompt # "no"
    /\ \A j \in Ahead : Own(j, "prompt") => j = i

\* The one line of a SINGLELINE or NUMERIC answer is not kept before it came.
FirstOnly ==
  ~mixed /\ response # None /\ response.type # "MULTILINE" =>
    /\ toModem # <<>> /\ infoSent = 0 => response.intermediates = <<>>
    /\ \A i \in Ahead : Own(i, "info") =>
         response.intermediates = <<>> /\ \A j \in Ahead : Own(j, "info") => j = i

Multiline == response # None /\ response.type = "MULTILINE"

\* The lines of a MULTILINE answer: those kept, the last one first ...
KeptInTurn ==
  Multiline =>
    /\ \A i \in 1..Len(response.intermediates) : response.intermediates[i].of \in {0, sent}
    /\ \A i, j \in 1..Len(response.intermediates) :
         Kept(i) /\ Kept(j) /\ i < j => response.intermediates[j].n < response.intermediates[i].n

\* ... those under way, in their order and after those ...
ComingInTurn ==
  Multiline =>
    /\ \A i, j \in Ahead : Own(i, "info") /\ Own(j, "info") /\ i < j => At(i).n < At(j).n
    /\ \A i \in 1..Len(response.intermediates), j \in Ahead :
         Kept(i) /\ Own(j, "info") => response.intermediates[i].n < At(j).n

\* ... and all there are.
NoneMissing ==
  Multiline =>
    /\ toModem # <<>> => \A n \in Nat : Numbered(n) <=> n \in 1..infoSent
    /\ \A i \in Ahead : Own(i, "final") => \A n \in Nat : Numbered(n) <=> n \in 1..At(i).n
    /\ ~Unanswered => \A n \in Nat : Numbered(n) <=> n \in 1..response.final.n

Dialogue ==
  /\ HeadPending /\ InfoExpected /\ PromptExpected /\ FirstOnly
  /\ KeptInTurn /\ ComingInTurn /\ NoneMissing

FlowInv == abandoned = 0 => Dialogue

\* No command is to be answered, and no line answers one.
Silence == toModem = <<>> /\ \A i \in Ahead : At(i).of = 0

\* While no command was abandoned there is one at most.
LEMMA OneCommand ==
  ASSUME TypeOK, LagInv, abandoned = 0
  PROVE  /\ Unanswered \/ Silence
         /\ \A i \in Ahead : At(i).of \in {0, sent}
         /\ toModem # <<>> => /\ toModem[1].id = sent /\ Tail(toModem) = <<>>
                              /\ \A i \in Ahead : ~Own(i, "final")
         /\ \A i, j \in Ahead : Own(i, "final") /\ At(j).of # 0 => j <= i
  <1>1. ASSUME NEW id, Recent(id) PROVE id = sent /\ Unanswered
    BY <1>1 DEF Recent, TypeOK, HistoryOK
  <1>2. \A i \in Ahead : At(i).of # 0 => At(i).of = sent /\ Unanswered
    BY <1>1 DEF LagInv, AllRecent
  <1>3. \A j \in 1..Len(toModem) : toModem[j].id = sent /\ Unanswered
    BY <1>1 DEF LagInv, AllRecent
  <1>4. \A i \in Ahead, j \in Ahead : Own(i, "final") /\ At(j).of # 0 => j <= i
    <2> SUFFICES ASSUME NEW i \in Ahead, NEW j \in Ahead, Own(i, "final"), At(j).of # 0, i < j
                 PROVE  FALSE
      BY Numbers
    <2>1. At(i).of < At(j).of
      BY DEF LagInv, LineOrder, Ordered, Own
    <2>2. At(i).of = sent /\ At(j).of = sent
      BY <1>2 DEF Own
    <2> QED
      BY <2>1, <2>2 DEF TypeOK, HistoryOK
  <1>5. ASSUME toModem # <<>>
        PROVE  /\ toModem[1].id = sent /\ Tail(toModem) = <<>> /\ Unanswered
               /\ \A i \in Ahead : ~Own(i, "final")
    <2> DEFINE C == [id : Nat, type : Types, prefix : Prefixes, sms : BOOLEAN]
    <2>0. toModem \in Seq(C)
      BY DEF TypeOK, ModemOK
    <2>s. sent \in Nat
      BY DEF TypeOK, HistoryOK
    <2> HIDE DEF C
    <2>1. Len(toModem) \in Nat /\ 1 \in 1..Len(toModem)
      BY <1>5, <2>0
    <2>2. toModem[1].id = sent /\ Unanswered
      BY <1>3, <2>1
    <2>3. Len(toModem) = 1
      <3> SUFFICES ASSUME Len(toModem) # 1 PROVE FALSE
        OBVIOUS
      <3>1. 2 \in 1..Len(toModem)
        BY <2>1
      <3>2. toModem[1].id < toModem[2].id
        BY <2>1, <3>1 DEF LagInv, LineOrder
      <3> QED
        BY <1>3, <2>1, <2>s, <3>1, <3>2
    <2>4. Tail(toModem) = <<>>
      <3>1. Tail(toModem) \in Seq(C) /\ Len(Tail(toModem)) = Len(toModem) - 1
        BY <1>5, <2>0, HeadTailProperties
      <3>2. Len(Tail(toModem)) = 0
        BY <2>3, <3>1
      <3> QED
        BY <3>1, <3>2, EmptySeq
    <2>5. ASSUME NEW i \in Ahead, Own(i, "final") PROVE FALSE
      <3>1. At(i).of < toModem[1].id
        BY <2>1, <2>5 DEF LagInv, LineOrder, Ordered, Own
      <3>2. At(i).of = sent
        BY <1>2, <2>5 DEF Own
      <3> QED
        BY <2>2, <2>s, <3>1, <3>2
    <2> QED
      BY <2>2, <2>4, <2>5
  <1>6. Unanswered \/ Silence
    BY <1>2, <1>5 DEF Silence
  <1> QED
    BY <1>2, <1>4, <1>5, <1>6

\* The lines that answer a command stay under way, in their order.
OwnKept ==
  \E d \in {0, 1} :
    /\ \A i \in Ahead' : At(i)'.of # 0 => i + d \in Ahead /\ At(i)' = At(i + d)
    /\ \A i \in Ahead : At(i).of # 0 => \E j \in Ahead' : j + d = i /\ At(j)' = At(i)

\* What the dialogue needs of the pending response stays.
ResponseKept ==
  /\ response # None /\ response' # None
  /\ response'.type = response.type /\ response'.prefix = response.prefix
  /\ response'.smsPDU = response.smsPDU /\ response'.intermediates = response.intermediates
  /\ ~Unanswered' => ~Unanswered /\ response'.final = response.final

\* Nothing is pending, and nothing was to be answered.
LEMMA FlowSilent ==
  ASSUME Silence', response' = None
  PROVE  Dialogue'
  BY DEF Silence, Dialogue, HeadPending, InfoExpected, PromptExpected, FirstOnly, Multiline,
         KeptInTurn, ComingInTurn, NoneMissing, Own

\* The lines that are kept and under way are the same.
LEMMA FlowKept ==
  ASSUME TypeOK, TypeOK', Dialogue, OwnKept, ResponseKept, UNCHANGED <<sent, mixed>>,
         \/ toModem' = <<>>
         \/ UNCHANGED <<toModem, infoSent>> /\ (prompt' = "no" <=> prompt = "no")
  PROVE  Dialogue'
  <1>1. PICK d \in {0, 1} :
          /\ \A i \in Ahead' : At(i)'.of # 0 => i + d \in Ahead /\ At(i)' = At(i + d)
          /\ \A i \in Ahead : At(i).of # 0 => \E j \in Ahead' : j + d = i /\ At(j)' = At(i)
    BY DEF OwnKept
  <1>2. ASSUME NEW i \in Ahead', NEW k, Own(i, k)'
        PROVE  i + d \in Ahead /\ Own(i + d, k) /\ At(i)' = At(i + d)
    BY <1>1, <1>2 DEF Own
  <1>3. ASSUME NEW i \in Ahead, NEW k, Own(i, k)
        PROVE  \E j \in Ahead' : Own(j, k)' /\ At(j)' = At(i)
    BY <1>1, <1>3 DEF Own
  <1>4. \A i \in Ahead' : i \in Nat
    BY DEF Ahead
  <1>5. response'.intermediates = response.intermediates /\ (Multiline' <=> Multiline)
    BY DEF ResponseKept, Multiline
  <1>6. \A i : Kept(i)' <=> Kept(i)
    BY <1>5 DEF Kept
  <1>7. ASSUME NEW n PROVE Numbered(n)' <=> Numbered(n)
    <2>1. ASSUME NEW i \in Ahead', Own(i, "info")', At(i)'.n = n PROVE Numbered(n)
      BY <1>2, <2>1 DEF Numbered
    <2>2. ASSUME NEW i \in Ahead, Own(i, "info"), At(i).n = n PROVE Numbered(n)'
      BY <1>3, <2>2 DEF Numbered
    <2> QED
      BY <1>5, <1>6, <2>1, <2>2 DEF Numbered
  <1>8. HeadPending'
    BY DEF Dialogue, HeadPending, ResponseKept
  <1>9. InfoExpected'
    <2> SUFFICES ASSUME NEW i \in Ahead', Own(i, "info")'
                 PROVE  /\ At(i)'.prefix = response'.prefix /\ response'.type # "NO_RESULT"
                        /\ toModem' # <<>> => infoSent' # 0
      BY DEF InfoExpected
    <2>1. i + d \in Ahead /\ Own(i + d, "info") /\ At(i)' = At(i + d)
      BY <1>2
    <2> QED
      BY <2>1 DEF Dialogue, InfoExpected, ResponseKept
  <1>10. PromptExpected'
    <2>1. ASSUME NEW i \in Ahead', Own(i, "prompt")'
          PROVE  /\ response'.smsPDU
                 /\ toModem' # <<>> => prompt' # "no"
      <3>1. i + d \in Ahead /\ Own(i + d, "prompt")
        BY <1>2, <2>1
      <3> QED
        BY <3>1 DEF Dialogue, PromptExpected, ResponseKept
    <2>2. ASSUME NEW i \in Ahead', Own(i, "prompt")', NEW j \in Ahead', Own(j, "prompt")'
          PROVE  j = i
      <3>1. i + d \in Ahead /\ Own(i + d, "prompt") /\ j + d \in Ahead /\ Own(j + d, "prompt")
        BY <1>2, <2>2
      <3>2. j + d = i + d
        BY <3>1 DEF Dialogue, PromptExpected
      <3> QED
        BY <1>4, <3>2
    <2> QED
      BY <2>1, <2>2 DEF PromptExpected
  <1>11. FirstOnly'
    <2> SUFFICES ASSUME ~mixed, response.type # "MULTILINE"
                 PROVE  /\ toModem' # <<>> /\ infoSent' = 0 => response'.intermediates = <<>>
                        /\ \A i \in Ahead' : Own(i, "info")' =>
                             /\ response'.intermediates = <<>>
                             /\ \A j \in Ahead' : Own(j, "info")' => j = i
      BY DEF FirstOnly, ResponseKept
    <2>1. toModem' # <<>> /\ infoSent' = 0 => response'.intermediates = <<>>
      BY <1>5 DEF Dialogue, FirstOnly, ResponseKept
    <2>2. ASSUME NEW i \in Ahead', Own(i, "info")'
          PROVE  response'.intermediates = <<>>
      <3>1. i + d \in Ahead /\ Own(i + d, "info")
        BY <1>2, <2>2
      <3> QED
        BY <1>5, <3>1 DEF Dialogue, FirstOnly, ResponseKept
    <2>3. ASSUME NEW i \in Ahead', Own(i, "info")', NEW j \in Ahead', Own(j, "info")'
          PROVE  j = i
      <3>1. i + d \in Ahead /\ Own(i + d, "info") /\ j + d \in Ahead /\ Own(j + d, "info")
        BY <1>2, <2>3
      <3>2. j + d = i + d
        BY <3>1 DEF Dialogue, FirstOnly, ResponseKept
      <3> QED
        BY <1>4, <3>2
    <2> QED
      BY <2>1, <2>2, <2>3
  <1>12. KeptInTurn'
    BY <1>5, <1>6 DEF Dialogue, KeptInTurn
  <1>13. ComingInTurn'
    <2> SUFFICES ASSUME Multiline
                 PROVE  /\ \A i, j \in Ahead' :
                             Own(i, "info")' /\ Own(j, "info")' /\ i < j => At(i)'.n < At(j)'.n
                        /\ \A i \in 1..Len(response.intermediates), j \in Ahead' :
                             Kept(i) /\ Own(j, "info")' => response.intermediates[i].n < At(j)'.n
      BY <1>5, <1>6 DEF ComingInTurn
    <2>1. ASSUME NEW i \in Ahead', NEW j \in Ahead', Own(i, "info")', Own(j, "info")', i < j
          PROVE  At(i)'.n < At(j)'.n
      <3>1. /\ i + d \in Ahead /\ Own(i + d, "info") /\ At(i)' = At(i + d)
            /\ j + d \in Ahead /\ Own(j + d, "info") /\ At(j)' = At(j + d)
        BY <1>2, <2>1
      <3>2. i + d < j + d
        BY <1>4, <2>1
      <3> QED
        BY <3>1, <3>2 DEF Dialogue, ComingInTurn
    <2>2. ASSUME NEW i \in 1..Len(response.intermediates), NEW j \in Ahead', Kept(i), Own(j, "info")'
          PROVE  response.intermediates[i].n < At(j)'.n
      <3>1. j + d \in Ahead /\ Own(j + d, "info") /\ At(j)' = At(j + d)
        BY <1>2, <2>2
      <3> QED
        BY <2>2, <3>1 DEF Dialogue, ComingInTurn
    <2> QED
      BY <2>1, <2>2
  <1>14. NoneMissing'
    <2> SUFFICES ASSUME Multiline
                 PROVE  /\ toModem' # <<>> => \A n \in Nat : Numbered(n) <=> n \in 1..infoSent'
                        /\ \A i \in Ahead' : Own(i, "final")' =>
                             \A n \in Nat : Numbered(n) <=> n \in 1..At(i)'.n
                        /\ ~Unanswered' => \A n \in Nat : Numbered(n) <=> n \in 1..response'.final.n
      BY <1>5, <1>7 DEF NoneMissing
    <2>1. toModem' # <<>> => \A n \in Nat : Numbered(n) <=> n \in 1..infoSent'
      BY DEF Dialogue, NoneMissing
    <2>2. ASSUME NEW i \in Ahead', Own(i, "final")'
          PROVE  \A n \in Nat : Numbered(n) <=> n \in 1..At(i)'.n
      <3>1. i + d \in Ahead /\ Own(i + d, "final") /\ At(i)' = At(i + d)
        BY <1>2, <2>2
      <3> QED
        BY <3>1 DEF Dialogue, NoneMissing
    <2>3. ~Unanswered' => \A n \in Nat : Numbered(n) <=> n \in 1..response'.final.n
      BY DEF Dialogue, NoneMissing, ResponseKept
    <2> QED
      BY <2>1, <2>2, <2>3
  <1> QED
    BY <1>8, <1>9, <1>10, <1>11, <1>12, <1>13, <1>14 DEF Dialogue

\* The lines of commands stay when the reader is not done with one ...
LEMMA OwnStay ==
  ASSUME UNCHANGED fromModem,
         rpc' = "process" => rpc = "process" /\ rline' = rline,
         rpc = "process" /\ rline.of # 0 => rpc' = "process"
  PROVE  OwnKept
  <1>1. \A i \in Ahead' : At(i)'.of # 0 => i + 0 \in Ahead /\ At(i)' = At(i + 0)
    BY DEF Ahead, At
  <1>2. \A i \in Ahead : At(i).of # 0 => \E j \in Ahead' : j + 0 = i /\ At(j)' = At(i)
    <2> SUFFICES ASSUME NEW i \in Ahead, At(i).of # 0
                 PROVE  i \in Ahead' /\ i + 0 = i /\ At(i)' = At(i)
      OBVIOUS
    <2> QED
      BY DEF Ahead, At
  <1> QED
    BY <1>1, <1>2 DEF OwnKept

\* ... when it takes one to process it, or the line that it takes is of no command ...
LEMMA OwnRead ==
  ASSUME TypeOK, fromModem # <<>>, fromModem' = Tail(fromModem), rpc # "process",
         rpc' = "process" => rline' = fromModem[1],
         rpc' # "process" => fromModem[1].of = 0
  PROVE  OwnKept
  <1>0. fromModem \in Seq(Lines)
    BY DEF TypeOK, ModemOK
  <1>1. /\ Len(fromModem) \in Nat \ {0} /\ Len(fromModem') = Len(fromModem) - 1
        /\ \A i \in 1..Len(fromModem') : fromModem'[i] = fromModem[i + 1]
    BY <1>0
  <1>2. ASSUME NEW i \in Ahead' PROVE i + 1 \in Ahead /\ At(i)' = At(i + 1)
    <2>1. CASE i = 0
      BY <1>1, <1>2, <2>1 DEF Ahead, At
    <2>2. CASE i # 0
      BY <1>1, <1>2, <2>2 DEF Ahead, At
    <2> QED
      BY <2>1, <2>2
  <1>3. ASSUME NEW i \in Ahead, At(i).of # 0 PROVE \E j \in Ahead' : j + 1 = i /\ At(j)' = At(i)
    <2>1. i \in 1..Len(fromModem)
      BY <1>1 DEF Ahead
    <2>2. PICK j \in 0..Len(fromModem') : j + 1 = i
      <3>1. i - 1 \in 0..Len(fromModem') /\ (i - 1) + 1 = i
        BY <1>1, <2>1
      <3> QED
        BY <3>1
    <2>3. j \in Ahead'
      <3>1. CASE j = 0
        <4>1. At(i) = fromModem[1]
          BY <2>2, <3>1 DEF At
        <4> QED
          BY <1>1, <1>3, <3>1, <4>1 DEF Ahead
      <3>2. CASE j # 0
        BY <2>2, <3>2 DEF Ahead
      <3> QED
        BY <3>1, <3>2
    <2> QED
      BY <1>2, <2>2, <2>3
  <1> QED
    BY <1>2, <1>3 DEF OwnKept

\* ... or when the modem sends what answers none.
LEMMA OwnAdded ==
  ASSUME \A i \in Ahead : i \in Ahead' /\ At(i)' = At(i),
         \A i \in Ahead' : (i \in Ahead /\ At(i)' = At(i)) \/ At(i)'.of = 0
  PROVE  OwnKept
  <1>0. \A i \in Ahead \cup Ahead' : i + 0 = i
    BY DEF Ahead
  <1> QED
    BY <1>0 DEF OwnKept

\* A command thread takes no line from the wire.
LEMMA OwnThread ==
  ASSUME NEW t \in Threads, ThreadStep(t)
  PROVE  OwnKept
  <1>1. UNCHANGED <<fromModem, rpc, rline>>
    BY DEF ThreadStep, at_send_command, at_handshake, WaitRequest, SendFails, SendCommand, Complete,
           SpuriousWakeup, WaitAgain, Timeout, GiveUp, onATTimeout, HandshakeDone,
           at_set_on_reader_closed, at_close, CloseSignal, CloseKick, modem, reader
  <1> QED
    BY <1>1, OwnStay

\* While it processes no line, the reader drops none of them.
LEMMA OwnReader ==
  ASSUME TypeOK, WireInv, ReaderStep, ~processLine
  PROVE  OwnKept
  <1>0. fromModem # <<>> => 1 \in Ahead /\ At(1) = fromModem[1]
    BY DEF Ahead, At, TypeOK, ModemOK
  <1>1. CASE ReadLine
    <2>1. /\ fromModem # <<>> /\ fromModem' = Tail(fromModem) /\ rpc # "process"
          /\ rpc' = "process" => rline' = fromModem[1]
          /\ rpc' # "process" => fromModem[1].kind = "sms"
      BY <1>1 DEF ReadLine, isSMSUnsolicited
    <2>2. rpc' # "process" => fromModem[1].of = 0
      BY <1>0, <2>1 DEF WireInv, LineKinds
    <2> QED
      BY <2>1, <2>2, OwnRead
  <1>2. CASE ReadSecondLine
    <2>1. fromModem # <<>> /\ fromModem' = Tail(fromModem) /\ rpc # "process" /\ rpc' # "process"
          /\ fromModem[1].of = 0
      BY <1>2 DEF ReadSecondLine, WireInv, SecondLines
    <2> QED
      BY <2>1, OwnRead
  <1>3. CASE \/ ReadEOF \/ ReadKicked \/ ReadClosed \/ onReaderClosedTest \/ onReaderClosedMark
             \/ onReaderClosedCallback
    <2>1. UNCHANGED fromModem /\ rpc' # "process" /\ rpc # "process"
      BY <1>3 DEF ReadEOF, ReadKicked, ReadClosed, ReaderFails, onReaderClosedTest, onReaderClosedMark,
                  onReaderClosedCallback, modem
    <2> QED
      BY <2>1, OwnStay
  <1> QED
    BY <1>1, <1>2, <1>3 DEF ReaderStep

\* A step that leaves the response and the lines of its command alone.
LEMMA FlowSame ==
  ASSUME TypeOK, TypeOK', LagInv, FlowInv, OwnKept, UNCHANGED <<response, sent, abandoned, mixed>>,
         \/ toModem' = <<>>
         \/ UNCHANGED <<toModem, infoSent>> /\ (prompt' = "no" <=> prompt = "no")
  PROVE  FlowInv'
  <1> SUFFICES ASSUME abandoned = 0 PROVE Dialogue'
    BY DEF FlowInv
  <1>1. CASE response = None
    <2>1. Silence
      BY <1>1, OneCommand DEF Unanswered
    <2>2. Silence'
      BY <2>1 DEF Silence, OwnKept
    <2> QED
      BY <1>1, <2>2, FlowSilent
  <1>2. CASE response # None
    <2>1. ResponseKept
      BY <1>2 DEF ResponseKept, Unanswered
    <2> QED
      BY <2>1, FlowKept DEF FlowInv
  <1> QED
    BY <1>1, <1>2

\* A command is sent, or a call ends that got its answer: nothing was to come.
LEMMA FlowSend ==
  ASSUME TypeOK, TypeOK', LagInv, WireInv, FlowInv, NEW t \in Threads, SendCommand(t)
  PROVE  FlowInv'
  <1> SUFFICES ASSUME abandoned = 0 PROVE Dialogue'
    BY DEF FlowInv, SendCommand
  <1>0. response = None /\ UNCHANGED <<infoSent, prompt, rpc, rline, fromModem>>
    BY DEF SendCommand, reader
  <1>1. Silence
    BY <1>0, OneCommand DEF Unanswered
  <1>2. infoSent = 0 /\ prompt = "no"
    BY <1>1 DEF Silence, WireInv, ModemIdle
  <1>3. \A i \in Ahead' : At(i)'.of = 0
    BY <1>0, <1>1 DEF Ahead, At, Silence
  <1>4. /\ response'.type = call[t].type /\ response'.prefix = call[t].prefix
        /\ response'.smsPDU = call[t].sms /\ response'.intermediates = <<>>
        /\ response'.final = None /\ response' # None
    BY NewResponseOK, AtChannelAssumption DEF SendCommand
  <1>5. toModem'[1].type = call[t].type /\ toModem'[1].prefix = call[t].prefix
        /\ toModem'[1].sms = call[t].sms
    BY <1>1 DEF SendCommand, Silence
  <1>6. \A n \in Nat : ~Numbered(n)'
    BY <1>3, <1>4 DEF Numbered, Kept, Own
  <1>7. HeadPending' /\ InfoExpected' /\ PromptExpected' /\ FirstOnly'
    BY <1>3, <1>4, <1>5 DEF HeadPending, InfoExpected, PromptExpected, FirstOnly, Own
  <1>8. KeptInTurn' /\ ComingInTurn'
    BY <1>3, <1>4 DEF KeptInTurn, ComingInTurn, Own, Kept
  <1>9. Unanswered'
    BY <1>4 DEF Unanswered
  <1>10. NoneMissing'
    BY <1>0, <1>2, <1>3, <1>6, <1>9 DEF NoneMissing, Own
  <1> QED
    BY <1>7, <1>8, <1>10 DEF Dialogue

\* The call ends: with its answer, or the command counts as abandoned.
LEMMA FlowReturn ==
  ASSUME TypeOK, TypeOK', LagInv, FlowInv, NEW t \in Threads, NEW err, Returns(t, err)
  PROVE  FlowInv'
  <1>0. /\ response' = None /\ UNCHANGED <<toModem, rpc, rline, fromModem>>
        /\ abandoned' = IF Unanswered THEN abandoned + 1 ELSE abandoned
    BY DEF Returns, Return, Unanswered, reader, modem
  <1> SUFFICES ASSUME abandoned' = 0 PROVE Dialogue'
    BY DEF FlowInv
  <1>1. abandoned = 0 /\ ~Unanswered
    BY <1>0 DEF TypeOK, HistoryOK
  <1>2. Silence
    BY <1>1, OneCommand
  <1>3. Silence'
    BY <1>0, <1>2 DEF Silence, Ahead, At
  <1> QED
    BY <1>0, <1>3, FlowSilent

----------------------------------------------------------------------------
(* A line is processed.                                                    *)

\* What is true of the lines under way is true when there is one less.
LEMMA FewerLines ==
  ASSUME Dialogue, \A i \in Ahead' : i \in Ahead /\ At(i)' = At(i),
         response'.type = response.type, response'.prefix = response.prefix,
         UNCHANGED <<toModem, infoSent>>, prompt' = "no" <=> prompt = "no"
  PROVE  /\ InfoExpected'
         /\ response'.smsPDU = response.smsPDU => HeadPending' /\ PromptExpected'
  <1>1. \A i \in Ahead', k \in {"info", "prompt"} : Own(i, k)' => Own(i, k)
    BY DEF Own
  <1>2. InfoExpected'
    BY <1>1 DEF Dialogue, InfoExpected
  <1>3. HeadPending' \/ response'.smsPDU # response.smsPDU
    BY DEF Dialogue, HeadPending
  <1>4. PromptExpected' \/ response'.smsPDU # response.smsPDU
    BY <1>1 DEF Dialogue, PromptExpected
  <1> QED
    BY <1>2, <1>3, <1>4

\* The lines that answer a command and are no info lines do not count.
LEMMA CountedSame ==
  ASSUME response'.intermediates = response.intermediates,
         \A i \in Ahead' : i \in Ahead /\ At(i)' = At(i),
         \A i \in Ahead : Own(i, "info") => i \in Ahead'
  PROVE  /\ \A i : Kept(i)' <=> Kept(i)
         /\ \A n : Numbered(n)' <=> Numbered(n)
  <1>1. \A i : Kept(i)' <=> Kept(i)
    BY DEF Kept
  <1>2. \A i \in Ahead : Own(i, "info") => Own(i, "info")' /\ At(i)' = At(i)
    BY DEF Own
  <1>3. \A i \in Ahead' : Own(i, "info")' => i \in Ahead /\ Own(i, "info") /\ At(i)' = At(i)
    BY DEF Own
  <1>4. \A n : Numbered(n)' <=> Numbered(n)
    BY <1>1, <1>2, <1>3 DEF Numbered
  <1> QED
    BY <1>1, <1>4

\* The facts about processLine that its cases share.
Processed ==
  /\ rpc = "process" /\ response # None /\ response' # None /\ abandoned = 0
  /\ UNCHANGED <<toModem, infoSent, sent>>
  /\ 0 \in Ahead /\ At(0) = rline
  /\ \A i \in Ahead' : i \in Ahead /\ i > 0 /\ At(i)' = At(i)
  /\ \A i \in Ahead : i # 0 => i \in Ahead'
  /\ response'.type = response.type /\ response'.prefix = response.prefix

\* The answer is complete.
LEMMA FlowFinal ==
  ASSUME TypeOK, LagInv, Dialogue, Processed, rline.of # 0, rline.kind = "final",
         response'.final = rline, response'.intermediates = response.intermediates
  PROVE  Dialogue'
  <1>1. Own(0, "final")
    BY DEF Own, Processed
  <1>2. Silence'
    <2>1. toModem' = <<>>
      BY <1>1, OneCommand DEF Processed
    <2>2. ASSUME NEW i \in Ahead' PROVE At(i)'.of = 0
      <3>1. i \in Ahead /\ 0 < i /\ At(i)' = At(i) /\ i \in Nat
        BY <2>2, Numbers DEF Processed
      <3>2. ~(i <= 0)
        BY <3>1
      <3> QED
        BY <1>1, <3>1, <3>2, OneCommand DEF Processed
    <2> QED
      BY <2>1, <2>2 DEF Silence
  <1>3. \A i \in Ahead : ~Own(i, "info")
    <2> SUFFICES ASSUME NEW i \in Ahead, Own(i, "info") PROVE FALSE
      OBVIOUS
    <2>1. i # 0
      BY DEF Own, Processed
    <2>2. i \in Ahead' /\ At(i)' = At(i)
      BY <2>1 DEF Processed
    <2> QED
      BY <1>2, <2>2 DEF Silence, Own
  <1>4. \A i : Kept(i)' <=> Kept(i)
    BY DEF Kept
  <1>5. \A n : Numbered(n)' <=> Numbered(n)
    BY <1>3, CountedSame DEF Processed
  <1>6. HeadPending' /\ InfoExpected' /\ PromptExpected' /\ FirstOnly' /\ ComingInTurn'
    BY <1>2 DEF Silence, HeadPending, InfoExpected, PromptExpected, FirstOnly, ComingInTurn, Own
  <1>7. KeptInTurn'
    BY <1>4 DEF Dialogue, KeptInTurn, Multiline, Processed
  <1>8. NoneMissing'
    <2> SUFFICES ASSUME Multiline' PROVE \A n \in Nat : Numbered(n)' <=> n \in 1..rline.n
      BY <1>2 DEF NoneMissing, Silence, Own
    <2>1. Multiline
      BY DEF Multiline, Processed
    <2>2. \A n \in Nat : Numbered(n) <=> n \in 1..At(0).n
      BY <1>1, <2>1 DEF Dialogue, NoneMissing, Processed
    <2> QED
      BY <1>5, <2>2 DEF Processed
  <1> QED
    BY <1>6, <1>7, <1>8 DEF Dialogue

\* The PDU goes out.
LEMMA FlowPrompt ==
  ASSUME TypeOK, LagInv, Dialogue, Processed, rline.of # 0, rline.kind = "prompt",
         prompt' = "no" <=> prompt = "no", mixed' = mixed,
         response'.final = response.final, response'.intermediates = response.intermediates
  PROVE  Dialogue'
  <1>0. Own(0, "prompt")
    BY DEF Own, Processed
  <1>1. InfoExpected'
    BY FewerLines DEF Processed
  <1>2. /\ \A j \in Ahead : Own(j, "prompt") => j = 0
        /\ toModem # <<>> => prompt # "no"
    BY <1>0 DEF Dialogue, PromptExpected, Processed
  <1>3. \A i \in Ahead', k \in {"info", "prompt", "final"} :
          Own(i, k)' => i \in Ahead /\ Own(i, k) /\ i # 0 /\ At(i)' = At(i)
    BY DEF Own, Processed
  <1>4. PromptExpected'
    BY <1>2, <1>3 DEF PromptExpected
  <1>5. HeadPending'
    BY <1>2 DEF Dialogue, HeadPending, Processed
  <1>6. FirstOnly'
    BY <1>3 DEF Dialogue, FirstOnly, Processed
  <1>7. \A i \in Ahead : Own(i, "info") => i \in Ahead'
    BY DEF Own, Processed
  <1>8. (\A i : Kept(i)' <=> Kept(i)) /\ \A n : Numbered(n)' <=> Numbered(n)
    BY <1>7, CountedSame DEF Processed
  <1>9. Multiline' <=> Multiline
    BY DEF Multiline, Processed
  <1>10. KeptInTurn' /\ ComingInTurn'
    BY <1>3, <1>8, <1>9 DEF Dialogue, KeptInTurn, ComingInTurn, Processed
  <1>11. Unanswered' <=> Unanswered
    BY DEF Unanswered, Processed
  <1>12. NoneMissing'
    BY <1>3, <1>8, <1>9, <1>11 DEF Dialogue, NoneMissing, Processed
  <1> QED
    BY <1>1, <1>4, <1>5, <1>6, <1>10, <1>12 DEF Dialogue

\* A line of the answer is thrown away: it was not the first one kept.
LEMMA FlowDropped ==
  ASSUME TypeOK, LagInv, Dialogue, Processed, mixed, UNCHANGED <<response, prompt, mixed>>, ~Multiline
  PROVE  Dialogue'
  <1>1. InfoExpected' /\ HeadPending' /\ PromptExpected'
    BY FewerLines DEF Processed
  <1>2. ~Multiline'
    BY DEF Multiline
  <1> QED
    BY <1>1, <1>2 DEF Dialogue, FirstOnly, KeptInTurn, ComingInTurn, NoneMissing

\* The line is put before those that are kept.
LEMMA KeptShift ==
  ASSUME NEW k \in Seq(Lines), NEW l \in Lines, NEW s, s = <<l>> \o k
  PROVE  /\ Len(k) \in Nat /\ Len(s) = Len(k) + 1 /\ s[1] = l /\ s # <<>>
         /\ \A i \in 1..Len(k) : i + 1 \in 1..Len(s) /\ s[i + 1] = k[i]
         /\ \A i \in 1..Len(s) : i = 1 \/ \E j \in 1..Len(k) : i = j + 1 /\ s[i] = k[j]
  <1>1. Len(k) \in Nat /\ Len(s) = Len(k) + 1 /\ s[1] = l
    OBVIOUS
  <1>2. \A i \in 1..Len(k) : i + 1 \in 1..Len(s) /\ s[i + 1] = k[i]
    BY <1>1
  <1>3. ASSUME NEW i \in 1..Len(s), i # 1
        PROVE  \E j \in 1..Len(k) : i = j + 1 /\ s[i] = k[j]
    <2>1. i - 1 \in 1..Len(k) /\ i = (i - 1) + 1
      BY <1>1, <1>3
    <2>2. s[i] = k[i - 1]
      BY <1>2, <2>1
    <2> QED
      BY <2>1, <2>2
  <1>4. s # <<>>
    BY <1>1
  <1> QED
    BY <1>1, <1>2, <1>3, <1>4

\* A line of the answer is kept.
LEMMA FlowKeep ==
  ASSUME TypeOK, LagInv, Dialogue, Processed, rline \in Lines, rline.kind = "info",
         mixed' = (mixed \/ rline.of = 0), prompt' = prompt,
         response'.final = response.final, response'.smsPDU = response.smsPDU,
         response'.intermediates = <<rline>> \o response.intermediates
  PROVE  Dialogue'
  <1> DEFINE k == response.intermediates
             s == response'.intermediates
  <1>1. /\ Len(k) \in Nat /\ Len(s) = Len(k) + 1 /\ s[1] = rline /\ s # <<>>
        /\ \A i \in 1..Len(k) : i + 1 \in 1..Len(s) /\ s[i + 1] = k[i]
        /\ \A i \in 1..Len(s) : i = 1 \/ \E j \in 1..Len(k) : i = j + 1 /\ s[i] = k[j]
    <2>1. k \in Seq(Lines)
      BY DEF TypeOK, ContextOK, Responses, Processed
    <2> QED
      BY <2>1, KeptShift
  <1>i. 1 \in 1..Len(s) /\ s[1] = rline
    BY <1>1
  <1>p. response'.type = response.type /\ response'.prefix = response.prefix /\ UNCHANGED <<toModem, infoSent, sent>>
        /\ response # None /\ response' # None
    BY DEF Processed
  <1> HIDE DEF k, s
  <1>2. \A i : Kept(i)' <=> i \in 1..Len(s) /\ s[i].of # 0
    BY DEF Kept, s
  <1>3. \A i : Kept(i) <=> i \in 1..Len(k) /\ k[i].of # 0
    BY DEF Kept, k
  <1>4. \A i \in Ahead', c \in {"info", "prompt", "final"} :
          Own(i, c)' => i \in Ahead /\ Own(i, c) /\ i > 0 /\ At(i)' = At(i)
    BY DEF Own, Processed
  <1>5. \A i \in Ahead : Own(i, "info") /\ i # 0 => i \in Ahead' /\ Own(i, "info")' /\ At(i)' = At(i)
    BY DEF Own, Processed
  <1>6. 0 \in Ahead /\ At(0) = rline /\ (Own(0, "info") <=> rline.of # 0)
    BY DEF Own, Processed
  <1>7. ASSUME NEW n PROVE Numbered(n)' <=> Numbered(n)
    <2>1. Numbered(n)' <=> \/ \E i \in 1..Len(s) : s[i].of # 0 /\ s[i].n = n
                           \/ \E i \in Ahead' : Own(i, "info")' /\ At(i)'.n = n
      BY <1>2 DEF Numbered, s
    <2>2. Numbered(n) <=> \/ \E i \in 1..Len(k) : k[i].of # 0 /\ k[i].n = n
                          \/ \E i \in Ahead : Own(i, "info") /\ At(i).n = n
      BY <1>3 DEF Numbered, k
    <2>3. ASSUME NEW i \in 1..Len(s), s[i].of # 0, s[i].n = n PROVE Numbered(n)
      <3>1. CASE i = 1
        BY <1>1, <1>6, <2>2, <2>3, <3>1
      <3>2. CASE i # 1
        BY <1>1, <2>2, <2>3, <3>2
      <3> QED
        BY <3>1, <3>2
    <2>4. ASSUME NEW i \in Ahead', Own(i, "info")', At(i)'.n = n PROVE Numbered(n)
      BY <1>4, <2>2, <2>4
    <2>5. ASSUME NEW i \in 1..Len(k), k[i].of # 0, k[i].n = n PROVE Numbered(n)'
      <3>1. i + 1 \in 1..Len(s) /\ s[i + 1].of # 0 /\ s[i + 1].n = n
        BY <1>1, <2>5
      <3> QED
        BY <2>1, <3>1
    <2>6. ASSUME NEW i \in Ahead, Own(i, "info"), At(i).n = n PROVE Numbered(n)'
      <3>1. CASE i = 0
        BY <1>i, <1>6, <2>1, <2>6, <3>1
      <3>2. CASE i # 0
        BY <1>5, <2>1, <2>6, <3>2
      <3> QED
        BY <3>1, <3>2
    <2> QED
      BY <2>1, <2>2, <2>3, <2>4, <2>5, <2>6
  <1>8. InfoExpected' /\ HeadPending' /\ PromptExpected'
    BY FewerLines DEF Processed
  <1>9. FirstOnly'
    <2> SUFFICES ASSUME ~mixed', response.type # "MULTILINE"
                 PROVE  /\ ~(toModem' # <<>> /\ infoSent' = 0)
                        /\ \A i \in Ahead' : ~Own(i, "info")'
      BY <1>p DEF FirstOnly
    <2>1. rline.of # 0 /\ ~mixed /\ Own(0, "info")
      BY <1>6
    <2>2. toModem # <<>> => infoSent # 0
      BY <1>6, <2>1 DEF Dialogue, InfoExpected
    <2>3. \A j \in Ahead : Own(j, "info") => j = 0
      BY <1>6, <1>p, <2>1 DEF Dialogue, FirstOnly
    <2>4. \A j \in Ahead' : Own(j, "info")' => j \in Ahead /\ Own(j, "info") /\ j # 0
      BY DEF Own, Processed
    <2> QED
      BY <1>p, <2>2, <2>3, <2>4
  <1>10. Multiline' <=> Multiline
    BY <1>p DEF Multiline
  <1>11. KeptInTurn'
    <2> SUFFICES ASSUME Multiline
                 PROVE  /\ \A i \in 1..Len(s) : s[i].of \in {0, sent}
                        /\ \A i, j \in 1..Len(s) : s[i].of # 0 /\ s[j].of # 0 /\ i < j => s[j].n < s[i].n
      BY <1>2, <1>10, <1>p DEF KeptInTurn, s
    <2>1. \A i \in 1..Len(k) : k[i].of \in {0, sent}
      BY DEF Dialogue, KeptInTurn, k
    <2>2. ASSUME NEW i \in 1..Len(s) PROVE s[i].of \in {0, sent}
      <3>1. CASE i = 1
        BY <1>1, <1>6, <3>1, OneCommand DEF Processed
      <3>2. CASE i # 1
        BY <1>1, <2>1, <3>2
      <3> QED
        BY <3>1, <3>2
    <2>3. ASSUME NEW i \in 1..Len(s), NEW j \in 1..Len(s), s[i].of # 0, s[j].of # 0, i < j
          PROVE  s[j].n < s[i].n
      <3>1. j # 1
        BY <1>1, <2>3
      <3>2. PICK b \in 1..Len(k) : j = b + 1 /\ s[j] = k[b]
        BY <1>1, <3>1
      <3>3. CASE i = 1
        <4>1. Kept(b) /\ Own(0, "info")
          BY <1>1, <1>3, <1>6, <2>3, <3>2, <3>3
        <4>2. k[b].n < At(0).n
          BY <1>6, <4>1 DEF Dialogue, ComingInTurn, k
        <4> QED
          BY <1>1, <1>6, <3>2, <3>3, <4>2
      <3>4. CASE i # 1
        <4>1. PICK a \in 1..Len(k) : i = a + 1 /\ s[i] = k[a]
          BY <1>1, <3>4
        <4>2. a < b
          BY <1>1, <2>3, <3>2, <4>1
        <4>3. Kept(a) /\ Kept(b)
          BY <1>3, <2>3, <3>2, <4>1
        <4>4. k[b].n < k[a].n
          BY <4>2, <4>3 DEF Dialogue, KeptInTurn, k
        <4> QED
          BY <3>2, <4>1, <4>4
      <3> QED
        BY <3>3, <3>4
    <2> QED
      BY <2>2, <2>3
  <1>12. ComingInTurn'
    <2> SUFFICES ASSUME Multiline
                 PROVE  /\ \A i, j \in Ahead' :
                             Own(i, "info")' /\ Own(j, "info")' /\ i < j => At(i)'.n < At(j)'.n
                        /\ \A i \in 1..Len(s), j \in Ahead' :
                             s[i].of # 0 /\ Own(j, "info")' => s[i].n < At(j)'.n
      BY <1>2, <1>10 DEF ComingInTurn, s
    <2>1. \A i, j \in Ahead' : Own(i, "info")' /\ Own(j, "info")' /\ i < j => At(i)'.n < At(j)'.n
      BY <1>4 DEF Dialogue, ComingInTurn
    <2>2. ASSUME NEW i \in 1..Len(s), NEW j \in Ahead', s[i].of # 0, Own(j, "info")'
          PROVE  s[i].n < At(j)'.n
      <3>0. j \in Ahead /\ Own(j, "info") /\ 0 < j /\ At(j)' = At(j)
        BY <1>4, <2>2
      <3>1. CASE i = 1
        <4>1. At(0).n < At(j).n
          BY <1>1, <1>6, <2>2, <3>0, <3>1 DEF Dialogue, ComingInTurn
        <4> QED
          BY <1>1, <1>6, <3>0, <3>1, <4>1
      <3>2. CASE i # 1
        <4>1. PICK a \in 1..Len(k) : s[i] = k[a]
          BY <1>1, <3>2
        <4>2. Kept(a)
          BY <1>3, <2>2, <4>1
        <4>3. k[a].n < At(j).n
          BY <3>0, <4>2 DEF Dialogue, ComingInTurn, k
        <4> QED
          BY <3>0, <4>1, <4>3
      <3> QED
        BY <3>1, <3>2
    <2> QED
      BY <2>1, <2>2
  <1>13. NoneMissing'
    <2>1. Unanswered' <=> Unanswered
      BY <1>p DEF Unanswered
    <2> QED
      BY <1>4, <1>7, <1>10, <1>p, <2>1 DEF Dialogue, NoneMissing
  <1> QED
    BY <1>8, <1>9, <1>11, <1>12, <1>13 DEF Dialogue

\* A line that answers the pending command is never unsolicited, except that a
\* command with one line of answer took another line for it.
LEMMA NotUnsolicited ==
  ASSUME TypeOK, LagInv, WireInv, PendingOK, Dialogue, abandoned = 0, rpc = "process",
         rline.of # 0, handleUnsolicited
  PROVE  mixed /\ response # None /\ ~Multiline
  <1>0. 0 \in Ahead /\ At(0) = rline /\ rline \in Lines
    BY AheadLines DEF Ahead, At, TypeOK, ModemOK
  <1>1. Unanswered
    BY <1>0, OneCommand DEF Silence
  <1>2. response \in Responses /\ response # None
    BY <1>1 DEF Unanswered, TypeOK, ContextOK
  <1>3. rline.kind = "info" /\ ~isIntermediate(rline)
    <2>1. rline.kind \notin {"sms", "pdu"}
      BY <1>0 DEF WireInv, LineKinds
    <2>2. rline.kind # "final"
      BY <1>2 DEF handleUnsolicited, isFinalResponse
    <2>3. rline.kind # "prompt"
      BY <1>0, <1>2 DEF handleUnsolicited, Dialogue, PromptExpected, Own
    <2> QED
      BY <1>0, <1>2, <2>1, <2>2, <2>3 DEF handleUnsolicited, Lines
  <1>4. Own(0, "info")
    BY <1>0, <1>3 DEF Own
  <1>5. rline.prefix = response.prefix /\ response.type # "NO_RESULT"
    BY <1>0, <1>4 DEF Dialogue, InfoExpected
  <1>6. response.type \in {"NUMERIC", "SINGLELINE", "MULTILINE"}
    BY <1>2, <1>5 DEF Responses, Types
  <1>7. response.type # "MULTILINE" /\ response.intermediates # <<>>
    BY <1>2, <1>3, <1>5, <1>6 DEF isIntermediate, PendingOK
  <1>8. mixed
    BY <1>0, <1>2, <1>4, <1>7 DEF Dialogue, FirstOnly
  <1> QED
    BY <1>2, <1>7, <1>8 DEF Multiline

\* Whatever the line that is processed is taken for.
LEMMA FlowProcess ==
  ASSUME TypeOK, TypeOK', LagInv, WireInv, PendingOK, FlowInv, NoLeak, processLine
  PROVE  FlowInv' /\ NoLeak'
  <1>0. /\ UNCHANGED <<fromModem, toModem, infoSent, sent, abandoned>>
        /\ rpc = "process" /\ rpc' = "read" /\ abandoned \in Nat
    BY DEF processLine, TypeOK, HistoryOK
  <1> SUFFICES ASSUME abandoned = 0
               PROVE  /\ Dialogue' /\ (leaked' => leaked \/ mixed)
                      /\ mixed => mixed'
    <2>1. CASE abandoned = 0
      BY <1>0, <2>1 DEF FlowInv, NoLeak
    <2>2. CASE abandoned # 0
      BY <1>0, <2>2 DEF FlowInv, NoLeak
    <2> QED
      BY <2>1, <2>2
  <1> USE DEF FlowInv
  <1>1. 0 \in Ahead /\ At(0) = rline /\ rline \in Lines /\ rline.of \in Nat
    <2>1. 0 \in Ahead /\ At(0) = rline
      BY <1>0 DEF Ahead, At, TypeOK, ModemOK
    <2> QED
      BY <2>1, AheadLines, Numbers
  <1>2. /\ \A i \in Ahead' : i \in Ahead /\ i > 0 /\ At(i)' = At(i)
        /\ \A i \in Ahead : i # 0 => i \in Ahead'
    BY <1>0 DEF Ahead, At
  <1>3. response # None => Processed
    BY <1>0, <1>1, <1>2, ProcessKeeps DEF Processed
  <1>4. rline.of = 0 => OwnKept
    BY <1>0, OwnStay
  <1>5. rline.of # 0 => Unanswered /\ response # None
    BY <1>1, OneCommand DEF Silence, Unanswered
  <1>6. CASE handleFinalResponse
    <2>1. /\ response # None /\ rline.kind = "final" /\ UNCHANGED <<prompt, leaked, mixed>>
          /\ ~keepIntermediate /\ ~handlePrompt
      BY <1>6 DEF handleFinalResponse, isFinalResponse, keepIntermediate, handlePrompt
    <2>2. /\ response' # None /\ response'.final = rline
          /\ response'.intermediates = response.intermediates
          /\ response'.type = response.type /\ response'.prefix = response.prefix
          /\ response'.smsPDU = response.smsPDU
      BY <1>6, <2>1, ProcessKeeps
    <2>3. CASE rline.of # 0
      <3>1. Dialogue'
        BY <1>3, <2>1, <2>2, <2>3, FlowFinal
      <3> QED
        BY <2>1, <3>1
    <2>4. CASE rline.of = 0
      <3>1. ResponseKept
        BY <2>1, <2>2, <2>4 DEF ResponseKept, Unanswered
      <3>2. Dialogue'
        BY <1>0, <1>4, <2>1, <2>4, <3>1, FlowKept
      <3> QED
        BY <2>1, <3>2
    <2> QED
      BY <2>3, <2>4
  <1>7. CASE handlePrompt
    <2>1. /\ response # None /\ rline.kind = "prompt" /\ UNCHANGED <<leaked, mixed>>
          /\ prompt' = "no" <=> prompt = "no"
          /\ ~keepIntermediate /\ ~handleFinalResponse
      BY <1>7 DEF handleFinalResponse, isFinalResponse, keepIntermediate, handlePrompt
    <2>2. rline.of # 0
      BY <1>1, <2>1 DEF WireInv, LineKinds
    <2>3. response'.final = response.final /\ response'.intermediates = response.intermediates
      BY <2>1, ProcessKeeps
    <2>4. Dialogue'
      BY <1>3, <2>1, <2>2, <2>3, FlowPrompt
    <2> QED
      BY <2>1, <2>4
  <1>8. CASE keepIntermediate
    <2>1. /\ response # None /\ rline.kind = "info" /\ UNCHANGED <<prompt, leaked>>
          /\ mixed' = (mixed \/ rline.of = 0) /\ response' = addIntermediate(rline)
          /\ ~handlePrompt /\ ~handleFinalResponse
      BY <1>8 DEF handleFinalResponse, isFinalResponse, keepIntermediate, handlePrompt
    <2>2. response'.final = response.final /\ response'.smsPDU = response.smsPDU
      BY <2>1, ProcessKeeps
    <2>3. response'.intermediates = <<rline>> \o response.intermediates
      <3>1. response \in Responses
        BY <2>1 DEF TypeOK, ContextOK
      <3> QED
        BY <2>1, <3>1 DEF addIntermediate, Responses
    <2>4. Dialogue'
      BY <1>1, <1>3, <2>1, <2>2, <2>3, FlowKeep
    <2> QED
      BY <2>1, <2>4
  <1>9. CASE handleUnsolicited
    <2>1. UNCHANGED <<response, prompt, mixed>> /\ leaked' = (leaked \/ rline.of # 0)
      BY <1>9 DEF handleUnsolicited
    <2>2. CASE rline.of = 0
      <3>1. FlowInv'
        BY <1>0, <1>4, <2>1, <2>2, FlowSame
      <3> QED
        BY <1>0, <2>1, <2>2, <3>1
    <2>3. CASE rline.of # 0
      <3>1. mixed /\ response # None /\ ~Multiline
        BY <1>0, <1>9, <2>3, NotUnsolicited
      <3>2. Dialogue'
        BY <1>3, <2>1, <3>1, FlowDropped
      <3> QED
        BY <2>1, <3>1, <3>2
    <2> QED
      BY <2>2, <2>3
  <1> QED
    BY <1>6, <1>7, <1>8, <1>9 DEF processLine

----------------------------------------------------------------------------
(* The modem answers.                                                      *)

\* Line l of the answer comes last, at m.
Last(m, l) ==
  /\ m \in Ahead' /\ At(m)' = l /\ l.of # 0
  /\ \A i \in Ahead : i \in Ahead' /\ i < m /\ At(i)' = At(i)
  /\ \A i \in Ahead' : i \in Ahead \/ i = m

\* The command that is answered is the pending one.
Answers(l) ==
  /\ toModem # <<>> /\ abandoned = 0 /\ Unanswered
  /\ \A i \in Ahead : ~Own(i, "final")
  /\ \E m : Last(m, l)
  /\ UNCHANGED <<response, sent, mixed>>

\* A line of the modem that answers is the last one of the pending command.
LEMMA AnswersOK ==
  ASSUME TypeOK, LagInv, abandoned = 0, toModem # <<>>, NEW l \in Lines, Emit(<<l>>),
         l.of = toModem[1].id, UNCHANGED <<rpc, rline, response, sent, mixed>>
  PROVE  Answers(l)
  <1>1. PICK m \in Nat : /\ Ahead' = Ahead \cup {m} /\ At(m)' = l
                         /\ \A i \in Ahead : i < m /\ At(i)' = At(i)
    BY LineAdded
  <1>2. l.of # 0
    BY HeadOK DEF LagInv
  <1>3. Last(m, l)
    BY <1>1, <1>2 DEF Last
  <1>4. Unanswered /\ \A i \in Ahead : ~Own(i, "final")
    BY OneCommand DEF Silence
  <1> QED
    BY <1>3, <1>4 DEF Answers

\* What was under way stays.
LEMMA OwnLast ==
  ASSUME NEW m, NEW l, Last(m, l), NEW c
  PROVE  /\ \A i \in Ahead : i \in Ahead' /\ i # m /\ At(i)' = At(i) /\ (Own(i, c)' <=> Own(i, c))
         /\ Own(m, c)' <=> l.kind = c
         /\ \A i \in Ahead' : Own(i, c)' => Own(i, c) \/ (i = m /\ l.kind = c)
  <1>0. \A i \in Ahead : i \in Ahead' /\ i < m /\ At(i)' = At(i)
    BY DEF Last
  <1>1. m \notin Ahead
    <2>1. \A i \in Ahead : i \in Int
      BY DEF Ahead
    <2>2. m \in Ahead => m < m
      BY <1>0
    <2>3. \A i \in Int : ~(i < i)
      OBVIOUS
    <2> QED
      BY <2>1, <2>2, <2>3
  <1>2. \A i \in Ahead : Own(i, c)' <=> Own(i, c)
    BY <1>0 DEF Own
  <1>3. Own(m, c)' <=> l.kind = c
    BY DEF Own, Last
  <1>4. \A i \in Ahead' : Own(i, c)' => Own(i, c) \/ (i = m /\ l.kind = c)
    BY <1>2, <1>3 DEF Last
  <1> QED
    BY <1>0, <1>1, <1>2, <1>3, <1>4

\* A line that is no info line does not count.
LEMMA CountedOther ==
  ASSUME NEW l, Answers(l), l.kind # "info"
  PROVE  /\ \A n : Numbered(n)' <=> Numbered(n)
         /\ ComingInTurn => ComingInTurn'
  <1>1. PICK m : Last(m, l)
    BY DEF Answers
  <1>2. \A i : Kept(i)' <=> Kept(i)
    BY DEF Kept, Answers
  <1>3. /\ \A i \in Ahead : i \in Ahead' /\ At(i)' = At(i) /\ (Own(i, "info")' <=> Own(i, "info"))
        /\ \A i \in Ahead' : Own(i, "info")' => Own(i, "info")
    BY <1>1, OwnLast
  <1>4. \A i : Own(i, "info") => i \in Ahead
    BY DEF Own
  <1>5. \A n : Numbered(n)' <=> Numbered(n)
    BY <1>2, <1>3, <1>4 DEF Numbered, Answers
  <1>6. response' = response
    BY DEF Answers
  <1>7. ComingInTurn => ComingInTurn'
    BY <1>2, <1>3, <1>4, <1>6 DEF ComingInTurn, Multiline
  <1> QED
    BY <1>5, <1>7

\* The prompt.
LEMMA FlowModemPrompt ==
  ASSUME Dialogue, NEW l, Answers(l), l.kind = "prompt", toModem[1].sms,
         prompt = "no", prompt' = "shown", UNCHANGED <<toModem, infoSent>>
  PROVE  Dialogue'
  <1>0. UNCHANGED <<response, sent, mixed>> /\ toModem # <<>>
    BY DEF Answers
  <1>1. PICK m : Last(m, l)
    BY DEF Answers
  <1>2. \A i : Kept(i)' <=> Kept(i)
    BY <1>0 DEF Kept
  <1>3. (\A n : Numbered(n)' <=> Numbered(n)) /\ ComingInTurn'
    BY CountedOther DEF Dialogue
  <1>4. \A i \in Ahead', c \in {"info", "final"} : Own(i, c)' => i \in Ahead /\ Own(i, c) /\ At(i)' = At(i)
    BY <1>1, OwnLast DEF Own
  <1>5. \A i \in Ahead' : Own(i, "prompt")' => i = m
    <2>1. \A i \in Ahead : ~Own(i, "prompt")
      BY <1>0 DEF Dialogue, PromptExpected
    <2> QED
      BY <1>1, <2>1, OwnLast DEF Own
  <1>6. HeadPending' /\ PromptExpected'
    BY <1>0, <1>5 DEF Dialogue, HeadPending, PromptExpected
  <1>7. InfoExpected' /\ FirstOnly'
    BY <1>0, <1>4 DEF Dialogue, InfoExpected, FirstOnly
  <1>8. KeptInTurn' /\ NoneMissing'
    BY <1>0, <1>2, <1>3, <1>4 DEF Dialogue, KeptInTurn, NoneMissing, Multiline, Unanswered
  <1> QED
    BY <1>3, <1>6, <1>7, <1>8 DEF Dialogue

\* The final line: as many as it says were sent.
LEMMA FlowModemFinal ==
  ASSUME Dialogue, NEW l, Answers(l), l.kind = "final", l.n = infoSent, toModem' = <<>>
  PROVE  Dialogue'
  <1>0. UNCHANGED <<response, sent, mixed>> /\ toModem # <<>>
    BY DEF Answers
  <1>1. PICK m : Last(m, l)
    BY DEF Answers
  <1>2. \A i : Kept(i)' <=> Kept(i)
    BY <1>0 DEF Kept
  <1>3. (\A n : Numbered(n)' <=> Numbered(n)) /\ ComingInTurn'
    BY CountedOther DEF Dialogue
  <1>4. \A i \in Ahead', c \in {"info", "prompt"} : Own(i, c)' => i \in Ahead /\ Own(i, c) /\ At(i)' = At(i)
    BY <1>1, OwnLast DEF Own
  <1>5. \A i \in Ahead' : Own(i, "final")' => At(i)' = l
    <2>1. \A i : ~Own(i, "final")
      BY DEF Answers, Own
    <2> QED
      BY <1>1, <2>1, OwnLast DEF Last
  <1>6. HeadPending' /\ PromptExpected' /\ InfoExpected' /\ FirstOnly'
    BY <1>0, <1>4 DEF Dialogue, HeadPending, PromptExpected, InfoExpected, FirstOnly
  <1>7. KeptInTurn' /\ NoneMissing'
    BY <1>0, <1>2, <1>3, <1>5 DEF Dialogue, KeptInTurn, NoneMissing, Multiline, Unanswered, Answers
  <1> QED
    BY <1>3, <1>6, <1>7 DEF Dialogue

\* Another number is one more.
LEMMA NextNumber ==
  ASSUME NEW k \in Nat
  PROVE  /\ \A n \in Nat : n \in 1..(k + 1) <=> n \in 1..k \/ n = k + 1
         /\ \A n \in 1..k : n < k + 1
         /\ k + 1 # 0
  OBVIOUS

\* A line of the answer.
LEMMA FlowModemInfo ==
  ASSUME TypeOK, Dialogue, NEW l, Answers(l), l.kind = "info", l.prefix = toModem[1].prefix,
         toModem[1].type # "NO_RESULT", toModem[1].type # "MULTILINE" => infoSent = 0,
         l.n = infoSent + 1, infoSent' = infoSent + 1, UNCHANGED <<toModem, prompt>>
  PROVE  Dialogue'
  <1>0. UNCHANGED <<response, sent, mixed>> /\ toModem # <<>> /\ Unanswered
    BY DEF Answers
  <1>1. PICK m : Last(m, l)
    BY DEF Answers
  <1>2. \A i : Kept(i)' <=> Kept(i)
    BY <1>0 DEF Kept
  <1>3. /\ \A n \in Nat : n \in 1..infoSent' <=> n \in 1..infoSent \/ n = infoSent + 1
        /\ \A n \in 1..infoSent : n < infoSent + 1
        /\ infoSent' # 0
    BY NextNumber DEF TypeOK, ModemOK
  <1>4. \A i \in Ahead', c \in {"prompt", "final"} : Own(i, c)' => i \in Ahead /\ Own(i, c) /\ At(i)' = At(i)
    BY <1>1, OwnLast DEF Own
  <1>5. /\ \A i \in Ahead : i \in Ahead' /\ i # m /\ i < m /\ At(i)' = At(i) /\ (Own(i, "info")' <=> Own(i, "info"))
        /\ Own(m, "info")' /\ m \in Ahead' /\ At(m)' = l
        /\ \A i \in Ahead' : Own(i, "info")' => (i \in Ahead /\ Own(i, "info")) \/ i = m
    <2>1. \A i : Own(i, "info") => i \in Ahead
      BY DEF Own
    <2> QED
      BY <1>1, <2>1, OwnLast DEF Last
  <1>6. HeadPending' /\ PromptExpected'
    BY <1>0, <1>4 DEF Dialogue, HeadPending, PromptExpected
  <1>7. InfoExpected'
    <2>1. l.prefix = response.prefix /\ response.type # "NO_RESULT"
      BY <1>0 DEF Dialogue, HeadPending
    <2> QED
      BY <1>0, <1>3, <1>5, <2>1 DEF Dialogue, InfoExpected
  <1>8. FirstOnly'
    <2> SUFFICES ASSUME ~mixed, response # None, response.type # "MULTILINE"
                 PROVE  /\ response.intermediates = <<>>
                        /\ \A i, j \in Ahead' : Own(i, "info")' /\ Own(j, "info")' => i = j
      BY <1>0 DEF FirstOnly
    <2>1. infoSent = 0
      BY <1>0 DEF Dialogue, HeadPending
    <2>2. \A i \in Ahead : ~Own(i, "info")
      BY <1>0, <2>1 DEF Dialogue, InfoExpected
    <2>3. response.intermediates = <<>>
      BY <1>0, <2>1 DEF Dialogue, FirstOnly
    <2> QED
      BY <1>5, <2>2, <2>3
  <1>9. KeptInTurn'
    BY <1>0, <1>2 DEF Dialogue, KeptInTurn, Multiline
  <1>10. ASSUME NEW n PROVE Numbered(n)' <=> Numbered(n) \/ n = infoSent + 1
    <2>1. Numbered(n)' <=> \/ \E i \in 1..Len(response.intermediates) : Kept(i) /\ response.intermediates[i].n = n
                           \/ \E i \in Ahead' : Own(i, "info")' /\ At(i)'.n = n
      BY <1>0, <1>2 DEF Numbered
    <2>2. (\E i \in Ahead' : Own(i, "info")' /\ At(i)'.n = n)
            <=> (\E i \in Ahead : Own(i, "info") /\ At(i).n = n) \/ n = infoSent + 1
      BY <1>5
    <2> QED
      BY <2>1, <2>2 DEF Numbered
  <1>11. CASE Multiline
    <2>1. \A n \in Nat : Numbered(n) <=> n \in 1..infoSent
      BY <1>0, <1>11 DEF Dialogue, NoneMissing
    <2>2. ComingInTurn'
      <3>1. ASSUME NEW i \in 1..Len(response.intermediates), Kept(i)
            PROVE  response.intermediates[i].n < l.n
        <4>1. response.intermediates[i].n \in Nat
          <5>1. response.intermediates \in Seq(Lines)
            BY <1>11 DEF TypeOK, ContextOK, Responses, Multiline
          <5>2. response.intermediates[i] \in Lines
            BY <5>1
          <5> QED
            BY <5>2 DEF Lines
        <4>2. Numbered(response.intermediates[i].n)
          BY <3>1 DEF Numbered
        <4> QED
          BY <1>3, <2>1, <4>1, <4>2
      <3>2. ASSUME NEW i \in Ahead, Own(i, "info")
            PROVE  At(i).n < l.n
        <4>1. At(i).n \in Nat
          BY Numbers
        <4>2. Numbered(At(i).n)
          BY <3>2 DEF Numbered
        <4> QED
          BY <1>3, <2>1, <4>1, <4>2
      <3>3. ASSUME NEW i \in Ahead', NEW j \in Ahead', Own(i, "info")', Own(j, "info")', i < j
            PROVE  At(i)'.n < At(j)'.n
        <4>0. i # m
          <5>1. \A a \in Ahead' : a \in Int
            BY DEF Ahead
          <5>2. ASSUME i = m PROVE FALSE
            <6>1. j # m
              BY <3>3, <5>1, <5>2
            <6>2. j < i
              BY <1>5, <3>3, <5>2, <6>1
            <6> QED
              BY <3>3, <5>1, <6>2
          <5> QED
            BY <5>2
        <4>1. i \in Ahead /\ Own(i, "info") /\ At(i)' = At(i)
          BY <1>5, <3>3, <4>0
        <4>2. CASE j = m
          BY <1>5, <3>2, <4>1, <4>2
        <4>3. CASE j # m
          <5>1. j \in Ahead /\ Own(j, "info") /\ At(j)' = At(j)
            BY <1>5, <3>3, <4>3
          <5> QED
            BY <1>11, <3>3, <4>1, <5>1 DEF Dialogue, ComingInTurn
        <4> QED
          BY <4>2, <4>3
      <3>4. ASSUME NEW i \in 1..Len(response.intermediates), NEW j \in Ahead', Kept(i), Own(j, "info")'
            PROVE  response.intermediates[i].n < At(j)'.n
        <4>1. CASE j = m
          BY <1>5, <3>1, <3>4, <4>1
        <4>2. CASE j # m
          <5>1. j \in Ahead /\ Own(j, "info") /\ At(j)' = At(j)
            BY <1>5, <3>4, <4>2
          <5> QED
            BY <1>11, <3>4, <5>1 DEF Dialogue, ComingInTurn
        <4> QED
          BY <4>1, <4>2
      <3> QED
        BY <1>0, <1>2, <3>3, <3>4 DEF ComingInTurn
    <2>3. \A i \in Ahead' : ~Own(i, "final")'
      BY <1>4 DEF Answers
    <2>4. NoneMissing'
      BY <1>0, <1>3, <1>10, <2>1, <2>3 DEF NoneMissing, Unanswered
    <2> QED
      BY <1>6, <1>7, <1>8, <1>9, <2>2, <2>4 DEF Dialogue
  <1>12. CASE ~Multiline
    BY <1>0, <1>6, <1>7, <1>8, <1>9, <1>12 DEF Dialogue, ComingInTurn, NoneMissing, Multiline
  <1> QED
    BY <1>11, <1>12

\* Whatever the modem does.
LEMMA FlowModem ==
  ASSUME TypeOK, TypeOK', LagInv, FlowInv, ModemStep
  PROVE  FlowInv'
  <1>0. UNCHANGED <<response, sent, abandoned, mixed, rpc, rline>>
    BY DEF ModemStep, ModemInfo, ModemPrompt, ModemFinal, ModemLose, ModemUnsolicited, ModemHangUp,
           ModemOther, context, reader, history
  <1>1. CASE ModemLose \/ ModemHangUp \/ ModemUnsolicited
    <2>1. OwnKept
      <3>1. CASE ModemLose \/ ModemHangUp
        BY <1>0, <3>1, OwnStay DEF ModemLose, ModemHangUp
      <3>2. CASE ModemUnsolicited
        BY <1>0, <3>2, UnsolicitedLines, LinesAdded, OwnAdded
      <3> QED
        BY <1>1, <3>1, <3>2
    <2>2. CASE abandoned # 0
      BY <1>0, <2>2 DEF FlowInv
    <2>3. CASE abandoned = 0
      <3>1. \/ toModem' = <<>>
            \/ UNCHANGED <<toModem, infoSent>> /\ (prompt' = "no" <=> prompt = "no")
        <4>1. CASE ModemLose
          BY <2>3, <4>1, OneCommand DEF ModemLose
        <4>2. CASE ModemHangUp \/ ModemUnsolicited
          BY <4>2 DEF ModemHangUp, ModemUnsolicited
        <4> QED
          BY <1>1, <4>1, <4>2
      <3> QED
        BY <1>0, <2>1, <3>1, FlowSame
    <2> QED
      BY <2>2, <2>3
  <1>2. CASE ModemInfo \/ ModemPrompt \/ ModemFinal
    <2> SUFFICES ASSUME abandoned = 0 PROVE Dialogue'
      BY <1>0 DEF FlowInv
    <2>0. toModem # <<>> /\ Dialogue
      BY <1>2 DEF ModemInfo, ModemPrompt, ModemFinal, FlowInv
    <2>1. /\ Head(toModem) = toModem[1] /\ toModem[1].id \in Nat /\ toModem[1].prefix \in Prefixes
          /\ infoSent \in Nat /\ infoSent + 1 \in Nat /\ NoPrefix \in Prefixes
      BY <2>0, HeadOK, AtChannelAssumption DEF LagInv, TypeOK, ModemOK
    <2> DEFINE L(k, ok, p, n) == Line(k, ok, p, toModem[1].id, n)
    <2>3. CASE ModemInfo
      <3>1. /\ Emit(<<L("info", FALSE, toModem[1].prefix, infoSent + 1)>>)
            /\ toModem[1].type # "NO_RESULT"
            /\ infoSent < IF toModem[1].type = "MULTILINE" THEN MaxInfo ELSE 1
            /\ infoSent' = infoSent + 1 /\ UNCHANGED <<toModem, prompt>>
        BY <2>1, <2>3 DEF ModemInfo
      <3>2. toModem[1].type # "MULTILINE" => infoSent = 0
        BY <2>1, <3>1
      <3>3. PICK l \in Lines : /\ Emit(<<l>>) /\ l.kind = "info" /\ l.prefix = toModem[1].prefix
                               /\ l.of = toModem[1].id /\ l.n = infoSent + 1
        <4> DEFINE k == L("info", FALSE, toModem[1].prefix, infoSent + 1)
        <4>1. /\ k \in Lines /\ k.kind = "info" /\ k.prefix = toModem[1].prefix
              /\ k.of = toModem[1].id /\ k.n = infoSent + 1
          BY <2>1 DEF Line, Lines
        <4>2. Emit(<<k>>)
          BY <3>1
        <4> HIDE DEF k
        <4> QED
          BY <4>1, <4>2
      <3>4. Answers(l)
        BY <1>0, <2>0, <3>3, AnswersOK
      <3> QED
        BY <2>0, <3>1, <3>2, <3>3, <3>4, FlowModemInfo
    <2>4. CASE ModemPrompt
      <3>1. /\ Emit(<<L("prompt", FALSE, NoPrefix, 0)>>)
            /\ toModem[1].sms /\ prompt = "no" /\ prompt' = "shown"
            /\ UNCHANGED <<toModem, infoSent>>
        BY <2>1, <2>4 DEF ModemPrompt
      <3>2. PICK l \in Lines : Emit(<<l>>) /\ l.kind = "prompt" /\ l.of = toModem[1].id
        <4> DEFINE k == L("prompt", FALSE, NoPrefix, 0)
        <4>1. k \in Lines /\ k.kind = "prompt" /\ k.of = toModem[1].id
          BY <2>1 DEF Line, Lines
        <4>2. Emit(<<k>>)
          BY <3>1
        <4> HIDE DEF k
        <4> QED
          BY <4>1, <4>2
      <3>3. Answers(l)
        BY <1>0, <2>0, <3>2, AnswersOK
      <3> QED
        BY <2>0, <3>1, <3>2, <3>3, FlowModemPrompt
    <2>5. CASE ModemFinal
      <3>1. PICK ok \in BOOLEAN : Emit(<<L("final", ok, toModem[1].prefix, infoSent)>>)
        BY <2>1, <2>5 DEF ModemFinal
      <3>2. toModem' = <<>>
        BY <2>0, <2>5, OneCommand DEF ModemFinal
      <3>3. PICK l \in Lines : Emit(<<l>>) /\ l.kind = "final" /\ l.of = toModem[1].id /\ l.n = infoSent
        <4> DEFINE k == L("final", ok, toModem[1].prefix, infoSent)
        <4>1. k \in Lines /\ k.kind = "final" /\ k.of = toModem[1].id /\ k.n = infoSent
          BY <2>1 DEF Line, Lines
        <4>2. Emit(<<k>>)
          BY <3>1
        <4> HIDE DEF k
        <4> QED
          BY <4>1, <4>2
      <3>4. Answers(l)
        BY <1>0, <2>0, <3>3, AnswersOK
      <3> QED
        BY <2>0, <3>2, <3>3, <3>4, FlowModemFinal
    <2> QED
      BY <1>2, <2>3, <2>4, <2>5
  <1> QED
    BY <1>1, <1>2 DEF ModemStep

----------------------------------------------------------------------------
(* What the callers get.                                                   *)

\* What response.intermediates holds of an answer of f lines, newest line first,
\* and what the caller is to be given of it.
KeptWhole(k, id, f) ==
  /\ \A i \in 1..Len(k) : k[i].of \in {0, id}
  /\ \A i, j \in 1..Len(k) : k[i].of # 0 /\ k[j].of # 0 /\ i < j => k[j].n < k[i].n
  /\ \A n \in Nat : (\E i \in 1..Len(k) : k[i].of # 0 /\ k[i].n = n) <=> n \in 1..f

GivenWhole(s, id, f) ==
  LET own == {i \in 1..Len(s) : s[i].of = id} IN
  /\ {s[i].n : i \in own} = 1..f
  /\ \A i, j \in own : i < j => s[i].n < s[j].n
  /\ \A i \in 1..Len(s) : s[i].of \in {0, id}

\* Lines kept with the last one first are handed out in their order, all of them.
LEMMA WholeAnswer ==
  ASSUME NEW k \in Seq(Lines), NEW id \in Nat \ {0}, NEW f \in Nat, KeptWhole(k, id, f)
  PROVE  GivenWhole(reverseIntermediates(k), id, f)
  <1> DEFINE s == reverseIntermediates(k)
  <1>0. /\ \A i \in 1..Len(k) : k[i].of \in {0, id}
        /\ \A i, j \in 1..Len(k) : k[i].of # 0 /\ k[j].of # 0 /\ i < j => k[j].n < k[i].n
        /\ \A n \in Nat : (\E i \in 1..Len(k) : k[i].of # 0 /\ k[i].n = n) <=> n \in 1..f
    BY DEF KeptWhole
  <1> DEFINE own == {i \in 1..Len(s) : s[i].of = id}
  <1>1. /\ Len(k) \in Nat /\ Len(s) = Len(k)
        /\ \A i \in 1..Len(s) : Len(k) + 1 - i \in 1..Len(k) /\ s[i] = k[Len(k) + 1 - i]
        /\ \A j \in 1..Len(k) : \E i \in 1..Len(s) : s[i] = k[j]
    <2>1. Len(k) \in Nat
      OBVIOUS
    <2>2. Len(s) = Len(k)
      BY <2>1 DEF reverseIntermediates
    <2>3. \A i \in 1..Len(s) : Len(k) + 1 - i \in 1..Len(k) /\ s[i] = k[Len(k) + 1 - i]
      BY <2>1, <2>2 DEF reverseIntermediates
    <2>4. ASSUME NEW j \in 1..Len(k) PROVE \E i \in 1..Len(s) : s[i] = k[j]
      <3>1. PICK i \in 1..Len(s) : Len(k) + 1 - i = j
        <4>1. Len(k) + 1 - j \in 1..Len(s) /\ Len(k) + 1 - (Len(k) + 1 - j) = j
          BY <2>1, <2>2
        <4> QED
          BY <4>1
      <3>2. s[i] = k[j]
        BY <2>3, <3>1
      <3> QED
        BY <3>2
    <2> QED
      BY <2>1, <2>2, <2>3, <2>4
  <1> HIDE DEF s
  <1>2. \A i \in 1..Len(k) : k[i].n \in Nat
    <2>1. \A i \in 1..Len(k) : k[i] \in Lines
      OBVIOUS
    <2> QED
      BY <2>1 DEF Lines
  <1>3. \A i \in 1..Len(s) : s[i].of \in {0, id}
    BY <1>0, <1>1
  <1>4. ASSUME NEW i \in own PROVE s[i].n \in 1..f
    <2>1. PICK a \in 1..Len(k) : s[i] = k[a]
      BY <1>1
    <2> QED
      BY <1>0, <1>2, <2>1
  <1>5. ASSUME NEW n \in 1..f PROVE \E i \in own : s[i].n = n
    <2>1. PICK a \in 1..Len(k) : k[a].of # 0 /\ k[a].n = n
      BY <1>0
    <2>2. PICK i \in 1..Len(s) : s[i] = k[a]
      BY <1>1
    <2>3. s[i].of = id
      BY <1>3, <2>1, <2>2
    <2> QED
      BY <2>1, <2>2, <2>3
  <1>6. ASSUME NEW i \in own, NEW j \in own, i < j PROVE s[i].n < s[j].n
    <2>1. PICK a \in 1..Len(k) : a = Len(k) + 1 - i /\ s[i] = k[a]
      BY <1>1
    <2>2. PICK b \in 1..Len(k) : b = Len(k) + 1 - j /\ s[j] = k[b]
      BY <1>1
    <2>3. b < a
      <3>1. i \in Int /\ j \in Int /\ i < j
        BY <1>6
      <3>2. Len(k) \in Nat /\ a = Len(k) + 1 - i /\ b = Len(k) + 1 - j
        BY <1>1, <2>1, <2>2
      <3> HIDE DEF own
      <3>3. ASSUME NEW l \in Nat, a = l + 1 - i, b = l + 1 - j PROVE b < a
        BY <3>1, <3>3
      <3> QED
        BY <3>2, <3>3
    <2>4. k[a].of # 0 /\ k[b].of # 0
      BY <2>1, <2>2
    <2>5. k[a].n < k[b].n
      BY <1>0, <2>3, <2>4
    <2> QED
      BY <2>1, <2>2, <2>5
  <1>7. {s[i].n : i \in own} = 1..f
    <2> HIDE DEF own
    <2> QED
      BY <1>4, <1>5
  <1> QED
    BY <1>3, <1>6, <1>7 DEF GivenWhole, s

\* The call of a thread ends: with the whole answer.
LEMMA AnswerReturned ==
  ASSUME TypeOK, TypeOK', LagInv, PendingOK, FlowInv, AnswerInOrder,
         NEW t \in Threads, NEW err, Returns(t, err)
  PROVE  AnswerInOrder'
  <1>0. /\ abandoned' = IF Unanswered THEN abandoned + 1 ELSE abandoned
        /\ call' = call
    BY DEF Returns, Return, Unanswered
  <1> SUFFICES ASSUME abandoned' = 0 PROVE AnswerInOrder'
    BY DEF AnswerInOrder
  <1>1. abandoned = 0 /\ ~Unanswered
    BY <1>0 DEF TypeOK, HistoryOK
  <1>2. ASSUME NEW u \in Threads, u # t PROVE result'[u] = result[u]
    BY <1>2 DEF Returns, Return, TypeOK, ThreadOK
  <1>3. result'[t] = IF response = None THEN [NoResult EXCEPT !.err = err]
                     ELSE [err |-> checkIntermediate(call[t], err, response), id |-> response.id,
                           final |-> response.final,
                           lines |-> reverseIntermediates(response.intermediates)]
    BY DEF Returns, Return, TypeOK, ThreadOK
  <1> DEFINE r   == result'[t]
             own == {i \in 1..Len(r.lines) : r.lines[i].of = r.id}
             k   == response.intermediates
  <1>4. ASSUME r.err = "0", call[t].type = "MULTILINE"
        PROVE  /\ {r.lines[i].n : i \in own} = 1..r.final.n
               /\ \A i, j \in own : i < j => r.lines[i].n < r.lines[j].n
               /\ \A i \in 1..Len(r.lines) : r.lines[i].of \in {0, r.id}
    <2>1. response # None /\ response.final # None
      <3>1. response # None
        BY <1>3, <1>4 DEF NoResult, Returns
      <3>2. err = "0"
        BY <1>3, <1>4, <3>1 DEF checkIntermediate, Returns
      <3> QED
        BY <3>1, <3>2 DEF Returns
    <2>2. r.id = sent /\ r.final = response.final /\ r.lines = reverseIntermediates(k)
      BY <1>3, <2>1 DEF LagInv, LastPending
    <2>3. Multiline
      BY <1>4, <2>1 DEF Multiline, PendingOK, Returns
    <2>4. Silence
      BY <1>1, OneCommand
    <2>5. k \in Seq(Lines) /\ response.final.n \in Nat
      BY <2>1 DEF TypeOK, ContextOK, Responses, Lines
    <2>6. sent \in Nat \ {0}
      <3>1. response.final.of # 0 /\ response.final.of \in (sent - 0)..sent
        BY <1>1, <2>1 DEF Unanswered, LagInv, LastPending
      <3> QED
        BY <3>1 DEF TypeOK, HistoryOK
    <2> HIDE DEF r, k
    <2>7. \A i \in 1..Len(k) : Kept(i) <=> k[i].of # 0
      BY DEF Kept, k
    <2>8. /\ \A i \in 1..Len(k) : k[i].of \in {0, sent}
          /\ \A i, j \in 1..Len(k) : k[i].of # 0 /\ k[j].of # 0 /\ i < j => k[j].n < k[i].n
      BY <1>1, <2>3, <2>7 DEF FlowInv, Dialogue, KeptInTurn, k
    <2>9. \A n \in Nat : (\E i \in 1..Len(k) : k[i].of # 0 /\ k[i].n = n) <=> n \in 1..response.final.n
      <3>1. \A i \in Ahead : ~Own(i, "info")
        BY <2>4 DEF Silence, Own
      <3>2. \A n \in Nat : Numbered(n) <=> n \in 1..response.final.n
        BY <1>1, <2>3 DEF FlowInv, Dialogue, NoneMissing
      <3> QED
        BY <2>7, <3>1, <3>2 DEF Numbered, k
    <2>10. GivenWhole(reverseIntermediates(k), sent, response.final.n)
      <3>1. KeptWhole(k, sent, response.final.n)
        BY <2>8, <2>9 DEF KeptWhole
      <3> QED
        BY <2>5, <2>6, <3>1, WholeAnswer
    <2> QED
      BY <2>2, <2>10 DEF GivenWhole
  <1> HIDE DEF r
  <1>5. ASSUME NEW u \in Threads, result'[u].err = "0", call'[u].type = "MULTILINE"
        PROVE  LET q == result'[u]
                   o == {i \in 1..Len(q.lines) : q.lines[i].of = q.id}
               IN  /\ {q.lines[i].n : i \in o} = 1..q.final.n
                   /\ \A i, j \in o : i < j => q.lines[i].n < q.lines[j].n
                   /\ \A i \in 1..Len(q.lines) : q.lines[i].of \in {0, q.id}
    <2>1. CASE u = t
      BY <1>0, <1>4, <1>5, <2>1 DEF r
    <2>2. CASE u # t
      <3>1. result'[u] = result[u] /\ call'[u] = call[u]
        BY <1>0, <1>2, <2>2
      <3>2. result[u].err = "0" /\ call[u].type = "MULTILINE"
        BY <1>5, <3>1
      <3> QED
        BY <1>1, <3>1, <3>2 DEF AnswerInOrder
    <2> QED
      BY <2>1, <2>2
  <1> QED
    BY <1>5 DEF AnswerInOrder

----------------------------------------------------------------------------
(* All of it together.                                                     *)

\* What a caller was given stays, and what a caller is given is its answer.
LEMMA AnswerInOrderStep ==
  ASSUME TypeOK, TypeOK', Control, LagInv, PendingOK, FlowInv, AnswerInOrder, [Next]_vars
  PROVE  AnswerInOrder'
  <1>1. ASSUME ResultsKept, abandoned' = abandoned PROVE AnswerInOrder'
    <2>1. ASSUME NEW u \in Threads, result'[u].err = "0"
          PROVE  result'[u] = result[u] /\ call'[u] = call[u]
      BY <1>1, <2>1 DEF ResultsKept
    <2>2. ASSUME NEW u \in Threads, abandoned' = 0, result'[u].err = "0", call'[u].type = "MULTILINE"
          PROVE  LET q == result'[u]
                     o == {i \in 1..Len(q.lines) : q.lines[i].of = q.id}
                 IN  /\ {q.lines[i].n : i \in o} = 1..q.final.n
                     /\ \A i, j \in o : i < j => q.lines[i].n < q.lines[j].n
                     /\ \A i \in 1..Len(q.lines) : q.lines[i].of \in {0, q.id}
      <3>1. result'[u] = result[u] /\ call'[u] = call[u] /\ abandoned = 0
        BY <1>1, <2>1, <2>2
      <3>2. result[u].err = "0" /\ call[u].type = "MULTILINE"
        BY <2>2, <3>1
      <3> QED
        BY <3>1, <3>2 DEF AnswerInOrder
    <2> QED
      BY <2>2 DEF AnswerInOrder
  <1>2. UNCHANGED <<result, call>> => ResultsKept
    BY DEF ResultsKept
  <1>3. CASE Quiet
    BY <1>1, <1>3 DEF Quiet
  <1>4. ASSUME NEW t \in Threads, ThreadStep(t) PROVE AnswerInOrder'
    <2>1. CASE SendCommand(t)
      BY <1>1, <1>2, <2>1 DEF SendCommand
    <2> QED
      BY <1>3, <1>4, <2>1, ThreadKinds, AnswerReturned
  <1>5. CASE ReaderStep
    <2>1. CASE processLine
      BY <1>1, <1>2, <2>1 DEF processLine, thread
    <2> QED
      BY <1>3, <1>5, <2>1, ReaderKinds
  <1>6. CASE ModemStep
    BY <1>1, <1>2, <1>6 DEF ModemStep, ModemInfo, ModemPrompt, ModemFinal, ModemLose, ModemUnsolicited,
                            ModemHangUp, ModemOther, thread, history
  <1>7. CASE UNCHANGED vars
    BY <1>1, <1>2, <1>7 DEF vars, thread, history
  <1> QED
    BY <1>4, <1>5, <1>6, <1>7 DEF Next

\* Only the reader hands lines to the unsolicited handler, and the second line
\* of a message answers no command.
LEMMA NoLeakStep ==
  ASSUME TypeOK, TypeOK', Control, LagInv, WireInv, PendingOK, FlowInv, NoLeak, [Next]_vars
  PROVE  NoLeak'
  <1>0. abandoned \in Nat /\ abandoned' \in Nat
    BY DEF TypeOK, HistoryOK
  <1>1. ASSUME UNCHANGED <<leaked, mixed>>, abandoned' >= abandoned PROVE NoLeak'
    BY <1>0, <1>1 DEF NoLeak
  <1>2. CASE Quiet
    <2>1. UNCHANGED <<leaked, mixed, abandoned>>
      <3>1. CASE ReadSecondLine
        <4>1. Head(fromModem) = fromModem[1] /\ fromModem[1].of = 0
          BY <3>1 DEF ReadSecondLine, WireInv, SecondLines, TypeOK, ModemOK
        <4>2. leaked' = leaked
          BY <3>1, <4>1 DEF ReadSecondLine, TypeOK, HistoryOK
        <4> QED
          BY <1>2, <4>2 DEF Quiet
      <3>2. CASE ~ReadSecondLine
        BY <1>2, <3>2 DEF Quiet, TypeOK, HistoryOK
      <3> QED
        BY <3>1, <3>2
    <2> QED
      BY <1>0, <1>1, <2>1
  <1>3. ASSUME NEW t \in Threads, ThreadStep(t) PROVE NoLeak'
    <2>1. CASE SendCommand(t)
      BY <1>0, <1>1, <2>1 DEF SendCommand
    <2>2. ASSUME NEW err, Returns(t, err) PROVE NoLeak'
      <3>1. UNCHANGED <<leaked, mixed>> /\ (abandoned' = abandoned + 1 \/ abandoned' = abandoned)
        BY <2>2 DEF Returns, Return
      <3> QED
        BY <1>0, <1>1, <3>1
    <2> QED
      BY <1>2, <1>3, <2>1, <2>2, ThreadKinds
  <1>4. CASE ReaderStep
    <2>1. CASE processLine
      <3>1. FlowInv' /\ NoLeak'
        BY <2>1, FlowProcess
      <3> QED
        BY <3>1
    <2> QED
      BY <1>2, <1>4, <2>1, ReaderKinds
  <1>5. CASE ModemStep
    <2>1. UNCHANGED history
      BY <1>5 DEF ModemStep, ModemInfo, ModemPrompt, ModemFinal, ModemLose, ModemUnsolicited,
                  ModemHangUp, ModemOther
    <2> QED
      BY <1>0, <1>1, <2>1 DEF history
  <1>6. CASE UNCHANGED vars
    BY <1>0, <1>1, <1>6 DEF vars, history
  <1> QED
    BY <1>3, <1>4, <1>5, <1>6 DEF Next

\* The dialogue stays in step with the answer.
LEMMA FlowStep ==
  ASSUME TypeOK, TypeOK', Control, LagInv, WireInv, PendingOK, FlowInv, NoLeak, [Next]_vars
  PROVE  FlowInv'
  <1>1. ASSUME Quiet, OwnKept PROVE FlowInv'
    BY <1>1, FlowSame DEF Quiet, LinesKept
  <1>2. ASSUME NEW t \in Threads, ThreadStep(t) PROVE FlowInv'
    BY <1>1, <1>2, OwnThread, ThreadKinds, FlowSend, FlowReturn
  <1>3. CASE ReaderStep
    BY <1>1, <1>3, OwnReader, ReaderKinds, FlowProcess
  <1>4. CASE ModemStep
    BY <1>4, FlowModem
  <1>5. CASE UNCHANGED vars
    <2>1. UNCHANGED <<fromModem, rpc, rline, response, sent, abandoned, mixed, toModem, infoSent, prompt>>
      BY <1>5 DEF vars, context, reader, modem, history
    <2> QED
      BY <2>1, OwnStay, FlowSame
  <1> QED
    BY <1>2, <1>3, <1>4, <1>5 DEF Next

\* The wire stays in order.
LEMMA WireStep ==
  ASSUME TypeOK, TypeOK', Control, LagInv, WireInv, [Next]_vars
  PROVE  WireInv'
  <1>1. CASE UNCHANGED vars
    <2>1. UNCHANGED <<fromModem, rpc, rline, toModem, infoSent, prompt>>
      BY <1>1 DEF vars, reader, modem
    <2>2. Ahead' = Ahead /\ \A i : At(i)' = At(i)
      BY <2>1 DEF Ahead, At
    <2> QED
      BY <2>1, <2>2 DEF WireInv, ModemIdle, LineKinds, SecondLines
  <1> QED
    BY <1>1, WireThread, WireReader, WireModem DEF Next, LagInv

\* The inductive invariant of the answers.
AnswerInv == WireInv /\ PendingOK /\ FlowInv /\ AnswerInOrder /\ NoLeak

\* It holds while nothing is under way.
LEMMA AnswerInit == Init => AnswerInv
  <1> SUFFICES ASSUME Init PROVE AnswerInv
    OBVIOUS
  <1>1. /\ toModem = <<>> /\ fromModem = <<>> /\ response = None /\ infoSent = 0 /\ prompt = "no"
        /\ rpc = "read" /\ leaked = FALSE /\ Len(fromModem) = 0
    BY DEF Init
  <1>2. Ahead = {}
    BY <1>1 DEF Ahead
  <1>3. WireInv
    BY <1>1, <1>2 DEF WireInv, ModemIdle, LineKinds, SecondLines
  <1>4. PendingOK /\ NoLeak
    BY <1>1 DEF PendingOK, NoLeak
  <1>5. FlowInv
    BY <1>1, <1>2 DEF FlowInv, Dialogue, HeadPending, InfoExpected, PromptExpected, FirstOnly, Multiline,
                      KeptInTurn, ComingInTurn, NoneMissing, Own
  <1>6. AnswerInOrder
    BY DEF Init, AnswerInOrder, NoResult
  <1> QED
    BY <1>3, <1>4, <1>5, <1>6 DEF AnswerInv

\* Every step keeps it.
LEMMA AnswerStep ==
  ASSUME TypeOK, TypeOK', Control, LagInv, AnswerInv, [Next]_vars
  PROVE  AnswerInv'
  BY WireStep, PendingStep, FlowStep, AnswerInOrderStep, NoLeakStep DEF AnswerInv

\* While no command was abandoned, a MULTILINE call that succeeds hands out every
\* line the modem answered with, in the order it sent them, and no line of
\* another command.
THEOREM AnswersComeWhole == Spec => []AnswerInOrder
  <1>1. AnswerInv => AnswerInOrder
    BY DEF AnswerInv
  <1> QED
    BY <1>1, TypeInit, TypeStep, ControlInit, ControlStep, LagInit, LagStep, AnswerInit, AnswerStep,
       PTL DEF Spec

\* No line of an answer is taken for an unsolicited one unless a command was
\* abandoned or an unsolicited line was taken for an answer before.
THEOREM AnswersDoNotLeak == Spec => []NoLeak
  <1>1. AnswerInv => NoLeak
    BY DEF AnswerInv
  <1> QED
    BY <1>1, TypeInit, TypeStep, ControlInit, ControlStep, LagInit, LagStep, AnswerInit, AnswerStep,
       PTL DEF Spec
============================================================================
