------------------------------ MODULE SimFiles ------------------------------
(***************************************************************************)
(* SIM file access and card status (u300-ril-sim.c).  A file is reached    *)
(* with AT+CRSM or, when that fails on a card that is not a legacy SIM,    *)
(* over a logical channel, on which the RIL selects directory by directory *)
(* and file, and remembers in static variables the card type, the number   *)
(* of the channel and the file it selected last.  None of them is reset    *)
(* when the card is changed or the modem restarts.                         *)
(* A file is its path and its id; what it holds is left out.               *)
(***************************************************************************)
EXTENDS RilTasks

CONSTANT Files \* the files asked for, records of a path and an id

MasterFile == "3F00"

\* The framework's paths lead from the master file down; a missing path is made "3F00".
ASSUME FilesAssumption ==
  /\ Files \subseteq [path : Seq(STRING), id : STRING]
  /\ \A f \in Files : /\ f.path # << >> /\ f.path[1] = MasterFile
                      /\ \A n \in 2..Len(f.path) : f.path[n] # MasterFile

VARIABLES
  uicc,     \* UiccType of getUICCType
  lc,       \* g_lc is not 0
  io,       \* ioargs of the request in hand: the file, and whether to GET RESPONSE
  cached,   \* cashed_path and cashed_fileid
  \* The card:
  card,     \* its type
  lcOpen,   \* the logical channel is open
  selected, \* the directory and the file selected on it
  \* Of the properties only:
  served,   \* the file asked for and the file read, of the last read on the channel
  astray    \* a GET RESPONSE has selected by the id alone where no file was selected

simVars == <<uicc, lc, io, cached, card, lcOpen, selected, served, astray>>

NoFile == [path |-> << >>, id |-> "none"]
UiccTypes == {"UNKNOWN", "SIM", "USIM"}

Now(p) == At("NORMAL", p)
Proceed(p) == Goto("NORMAL", p)
Finish == CompleteAndGoto("NORMAL", "return")

-----------------------------------------------------------------------------
(* getUICCType: type is what it returns. AT+CUAD brings no line on a legacy  *)
(* SIM. (The state OFF stands for SIM_NOT_READY as well, in which it asks.) *)

Cuad(o) == IF o = "ok" /\ card = "SIM" THEN "empty" ELSE o

getUICCType(o, type) ==
  \/ /\ radio \in {"OFF", "UNAVAILABLE"} /\ type = "UNKNOWN"
     /\ o = "ok" /\ UNCHANGED <<radio, closed, alive, asked, left, uicc>>
  \/ /\ radio # "UNAVAILABLE" /\ uicc # "UNKNOWN" /\ type = uicc
     /\ o = "ok" /\ UNCHANGED <<radio, closed, alive, asked, left, uicc>>
  \/ /\ radio # "UNAVAILABLE" /\ uicc = "UNKNOWN"
     /\ type = IF Err("line", Cuad(o)) THEN "SIM"
               ELSE IF o = "refused" THEN "UNKNOWN" ELSE "USIM"
     /\ Channel("NORMAL", o) /\ uicc' = type

-----------------------------------------------------------------------------
(* requestGetSimStatus: getCardStatus. *)

StartGetSimStatus ==
  Accept("GET_SIM_STATUS", Task("GET_SIM_STATUS", "cpin", "none")) /\ UNCHANGED simVars

\* getSIMStatus: a card that is absent, or has an unknown lock, has no type.
CardStatus(o) ==
  /\ Now("cpin")
  /\ \/ /\ radio \in {"OFF", "UNAVAILABLE"}
        /\ o = "ok" /\ Proceed("cardtype") /\ UNCHANGED <<radio, closed, alive, asked, left>>
     \/ /\ radio # "UNAVAILABLE"
        /\ Channel("NORMAL", o)
        /\ Proceed("cardtype") \/ (o \in {"ok", "refused"} /\ Finish)
  /\ UNCHANGED <<due, simVars>>

CardType(o) ==
  /\ Now("cardtype") /\ Finish
  /\ \E type \in UiccTypes : getUICCType(o, type)
  /\ UNCHANGED <<due, lc, cached, card, lcOpen, selected, served, astray, io>>

-----------------------------------------------------------------------------
(* requestSIM_IO. The answer of a GET RESPONSE is converted, which may fail:  *)
(* the request is completed either way.                                     *)

StartSimIo ==
  /\ Accept("SIM_IO", Task("SIM_IO", "type", "none"))
  /\ io' \in [file : Files, get : BOOLEAN]
  /\ UNCHANGED <<uicc, lc, cached, card, lcOpen, selected, served, astray>>

FirstType(o) ==
  /\ Now("type") /\ Proceed("type2")
  /\ \E type \in UiccTypes : getUICCType(o, type)
  /\ UNCHANGED <<due, lc, cached, card, lcOpen, selected, served, astray, io>>

\* sendSimIOCmd asks again; n is 2 if what it hears rules the logical channel out.
SecondType(o) ==
  /\ Now("type2")
  /\ \E type \in UiccTypes :
       /\ getUICCType(o, type)
       /\ task' = [task EXCEPT !["NORMAL"].pc = "crsm",
                               !["NORMAL"].n = IF type = "SIM" THEN 2 ELSE 1]
  /\ UNCHANGED <<due, lc, cached, card, lcOpen, selected, served, astray, io>>

\* sendSimIOCmdICC: a status other than 90 00, or no answer, leads to the channel.
sendSimIOCmdICC(o) ==
  /\ Now("crsm") /\ Channel("NORMAL", o)
  /\ LET mayRetry == task["NORMAL"].n = 1
         failed == Bad("line", o) \/ o = "malformed" IN
       \/ failed /\ ~mayRetry /\ Finish
       \/ failed /\ mayRetry /\ Proceed("channel")
       \/ ~failed /\ Finish
       \/ ~failed /\ mayRetry /\ Proceed("channel")
  /\ UNCHANGED <<due, simVars>>

(* sendSimIOCmdUICC up to the selection: simIOGetLogicalChannel, then a      *)
(* command it does not know, or data it misses, is an error.                *)
LogicalChannel ==
  /\ Now("channel")
  /\ IF lc THEN Proceed("select") \/ Finish ELSE Proceed("cuad")
  /\ UNCHANGED <<radio, closed, alive, asked, left, due, simVars>>
ReadApplication(o) ==
  /\ Now("cuad") /\ Channel("NORMAL", o)
  /\ IF Bad("line", Cuad(o)) \/ o = "malformed" THEN Finish ELSE Proceed("ccho")
  /\ UNCHANGED <<due, simVars>>

\* AT+CCHO: the response of AT+CUAD has been freed, and is again when no other comes.
OpenChannel(o) ==
  /\ Now("ccho") /\ Channel("NORMAL", o)
  /\ LET opened == o = "ok" IN
       /\ lc' = opened
       /\ lcOpen' = (lcOpen \/ opened)
       /\ IF RespAfter("line", o, "stale") = "stale"
          THEN task' = [task EXCEPT !["NORMAL"].pc = "crash", !["NORMAL"].arg = o]
          ELSE IF opened THEN Proceed("channel") ELSE Finish
  /\ UNCHANGED <<due, uicc, cached, card, selected, served, astray, io>>

\* simIOSelectPath selects the directories of the path and then, as number n, the file.
IsFile(f, n) == n = Len(f.path) + 1

\* Mutation of CacheHit: the file id alone is compared.
CacheHitById(f) == cached.id = f.id

CacheHit(f) == cached = f
SkipSelection ==
  /\ Now("select") /\ task["NORMAL"].n = 1 /\ CacheHit(io.file)
  /\ cached' = io.file
  /\ Proceed("cgla")
  /\ UNCHANGED <<radio, closed, alive, asked, left, due, uicc, lc, card, lcOpen, selected, served,
                 astray, io>>

\* The card's selection after SELECT number n of file f.
SelectOnCard(f, n) ==
  IF IsFile(f, n) THEN [selected EXCEPT !.id = f.id]
  ELSE [path |-> IF f.path[n] = MasterFile THEN <<MasterFile>> ELSE Append(selected.path, f.path[n]),
        id |-> "none"]

(* simIOSelectFile. A directory that cannot be selected ends the request    *)
(* and leaves the remembered file; a file that cannot is remembered.        *)
simIOSelectFile(o) ==
  /\ Now("select")
  /\ task["NORMAL"].n = 1 => ~CacheHit(io.file)
  /\ Channel("NORMAL", o)
  /\ LET f == io.file
         n == task["NORMAL"].n
         good == o = "ok" /\ lcOpen IN
       /\ \/ lcOpen /\ o \notin {"refused", "dead"} /\ selected' = SelectOnCard(f, n)
          \/ ~good /\ UNCHANGED selected
       /\ cached' = IF IsFile(f, n) THEN f ELSE cached
       /\ IF ~good THEN Finish
          ELSE IF IsFile(f, n) THEN Proceed("cgla")
          ELSE task' = [task EXCEPT !["NORMAL"].n = @ + 1]
  /\ UNCHANGED <<due, uicc, lc, card, lcOpen, served, astray, io>>

(* AT+CGLA with the command itself. A read is of the file that is selected, *)
(* a GET RESPONSE has become a SELECT by the id, in whatever directory is.   *)
AccessFile(o) ==
  /\ Now("cgla") /\ Channel("NORMAL", o) /\ Finish
  /\ LET good == o = "ok" /\ lcOpen IN
       /\ \/ /\ io.get /\ lcOpen /\ o \notin {"refused", "dead"}
             /\ selected' = [selected EXCEPT !.id = io.file.id]
             /\ astray' = (astray \/ selected.id = "none")
          \/ ~(good /\ io.get) /\ UNCHANGED <<selected, astray>>
       /\ served' = IF good /\ ~io.get THEN [asked |-> io.file, read |-> selected] ELSE served
  /\ UNCHANGED <<due, uicc, lc, cached, card, lcOpen, io>>

-----------------------------------------------------------------------------
\* Another card is inserted, or the modem resets this one.
CardChanges ==
  /\ "SIM_IO" \in asked
  /\ left.events > 0 /\ left' = [left EXCEPT !.events = @ - 1]
  /\ card' \in {"SIM", "USIM"}
  /\ lcOpen' = FALSE /\ selected' = NoFile
  /\ UNCHANGED <<radio, closed, alive, task, due, asked, uicc, lc, cached, served, astray, io>>

SimInit ==
  /\ uicc = "UNKNOWN" /\ lc = FALSE /\ cached = NoFile
  /\ io = [file |-> NoFile, get |-> FALSE]
  /\ card = "USIM" /\ lcOpen = FALSE /\ selected = NoFile
  /\ served = [asked |-> NoFile, read |-> NoFile] /\ astray = FALSE

SimStep ==
  \/ StartGetSimStatus \/ StartSimIo \/ LogicalChannel \/ SkipSelection \/ CardChanges
  \/ \E o \in Outcomes("line") :
       \/ CardStatus(o) \/ CardType(o) \/ FirstType(o) \/ SecondType(o) \/ sendSimIOCmdICC(o)
       \/ ReadApplication(o) \/ OpenChannel(o) \/ simIOSelectFile(o) \/ AccessFile(o)

-----------------------------------------------------------------------------
(* A read over the logical channel is answered from the file that was asked *)
(* for, or by the card with an error because no file is selected; never     *)
(* from another file, although the RIL skips the selection whenever the     *)
(* file it remembers is asked for, and failed selections, restarts and      *)
(* exchanged cards leave that memory wrong.  Excepted is the directory once *)
(* a GET RESPONSE has skipped the selection after another one failed        *)
(* half-way: it selects by the id alone, in the directory that one left.    *)
ReadsTheFileAsked ==
  \/ served.read.id = "none"
  \/ /\ served.read.id = served.asked.id
     /\ served.read.path = served.asked.path \/ astray
=============================================================================
