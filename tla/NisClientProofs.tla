-------------------------- MODULE NisClientProofs --------------------------
(***************************************************************************)
(* Why a client of the information server receives the answer to what it   *)
(* asked, for every size of the buffers and any number of ends of the      *)
(* connection: as long as no receive timed out, nothing is on its way      *)
(* between two calls, and during one just the rest of its answer; and if   *)
(* some did, the answers on their way are those to the last requests, each *)
(* whole and in order, one more than have timed out.                       *)
(***************************************************************************)
EXTENDS NisClient, TLAPS

USE DEF who, drift, connVars, daemonVars, callVars, trayVars, bounds, InStep

(* What the k-th message of an answer may be, and how many there are.      *)
MayBe(c, k) ==
  CASE c = "status" /\ k = 1 -> {"head"}
    [] c = "status" /\ k = 2 -> {"flag"}
    [] c = "status" /\ k = 3 -> {"end"}
    [] c = "status" /\ k = 4 -> {"eof"}
    [] c = "events" /\ k = 1 -> {"event", "n/a"}
    [] c = "events" /\ k = 2 -> {"eof"}
    [] OTHER                 -> {}

Size(c) == IF c = "status" THEN 4 ELSE 2

(* The messages are those of an answer to the call's own request, from the *)
(* first after skip on.                                                    *)
Continues(messages, skip) ==
  \A i \in 1 .. Len(messages) :
    messages[i].age = 0 /\ messages[i].part \in MayBe(command, skip + i)

(* The connection, whatever timed out.                                     *)
Connected ==
  /\ conn # "open" => thread = "none"
  /\ thread = "read" => report = <<>>
  /\ conn # "open" => report = <<>>
  /\ conn \in {"fin", "reset"} => requests = <<>>
  /\ pc = "open" => conn = "none"
  /\ conn = "reset" => answers = <<>>
  /\ torn => ragged
  /\ behind <= lates
  /\ pc \in {"open", "send"} => got = <<>>
  /\ pc # "idle" => result = "none"
  /\ pc = "idle" /\ result = "none" => InStep
  /\ program # "apctray" =>
       /\ behind # 0 => result = "failed"
       /\ ragged => result = "failed" \/ command = "events"
       /\ wide = {}

(* Between two calls nothing is on its way.                                *)
Quiet == InStep /\ pc # "recv" => requests = <<>> /\ answers = <<>> /\ report = <<>>

Asked ==
  /\ requests = <<[command |-> command, age |-> 0]>>
  /\ answers = <<>> /\ report = <<>> /\ got = <<>>

Answered ==
  /\ requests = <<>>
  /\ Continues(answers, Len(got))
  /\ Continues(report, Len(got) + Len(answers))
  /\ Len(got) + Len(answers) + Len(report) <= Size(command)
  /\ conn = "open" => Len(got) + Len(answers) + Len(report) = Size(command)

Awaited == InStep /\ pc = "recv" => Asked \/ Answered

Received ==
  InStep => /\ Continues(got, 0) /\ Len(got) < Size(command)
            /\ result = "ok" /\ ~cut => Len(got) = Size(command) - 1

NisInv == Connected /\ Quiet /\ Awaited /\ Received

-----------------------------------------------------------------------------
(* Types.                                                                  *)
LEMMA OlderType == 0 \in Age /\ \A age \in Age : Older(age) \in Age
  BY BoundAssumption DEF Age, Older

LEMMA OutdatedType ==
  /\ \A messages \in Seq(Message) : Outdated(messages) \in Seq(Message)
  /\ \A messages \in Seq(Request) : Outdated(messages) \in Seq(Request)
  <1>1. ASSUME NEW messages \in Seq(Message)
        PROVE  Outdated(messages) \in Seq(Message)
    <2>1. \A i \in 1 .. Len(messages) : messages[i] \in Message
      OBVIOUS
    <2>2. \A i \in 1 .. Len(messages) : [messages[i] EXCEPT !.age = Older(@)] \in Message
      BY <2>1, OlderType DEF Message
    <2> QED
      BY <2>2 DEF Outdated
  <1>2. ASSUME NEW messages \in Seq(Request)
        PROVE  Outdated(messages) \in Seq(Request)
    <2>1. \A i \in 1 .. Len(messages) : messages[i] \in Request
      OBVIOUS
    <2>2. \A i \in 1 .. Len(messages) : [messages[i] EXCEPT !.age = Older(@)] \in Request
      BY <2>1, OlderType DEF Request
    <2> QED
      BY <2>2 DEF Outdated
  <1> QED
    BY <1>1, <1>2

(* The messages that Read gives the thread to send.                        *)
Lines(parts, o) == [i \in 1 .. Len(parts) |-> [part |-> parts[i], age |-> o]]

LEMMA AnswersType ==
  \A c \in {"status", "events"} : \A parts \in Answers(c) : \A o \in Age :
    /\ Lines(parts, o) \in Seq(Message) /\ Len(Lines(parts, o)) = Size(c)
    /\ Lines(parts, o) # <<>>
    /\ \A i \in 1 .. Len(Lines(parts, o)) :
         Lines(parts, o)[i].age = o /\ Lines(parts, o)[i].part \in MayBe(c, i)
  <1> SUFFICES
    ASSUME NEW c \in {"status", "events"}, NEW parts \in Answers(c), NEW o \in Age
    PROVE  /\ Lines(parts, o) \in Seq(Message) /\ Len(Lines(parts, o)) = Size(c)
           /\ Lines(parts, o) # <<>>
           /\ \A i \in 1 .. Len(Lines(parts, o)) :
                Lines(parts, o)[i].age = o /\ Lines(parts, o)[i].part \in MayBe(c, i)
    OBVIOUS
  <1> USE DEF Lines
  <1>1. CASE c = "status"
    <2>1. parts = <<"head", "flag", "end", "eof">>
      BY <1>1 DEF StatusReport, Answers
    <2>2. /\ Len(parts) = 4 /\ parts[1] = "head" /\ parts[2] = "flag"
          /\ parts[3] = "end" /\ parts[4] = "eof"
      BY <2>1
    <2>3. \A i \in 1 .. 4 : i = 1 \/ i = 2 \/ i = 3 \/ i = 4
      BY SMT
    <2> QED
      BY <1>1, <2>2, <2>3 DEF Message, Size, MayBe
  <1>2. CASE c = "events"
    <2>1. Len(parts) = 2 /\ parts[1] \in {"event", "n/a"} /\ parts[2] = "eof"
      BY <1>2 DEF Answers
    <2>2. \A i \in 1 .. 2 : i = 1 \/ i = 2
      BY SMT
    <2> QED
      BY <1>2, <2>1, <2>2 DEF Message, Size, MayBe
  <1> QED
    BY <1>1, <1>2

LEMMA GivesUpType == \A o \in Age : Lines(GivesUp, o) \in Seq(Message)
  <1>1. \A i \in 1 .. 3 : i = 1 \/ i = 2 \/ i = 3
    BY SMT
  <1> QED
    BY <1>1 DEF Lines, GivesUp, Message

LEMMA InitType == Init => NisTypeOK /\ NisInv
  <1> SUFFICES ASSUME Init PROVE NisTypeOK /\ NisInv
    OBVIOUS
  <1>1. MessageType
    BY DEF Init, MessageType
  <1>2. PlaceType
    BY DEF Init, PlaceType
  <1>3. BoundType
    BY BoundAssumption DEF Init, BoundType
  <1>4. NisInv
    BY DEF Init, NisInv, Connected, InStep, Quiet, Awaited, Received, Continues, Size
  <1> QED
    BY <1>1, <1>2, <1>3, <1>4 DEF NisTypeOK

LEMMA CallType ==
  ASSUME NisTypeOK, NEW c \in {"status", "events"}, Call(c),
         caller' \in {"poll", "dialog"}, user' \in 0 .. MaxUser
  PROVE  NisTypeOK'
  <1> USE DEF NisTypeOK
  <1>1. MessageType'
    BY OutdatedType DEF Call, MessageType
  <1>2. PlaceType'
    <2>1. /\ pc' \in {"open", "send"} /\ command' \in {"status", "events"}
          /\ result' = "none" /\ cut' = FALSE
      BY DEF Call
    <2>2. UNCHANGED <<program, wide, conn, up, thread, icon, look, torn, ragged>>
      BY DEF Call
    <2>3. wide' \subseteq {"head", "end", "event"}
      BY <2>2 DEF PlaceType
    <2>4. /\ caller' \in {"poll", "dialog"} /\ pc' \in {"idle", "open", "send", "recv"}
          /\ result' \in {"none", "ok", "failed"} /\ cut' \in BOOLEAN
      BY <2>1
    <2>5. /\ up' \in BOOLEAN /\ look' \in BOOLEAN /\ torn' \in BOOLEAN
          /\ ragged' \in BOOLEAN
      BY <2>2 DEF PlaceType
    <2>6. /\ program' \in {"apctray", "apcaccess", "upsfetch"}
          /\ conn' \in {"none", "open", "fin", "reset"}
          /\ thread' \in {"none", "read", "send", "bail"}
          /\ icon' \in {"none", "fine", "error", "network"}
      BY <2>2 DEF PlaceType
    <2> QED
      BY <2>1, <2>3, <2>4, <2>5, <2>6 DEF PlaceType
  <1>3. BoundType'
    BY DEF Call, BoundType
  <1> QED
    BY <1>1, <1>2, <1>3

LEMMA FailType == ASSUME NisTypeOK, Fail PROVE NisTypeOK'
  <1> USE DEF NisTypeOK
  <1>1. MessageType'
    BY DEF Fail, Disconnect, MessageType
  <1>2. PlaceType'
    <2>1. icon' \in {"none", "fine", "error", "network"}
      BY DEF Fail, PlaceType
    <2> QED
      BY <2>1 DEF Fail, Disconnect, PlaceType
  <1>3. BoundType'
    BY BoundAssumption DEF Fail, Disconnect, BoundType
  <1> QED
    BY <1>1, <1>2, <1>3

LEMMA CloseType ==
  ASSUME NisTypeOK, Close
  PROVE  /\ conn' \in {"fin", "reset"} /\ thread' = "none"
         /\ requests' = <<>> /\ report' = <<>> /\ answers' \in Seq(Message)
  BY DEF NisTypeOK, MessageType, Close

LEMMA ReturnType ==
  ASSUME NisTypeOK, NEW failed \in BOOLEAN, Return(failed),
         answers' \in Seq(Message), torn' \in BOOLEAN, ragged' \in BOOLEAN,
         lates' \in 0 .. MaxLate, behind' \in 0 .. MaxLate
  PROVE  NisTypeOK'
  <1> USE DEF NisTypeOK
  <1>1. MessageType'
    <2>1. /\ requests' = requests /\ got' = got /\ stats' \in {got, stats}
          /\ report' \in {report, <<>>}
      BY DEF Return
    <2>2. <<>> \in Seq(Message)
      OBVIOUS
    <2> QED
      BY <2>1, <2>2 DEF MessageType
  <1>2. PlaceType'
    BY DEF Return, PlaceType
  <1>3. BoundType'
    BY DEF Return, BoundType
  <1> QED
    BY <1>1, <1>2, <1>3

LEMMA ReceiveType == ASSUME NisTypeOK, Connected, Receive PROVE NisTypeOK'
  <1>1. /\ answers \in Seq(Message) /\ torn \in BOOLEAN /\ ragged \in BOOLEAN
        /\ lates \in 0 .. MaxLate /\ behind \in 0 .. MaxLate
        /\ behind <= lates /\ MaxLate \in Nat
    BY BoundAssumption DEF NisTypeOK, MessageType, PlaceType, BoundType, Connected
  <1>2. CASE TimesOut
    <2>1. lates' \in 0 .. MaxLate /\ behind' \in 0 .. MaxLate
      BY <1>1, <1>2 DEF TimesOut
    <2>2. torn' \in BOOLEAN /\ ragged' \in BOOLEAN /\ answers' = answers
      BY <1>1, <1>2 DEF TimesOut
    <2> QED
      BY <1>1, <1>2, <2>1, <2>2, ReturnType DEF TimesOut
  <1>3. CASE /\ answers # <<>> /\ answers' = Tail(answers)
             /\ got' = Append(got, Head(answers))
             /\ UNCHANGED <<who, conn, requests, daemonVars, callVars, result,
                            trayVars, torn, bounds, drift, cut>>
    BY <1>3 DEF NisTypeOK, MessageType, PlaceType, BoundType
  <1>4. CASE /\ answers # <<>> /\ answers' \in {answers, Tail(answers)}
             /\ torn' \in BOOLEAN
             /\ Return(FALSE) \/ Return(TRUE)
             /\ UNCHANGED <<lates, drift>>
    <2>1. answers' \in Seq(Message)
      BY <1>1, <1>4
    <2> QED
      BY <1>1, <1>4, <2>1, ReturnType
  <1>5. CASE (Return(FALSE) \/ Return(TRUE)) /\ UNCHANGED <<answers, torn, lates, drift>>
    BY <1>1, <1>5, ReturnType
  <1>6. CASE /\ torn' = TRUE /\ ragged' = TRUE
             /\ Return(TRUE) /\ UNCHANGED <<answers, lates, behind>>
    BY <1>1, <1>6, ReturnType
  <1> QED
    BY <1>1, <1>2, <1>3, <1>4, <1>5, <1>6 DEF Receive

LEMMA NextType == ASSUME NisTypeOK, Connected, [Next]_vars PROVE NisTypeOK'
  <1>1. /\ program \in {"apctray", "apcaccess", "upsfetch"}
        /\ user \in 0 .. MaxUser /\ MaxUser \in Nat
        /\ broken \in 0 .. MaxBroken /\ MaxBroken \in Nat
    BY BoundAssumption DEF NisTypeOK, PlaceType, BoundType
  <1>2. CASE Poll
    BY <1>1, <1>2, CallType DEF Poll
  <1>3. CASE Dialog
    BY <1>1, <1>3, CallType DEF Dialog
  <1>4. CASE Open
    <2>1. CASE Fail
      BY <2>1, FailType
    <2>2. CASE /\ conn' = "open" /\ thread' = "read" /\ pc' = "send"
               /\ UNCHANGED <<who, requests, answers, up, report, caller,
                              command, got, result, trayVars, torn, bounds, drift, cut>>
      BY <2>2 DEF NisTypeOK, MessageType, PlaceType, BoundType
    <2> QED
      BY <1>4, <2>1, <2>2 DEF Open
  <1>5. CASE Send
    <2>1. CASE Fail
      BY <2>1, FailType
    <2>2. CASE conn = "open" /\ requests' = Append(requests, [command |-> command, age |-> 0])
               /\ pc' = "recv"
               /\ UNCHANGED <<who, conn, answers, daemonVars, caller, command, got,
                              result, trayVars, torn, bounds, drift, cut>>
      <3>1. [command |-> command, age |-> 0] \in Request
        BY OlderType DEF NisTypeOK, PlaceType, Request
      <3> QED
        BY <2>2, <3>1 DEF NisTypeOK, MessageType, PlaceType, BoundType
    <2>3. CASE /\ pc' = "recv" /\ conn' = "reset" /\ answers' = <<>>
               /\ UNCHANGED <<who, requests, daemonVars, caller, command, got,
                              result, trayVars, torn, bounds, drift, cut>>
      BY <2>3 DEF NisTypeOK, MessageType, PlaceType, BoundType
    <2> QED
      BY <1>5, <2>1, <2>2, <2>3 DEF Send, SendFails
  <1>6. CASE Receive
    BY <1>6, ReceiveType
  <1>7. CASE Look
    <2>1. icon' \in {"none", "fine", "error", "network"} /\ look' \in BOOLEAN
      BY <1>7 DEF Look
    <2>2. UNCHANGED <<who, connVars, daemonVars, callVars, got, result, stats,
                      torn, bounds, drift, cut>>
      BY <1>7 DEF Look
    <2>3. MessageType' /\ BoundType'
      BY <2>2 DEF NisTypeOK, MessageType, BoundType
    <2>4. PlaceType'
      BY <2>1, <2>2 DEF NisTypeOK, PlaceType
    <2> QED
      BY <2>3, <2>4 DEF NisTypeOK
  <1>8. CASE Read
    <2>1. Head(requests) \in Request
      BY <1>8 DEF Read, NisTypeOK, MessageType
    <2>2. report' \in Seq(Message)
      <3> SUFFICES ASSUME \E parts \in Answers(Head(requests).command) :
                            report' = Lines(parts, Head(requests).age)
                   PROVE  report' \in Seq(Message)
        BY <1>8, <2>1, GivesUpType DEF Read, Lines, Request
      <3>1. PICK parts \in Answers(Head(requests).command) :
              report' = Lines(parts, Head(requests).age)
        OBVIOUS
      <3> QED
        BY <2>1, <3>1, AnswersType DEF Request
    <2>3. requests' \in Seq(Request)
      BY <1>8 DEF Read, NisTypeOK, MessageType
    <2>4. thread' \in {"send", "bail"} /\ ragged' \in BOOLEAN
      BY <1>8 DEF Read, NisTypeOK, PlaceType
    <2>5. UNCHANGED <<who, conn, answers, up, callVars, got, result, trayVars,
                      torn, bounds, behind, cut>>
      BY <1>8 DEF Read
    <2>6. MessageType' /\ BoundType'
      BY <2>2, <2>3, <2>5 DEF NisTypeOK, MessageType, BoundType
    <2>7. PlaceType'
      BY <2>4, <2>5 DEF NisTypeOK, PlaceType
    <2> QED
      BY <2>6, <2>7 DEF NisTypeOK
  <1>9. CASE SendLine
    <2>1. report # <<>> /\ thread' \in {"read", "send", "bail"}
      BY <1>9 DEF SendLine
    <2> QED
      BY <1>9, <2>1 DEF SendLine, NisTypeOK, MessageType, PlaceType, BoundType
  <1>10. CASE IdleTimeout \/ HangUp
    <2>1. /\ Close
          /\ UNCHANGED <<who, up, callVars, got, result, trayVars, torn, bounds,
                         drift, cut>>
      BY <1>10 DEF IdleTimeout, HangUp
    <2>2. MessageType'
      BY <2>1, CloseType DEF NisTypeOK, MessageType
    <2>3. PlaceType'
      BY <2>1, CloseType DEF NisTypeOK, PlaceType
    <2>4. BoundType'
      BY <2>1 DEF NisTypeOK, BoundType
    <2> QED
      BY <2>2, <2>3, <2>4 DEF NisTypeOK
  <1>11. CASE Break
    <2>1. broken' \in 0 .. MaxBroken
      BY <1>1, <1>11 DEF Break
    <2>2. BoundType'
      BY <1>11, <2>1 DEF Break, NisTypeOK, BoundType
    <2>3. up' \in BOOLEAN
      BY <1>11 DEF Break, NisTypeOK, PlaceType
    <2>4. CASE Close
      <3>1. MessageType'
        BY <1>11, <2>4, CloseType DEF Break, NisTypeOK, MessageType
      <3>2. PlaceType'
        BY <1>11, <2>3, <2>4, CloseType DEF Break, NisTypeOK, PlaceType
      <3> QED
        BY <2>2, <3>1, <3>2 DEF NisTypeOK
    <2>5. CASE UNCHANGED <<connVars, thread, report>>
      BY <1>11, <2>2, <2>3, <2>5 DEF Break, NisTypeOK, MessageType, PlaceType
    <2>6. CASE /\ conn' = "reset" /\ requests' = <<>> /\ answers' = <<>>
               /\ thread' = "none" /\ report' = <<>>
      BY <1>11, <2>2, <2>3, <2>6 DEF Break, NisTypeOK, MessageType, PlaceType
    <2> QED
      BY <1>11, <2>4, <2>5, <2>6 DEF Break
  <1>12. CASE Start
    BY <1>12 DEF Start, NisTypeOK, MessageType, PlaceType, BoundType
  <1>13. CASE UNCHANGED vars
    BY <1>13 DEF vars, NisTypeOK, MessageType, PlaceType, BoundType
  <1> QED
    BY <1>2, <1>3, <1>4, <1>5, <1>6, <1>7, <1>8, <1>9, <1>10, <1>11, <1>12, <1>13
    DEF Next, Client, Server

-----------------------------------------------------------------------------
(* The invariant.                                                          *)
LEMMA LastIsEnd ==
  \A c \in {"status", "events"} :
    /\ Size(c) \in {2, 4}
    /\ \A k \in Nat \ {0} : \A part \in MayBe(c, k) :
         k <= Size(c) /\ (part = "eof" <=> k = Size(c))
  BY DEF Size, MayBe

LEMMA OutdatedEmpty ==
  /\ Outdated(<<>>) = <<>>
  /\ \A messages \in Seq(Message) \cup Seq(Request) :
       Outdated(messages) = <<>> => messages = <<>>
  BY DEF Outdated

LEMMA CallInv ==
  ASSUME NisTypeOK, NisInv, NEW c \in {"status", "events"}, Call(c),
         program = "apctray" \/ result = "none"
  PROVE  NisInv'
  <1> USE DEF NisInv
  <1>1. /\ pc = "idle" /\ pc' \in {"open", "send"} /\ got' = <<>>
        /\ result' = "none" /\ command' = c
        /\ requests' = Outdated(requests) /\ answers' = Outdated(answers)
        /\ report' = Outdated(report)
        /\ UNCHANGED <<who, conn, thread, torn, drift>>
    BY DEF Call
  <1>2. report \in Seq(Message)
    BY DEF NisTypeOK, MessageType
  <1>3. Connected'
    <2>1. /\ behind' <= lates'
          /\ thread' = "read" \/ conn' # "open" => report' = <<>>
          /\ conn' = "reset" => answers' = <<>>
          /\ conn' \in {"fin", "reset"} => requests' = <<>>
          /\ pc' = "open" => conn' = "none"
      BY <1>1, <1>2, OutdatedEmpty DEF Connected, Call
    <2> QED
      BY <1>1, <1>2, <2>1, OutdatedEmpty DEF Connected, InStep
  <1>4. Quiet' /\ Awaited'
    BY <1>1, OutdatedEmpty DEF Quiet, Awaited
  <1>5. Received'
    BY <1>1, LastIsEnd DEF Received, Continues
  <1> QED
    BY <1>3, <1>4, <1>5

LEMMA FailInv ==
  ASSUME NisTypeOK, NisInv, pc \in {"open", "send"}, Fail PROVE NisInv'
  <1> USE DEF NisInv
  <1>1. got = <<>> /\ command \in {"status", "events"}
    BY DEF Connected, NisTypeOK, PlaceType
  <1>2. Connected' /\ Quiet' /\ Awaited'
    <2>1. lates \in Nat
      BY BoundAssumption DEF NisTypeOK, BoundType
    <2> QED
      BY <2>1 DEF Fail, Disconnect, Connected, Quiet, Awaited
  <1>3. Received'
    BY <1>1, LastIsEnd DEF Fail, Received, Continues
  <1> QED
    BY <1>2, <1>3

(* A call that ends after a timeout, or with nothing left on its way.      *)
LEMMA ReturnInv ==
  ASSUME NisTypeOK, NisInv, NEW failed \in BOOLEAN, Return(failed), pc = "recv",
         torn' => ragged', behind' <= lates',
         program # "apctray" =>
           /\ behind' # 0 => failed
           /\ ragged' => failed \/ command = "events",
         conn = "reset" => answers' = <<>>,
         InStep' => /\ InStep /\ requests = <<>> /\ answers' = <<>> /\ report = <<>>
                    /\ conn = "open" => Len(got) = Size(command) - 1
  PROVE  NisInv'
  <1> USE DEF NisInv
  <1>1. /\ pc' = "idle" /\ cut' = (conn # "open")
        /\ UNCHANGED <<who, requests, command, got>>
        /\ \/ /\ program = "apctray" /\ result' = "ok"
              /\ UNCHANGED <<conn, thread, report>>
           \/ /\ program # "apctray"
              /\ result' = (IF failed THEN "failed" ELSE "ok")
              /\ conn' = "none" /\ thread' = "none" /\ report' = <<>>
    BY DEF Return
  <1>2. Connected'
    BY <1>1 DEF Connected
  <1>3. Quiet' /\ Awaited'
    BY <1>1 DEF Quiet, Awaited
  <1> QED
    BY <1>1, <1>2, <1>3 DEF Received, Continues

(* A message is received: the next one of the answer.                      *)
LEMMA LineInv ==
  ASSUME NisTypeOK, NisInv, ~torn, pc = "recv", answers # <<>>,
         answers' = Tail(answers), got' = Append(got, Head(answers)),
         Head(answers).part # "eof",
         UNCHANGED <<who, conn, requests, daemonVars, callVars, result,
                     trayVars, torn, bounds, drift, cut>>
  PROVE  NisInv'
  <1> USE DEF NisInv
  <1>1. Connected' /\ Quiet'
    BY DEF Connected, Quiet
  <1>2. CASE InStep
    <2>1. /\ got \in Seq(Message) /\ answers \in Seq(Message)
          /\ report \in Seq(Message) /\ command \in {"status", "events"}
      BY DEF NisTypeOK, MessageType, PlaceType
    <2>2. Answered
      BY <1>2 DEF Awaited, Asked
    <2>3. /\ Len(answers) \in Nat \ {0} /\ Len(got) \in Nat /\ Len(report) \in Nat
          /\ Len(answers') = Len(answers) - 1 /\ Len(got') = Len(got) + 1
          /\ \A i \in 1 .. Len(answers') : answers'[i] = answers[i + 1]
          /\ \A i \in 1 .. Len(got) : got'[i] = got[i]
          /\ got'[Len(got) + 1] = answers[1]
      BY <2>1
    <2>4. answers[1].part \in MayBe(command, Len(got) + 1) /\ answers[1].age = 0
      BY <2>2, <2>3 DEF Answered, Continues
    <2>5. Len(got) + 1 < Size(command)
      BY <2>1, <2>3, <2>4, LastIsEnd
    <2>6. Continues(got, 0)'
      <3>1. ASSUME NEW i \in 1 .. Len(got')
            PROVE  got'[i].age = 0 /\ got'[i].part \in MayBe(command, i)
        <4>1. CASE i = Len(got) + 1
          BY <2>3, <2>4, <4>1
        <4>2. CASE i \in 1 .. Len(got)
          BY <1>2, <2>3, <4>2 DEF Received, Continues
        <4> QED
          BY <2>3, <4>1, <4>2
      <3> QED
        BY <3>1 DEF Continues
    <2>7. Answered'
      <3>1. Continues(answers, Len(got))'
        <4>1. ASSUME NEW i \in 1 .. Len(answers')
              PROVE  /\ answers'[i].age = 0
                     /\ answers'[i].part \in MayBe(command, Len(got') + i)
          <5>1. i + 1 \in 1 .. Len(answers) /\ Len(got) + (i + 1) = Len(got') + i
            BY <2>3
          <5>2. answers'[i] = answers[i + 1]
            BY <2>3
          <5> QED
            BY <2>2, <5>1, <5>2 DEF Answered, Continues
        <4> QED
          BY <4>1 DEF Continues
      <3>2. Continues(report, Len(got) + Len(answers))'
        <4>1. Len(got') + Len(answers') = Len(got) + Len(answers)
          BY <2>3
        <4> QED
          BY <2>2, <4>1 DEF Answered, Continues
      <3> QED
        BY <2>2, <2>3, <3>1, <3>2 DEF Answered
    <2>8. Received'
      BY <2>3, <2>5, <2>6 DEF Received, Connected
    <2> QED
      BY <1>1, <2>7, <2>8 DEF Awaited
  <1>3. CASE ~InStep
    BY <1>1, <1>3 DEF Awaited, Received
  <1> QED
    BY <1>2, <1>3

(* With the message that ends an answer everything has been received.      *)
LEMMA EndIsLast ==
  ASSUME NisTypeOK, NisInv, InStep, pc = "recv", answers # <<>>,
         Head(answers).part = "eof"
  PROVE  /\ requests = <<>> /\ Tail(answers) = <<>> /\ report = <<>>
         /\ Len(got) = Size(command) - 1
  <1>1. /\ got \in Seq(Message) /\ answers \in Seq(Message)
        /\ report \in Seq(Message) /\ command \in {"status", "events"}
    BY DEF NisTypeOK, MessageType, PlaceType
  <1>2. Answered
    BY DEF NisInv, Awaited, Asked
  <1>3. Len(answers) \in Nat \ {0} /\ Len(got) \in Nat /\ Len(report) \in Nat
    BY <1>1
  <1>4. answers[1].part \in MayBe(command, Len(got) + 1)
    BY <1>2, <1>3 DEF Answered, Continues
  <1>5. Len(got) + 1 = Size(command)
    BY <1>1, <1>3, <1>4, LastIsEnd
  <1>6. Size(command) \in Nat
    BY <1>1, LastIsEnd
  <1>7. Len(got) + Len(answers) + Len(report) <= Size(command)
    BY <1>2 DEF Answered
  <1>8. Len(answers) = 1 /\ Len(report) = 0
    <2>1. \A g, a, r, n \in Nat :
            a # 0 /\ g + 1 = n /\ g + a + r <= n => a = 1 /\ r = 0
      BY SMT
    <2> QED
      BY <1>3, <1>5, <1>6, <1>7, <2>1
  <1>9. Tail(answers) = <<>> /\ report = <<>>
    <2>1. \A s \in Seq(Message) : Len(s) = 0 => s = <<>>
      OBVIOUS
    <2>2. Tail(answers) \in Seq(Message)
      BY <1>1
    <2>3. Len(Tail(answers)) = 0
      BY <1>1, <1>8
    <2> QED
      BY <1>1, <1>8, <2>1, <2>2, <2>3
  <1>10. Len(got) = Size(command) - 1
    BY <1>3, <1>5, <1>6
  <1> QED
    BY <1>2, <1>9, <1>10 DEF Answered

LEMMA ReceiveInv == ASSUME NisTypeOK, NisInv, Receive PROVE NisInv'
  <1>1. /\ pc = "recv" /\ Connected /\ result = "none"
        /\ conn = "reset" => answers = <<>>
        /\ torn => ragged
        /\ behind <= lates /\ behind \in Nat /\ lates \in Nat
        /\ program # "apctray" => behind = 0 /\ (ragged => command = "events")
    BY BoundAssumption DEF Receive, NisInv, Connected, NisTypeOK, BoundType
  <1>2. CASE TimesOut
    <2>0. torn' => ragged'
      BY <1>2, Zenon DEF TimesOut
    <2>1. lates' = lates + 1 /\ behind' = behind + 1
      BY <1>2, Zenon DEF TimesOut
    <2>2. behind' <= lates' /\ behind' # 0
      BY <1>1, <2>1
    <2>3. ~InStep'
      BY <2>2
    <2>4. answers' = answers /\ Return(TRUE)
      BY <1>2 DEF TimesOut
    <2> QED
      BY <1>1, <2>0, <2>2, <2>3, <2>4, ReturnInv
  <1>3. CASE /\ ~torn /\ answers # <<>> /\ answers' = Tail(answers)
             /\ Head(answers).part # "eof"
             /\ got' = Append(got, Head(answers))
             /\ UNCHANGED <<who, conn, requests, daemonVars, callVars, result,
                            trayVars, torn, bounds, drift, cut>>
    BY <1>1, <1>3, LineInv
  <1>4. CASE /\ ~torn /\ answers # <<>> /\ answers' = Tail(answers)
             /\ Head(answers).part = "eof"
             /\ Return(FALSE) /\ UNCHANGED <<torn, lates, drift>>
    <2>1. InStep => /\ requests = <<>> /\ answers' = <<>> /\ report = <<>>
                    /\ Len(got) = Size(command) - 1
      BY <1>1, <1>4, EndIsLast
    <2>2. InStep' => InStep
      BY <1>4 DEF InStep
    <2> QED
      BY <1>1, <1>4, <2>1, <2>2, ReturnInv
  <1>5. CASE /\ answers # <<>> /\ ragged' /\ Return(TRUE)
             /\ UNCHANGED <<lates, behind>>
    <2>1. ~InStep'
      BY <1>5 DEF InStep
    <2> QED
      BY <1>1, <1>5, <2>1, ReturnInv
  <1>6. CASE /\ answers = <<>> /\ conn \in {"fin", "reset"}
             /\ Return(FALSE) \/ Return(TRUE)
             /\ UNCHANGED <<answers, torn, lates, drift>>
    <2>1. requests = <<>> /\ report = <<>> /\ conn # "open"
      BY <1>1, <1>6 DEF Connected
    <2>2. InStep' => InStep
      BY <1>6 DEF InStep
    <2> QED
      BY <1>1, <1>6, <2>1, <2>2, ReturnInv
  <1> QED
    BY <1>1, <1>2, <1>3, <1>4, <1>5, <1>6 DEF Receive

(* What is between the messages of a request and the lines of its answer:  *)
(* the server's thread.                                                    *)
LEMMA ReadInv == ASSUME NisTypeOK, NisInv, Read PROVE NisInv'
  <1> USE DEF NisInv
  <1>1. /\ requests # <<>> /\ Head(requests) \in Request
        /\ requests' = Tail(requests) /\ thread' \in {"send", "bail"}
        /\ thread = "read" /\ conn = "open" /\ (ragged => ragged')
        /\ UNCHANGED <<who, conn, answers, callVars, got, result, torn, lates,
                       behind, cut>>
    BY DEF Read, Connected, NisTypeOK, MessageType
  <1>2. InStep => pc = "recv" /\ Asked
    BY <1>1 DEF Quiet, Awaited, Answered
  <1>3. InStep' => InStep
    BY <1>1 DEF InStep
  <1>4. Connected'
    <2>1. program # "apctray" /\ ragged' => result = "failed" \/ command = "events"
      <3>1. CASE ~InStep
        BY <1>1, <3>1 DEF Connected, InStep
      <3>2. CASE InStep /\ ragged'
        <4>1. Head(requests).command = "events"
          BY <3>2 DEF Read, InStep
        <4> QED
          BY <1>2, <3>2, <4>1 DEF Asked
      <3> QED
        BY <3>1, <3>2 DEF InStep
    <2>2. pc' = "idle" /\ result' = "none" => InStep'
      BY <1>1, <1>2 DEF Connected
    <2> QED
      BY <1>1, <2>1, <2>2 DEF Connected
  <1>5. Quiet' /\ Received'
    BY <1>1, <1>2, <1>3 DEF Quiet, Received, Continues
  <1>6. ASSUME InStep', pc = "recv"
        PROVE  Answered'
    <2>1. InStep /\ Asked
      BY <1>2, <1>3, <1>6
    <2>2. PICK parts \in Answers(Head(requests).command) :
            report' = [i \in 1 .. Len(parts) |->
                         [part |-> parts[i], age |-> Head(requests).age]]
      BY <1>6 DEF Read, InStep
    <2>3. /\ Len(report') = Size(Head(requests).command)
          /\ \A i \in 1 .. Len(report') :
               /\ report'[i].age = Head(requests).age
               /\ report'[i].part \in MayBe(Head(requests).command, i)
      <3>1. /\ Head(requests).command \in {"status", "events"}
            /\ Head(requests).age \in Age
        BY <1>1 DEF Request
      <3>2. report' = Lines(parts, Head(requests).age)
        BY <2>2 DEF Lines
      <3> QED
        BY <2>2, <3>1, <3>2, AnswersType
    <2>4. /\ Head(requests) = [command |-> command, age |-> 0]
          /\ Len(requests) = 1 /\ requests' = <<>>
      BY <1>1, <2>1 DEF Asked
    <2>5. Len(got) = 0 /\ Len(answers) = 0 /\ answers' = <<>> /\ got' = <<>>
      BY <1>1, <2>1 DEF Asked
    <2>6. Size(command) \in Nat
      BY LastIsEnd DEF NisTypeOK, PlaceType
    <2> QED
      BY <1>1, <2>3, <2>4, <2>5, <2>6 DEF Answered, Continues
  <1> QED
    BY <1>1, <1>4, <1>5, <1>6 DEF Awaited

LEMMA SendLineInv == ASSUME NisTypeOK, NisInv, SendLine PROVE NisInv'
  <1> USE DEF NisInv
  <1>1. /\ thread \in {"send", "bail"} /\ report # <<>> /\ conn = "open"
        /\ answers' = Append(answers, Head(report)) /\ report' = Tail(report)
        /\ thread' = (IF thread = "send" /\ Len(report) = 1 THEN "read" ELSE thread)
        /\ UNCHANGED <<who, conn, requests, callVars, got, result, torn, lates,
                       drift, cut>>
    BY DEF SendLine, Connected
  <1>2. /\ got \in Seq(Message) /\ answers \in Seq(Message)
        /\ report \in Seq(Message)
    BY DEF NisTypeOK, MessageType
  <1>3. /\ Len(answers) \in Nat /\ Len(got) \in Nat /\ Len(report) \in Nat \ {0}
        /\ Len(answers') = Len(answers) + 1 /\ Len(report') = Len(report) - 1
        /\ \A i \in 1 .. Len(answers) : answers'[i] = answers[i]
        /\ answers'[Len(answers) + 1] = report[1]
        /\ \A i \in 1 .. Len(report') : report'[i] = report[i + 1]
    BY <1>1, <1>2
  <1>4. Connected'
    <2>1. thread' = "read" => Len(report') = 0
      BY <1>1, <1>3
    <2>2. report' \in Seq(Message)
      BY <1>1, <1>2
    <2>3. thread' = "read" => report' = <<>>
      BY <2>1, <2>2
    <2> QED
      BY <1>1, <2>3 DEF Connected, InStep
  <1>5. ~InStep \/ pc = "recv"
    BY <1>1 DEF Quiet
  <1>6. Quiet' /\ Received'
    BY <1>1, <1>5 DEF Quiet, Received, Continues
  <1>7. ASSUME InStep, pc = "recv"
        PROVE  Answered'
    <2>1. Answered
      BY <1>1, <1>7 DEF Awaited, Asked
    <2>2. Continues(answers, Len(got))'
      <3>1. ASSUME NEW i \in 1 .. Len(answers')
            PROVE  /\ answers'[i].age = 0
                   /\ answers'[i].part \in MayBe(command, Len(got) + i)
        <4>1. CASE i = Len(answers) + 1
          <5>1. /\ 1 \in 1 .. Len(report)
                /\ Len(got) + Len(answers) + 1 = Len(got) + i
            BY <1>3, <4>1
          <5> QED
            BY <1>3, <2>1, <4>1, <5>1 DEF Answered, Continues
        <4>2. CASE i \in 1 .. Len(answers)
          BY <1>3, <2>1, <4>2 DEF Answered, Continues
        <4> QED
          BY <1>3, <4>1, <4>2
      <3> QED
        BY <1>1, <3>1 DEF Continues
    <2>3. Continues(report, Len(got) + Len(answers))'
      <3>1. ASSUME NEW i \in 1 .. Len(report')
            PROVE  /\ report'[i].age = 0
                   /\ report'[i].part \in MayBe(command, Len(got) + Len(answers') + i)
        <4>1. /\ i + 1 \in 1 .. Len(report) /\ report'[i] = report[i + 1]
              /\ Len(got) + Len(answers) + (i + 1) = Len(got) + Len(answers') + i
          BY <1>3
        <4> QED
          BY <2>1, <4>1 DEF Answered, Continues
      <3> QED
        BY <1>1, <3>1 DEF Continues
    <2>4. Size(command) \in Nat
      BY LastIsEnd DEF NisTypeOK, PlaceType
    <2> QED
      BY <1>1, <1>3, <2>1, <2>2, <2>3, <2>4 DEF Answered
  <1> QED
    BY <1>1, <1>4, <1>6, <1>7 DEF Awaited

(* The server's side of the connection ends: what it has not sent is lost, *)
(* what it sent is lost with a reset.                                      *)
LEMMA EndInv ==
  ASSUME NisTypeOK, NisInv, conn = "open",
         conn' \in {"fin", "reset"}, requests' = <<>>, report' = <<>>,
         thread' = "none",
         \/ answers' = <<>>
         \/ requests = <<>> /\ conn' = "fin" /\ answers' = answers,
         UNCHANGED <<who, callVars, got, result, torn, lates, drift, cut>>
  PROVE  NisInv'
  <1> USE DEF NisInv
  <1>1. Connected'
    BY DEF Connected
  <1>2. Quiet' /\ Received'
    BY DEF Quiet, Received, Continues
  <1>3. ASSUME InStep, pc = "recv"
        PROVE  Answered'
    <2>1. /\ Len(got) \in Nat /\ Len(answers) \in Nat /\ Len(report) \in Nat
          /\ Size(command) \in Nat /\ Len(got) < Size(command)
      BY <1>3, LastIsEnd DEF Received, NisTypeOK, MessageType, PlaceType
    <2>2. CASE answers' = <<>>
      BY <2>1, <2>2 DEF Answered, Continues
    <2>3. CASE requests = <<>> /\ answers' = answers
      <3>1. Answered
        BY <1>3, <2>3 DEF Awaited, Asked
      <3> QED
        BY <2>1, <2>3, <3>1 DEF Answered, Continues
    <2> QED
      BY <2>2, <2>3
  <1> QED
    BY <1>1, <1>2, <1>3 DEF Awaited

LEMMA SendInv == ASSUME NisTypeOK, NisInv, Send PROVE NisInv'
  <1> USE DEF NisInv
  <1>1. /\ pc = "send" /\ got = <<>> /\ command \in {"status", "events"}
        /\ Len(got) = 0 /\ Size(command) \in Nat \ {0}
    BY LastIsEnd DEF Send, Connected, NisTypeOK, PlaceType
  <1>2. CASE Fail
    BY <1>1, <1>2, FailInv
  <1>3. CASE /\ conn = "open" /\ pc' = "recv"
             /\ requests' = Append(requests, [command |-> command, age |-> 0])
             /\ UNCHANGED <<who, conn, answers, daemonVars, caller, command, got,
                            result, trayVars, torn, bounds, drift, cut>>
    <2>1. Connected' /\ Quiet' /\ Received'
      BY <1>1, <1>3 DEF Connected, Quiet, Received, Continues
    <2>2. InStep => requests' = <<[command |-> command, age |-> 0]>>
      <3>1. InStep => requests = <<>>
        BY <1>1 DEF Quiet
      <3>2. requests' = Append(requests, [command |-> command, age |-> 0])
        BY <1>3
      <3>3. \A x : Append(<<>>, x) = <<x>>
        OBVIOUS
      <3> QED
        BY <3>1, <3>2, <3>3
    <2>3. InStep => Asked'
      BY <1>1, <1>3, <2>2 DEF Quiet, Asked
    <2> QED
      BY <1>3, <2>1, <2>3 DEF Awaited
  <1>4. CASE /\ conn \in {"fin", "reset"}
             /\ pc' = "recv" /\ conn' = "reset" /\ answers' = <<>>
             /\ UNCHANGED <<who, requests, daemonVars, caller, command, got,
                            result, trayVars, torn, bounds, drift, cut>>
    <2>1. Connected' /\ Quiet' /\ Received'
      BY <1>1, <1>4 DEF Connected, Quiet, Received, Continues
    <2>2. Answered'
      BY <1>1, <1>4 DEF Connected, Answered, Continues
    <2> QED
      BY <2>1, <2>2 DEF Awaited
  <1> QED
    BY <1>1, <1>2, <1>3, <1>4 DEF Send, SendFails

LEMMA BreakInv == ASSUME NisTypeOK, NisInv, Break PROVE NisInv'
  <1>1. CASE conn = "open" /\ Close
    BY <1>1, EndInv DEF Break, Close
  <1>2. CASE UNCHANGED <<connVars, thread, report>>
    BY <1>2 DEF Break, NisInv, Connected, Quiet, Awaited, Asked, Answered, Received,
                Continues
  <1>3. CASE /\ conn = "open" /\ conn' = "reset"
             /\ requests' = <<>> /\ answers' = <<>>
             /\ thread' = "none" /\ report' = <<>>
    BY <1>3, EndInv DEF Break
  <1> QED
    BY <1>1, <1>2, <1>3 DEF Break

LEMMA NextInv == ASSUME NisTypeOK, NisInv, [Next]_vars PROVE NisInv'
  <1>1. CASE Poll
    BY <1>1, CallInv DEF Poll
  <1>2. CASE Dialog
    BY <1>2, CallInv DEF Dialog
  <1>3. CASE Open
    <2>1. CASE Fail
      BY <1>3, <2>1, FailInv DEF Open
    <2>2. CASE /\ conn' = "open" /\ thread' = "read" /\ pc' = "send"
               /\ UNCHANGED <<who, requests, answers, up, report, caller,
                              command, got, result, trayVars, torn, bounds, drift, cut>>
      BY <1>3, <2>2 DEF Open, NisInv, Connected, Quiet, Awaited, Received, Continues
    <2> QED
      BY <1>3, <2>1, <2>2 DEF Open
  <1>4. CASE Send
    BY <1>4, SendInv
  <1>5. CASE Receive
    BY <1>5, ReceiveInv
  <1>6. CASE Read
    BY <1>6, ReadInv
  <1>7. CASE SendLine
    BY <1>7, SendLineInv
  <1>8. CASE IdleTimeout \/ HangUp
    <2>1. conn = "open"
      BY <1>8 DEF IdleTimeout, HangUp, NisInv, Connected
    <2> QED
      BY <1>8, <2>1, EndInv DEF IdleTimeout, HangUp, Close
  <1>9. CASE Break
    BY <1>9, BreakInv
  <1>10. CASE UNCHANGED <<who, connVars, thread, report, callVars, got, result,
                          torn, lates, drift, cut>>
    BY <1>10 DEF NisInv, Connected, Quiet, Awaited, Asked, Answered, Received, Continues
  <1> QED
    BY <1>1, <1>2, <1>3, <1>4, <1>5, <1>6, <1>7, <1>8, <1>9, <1>10
    DEF Next, Client, Server, Look, Start, vars

-----------------------------------------------------------------------------
(* By how many calls the tray is out of step.  What is still to come on    *)
(* its connection: the answers, what the server has still to send, and the *)
(* requests that it has not read, which stand for their answers' ends.     *)
Sent == Len(answers) + Len(report)
Total == Sent + Len(requests)

AgeAt == [i \in 1 .. Total |->
            IF i <= Len(answers) THEN answers[i].age
            ELSE IF i <= Sent THEN report[i - Len(answers)].age
            ELSE requests[i - Sent].age]

StepAt == [i \in 1 .. Total |->
             IF i <= Len(answers)
             THEN IF answers[i].part = "eof" THEN 1 ELSE 0
             ELSE IF i <= Sent
                  THEN IF report[i - Len(answers)].part = "eof" THEN 1 ELSE 0
                  ELSE 1]

(* With each end the age falls by one, and with nothing else.              *)
Falls(ages, steps, n) ==
  /\ \A i, j \in 1 .. n : i < j => ages[j] <= ages[i] - steps[i]
  /\ \A i \in 1 .. n : i < n => ages[i + 1] >= ages[i] - steps[i]

(* What comes next is behind calls old, what comes last belongs to the     *)
(* last request.                                                           *)
Pending ==
  /\ conn = "none" => Total = 0 /\ behind = 0
  /\ Falls(AgeAt, StepAt, Total)
  /\ Total > 0 => AgeAt[1] = IF pc = "idle" THEN behind - 1 ELSE behind
  /\ conn = "open" /\ Total > 0 =>
       /\ StepAt[Total] = 1
       /\ AgeAt[Total] = IF pc \in {"open", "send"} THEN 1 ELSE 0
  /\ conn = "open" /\ Total = 0 => behind = 0 /\ pc # "recv"
  /\ pc = "recv" => \A i \in 1 .. Len(got) : got[i].age = behind

TrayInv == program = "apctray" /\ ~ragged => Pending

LEMMA PipeType ==
  ASSUME NisTypeOK
  PROVE  /\ Total \in Nat /\ Sent \in Nat /\ Len(answers) \in Nat
         /\ Len(report) \in Nat /\ Len(requests) \in Nat
         /\ \A i \in 1 .. Total : AgeAt[i] \in Nat /\ StepAt[i] \in {0, 1}
  <1>1. /\ answers \in Seq(Message) /\ report \in Seq(Message)
        /\ requests \in Seq(Request)
    BY DEF NisTypeOK, MessageType
  <1>2. /\ Total \in Nat /\ Sent \in Nat /\ Len(answers) \in Nat
        /\ Len(report) \in Nat /\ Len(requests) \in Nat
    BY <1>1 DEF Total, Sent
  <1>3. \A age \in Age : age \in Nat
    BY BoundAssumption DEF Age
  <1>4. ASSUME NEW i \in 1 .. Total
        PROVE  AgeAt[i] \in Nat /\ StepAt[i] \in {0, 1}
    <2>1. CASE i <= Len(answers)
      <3>1. answers[i] \in Message
        BY <1>1, <1>2, <2>1
      <3> QED
        BY <1>3, <2>1, <3>1 DEF Message, AgeAt, StepAt
    <2>2. CASE i > Len(answers) /\ i <= Sent
      <3>1. report[i - Len(answers)] \in Message
        <4>1. i - Len(answers) \in 1 .. Len(report)
          BY <1>2, <2>2 DEF Sent
        <4> QED
          BY <1>1, <4>1
      <3> QED
        BY <1>2, <1>3, <2>2, <3>1 DEF Message, AgeAt, StepAt
    <2>3. CASE i > Sent
      <3>1. requests[i - Sent] \in Request
        <4>1. i - Sent \in 1 .. Len(requests)
          BY <1>2, <2>3 DEF Total
        <4> QED
          BY <1>1, <4>1
      <3>2. ~(i <= Len(answers)) /\ ~(i <= Sent)
        BY <1>2, <2>3 DEF Sent
      <3> QED
        BY <1>3, <3>1, <3>2 DEF Request, AgeAt, StepAt
    <2> QED
      BY <1>2, <2>1, <2>2, <2>3
  <1> QED
    BY <1>2, <1>4

(* What becomes of ages that fall.                                         *)
LEMMA FallsLater ==
  ASSUME NEW n \in Nat, NEW k \in Nat, NEW m \in Nat, k + m <= n,
         NEW ages, NEW steps, NEW ages2, NEW steps2, Falls(ages, steps, n),
         \A i \in 1 .. m : ages2[i] = ages[i + k] /\ steps2[i] = steps[i + k]
  PROVE  Falls(ages2, steps2, m)
  <1>1. ASSUME NEW i \in 1 .. m, NEW j \in 1 .. m, i < j
        PROVE  ages2[j] <= ages2[i] - steps2[i]
    <2>1. i + k \in 1 .. n /\ j + k \in 1 .. n /\ i + k < j + k
      BY <1>1
    <2> QED
      BY <2>1 DEF Falls
  <1>2. ASSUME NEW i \in 1 .. m, i < m
        PROVE  ages2[i + 1] >= ages2[i] - steps2[i]
    <2>1. /\ i + k \in 1 .. n /\ i + k < n /\ i + 1 \in 1 .. m
          /\ (i + k) + 1 = (i + 1) + k
      BY <1>2
    <2>2. ages[(i + k) + 1] >= ages[i + k] - steps[i + k]
      BY <2>1 DEF Falls
    <2> QED
      BY <2>1, <2>2
  <1> QED
    BY <1>1, <1>2 DEF Falls

LEMMA FallsOlder ==
  ASSUME NEW n \in Nat, NEW ages, NEW steps, NEW ages2, NEW steps2,
         Falls(ages, steps, n),
         \A i \in 1 .. n : /\ ages[i] \in Nat /\ steps[i] \in {0, 1}
                           /\ ages2[i] = ages[i] + 1 /\ steps2[i] = steps[i]
  PROVE  Falls(ages2, steps2, n)
  <1>1. ASSUME NEW i \in 1 .. n, NEW j \in 1 .. n, i < j
        PROVE  ages2[j] <= ages2[i] - steps2[i]
    <2>1. ages[j] <= ages[i] - steps[i]
      BY <1>1 DEF Falls
    <2> QED
      BY <2>1
  <1>2. ASSUME NEW i \in 1 .. n, i < n
        PROVE  ages2[i + 1] >= ages2[i] - steps2[i]
    <2>1. i + 1 \in 1 .. n /\ ages[i + 1] >= ages[i] - steps[i]
      BY <1>2 DEF Falls
    <2> QED
      BY <2>1
  <1> QED
    BY <1>1, <1>2 DEF Falls

LEMMA FallsLast ==
  ASSUME NEW n \in Nat, NEW ages, NEW steps, NEW ages2, NEW steps2,
         Falls(ages, steps, n),
         \A i \in 1 .. n : /\ ages[i] \in Nat /\ steps[i] \in {0, 1}
                           /\ ages2[i] = ages[i] /\ steps2[i] = steps[i],
         n > 0 => ages[n] = 1 /\ steps[n] = 1,
         ages2[n + 1] = 0
  PROVE  Falls(ages2, steps2, n + 1)
  <1>1. ASSUME NEW i \in 1 .. n + 1, NEW j \in 1 .. n + 1, i < j
        PROVE  ages2[j] <= ages2[i] - steps2[i]
    <2>1. CASE j \in 1 .. n
      BY <1>1, <2>1 DEF Falls
    <2>2. CASE j = n + 1 /\ i = n
      BY <1>1, <2>2
    <2>3. CASE j = n + 1 /\ i < n
      <3>1. i \in 1 .. n /\ n \in 1 .. n /\ ages[n] = 1
        BY <1>1, <2>3
      <3>2. ages[n] <= ages[i] - steps[i]
        BY <2>3, <3>1 DEF Falls
      <3> QED
        BY <2>3, <3>1, <3>2
    <2> QED
      BY <1>1, <2>1, <2>2, <2>3
  <1>2. ASSUME NEW i \in 1 .. n + 1, i < n + 1
        PROVE  ages2[i + 1] >= ages2[i] - steps2[i]
    <2>1. CASE i < n
      <3>1. i \in 1 .. n /\ i + 1 \in 1 .. n
        BY <1>2, <2>1
      <3> QED
        BY <2>1, <3>1 DEF Falls
    <2>2. CASE i = n
      BY <1>2, <2>2
    <2> QED
      BY <1>2, <2>1, <2>2
  <1> QED
    BY <1>1, <1>2 DEF Falls

(* The request after the first a messages becomes the k ones of its answer. *)
LEMMA FallsAnswered ==
  ASSUME NEW n \in Nat, NEW a \in Nat, NEW k \in Nat \ {0}, a + 1 <= n,
         NEW ages, NEW steps, NEW ages2, NEW steps2, Falls(ages, steps, n),
         \A i \in 1 .. n : ages[i] \in Nat /\ steps[i] \in {0, 1},
         steps[a + 1] = 1,
         \A i \in 1 .. a : ages2[i] = ages[i] /\ steps2[i] = steps[i],
         \A i \in a + 1 .. a + k :
           ages2[i] = ages[a + 1] /\ steps2[i] = IF i = a + k THEN 1 ELSE 0,
         \A i \in a + k + 1 .. n + k - 1 :
           ages2[i] = ages[i - k + 1] /\ steps2[i] = steps[i - k + 1]
  PROVE  Falls(ages2, steps2, n + k - 1)
  <1> DEFINE Of(i) == IF i <= a THEN i ELSE IF i <= a + k THEN a + 1 ELSE i - k + 1
  <1>1. \A i \in 1 .. n + k - 1 : Of(i) \in 1 .. n /\ ages2[i] = ages[Of(i)]
    <2>1. \A i \in 1 .. n + k - 1 : Of(i) \in 1 .. n
      OBVIOUS
    <2>2. \A i \in 1 .. n + k - 1 :
            i \in 1 .. a \/ i \in a + 1 .. a + k \/ i \in a + k + 1 .. n + k - 1
      OBVIOUS
    <2>3. \A i \in 1 .. n + k - 1 : ages2[i] = ages[Of(i)]
      <3> SUFFICES ASSUME NEW i \in 1 .. n + k - 1 PROVE ages2[i] = ages[Of(i)]
        OBVIOUS
      <3>1. CASE i \in 1 .. a
        BY <3>1
      <3>2. CASE i \in a + 1 .. a + k
        <4>1. Of(i) = a + 1
          BY <3>2
        <4> QED
          BY <3>2, <4>1
      <3>3. CASE i \in a + k + 1 .. n + k - 1
        <4>1. Of(i) = i - k + 1
          BY <3>3
        <4> QED
          BY <3>3, <4>1
      <3> QED
        BY <2>2, <3>1, <3>2, <3>3
    <2> QED
      BY <2>1, <2>3
  <1>2. \A i \in 1 .. n + k - 1 :
          steps2[i] = IF i \in a + 1 .. a + k - 1 THEN 0 ELSE steps[Of(i)]
    <2> SUFFICES ASSUME NEW i \in 1 .. n + k - 1
                 PROVE  steps2[i] = IF i \in a + 1 .. a + k - 1 THEN 0 ELSE steps[Of(i)]
      OBVIOUS
    <2>1. CASE i \in 1 .. a
      BY <2>1
    <2>2. CASE i \in a + 1 .. a + k - 1
      BY <2>2
    <2>3. CASE i = a + k
      <3>1. Of(i) = a + 1 /\ steps2[i] = 1
        BY <2>3
      <3> QED
        BY <2>3, <3>1
    <2>4. CASE i \in a + k + 1 .. n + k - 1
      <3>1. Of(i) = i - k + 1 /\ ~(i \in a + 1 .. a + k - 1)
        BY <2>4
      <3> QED
        BY <2>4, <3>1
    <2> QED
      BY <2>1, <2>2, <2>3, <2>4
  <1>3. ASSUME NEW i \in 1 .. n + k - 1, NEW j \in 1 .. n + k - 1, i < j
        PROVE  ages2[j] <= ages2[i] - steps2[i]
    <2>1. CASE Of(i) < Of(j)
      <3>1. ages[Of(j)] <= ages[Of(i)] - steps[Of(i)]
        BY <1>1, <2>1 DEF Falls
      <3>2. /\ ages2[i] = ages[Of(i)] /\ ages2[j] = ages[Of(j)]
            /\ steps2[i] \in {0, steps[Of(i)]} /\ steps[Of(i)] \in {0, 1}
            /\ ages[Of(i)] \in Nat /\ ages[Of(j)] \in Nat
        BY <1>1, <1>2
      <3> HIDE DEF Of
      <3> QED
        BY <3>1, <3>2
    <2>2. CASE ~(Of(i) < Of(j))
      <3>1. i \in a + 1 .. a + k - 1 /\ Of(i) = Of(j)
        BY <1>3, <2>2
      <3>2. /\ ages2[i] = ages[Of(i)] /\ ages2[j] = ages[Of(i)] /\ steps2[i] = 0
            /\ ages[Of(i)] \in Nat
        BY <1>1, <1>2, <3>1
      <3> HIDE DEF Of
      <3> QED
        BY <3>2
    <2> QED
      BY <2>1, <2>2
  <1>4. ASSUME NEW i \in 1 .. n + k - 1, i < n + k - 1
        PROVE  ages2[i + 1] >= ages2[i] - steps2[i]
    <2>0. i + 1 \in 1 .. n + k - 1
      BY <1>4
    <2>1. CASE i \in a + 1 .. a + k - 1
      <3>1. Of(i) = a + 1 /\ Of(i + 1) = a + 1 /\ steps2[i] = 0
        BY <1>2, <2>1
      <3>2. ages2[i] = ages[a + 1] /\ ages2[i + 1] = ages[a + 1] /\ ages[a + 1] \in Nat
        BY <1>1, <2>0, <3>1
      <3> QED
        BY <3>1, <3>2
    <2>2. CASE ~(i \in a + 1 .. a + k - 1)
      <3>1. Of(i + 1) = Of(i) + 1 /\ Of(i) < n
        BY <1>4, <2>2
      <3>2. ages[Of(i) + 1] >= ages[Of(i)] - steps[Of(i)]
        BY <1>1, <3>1 DEF Falls
      <3>3. /\ ages2[i] = ages[Of(i)] /\ ages2[i + 1] = ages[Of(i) + 1]
            /\ steps2[i] = steps[Of(i)]
        BY <1>1, <1>2, <2>0, <2>2, <3>1
      <3> HIDE DEF Of
      <3> QED
        BY <3>2, <3>3
    <2> QED
      BY <2>1, <2>2
  <1> QED
    BY <1>3, <1>4 DEF Falls

(* What the steps do to it.                                                *)
LEMMA PipeEmpty ==
  ASSUME NisTypeOK
  PROVE  Total = 0 <=> answers = <<>> /\ report = <<>> /\ requests = <<>>
  <1>1. /\ answers \in Seq(Message) /\ report \in Seq(Message)
        /\ requests \in Seq(Request)
    BY DEF NisTypeOK, MessageType
  <1>2. /\ answers = <<>> <=> Len(answers) = 0
        /\ report = <<>> <=> Len(report) = 0
        /\ requests = <<>> <=> Len(requests) = 0
    BY <1>1
  <1>3. Len(answers) \in Nat /\ Len(report) \in Nat /\ Len(requests) \in Nat
    BY <1>1
  <1>4. Total = 0 <=> Len(answers) = 0 /\ Len(report) = 0 /\ Len(requests) = 0
    BY <1>3 DEF Total, Sent
  <1> QED
    BY <1>2, <1>4

LEMMA PipeReceive ==
  ASSUME NisTypeOK, answers # <<>>, answers' = Tail(answers),
         UNCHANGED <<report, requests>>
  PROVE  /\ Total \in Nat \ {0} /\ Total' = Total - 1
         /\ AgeAt[1] = Head(answers).age
         /\ StepAt[1] = IF Head(answers).part = "eof" THEN 1 ELSE 0
         /\ \A i \in 1 .. Total - 1 :
              AgeAt'[i] = AgeAt[i + 1] /\ StepAt'[i] = StepAt[i + 1]
  <1>1. answers \in Seq(Message)
    BY DEF NisTypeOK, MessageType
  <1>2. /\ Len(answers) \in Nat \ {0} /\ Len(answers') = Len(answers) - 1
        /\ \A i \in 1 .. Len(answers') : answers'[i] = answers[i + 1]
        /\ Head(answers) = answers[1]
    BY <1>1
  <1>3. /\ Sent' = Sent - 1 /\ Total' = Total - 1 /\ Total \in Nat \ {0}
        /\ Sent \in Nat /\ Len(report) \in Nat /\ Len(requests) \in Nat
    BY <1>2, PipeType DEF Sent, Total
  <1>4. 1 \in 1 .. Total /\ 1 <= Len(answers)
    BY <1>2, <1>3
  <1>5. /\ AgeAt[1] = answers[1].age
        /\ StepAt[1] = IF answers[1].part = "eof" THEN 1 ELSE 0
    BY <1>4 DEF AgeAt, StepAt
  <1>6. ASSUME NEW i \in 1 .. Total - 1
        PROVE  AgeAt'[i] = AgeAt[i + 1] /\ StepAt'[i] = StepAt[i + 1]
    <2>1. i \in 1 .. Total' /\ i + 1 \in 1 .. Total
      BY <1>3
    <2>2. CASE i <= Len(answers')
      <3>1. i \in 1 .. Len(answers') /\ i + 1 <= Len(answers)
        BY <1>2, <2>2
      <3>2. answers'[i] = answers[i + 1]
        BY <1>2, <3>1
      <3> QED
        BY <2>1, <2>2, <3>1, <3>2 DEF AgeAt, StepAt
    <2>3. CASE i > Len(answers') /\ i <= Sent'
      <3>1. /\ ~(i <= Len(answers')) /\ ~(i + 1 <= Len(answers)) /\ i + 1 <= Sent
            /\ i - Len(answers') = (i + 1) - Len(answers)
        BY <1>2, <1>3, <2>3
      <3> QED
        BY <2>1, <2>3, <3>1 DEF AgeAt, StepAt
    <2>4. CASE i > Sent'
      <3>1. /\ ~(i <= Len(answers')) /\ ~(i + 1 <= Len(answers))
            /\ ~(i <= Sent') /\ ~(i + 1 <= Sent)
            /\ i - Sent' = (i + 1) - Sent
        BY <1>2, <1>3, <2>4 DEF Sent
      <3> QED
        BY <2>1, <3>1 DEF AgeAt, StepAt
    <2> QED
      BY <1>2, <1>3, <2>2, <2>3, <2>4
  <1> QED
    BY <1>2, <1>3, <1>5, <1>6

LEMMA PipeSend ==
  ASSUME NisTypeOK, report # <<>>, answers' = Append(answers, Head(report)),
         report' = Tail(report), UNCHANGED requests
  PROVE  /\ Total' = Total
         /\ \A i \in 1 .. Total : AgeAt'[i] = AgeAt[i] /\ StepAt'[i] = StepAt[i]
  <1>1. answers \in Seq(Message) /\ report \in Seq(Message)
    BY DEF NisTypeOK, MessageType
  <1>2. /\ Len(report) \in Nat \ {0} /\ Len(report') = Len(report) - 1
        /\ Len(answers') = Len(answers) + 1
        /\ \A i \in 1 .. Len(answers) : answers'[i] = answers[i]
        /\ answers'[Len(answers) + 1] = report[1]
        /\ \A i \in 1 .. Len(report') : report'[i] = report[i + 1]
    BY <1>1
  <1>3. /\ Sent' = Sent /\ Total' = Total /\ Total \in Nat /\ Sent \in Nat
        /\ Len(answers) \in Nat /\ Len(requests) \in Nat
        /\ Sent = Len(answers) + Len(report)
    BY <1>2, PipeType DEF Sent, Total
  <1>4. ASSUME NEW i \in 1 .. Total
        PROVE  AgeAt'[i] = AgeAt[i] /\ StepAt'[i] = StepAt[i]
    <2>1. CASE i <= Len(answers)
      <3>1. i <= Len(answers') /\ answers'[i] = answers[i]
        BY <1>2, <1>3, <2>1
      <3> QED
        BY <1>3, <2>1, <3>1 DEF AgeAt, StepAt
    <2>2. CASE i = Len(answers) + 1
      <3>1. /\ i <= Len(answers') /\ ~(i <= Len(answers)) /\ i <= Sent
            /\ i - Len(answers) = 1 /\ answers'[i] = report[1]
        BY <1>2, <1>3, <2>2
      <3> QED
        BY <1>3, <3>1 DEF AgeAt, StepAt
    <2>3. CASE i > Len(answers) + 1 /\ i <= Sent
      <3>1. /\ ~(i <= Len(answers')) /\ ~(i <= Len(answers)) /\ i <= Sent'
            /\ i - Len(answers') \in 1 .. Len(report')
            /\ (i - Len(answers')) + 1 = i - Len(answers)
        BY <1>2, <1>3, <2>3
      <3>2. report'[i - Len(answers')] = report[i - Len(answers)]
        BY <1>2, <3>1
      <3> QED
        BY <1>3, <2>3, <3>1, <3>2 DEF AgeAt, StepAt
    <2>4. CASE i > Sent
      <3>1. /\ ~(i <= Len(answers')) /\ ~(i <= Len(answers)) /\ ~(i <= Sent')
            /\ ~(i <= Sent)
        BY <1>2, <1>3, <2>4
      <3> QED
        BY <1>3, <3>1 DEF AgeAt, StepAt
    <2> QED
      BY <1>3, <2>1, <2>2, <2>3, <2>4
  <1> QED
    BY <1>3, <1>4

LEMMA PipeClose ==
  ASSUME NisTypeOK, answers' = answers, report' = <<>>, requests' = <<>>
  PROVE  /\ Total' = Len(answers) /\ Len(answers) \in 0 .. Total
         /\ \A i \in 1 .. Total' : AgeAt'[i] = AgeAt[i] /\ StepAt'[i] = StepAt[i]
  <1>1. /\ Total \in Nat /\ Sent \in Nat /\ Len(answers) \in Nat
        /\ Len(report) \in Nat /\ Len(requests) \in Nat
    BY PipeType
  <1>2. Len(report') = 0 /\ Len(requests') = 0
    OBVIOUS
  <1>3. Total' = Len(answers) /\ Len(answers) \in 0 .. Total
    BY <1>1, <1>2 DEF Total, Sent
  <1>4. ASSUME NEW i \in 1 .. Total'
        PROVE  AgeAt'[i] = AgeAt[i] /\ StepAt'[i] = StepAt[i]
    <2>1. i \in 1 .. Total /\ i <= Len(answers)
      BY <1>1, <1>3
    <2> QED
      BY <2>1 DEF AgeAt, StepAt
  <1> QED
    BY <1>3, <1>4

LEMMA PipeAsk ==
  ASSUME NisTypeOK, NEW request, request.age = 0,
         requests' = Append(requests, request), UNCHANGED <<answers, report>>
  PROVE  /\ Total' = Total + 1 /\ AgeAt'[Total + 1] = 0 /\ StepAt'[Total + 1] = 1
         /\ \A i \in 1 .. Total : AgeAt'[i] = AgeAt[i] /\ StepAt'[i] = StepAt[i]
  <1>1. requests \in Seq(Request)
    BY DEF NisTypeOK, MessageType
  <1>2. /\ Len(requests') = Len(requests) + 1
        /\ \A i \in 1 .. Len(requests) : requests'[i] = requests[i]
        /\ requests'[Len(requests) + 1] = request
    BY <1>1
  <1>3. /\ Total \in Nat /\ Sent \in Nat /\ Len(answers) \in Nat
        /\ Len(report) \in Nat /\ Len(requests) \in Nat
        /\ Sent' = Sent /\ Total' = Total + 1 /\ Total = Sent + Len(requests)
        /\ Sent = Len(answers) + Len(report)
    BY <1>2, PipeType DEF Sent, Total
  <1>4. AgeAt'[Total + 1] = 0 /\ StepAt'[Total + 1] = 1
    <2>1. /\ Total + 1 \in 1 .. Total' /\ ~(Total + 1 <= Len(answers'))
          /\ ~(Total + 1 <= Sent') /\ (Total + 1) - Sent' = Len(requests) + 1
      BY <1>3
    <2> QED
      BY <1>2, <2>1 DEF AgeAt, StepAt
  <1>5. ASSUME NEW i \in 1 .. Total
        PROVE  AgeAt'[i] = AgeAt[i] /\ StepAt'[i] = StepAt[i]
    <2>1. i \in 1 .. Total'
      BY <1>3
    <2>2. CASE i <= Sent
      BY <1>3, <2>1, <2>2 DEF AgeAt, StepAt
    <2>3. CASE ~(i <= Sent)
      <3>1. /\ i - Sent \in 1 .. Len(requests) /\ ~(i <= Len(answers))
        BY <1>3, <2>3
      <3>2. requests'[i - Sent] = requests[i - Sent]
        BY <1>2, <3>1
      <3> QED
        BY <1>3, <2>1, <2>3, <3>1, <3>2 DEF AgeAt, StepAt
    <2> QED
      BY <2>2, <2>3
  <1> QED
    BY <1>3, <1>4, <1>5

LEMMA PipeCall ==
  ASSUME NisTypeOK, answers' = Outdated(answers), report' = Outdated(report),
         requests' = Outdated(requests)
  PROVE  /\ Total' = Total
         /\ \A i \in 1 .. Total :
              AgeAt'[i] = Older(AgeAt[i]) /\ StepAt'[i] = StepAt[i]
  <1>1. /\ answers \in Seq(Message) /\ report \in Seq(Message)
        /\ requests \in Seq(Request)
    BY DEF NisTypeOK, MessageType
  <1>2. ASSUME NEW messages \in Seq(Message)
        PROVE  /\ Len(Outdated(messages)) = Len(messages)
               /\ \A i \in 1 .. Len(messages) :
                    /\ Outdated(messages)[i].age = Older(messages[i].age)
                    /\ Outdated(messages)[i].part = messages[i].part
    <2>1. \A i \in 1 .. Len(messages) : messages[i] \in Message
      OBVIOUS
    <2>2. Len(Outdated(messages)) = Len(messages)
      BY DEF Outdated
    <2> QED
      BY <2>1, <2>2 DEF Outdated, Message
  <1>3. /\ Len(Outdated(requests)) = Len(requests)
        /\ \A i \in 1 .. Len(requests) :
             Outdated(requests)[i].age = Older(requests[i].age)
    <2>1. \A i \in 1 .. Len(requests) : requests[i] \in Request
      BY <1>1
    <2>2. Len(Outdated(requests)) = Len(requests)
      BY <1>1 DEF Outdated
    <2> QED
      BY <2>1, <2>2 DEF Outdated, Request
  <1>4. /\ Len(answers') = Len(answers) /\ Len(report') = Len(report)
        /\ Len(requests') = Len(requests)
    BY <1>1, <1>2, <1>3
  <1>5. /\ Total \in Nat /\ Sent \in Nat /\ Len(answers) \in Nat
        /\ Len(report) \in Nat /\ Len(requests) \in Nat
        /\ Sent' = Sent /\ Total' = Total /\ Total = Sent + Len(requests)
        /\ Sent = Len(answers) + Len(report)
    BY <1>4, PipeType DEF Sent, Total
  <1>6. ASSUME NEW i \in 1 .. Total
        PROVE  AgeAt'[i] = Older(AgeAt[i]) /\ StepAt'[i] = StepAt[i]
    <2>1. CASE i <= Len(answers)
      <3>1. /\ answers'[i].age = Older(answers[i].age)
            /\ answers'[i].part = answers[i].part
        BY <1>1, <1>2, <1>5, <2>1
      <3> QED
        BY <1>4, <1>5, <2>1, <3>1 DEF AgeAt, StepAt
    <2>2. CASE ~(i <= Len(answers)) /\ i <= Sent
      <3>1. i - Len(answers) \in 1 .. Len(report)
        BY <1>5, <2>2
      <3>2. /\ report'[i - Len(answers)].age = Older(report[i - Len(answers)].age)
            /\ report'[i - Len(answers)].part = report[i - Len(answers)].part
        BY <1>1, <1>2, <3>1
      <3> QED
        BY <1>4, <1>5, <2>2, <3>2 DEF AgeAt, StepAt
    <2>3. CASE ~(i <= Sent)
      <3>1. i - Sent \in 1 .. Len(requests) /\ ~(i <= Len(answers))
        BY <1>5, <2>3
      <3>2. requests'[i - Sent].age = Older(requests[i - Sent].age)
        BY <1>3, <3>1
      <3> QED
        BY <1>4, <1>5, <2>3, <3>1, <3>2 DEF AgeAt, StepAt
    <2> QED
      BY <2>1, <2>2, <2>3
  <1> QED
    BY <1>5, <1>6

LEMMA PipeRead ==
  ASSUME NisTypeOK, report = <<>>, requests # <<>>, requests' = Tail(requests),
         NEW parts \in Answers(Head(requests).command),
         report' = Lines(parts, Head(requests).age), UNCHANGED answers
  PROVE  LET a == Len(answers)
             k == Len(report')
         IN  /\ a \in Nat /\ k \in Nat \ {0} /\ a + 1 <= Total
             /\ Total' = Total + k - 1 /\ StepAt[a + 1] = 1
             /\ \A i \in 1 .. a : AgeAt'[i] = AgeAt[i] /\ StepAt'[i] = StepAt[i]
             /\ \A i \in a + 1 .. a + k :
                  /\ AgeAt'[i] = AgeAt[a + 1]
                  /\ StepAt'[i] = IF i = a + k THEN 1 ELSE 0
             /\ \A i \in a + k + 1 .. Total + k - 1 :
                  AgeAt'[i] = AgeAt[i - k + 1] /\ StepAt'[i] = StepAt[i - k + 1]
  <1> DEFINE a == Len(answers)
             k == Len(report')
             request == Head(requests)
  <1>1. requests \in Seq(Request) /\ request \in Request
    BY DEF NisTypeOK, MessageType
  <1>2. /\ request.command \in {"status", "events"} /\ request.age \in Age
    BY <1>1 DEF Request
  <1>3. /\ k = Size(request.command) /\ k \in Nat \ {0}
        /\ \A i \in 1 .. k : /\ report'[i].age = request.age
                             /\ report'[i].part \in MayBe(request.command, i)
    BY <1>2, AnswersType, LastIsEnd
  <1>4. \A i \in 1 .. k : report'[i].part = "eof" <=> i = k
    BY <1>2, <1>3, LastIsEnd
  <1>5. /\ Len(requests) \in Nat \ {0} /\ Len(requests') = Len(requests) - 1
        /\ \A i \in 1 .. Len(requests') : requests'[i] = requests[i + 1]
        /\ request = requests[1]
    BY <1>1
  <1>6. /\ a \in Nat /\ Len(report) = 0 /\ Sent = a /\ Total = a + Len(requests)
        /\ Sent' = a + k /\ Total' = Total + k - 1 /\ a + 1 <= Total
    BY <1>3, <1>5, PipeType DEF Sent, Total
  <1> HIDE DEF a, k, request
  <1>7. AgeAt[a + 1] = request.age /\ StepAt[a + 1] = 1
    <2>1. /\ a + 1 \in 1 .. Total /\ ~(a + 1 <= Sent) /\ ~(a + 1 <= a)
          /\ (a + 1) - Sent = 1
      BY <1>5, <1>6
    <2> QED
      BY <1>5, <2>1 DEF AgeAt, StepAt, a
  <1>8. ASSUME NEW i \in 1 .. a
        PROVE  AgeAt'[i] = AgeAt[i] /\ StepAt'[i] = StepAt[i]
    <2>1. i \in 1 .. Total /\ i \in 1 .. Total' /\ i <= a
      BY <1>3, <1>6
    <2> QED
      BY <2>1 DEF AgeAt, StepAt, a
  <1>9. ASSUME NEW i \in a + 1 .. a + k
        PROVE  /\ AgeAt'[i] = AgeAt[a + 1]
               /\ StepAt'[i] = IF i = a + k THEN 1 ELSE 0
    <2>0. /\ a \in Nat /\ k \in Nat \ {0} /\ Len(requests) \in Nat \ {0}
          /\ Sent' = a + k /\ Total' = a + Len(requests) + k - 1
      BY <1>3, <1>5, <1>6
    <2>1. /\ i \in 1 .. Total' /\ ~(i <= a) /\ i <= Sent' /\ i - a \in 1 .. k
          /\ i = a + k <=> i - a = k
      BY <2>0
    <2>2. /\ AgeAt'[i] = report'[i - a].age
          /\ StepAt'[i] = IF report'[i - a].part = "eof" THEN 1 ELSE 0
      BY <2>1 DEF AgeAt, StepAt, a
    <2> QED
      BY <1>3, <1>4, <1>7, <2>1, <2>2
  <1>10. ASSUME NEW i \in a + k + 1 .. Total + k - 1
         PROVE  AgeAt'[i] = AgeAt[i - k + 1] /\ StepAt'[i] = StepAt[i - k + 1]
    <2>0. /\ a \in Nat /\ k \in Nat \ {0} /\ Len(requests) \in Nat \ {0}
          /\ Sent = a /\ Sent' = a + k /\ Total = a + Len(requests)
          /\ Total' = a + Len(requests) + k - 1
          /\ Len(requests') = Len(requests) - 1
      BY <1>3, <1>5, <1>6
    <2>1. /\ i \in 1 .. Total' /\ ~(i <= a) /\ ~(i <= Sent')
          /\ i - k + 1 \in 1 .. Total /\ ~(i - k + 1 <= a) /\ ~(i - k + 1 <= Sent)
          /\ i - Sent' \in 1 .. Len(requests')
          /\ (i - Sent') + 1 = (i - k + 1) - Sent
      BY <2>0
    <2>2. requests'[i - Sent'] = requests[(i - k + 1) - Sent]
      BY <1>5, <2>1
    <2> QED
      BY <2>1, <2>2 DEF AgeAt, StepAt, a
  <1> QED
    BY <1>3, <1>6, <1>7, <1>8, <1>9, <1>10 DEF a, k

LEMMA TrayCall ==
  ASSUME NisTypeOK, NisInv, Pending, NEW c, Call(c) PROVE Pending'
  <1>1. /\ pc = "idle" /\ conn' = conn /\ behind' = behind
        /\ pc' = (IF conn = "none" THEN "open" ELSE "send")
        /\ answers' = Outdated(answers) /\ report' = Outdated(report)
        /\ requests' = Outdated(requests)
    BY DEF Call
  <1>2. /\ Total \in Nat /\ Total' = Total
        /\ \A i \in 1 .. Total : /\ AgeAt[i] \in Nat /\ StepAt[i] \in {0, 1}
                                 /\ AgeAt'[i] = Older(AgeAt[i])
                                 /\ StepAt'[i] = StepAt[i]
    BY <1>1, PipeType, PipeCall
  <1>3. behind \in 0 .. MaxLate /\ MaxLate \in Nat
    BY BoundAssumption DEF NisTypeOK, BoundType
  <1>4. \A i \in 1 .. Total : AgeAt[i] <= behind - 1
    <2> SUFFICES ASSUME NEW i \in 1 .. Total PROVE AgeAt[i] <= behind - 1
      OBVIOUS
    <2>1. /\ 1 \in 1 .. Total /\ AgeAt[1] = behind - 1
          /\ AgeAt[1] \in Nat /\ StepAt[1] \in {0, 1} /\ AgeAt[i] \in Nat
      BY <1>1, <1>2 DEF Pending
    <2>2. CASE i = 1
      BY <2>1, <2>2
    <2>3. CASE 1 < i
      <3>1. AgeAt[i] <= AgeAt[1] - StepAt[1]
        BY <2>1, <2>3 DEF Pending, Falls
      <3> QED
        BY <1>3, <2>1, <3>1
    <2> QED
      BY <1>2, <2>2, <2>3
  <1>5. \A i \in 1 .. Total : AgeAt'[i] = AgeAt[i] + 1
    BY <1>2, <1>3, <1>4 DEF Older
  <1>6. Falls(AgeAt, StepAt, Total)'
    BY <1>2, <1>5, FallsOlder DEF Pending
  <1>7. Total' > 0 => AgeAt'[1] = behind'
    BY <1>1, <1>2, <1>3, <1>5 DEF Pending
  <1>8. conn' = "open" /\ Total' > 0 => StepAt'[Total'] = 1 /\ AgeAt'[Total'] = 1
    <2> SUFFICES ASSUME conn' = "open", Total' > 0
                 PROVE  StepAt'[Total'] = 1 /\ AgeAt'[Total'] = 1
      OBVIOUS
    <2>1. Total \in 1 .. Total
      BY <1>2
    <2>2. StepAt[Total] = 1 /\ AgeAt[Total] = 0
      BY <1>1, <1>2 DEF Pending
    <2> QED
      BY <1>2, <1>5, <2>1, <2>2
  <1> QED
    BY <1>1, <1>2, <1>6, <1>7, <1>8 DEF Pending

LEMMA TraySend ==
  ASSUME NisTypeOK, NisInv, Pending, conn = "open", pc = "send", pc' = "recv",
         requests' = Append(requests, [command |-> command, age |-> 0]),
         UNCHANGED <<conn, answers, report, got, drift>>
  PROVE  Pending'
  <1>1. /\ Total \in Nat /\ Total' = Total + 1
        /\ AgeAt'[Total + 1] = 0 /\ StepAt'[Total + 1] = 1
        /\ \A i \in 1 .. Total : /\ AgeAt[i] \in Nat /\ StepAt[i] \in {0, 1}
                                 /\ AgeAt'[i] = AgeAt[i] /\ StepAt'[i] = StepAt[i]
    <2>1. [command |-> command, age |-> 0].age = 0
      OBVIOUS
    <2> QED
      BY <2>1, PipeType, PipeAsk
  <1>2. Total > 0 => AgeAt[Total] = 1 /\ StepAt[Total] = 1
    BY DEF Pending
  <1>3. Falls(AgeAt, StepAt, Total)'
    BY <1>1, <1>2, FallsLast DEF Pending
  <1>4. AgeAt'[1] = behind'
    <2>1. CASE Total = 0
      BY <1>1, <2>1 DEF Pending
    <2>2. CASE Total > 0
      BY <1>1, <2>2 DEF Pending
    <2> QED
      BY <1>1, <2>1, <2>2
  <1>5. got' = <<>>
    BY DEF NisInv, Connected
  <1> QED
    BY <1>1, <1>3, <1>4, <1>5 DEF Pending

(* The tray keeps the connection when a call returns.                      *)
LEMMA TrayReceive ==
  ASSUME NisTypeOK, NisInv, Pending, program = "apctray", ~ragged, ~ragged',
         Receive
  PROVE  Pending'
  <1>0. pc = "recv" /\ behind \in Nat /\ ~torn
    BY BoundAssumption DEF Receive, NisTypeOK, BoundType, NisInv, Connected
  <1>1. ASSUME NEW failed \in BOOLEAN, Return(failed)
        PROVE  pc' = "idle" /\ UNCHANGED <<conn, report, requests, got>>
    BY <1>1 DEF Return
  <1>2. CASE TimesOut
    <2>1. /\ behind' = behind + 1 /\ answers' = answers /\ Return(TRUE)
          /\ conn = "open"
      BY <1>2, Zenon DEF TimesOut
    <2>2. pc' = "idle" /\ UNCHANGED <<conn, answers, report, requests, got>>
      BY <1>1, <2>1
    <2>3. Total' = Total /\ AgeAt' = AgeAt /\ StepAt' = StepAt
      BY <2>2 DEF Total, Sent, AgeAt, StepAt
    <2>4. Total \in Nat
      BY PipeType
    <2> QED
      BY <1>0, <2>1, <2>2, <2>3, <2>4 DEF Pending
  <1>3. CASE /\ answers # <<>> /\ Head(answers).part # "eof"
             /\ got' = Append(got, Head(answers)) /\ answers' = Tail(answers)
             /\ UNCHANGED <<who, conn, requests, daemonVars, callVars, result,
                            trayVars, torn, bounds, drift, cut>>
    <2>1. /\ Total \in Nat \ {0} /\ Total' = Total - 1
          /\ AgeAt[1] = Head(answers).age /\ StepAt[1] = 0
          /\ \A i \in 1 .. Total - 1 :
               AgeAt'[i] = AgeAt[i + 1] /\ StepAt'[i] = StepAt[i + 1]
      BY <1>3, PipeReceive
    <2>2. Falls(AgeAt, StepAt, Total)'
      <3>1. 1 \in Nat /\ Total - 1 \in Nat /\ 1 + (Total - 1) <= Total
        BY <2>1
      <3> QED
        BY <2>1, <3>1, FallsLater DEF Pending
    <2>3. AgeAt[1] = behind
      BY <1>0, <2>1 DEF Pending
    <2>4. Total' > 0 => AgeAt'[1] = behind
      <3> SUFFICES ASSUME Total' > 0 PROVE AgeAt'[1] = behind
        OBVIOUS
      <3>1. /\ 1 \in 1 .. Total /\ 1 + 1 \in 1 .. Total /\ 1 < Total
            /\ 1 \in 1 .. Total - 1 /\ 1 < 1 + 1
        BY <2>1
      <3>2. AgeAt[1 + 1] <= AgeAt[1] - StepAt[1] /\ AgeAt[1 + 1] >= AgeAt[1] - StepAt[1]
        BY <3>1 DEF Pending, Falls
      <3>3. AgeAt[1 + 1] \in Nat
        BY <3>1, PipeType
      <3> QED
        BY <1>0, <2>1, <2>3, <3>1, <3>2, <3>3
    <2>5. conn = "open" => Total' > 0
      <3> SUFFICES ASSUME conn = "open", Total = 1 PROVE FALSE
        BY <2>1
      <3>1. StepAt[Total] = 1
        BY <2>1 DEF Pending
      <3> QED
        BY <2>1, <3>1
    <2>6. conn = "open" => StepAt'[Total'] = 1 /\ AgeAt'[Total'] = 0
      <3> SUFFICES ASSUME conn = "open"
                   PROVE  StepAt'[Total'] = 1 /\ AgeAt'[Total'] = 0
        OBVIOUS
      <3>1. StepAt[Total] = 1 /\ AgeAt[Total] = 0
        BY <1>0, <2>1 DEF Pending
      <3>2. Total' \in 1 .. Total - 1 /\ Total' + 1 = Total
        BY <2>1, <2>5
      <3> QED
        BY <2>1, <3>1, <3>2
    <2>7. \A i \in 1 .. Len(got') : got'[i].age = behind
      <3>1. got \in Seq(Message) /\ answers \in Seq(Message)
        BY DEF NisTypeOK, MessageType
      <3>2. /\ Len(got') = Len(got) + 1 /\ Len(got) \in Nat
            /\ \A i \in 1 .. Len(got) : got'[i] = got[i]
            /\ got'[Len(got) + 1] = Head(answers)
        BY <1>3, <3>1
      <3>3. \A i \in 1 .. Len(got) : got[i].age = behind
        BY <1>0 DEF Pending
      <3>4. ASSUME NEW i \in 1 .. Len(got') PROVE got'[i].age = behind
        <4>1. i \in 1 .. Len(got) \/ i = Len(got) + 1
          BY <3>2
        <4> QED
          BY <2>1, <2>3, <3>2, <3>3, <4>1
      <3> QED
        BY <3>4
    <2>8. pc' = "recv" /\ conn' = conn /\ behind' = behind /\ conn # "none"
      BY <1>0, <1>3, <2>1 DEF Pending
    <2> QED
      BY <2>1, <2>2, <2>4, <2>5, <2>6, <2>7, <2>8 DEF Pending
  <1>4. CASE /\ answers # <<>> /\ Head(answers).part = "eof"
             /\ answers' = Tail(answers) /\ behind' = behind /\ Return(FALSE)
    <2>0. pc' = "idle" /\ UNCHANGED <<conn, report, requests, got>>
      BY <1>4 DEF Return
    <2>1. /\ Total \in Nat \ {0} /\ Total' = Total - 1
          /\ AgeAt[1] = Head(answers).age /\ StepAt[1] = 1
          /\ \A i \in 1 .. Total - 1 :
               AgeAt'[i] = AgeAt[i + 1] /\ StepAt'[i] = StepAt[i + 1]
      BY <1>4, <2>0, PipeReceive
    <2>2. Falls(AgeAt, StepAt, Total)'
      <3>1. 1 \in Nat /\ Total - 1 \in Nat /\ 1 + (Total - 1) <= Total
        BY <2>1
      <3> QED
        BY <2>1, <3>1, FallsLater DEF Pending
    <2>3. AgeAt[1] = behind
      BY <1>0, <2>1 DEF Pending
    <2>4. Total' > 0 => AgeAt'[1] = behind - 1
      <3> SUFFICES ASSUME Total' > 0 PROVE AgeAt'[1] = behind - 1
        OBVIOUS
      <3>1. /\ 1 \in 1 .. Total /\ 1 + 1 \in 1 .. Total /\ 1 < Total
            /\ 1 \in 1 .. Total - 1 /\ 1 < 1 + 1
        BY <2>1
      <3>2. AgeAt[1 + 1] <= AgeAt[1] - StepAt[1] /\ AgeAt[1 + 1] >= AgeAt[1] - StepAt[1]
        BY <3>1 DEF Pending, Falls
      <3>3. AgeAt[1 + 1] \in Nat
        BY <3>1, PipeType
      <3> QED
        BY <1>0, <2>1, <2>3, <3>1, <3>2, <3>3
    <2>5. conn = "open" => StepAt[Total] = 1 /\ AgeAt[Total] = 0
      BY <1>0, <2>1 DEF Pending
    <2>6. conn = "open" /\ Total' > 0 => StepAt'[Total'] = 1 /\ AgeAt'[Total'] = 0
      <3> SUFFICES ASSUME conn = "open", Total' > 0
                   PROVE  StepAt'[Total'] = 1 /\ AgeAt'[Total'] = 0
        OBVIOUS
      <3>1. Total' \in 1 .. Total - 1 /\ Total' + 1 = Total
        BY <2>1
      <3> QED
        BY <2>1, <2>5, <3>1
    <2>7. conn = "open" /\ Total' = 0 => behind = 0
      <3> SUFFICES ASSUME conn = "open", Total' = 0 PROVE behind = 0
        OBVIOUS
      <3>1. Total = 1
        BY <2>1
      <3> QED
        BY <2>3, <2>5, <3>1
    <2>8. conn # "none"
      BY <2>1 DEF Pending
    <2> QED
      BY <1>4, <2>0, <2>1, <2>2, <2>4, <2>6, <2>7, <2>8 DEF Pending
  <1>5. CASE /\ answers = <<>> /\ conn \in {"fin", "reset"}
             /\ Return(FALSE) \/ Return(TRUE)
             /\ UNCHANGED <<answers, drift>>
    <2>1. pc' = "idle" /\ UNCHANGED <<conn, report, requests, answers, behind>>
      BY <1>1, <1>5
    <2>2. report = <<>> /\ requests = <<>> /\ answers = <<>>
      BY <1>5 DEF NisInv, Connected
    <2>3. report' = <<>> /\ requests' = <<>> /\ answers' = <<>>
      BY <2>1, <2>2
    <2>4. Total' = 0
      BY <2>3 DEF Total, Sent
    <2> QED
      BY <1>5, <2>1, <2>4 DEF Pending, Falls
  <1> QED
    BY <1>0, <1>2, <1>3, <1>4, <1>5 DEF Receive

LEMMA TrayRead ==
  ASSUME NisTypeOK, NisInv, Pending, ~ragged', Read PROVE Pending'
  <1>1. /\ thread = "read" /\ requests # <<>> /\ requests' = Tail(requests)
        /\ UNCHANGED <<conn, answers, callVars, got, behind>>
    BY DEF Read
  <1>2. report = <<>> /\ conn = "open"
    BY <1>1 DEF NisInv, Connected
  <1>3. PICK parts \in Answers(Head(requests).command) :
          report' = Lines(parts, Head(requests).age)
    BY DEF Read, Lines
  <1> DEFINE a == Len(answers)
             k == Len(report')
  <1>4. /\ a \in Nat /\ k \in Nat \ {0} /\ a + 1 <= Total
        /\ Total' = Total + k - 1 /\ StepAt[a + 1] = 1
        /\ \A i \in 1 .. a : AgeAt'[i] = AgeAt[i] /\ StepAt'[i] = StepAt[i]
        /\ \A i \in a + 1 .. a + k :
             /\ AgeAt'[i] = AgeAt[a + 1]
             /\ StepAt'[i] = IF i = a + k THEN 1 ELSE 0
        /\ \A i \in a + k + 1 .. Total + k - 1 :
             AgeAt'[i] = AgeAt[i - k + 1] /\ StepAt'[i] = StepAt[i - k + 1]
    BY <1>1, <1>2, <1>3, PipeRead
  <1> HIDE DEF a, k
  <1>5. Total \in Nat /\ \A i \in 1 .. Total : AgeAt[i] \in Nat /\ StepAt[i] \in {0, 1}
    BY PipeType
  <1>6. Falls(AgeAt, StepAt, Total)'
    BY <1>4, <1>5, FallsAnswered DEF Pending
  <1>7. AgeAt'[1] = AgeAt[1]
    <2>1. CASE a = 0
      <3>1. 1 \in a + 1 .. a + k /\ a + 1 = 1
        BY <1>4, <2>1
      <3> QED
        BY <1>4, <3>1
    <2>2. CASE a # 0
      <3>1. 1 \in 1 .. a
        BY <1>4, <2>2
      <3> QED
        BY <1>4, <3>1
    <2> QED
      BY <2>1, <2>2
  <1>8. AgeAt'[Total'] = AgeAt[Total] /\ StepAt'[Total'] = StepAt[Total]
    <2>1. CASE Total = a + 1
      <3>1. /\ Total' = a + k /\ Total' \in a + 1 .. a + k
        BY <1>4, <1>5, <2>1
      <3> QED
        BY <1>4, <2>1, <3>1
    <2>2. CASE Total > a + 1
      <3>1. /\ Total' \in a + k + 1 .. Total + k - 1 /\ Total' - k + 1 = Total
        BY <1>4, <1>5, <2>2
      <3> QED
        BY <1>4, <3>1
    <2> QED
      BY <1>4, <1>5, <2>1, <2>2
  <1>9. Total > 0 /\ Total' > 0
    BY <1>4, <1>5
  <1> QED
    BY <1>1, <1>2, <1>5, <1>6, <1>7, <1>8, <1>9 DEF Pending

LEMMA TraySendLine ==
  ASSUME NisTypeOK, NisInv, Pending, SendLine PROVE Pending'
  <1>1. /\ report # <<>> /\ answers' = Append(answers, Head(report))
        /\ report' = Tail(report) /\ UNCHANGED <<conn, requests, callVars, got, behind>>
    BY DEF SendLine
  <1>2. /\ Total' = Total /\ Total \in Nat
        /\ \A i \in 1 .. Total : AgeAt'[i] = AgeAt[i] /\ StepAt'[i] = StepAt[i]
    BY <1>1, PipeSend, PipeType
  <1>3. Falls(AgeAt, StepAt, Total)'
    <2>1. 0 \in Nat /\ 0 + Total <= Total /\ \A i \in 1 .. Total : i + 0 = i
      BY <1>2
    <2> QED
      BY <1>2, <2>1, FallsLater DEF Pending
  <1>4. Total > 0 => 1 \in 1 .. Total /\ Total \in 1 .. Total
    BY <1>2
  <1> QED
    BY <1>1, <1>2, <1>3, <1>4 DEF Pending

(* The connection ends.                                                    *)
LEMMA TrayEnd ==
  ASSUME NisTypeOK, NisInv, Pending,
         conn' \in {"fin", "reset"}, requests' = <<>>, report' = <<>>,
         answers' \in {answers, <<>>}, UNCHANGED <<pc, got, behind>>
  PROVE  Pending'
  <1>1. CASE answers' = <<>>
    <2>1. Total' = 0
      BY <1>1 DEF Total, Sent
    <2> QED
      BY <2>1 DEF Pending, Falls
  <1>2. CASE answers' = answers
    <2>1. /\ Total' \in 0 .. Total /\ Total \in Nat
          /\ \A i \in 1 .. Total' : AgeAt'[i] = AgeAt[i] /\ StepAt'[i] = StepAt[i]
      BY <1>2, PipeClose, PipeType
    <2>2. Falls(AgeAt, StepAt, Total)'
      <3>1. \A n \in Nat : \A m \in 0 .. n : m \in Nat /\ 0 + m <= n
        BY SMT
      <3>2. 0 \in Nat /\ Total' \in Nat /\ 0 + Total' <= Total
        BY <2>1, <3>1
      <3>3. \A i \in 1 .. Total' : i + 0 = i
        BY <3>2
      <3> QED
        BY <2>1, <3>2, <3>3, FallsLater DEF Pending
    <2>3. Total' > 0 => 1 \in 1 .. Total' /\ Total > 0
      BY <2>1
    <2> QED
      BY <2>1, <2>2, <2>3 DEF Pending
  <1> QED
    BY <1>1, <1>2

LEMMA TrayFail == ASSUME Fail PROVE Pending'
  <1>1. Total' = 0 /\ behind' = 0 /\ pc' = "idle" /\ conn' = "none"
    BY DEF Fail, Disconnect, Total, Sent
  <1> QED
    BY <1>1 DEF Pending, Falls

LEMMA TrayNext ==
  ASSUME NisTypeOK, NisInv, TrayInv, [Next]_vars PROVE TrayInv'
  <1> SUFFICES ASSUME program' = "apctray", ~ragged', ~Fail PROVE Pending'
    BY TrayFail DEF TrayInv
  <1>1. program = "apctray" /\ ~ragged
    <2>1. program' = program
      BY DEF Next, Client, Server, Poll, Dialog, Call, Open, Fail, Send, SendFails, Receive,
             TimesOut, Return, Look, Read, SendLine, HangUp, IdleTimeout, Break, Start, vars
    <2>2. ragged => ragged'
      <3>1. TimesOut => (ragged => ragged')
        BY Zenon DEF TimesOut
      <3>2. Receive => (ragged => ragged')
        BY <3>1 DEF Receive
      <3>3. Read => (ragged => ragged')
        BY DEF Read
      <3> QED
        BY <3>2, <3>3 DEF Next, Client, Server, Poll, Dialog, Call, Open, Send, SendFails,
               Look, SendLine, HangUp, IdleTimeout, Break, Start, vars
    <2> QED
      BY <2>1, <2>2
  <1>2. Pending
    BY <1>1 DEF TrayInv
  <1>3. CASE Poll \/ Dialog
    BY <1>2, <1>3, TrayCall DEF Poll, Dialog
  <1>4. CASE Open
    <2>1. /\ pc = "open" /\ conn' = "open" /\ pc' = "send"
          /\ UNCHANGED <<requests, answers, report, got, behind>>
      BY <1>4 DEF Open
    <2>2. Total = 0 /\ behind = 0
      BY <1>2, <2>1 DEF Pending, NisInv, Connected
    <2>3. Total' = 0
      BY <2>1, <2>2 DEF Total, Sent
    <2> QED
      BY <2>1, <2>2, <2>3 DEF Pending, Falls
  <1>5. CASE Send
    <2>1. CASE /\ conn = "open" /\ pc' = "recv"
               /\ requests' = Append(requests, [command |-> command, age |-> 0])
               /\ UNCHANGED <<who, conn, answers, daemonVars, caller, command, got,
                              result, trayVars, torn, bounds, drift, cut>>
      BY <1>2, <1>5, <2>1, TraySend DEF Send
    <2>2. CASE /\ conn = "fin" /\ conn' = "reset" /\ answers' = <<>> /\ pc' = "recv"
               /\ UNCHANGED <<who, requests, daemonVars, caller, command, got,
                              result, trayVars, torn, bounds, drift, cut>>
      <3>1. report' = <<>> /\ requests' = <<>> /\ got' = <<>>
        BY <1>5, <2>2 DEF Send, NisInv, Connected
      <3>2. Total' = 0
        BY <2>2, <3>1 DEF Total, Sent
      <3> QED
        BY <2>2, <3>1, <3>2 DEF Pending, Falls
    <2> QED
      BY <1>1, <1>5, <2>1, <2>2 DEF Send, SendFails
  <1>6. CASE Receive
    BY <1>1, <1>2, <1>6, TrayReceive
  <1>7. CASE Read
    BY <1>2, <1>7, TrayRead
  <1>8. CASE SendLine
    BY <1>2, <1>8, TraySendLine
  <1>9. CASE IdleTimeout \/ HangUp
    BY <1>2, <1>9, TrayEnd DEF IdleTimeout, HangUp, Close
  <1>10. CASE Break /\ conn' \in {"fin", "reset"} /\ requests' = <<>> /\ report' = <<>>
              /\ answers' \in {answers, <<>>}
    BY <1>2, <1>10, TrayEnd DEF Break
  <1>11. CASE UNCHANGED <<conn, requests, answers, report, pc, got, behind>>
    <2>1. Total' = Total /\ AgeAt' = AgeAt /\ StepAt' = StepAt
      BY <1>11 DEF Total, Sent, AgeAt, StepAt
    <2> QED
      BY <1>2, <1>11, <2>1 DEF Pending
  <1> QED
    BY <1>3, <1>4, <1>5, <1>6, <1>7, <1>8, <1>9, <1>10, <1>11
    DEF Next, Client, Server, Look, Break, Close, Start, vars

LEMMA Invariant == NisSpec => [](NisTypeOK /\ NisInv /\ TrayInv)
  <1>1. Init => NisTypeOK /\ NisInv /\ TrayInv
    <2>1. Init => Total = 0 /\ behind = 0 /\ conn = "none" /\ pc = "idle"
      BY DEF Init, Total, Sent
    <2> QED
      BY <2>1, InitType DEF TrayInv, Pending, Falls
  <1>2. NisTypeOK /\ NisInv /\ TrayInv /\ [Next]_vars
          => (NisTypeOK /\ NisInv /\ TrayInv)'
    BY NextType, NextInv, TrayNext DEF NisInv
  <1> QED
    BY <1>1, <1>2, PTL DEF NisSpec

-----------------------------------------------------------------------------
(* Every variable keeps its type: in particular SendLine takes a line from *)
(* a report that has one, and what is received is always a message.        *)
THEOREM NisTypeCorrect == NisSpec => []NisTypeOK
  BY Invariant, PTL

(* What a call receives, as AnswersMatch has it: on a connection on which  *)
(* every line was received whole, each of its lines is of the request made *)
(* as many calls before as receives timed out, and of its own if none did  *)
(* (statmgr.cpp, upsfetch.c and apcaccess.c do not look at what they got). *)
THEOREM AnswersAreToTheRequest == NisSpec => []AnswersMatch
  <1>1. NisTypeOK /\ NisInv /\ TrayInv => AnswersMatch
    <2> SUFFICES ASSUME NisTypeOK, NisInv, TrayInv, pc = "recv", ~ragged,
                        NEW line \in ToSet(got)
                 PROVE  /\ line.age = behind
                        /\ behind = 0 =>
                             (command = "status" <=> line.part \in ToSet(StatusReport))
      BY DEF AnswersMatch
    <2>1. PICK i \in 1 .. Len(got) : line = got[i]
      BY DEF ToSet
    <2>2. ToSet(StatusReport) = {"head", "flag", "end"}
      <3>1. \A k \in 1 .. 3 : k = 1 \/ k = 2 \/ k = 3
        BY SMT
      <3> QED
        BY <3>1 DEF ToSet, StatusReport
    <2>3. ASSUME behind = 0
          PROVE  /\ line.age = 0
                 /\ command = "status" <=> line.part \in {"head", "flag", "end"}
      <3>1. /\ command \in {"status", "events"} /\ Len(got) \in Nat
            /\ line.age = 0 /\ line.part \in MayBe(command, i) /\ i < Size(command)
            /\ i \in Nat \ {0}
        BY <2>1, <2>3, LastIsEnd
        DEF NisInv, Received, Continues, NisTypeOK, MessageType, PlaceType
      <3>2. CASE command = "status"
        BY <3>1, <3>2 DEF MayBe, Size
      <3>3. CASE command = "events"
        BY <3>1, <3>3 DEF MayBe, Size
      <3> QED
        BY <3>1, <3>2, <3>3
    <2>4. CASE program = "apctray"
      <3>1. line.age = behind
        BY <2>1, <2>4 DEF TrayInv, Pending
      <3> QED
        BY <2>2, <2>3, <3>1
    <2>5. CASE program # "apctray"
      <3>1. behind = 0
        BY <2>5 DEF NisInv, Connected
      <3> QED
        BY <2>2, <2>3, <3>1
    <2> QED
      BY <2>4, <2>5
  <1> QED
    BY <1>1, Invariant, PTL

(* A status report that a program takes for complete (net_recv() returned  *)
(* 0 for it, or the tray would not know) is the whole report, unless the   *)
(* connection ended in it or, in the tray, a receive on that connection    *)
(* timed out or met a line longer than its buffer.                         *)
THEOREM ReportsWhole == NisSpec => []WholeUnlessCut
  <1>1. NisTypeOK /\ NisInv => WholeUnlessCut
    <2> SUFFICES ASSUME NisTypeOK, NisInv, result = "ok", command = "status", ~cut,
                        program = "apctray" => InStep
                 PROVE  Parts(got) = StatusReport
      BY DEF WholeUnlessCut
    <2>1. InStep
      BY DEF NisInv, Connected, InStep
    <2>2. Len(got) = 3 /\ \A i \in 1 .. 3 : got[i].part \in MayBe("status", i)
      <3>1. Len(got) = 3
        BY <2>1 DEF NisInv, Received, Size
      <3>2. \A i \in 1 .. Len(got) : got[i].part \in MayBe(command, 0 + i)
        BY <2>1 DEF NisInv, Received, Continues
      <3>3. \A i \in 1 .. 3 : 0 + i = i
        BY SMT
      <3> QED
        BY <3>1, <3>2, <3>3
    <2>3. got[1].part = "head" /\ got[2].part = "flag" /\ got[3].part = "end"
      BY <2>2 DEF MayBe
    <2>4. \A i \in 1 .. 3 : i = 1 \/ i = 2 \/ i = 3
      BY SMT
    <2>5. /\ Parts(got) = [i \in 1 .. 3 |-> got[i].part]
          /\ \A i \in 1 .. 3 : Parts(got)[i] = StatusReport[i]
      BY <2>2, <2>3, <2>4 DEF Parts, StatusReport
    <2>6. StatusReport = [i \in 1 .. 3 |-> StatusReport[i]]
      BY DEF StatusReport
    <2> QED
      BY <2>5, <2>6
  <1> QED
    BY <1>1, Invariant, PTL

=============================================================================
