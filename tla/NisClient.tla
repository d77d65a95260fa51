----------------------------- MODULE NisClient -----------------------------
(***************************************************************************)
(* A program that asks the network information server for its reports, the *)
(* TCP connection, and the server's thread for it: the Windows tray, which *)
(* keeps its connection (win32/statmgr.cpp), apcaccess, and the CGI        *)
(* programs (cgi/upsfetch.c), which open one for each report.              *)
(*                                                                         *)
(* A message is one line of a report, or the empty one that ends it.  A    *)
(* call of net_recv() or net_send() is one step.  The daemon may die, the  *)
(* network may break the connection or delay it for longer than a receive  *)
(* waits.  How a report is filled under the locks is in SmartLink.         *)
(***************************************************************************)
EXTENDS Naturals, FiniteSets, Sequences, SequencesExt

CONSTANTS
  MaxBuffer,   \* bound: messages that a direction of the connection holds
  MaxLate,     \* bound: receives that time out
  MaxBroken,   \* bound: deaths of the daemon, and broken connections
  MaxUser,     \* bound: reports asked for with the dialogs of the tray
  MaxWide      \* bound: sorts of lines that are too long for the tray

ASSUME BoundAssumption == /\ MaxBuffer \in Nat \ {0}
                          /\ {MaxLate, MaxBroken, MaxUser, MaxWide} \subseteq Nat

VARIABLES
  program,     \* which one this is
  wide,        \* the lines that its buffer does not hold
  \* the connection
  conn,        \* "none", "open", "fin" (the server closed it) or "reset"
  requests,    \* to the server
  answers,     \* to the client
  \* the daemon
  up,          \* it runs
  thread,      \* handle_client_request: "none", "read", "send", or "bail" if
               \* it ends after what it sends
  report,      \* what it has still to send
  \* the client
  pc,          \* "idle", "open", "send" or "recv"; not idle: StatMgr is locked
  caller,      \* "poll", the thread that polls or main(), or "dialog"
  command,     \* "status" or "events"
  got,         \* the lines received by this call, or the last one
  result,      \* of it: "none", "ok" or "failed"
  stats,       \* m_stats: the lines of the last status report
  look,        \* FetchStatus: Update() was true, m_stats not yet looked at
  icon,        \* of the tray
  torn,        \* the next line was received in part
  \* bounds and history
  lates, broken, user,
  behind,      \* calls on this connection that a timeout ended
  ragged,      \* a line was received in part, or a request given up, on it
  cut          \* the connection was no longer open when the call ended

who == <<program, wide>>
connVars == <<conn, requests, answers>>
daemonVars == <<up, thread, report>>
callVars == <<pc, caller, command>>
trayVars == <<stats, look, icon>>
bounds == <<lates, broken, user>>
drift == <<behind, ragged>>
vars == <<who, connVars, daemonVars, callVars, got, result, trayVars, torn,
          bounds, drift, cut>>

(* "flag" is the line the icon is made from.                               *)
StatusReport == <<"head", "flag", "end">>

(* age: the calls that were made since the one whose request it is, or     *)
(* belongs to.                                                             *)
Age == 0 .. MaxLate + 1
Request == [command : {"status", "events"}, age : Age]
Message == [part : {"head", "flag", "end", "event", "n/a", "eof"}, age : Age]

Older(age) == IF age = MaxLate + 1 THEN age ELSE age + 1
Outdated(messages) ==
  [i \in 1 .. Len(messages) |-> [messages[i] EXCEPT !.age = Older(@)]]

(* What a call receives belongs to its own request.                        *)
InStep == behind = 0 /\ ~ragged

Parts(lines) == [i \in 1 .. Len(lines) |-> lines[i].part]

MessageType ==
  /\ requests \in Seq(Request) /\ answers \in Seq(Message) /\ report \in Seq(Message)
  /\ got \in Seq(Message) /\ stats \in Seq(Message)

PlaceType ==
  /\ program \in {"apctray", "apcaccess", "upsfetch"}
  /\ wide \subseteq {"head", "end", "event"}
  /\ conn \in {"none", "open", "fin", "reset"}
  /\ up \in BOOLEAN /\ thread \in {"none", "read", "send", "bail"}
  /\ pc \in {"idle", "open", "send", "recv"}
  /\ caller \in {"poll", "dialog"} /\ command \in {"status", "events"}
  /\ result \in {"none", "ok", "failed"}
  /\ look \in BOOLEAN /\ torn \in BOOLEAN /\ ragged \in BOOLEAN /\ cut \in BOOLEAN
  /\ icon \in {"none", "fine", "error", "network"}

BoundType ==
  /\ lates \in 0 .. MaxLate /\ behind \in 0 .. MaxLate
  /\ broken \in 0 .. MaxBroken /\ user \in 0 .. MaxUser

NisTypeOK == MessageType /\ PlaceType /\ BoundType

(* StatMgr::Update() gives a line 99 bytes (MAX_DATA); a line has up to    *)
(* 255, which the other buffers hold.  The line of the flag is short.      *)
Init ==
  /\ program \in {"apctray", "apcaccess", "upsfetch"}
  /\ wide \in SUBSET {"head", "end", "event"}
  /\ Cardinality(wide) <= MaxWide
  /\ program # "apctray" => wide = {}
  /\ conn = "none" /\ requests = <<>> /\ answers = <<>>
  /\ up \in BOOLEAN /\ thread = "none" /\ report = <<>>
  /\ pc = "idle" /\ caller = "poll" /\ command = "status"
  /\ got = <<>> /\ result = "none"
  /\ stats = <<>> /\ look = FALSE /\ icon = "none" /\ torn = FALSE
  /\ lates = 0 /\ broken = 0 /\ user = 0 /\ behind = 0 /\ ragged = FALSE
  /\ cut = FALSE

-----------------------------------------------------------------------------
(* The client.  A call starts: what is still under way is for older ones.  *)
Call(c) ==
  /\ pc = "idle"
  /\ pc' = IF conn = "none" THEN "open" ELSE "send"
  /\ command' = c /\ got' = <<>> /\ result' = "none" /\ cut' = FALSE
  /\ requests' = Outdated(requests)
  /\ answers' = Outdated(answers) /\ report' = Outdated(report)
  /\ UNCHANGED <<who, conn, up, thread, trayVars, torn, lates, broken, drift>>

(* The tray polls; the others ask once.                                    *)
Poll ==
  /\ ~look
  /\ program = "apctray" \/ result = "none"
  /\ caller' = "poll"
  /\ \/ Call("status")
     \/ program = "upsfetch" /\ Call("events")
  /\ UNCHANGED user

(* The dialogs run in the tray's main thread.                              *)
Dialog ==
  /\ program = "apctray" /\ user < MaxUser
  /\ user' = user + 1 /\ caller' = "dialog"
  /\ Call("status") \/ Call("events")

Disconnect ==
  /\ conn' = "none" /\ requests' = <<>> /\ answers' = <<>>
  /\ thread' = "none" /\ report' = <<>>
  /\ behind' = 0 /\ ragged' = FALSE /\ torn' = FALSE

(* Nothing was received; a new thread of the server ends by itself.        *)
Fail ==
  /\ pc' = "idle" /\ result' = "failed" /\ cut' = TRUE
  /\ icon' = IF program = "apctray" /\ caller = "poll" THEN "network" ELSE icon
  /\ Disconnect
  /\ UNCHANGED <<who, up, caller, command, got, stats, look, bounds>>

(* net_open().  StatMgr::open() takes the error for a socket, and fails in *)
(* net_send() instead.                                                     *)
Open ==
  /\ pc = "open"
  /\ \/ ~up /\ Fail
     \/ /\ up
        /\ conn' = "open" /\ thread' = "read" /\ pc' = "send"
        /\ UNCHANGED <<who, requests, answers, up, report, caller, command, got,
                       result, trayVars, torn, bounds, drift, cut>>

(* Mutant: the tray keeps the socket that it could not send to.            *)
SendFailsKept ==
  /\ pc' = "idle" /\ result' = "failed" /\ cut' = TRUE
  /\ icon' = IF program = "apctray" /\ caller = "poll" THEN "network" ELSE icon
  /\ UNCHANGED <<who, connVars, daemonVars, caller, command, got, stats, look,
                 torn, bounds, drift>>

(* The tray and upsfetch give up; apcaccess does not look at the result.   *)
SendFails ==
  \/ program # "apcaccess" /\ Fail
  \/ /\ program = "apcaccess"
     /\ pc' = "recv" /\ conn' = "reset" /\ answers' = <<>>
     /\ UNCHANGED <<who, requests, daemonVars, caller, command, got, result,
                    trayVars, torn, bounds, drift, cut>>

(* net_send().  What is sent to a closed connection is answered with a     *)
(* reset, which also discards what was not received yet.                   *)
Send ==
  /\ pc = "send"
  /\ \/ conn = "open" /\ Len(requests) < MaxBuffer
        /\ requests' = Append(requests, [command |-> command, age |-> 0])
        /\ pc' = "recv"
        /\ UNCHANGED <<who, conn, answers, daemonVars, caller, command, got,
                       result, trayVars, torn, bounds, drift, cut>>
     \/ conn = "fin"
        /\ conn' = "reset" /\ answers' = <<>> /\ pc' = "recv"
        /\ UNCHANGED <<who, requests, daemonVars, caller, command, got, result,
                       trayVars, torn, bounds, drift, cut>>
     \/ conn \in {"fin", "reset"} /\ SendFails

(* The call ends.  No error of net_recv() is -1, the only one that StatMgr *)
(* knows: Update() and GetEvents() are true, and the socket is kept.       *)
Return(failed) ==
  /\ pc' = "idle"
  /\ cut' = (conn # "open")
  /\ \/ /\ program = "apctray"
        /\ result' = "ok"
        /\ look' = (look \/ (caller = "poll"))
        /\ stats' = IF command = "status" THEN got ELSE stats
        /\ UNCHANGED <<conn, thread, report>>
     \/ /\ program # "apctray"
        /\ result' = IF failed THEN "failed" ELSE "ok"
        /\ conn' = "none" /\ thread' = "none" /\ report' = <<>>
        /\ UNCHANGED <<look, stats>>
  /\ UNCHANGED <<who, requests, up, caller, command, got, icon, broken, user>>

(* Mutant: read_nbytes() returns 0 when it has waited in vain.             *)
TimesOutAsEof ==
  /\ conn = "open" /\ lates < MaxLate
  /\ lates' = lates + 1 /\ behind' = behind + 1
  /\ torn' \in BOOLEAN /\ (torn' => report # <<>> \/ answers # <<>>)
  /\ ragged' = (ragged \/ torn')
  /\ Return(FALSE)
  /\ UNCHANGED answers

(* 15 seconds without a byte, before a header or before the line itself.   *)
TimesOut ==
  /\ conn = "open" /\ lates < MaxLate
  /\ lates' = lates + 1 /\ behind' = behind + 1
  /\ torn' \in BOOLEAN /\ (torn' => report # <<>> \/ answers # <<>>)
  /\ ragged' = (ragged \/ torn')
  /\ Return(TRUE)
  /\ UNCHANGED answers

(* A line is longer than the buffer: its header is gone, the line stays.   *)
TooLong(line) == command = "status" /\ line.part \in wide

(* net_recv().  The rest of a line is read as sizes, two bytes by call and *)
(* none of them plausible, until a header happens to be next again.        *)
Receive ==
  /\ pc = "recv"
  /\ \/ ~torn /\ answers # <<>>
        /\ \/ /\ Head(answers).part # "eof" /\ ~TooLong(Head(answers))
              /\ got' = Append(got, Head(answers)) /\ answers' = Tail(answers)
              /\ UNCHANGED <<who, conn, requests, daemonVars, callVars, result,
                             trayVars, torn, bounds, drift, cut>>
           \/ /\ Head(answers).part = "eof" /\ answers' = Tail(answers)
              /\ Return(FALSE) /\ UNCHANGED <<torn, lates, drift>>
           \/ /\ TooLong(Head(answers)) /\ torn' = TRUE /\ ragged' = TRUE
              /\ Return(TRUE) /\ UNCHANGED <<answers, lates, behind>>
     \/ torn /\ answers # <<>>
        /\ torn' \in BOOLEAN /\ answers' \in {answers, Tail(answers)}
        /\ (answers' = answers => torn')
        /\ Return(TRUE) /\ UNCHANGED <<lates, drift>>
     \/ answers = <<>> /\ conn \in {"fin", "reset"}
        /\ \/ Return(FALSE)
           \/ conn = "reset" /\ Return(TRUE)
        /\ UNCHANGED <<answers, torn, lates, drift>>
     \/ TimesOut

(* FetchStatus after Update(), with locks of its own: a dialog may have    *)
(* called Update() in between.                                             *)
Look ==
  /\ look /\ pc = "idle"
  /\ look' = FALSE
  /\ icon' = IF Contains(Parts(stats), "flag") THEN "fine" ELSE "error"
  /\ UNCHANGED <<who, connVars, daemonVars, callVars, got, result, stats, torn,
                 bounds, drift, cut>>

-----------------------------------------------------------------------------
(* The server.                                                             *)
(* Mutant: a second end when there are no events to be had.                *)
AnswersTwice(c) ==
  IF c = "status" THEN {StatusReport \o <<"eof">>}
                  ELSE {<<"event", "eof">>, <<"n/a", "eof", "eof">>}

(* output_status(), or output_events() if the events file can be opened.   *)
(* Out of memory, the latter ends the answer before its caller gives up.   *)
(* (A line that cannot be sent ends an answer too: on a connection that    *)
(* takes no more.)                                                         *)
Answers(c) ==
  IF c = "status" THEN {StatusReport \o <<"eof">>}
                  ELSE {<<"event", "eof">>, <<"n/a", "eof">>}
GivesUp == <<"eof", "n/a", "eof">>

Read ==
  /\ thread = "read" /\ requests # <<>>
  /\ LET request == Head(requests)
         Sends(parts) == report' = [i \in 1 .. Len(parts) |->
                                      [part |-> parts[i], age |-> request.age]]
     IN  \/ /\ \E parts \in Answers(request.command) : Sends(parts)
            /\ thread' = "send" /\ UNCHANGED ragged
         \/ /\ request.command = "events" /\ Sends(GivesUp)
            /\ thread' = "bail" /\ ragged' = TRUE
  /\ requests' = Tail(requests)
  /\ UNCHANGED <<who, conn, answers, up, callVars, got, result, trayVars, torn,
                 bounds, behind, cut>>

(* One line.  It waits while the client does not receive.                  *)
SendLine ==
  /\ thread \in {"send", "bail"} /\ report # <<>> /\ Len(answers) < MaxBuffer
  /\ answers' = Append(answers, Head(report)) /\ report' = Tail(report)
  /\ thread' = IF thread = "send" /\ Len(report) = 1 THEN "read" ELSE thread
  /\ UNCHANGED <<who, conn, requests, up, callVars, got, result, trayVars, torn,
                 bounds, drift, cut>>

(* The server closes its side: with a reset if it has not read everything. *)
Close ==
  /\ conn' = IF requests = <<>> THEN "fin" ELSE "reset"
  /\ answers' = IF requests = <<>> THEN answers ELSE <<>>
  /\ requests' = <<>> /\ thread' = "none" /\ report' = <<>>

(* The server waits for a request no longer than for anything else.  Only  *)
(* a tray that polls every 15 seconds or less often keeps it waiting.      *)
IdleTimeout ==
  /\ thread = "read" /\ requests = <<>> /\ pc = "idle"
  /\ Close
  /\ UNCHANGED <<who, up, callVars, got, result, trayVars, torn, bounds, drift, cut>>

(* The thread that gave up ends.                                           *)
HangUp ==
  /\ thread = "bail" /\ report = <<>>
  /\ Close
  /\ UNCHANGED <<who, up, callVars, got, result, trayVars, torn, bounds, drift, cut>>

(* External: the daemon stops, or only the connection breaks.              *)
Break ==
  /\ up /\ broken < MaxBroken
  /\ broken' = broken + 1
  /\ \/ /\ up' = FALSE
        /\ \/ conn = "open" /\ Close
           \/ conn # "open" /\ UNCHANGED <<connVars, thread, report>>
     \/ /\ conn = "open"
        /\ conn' = "reset" /\ requests' = <<>> /\ answers' = <<>>
        /\ thread' = "none" /\ report' = <<>>
        /\ UNCHANGED up
  /\ UNCHANGED <<who, callVars, got, result, trayVars, torn, lates, user, drift, cut>>

Start ==
  /\ ~up /\ up' = TRUE
  /\ UNCHANGED <<who, connVars, thread, report, callVars, got, result, trayVars,
                 torn, bounds, drift, cut>>

-----------------------------------------------------------------------------
Client == Poll \/ Open \/ Send \/ Receive \/ Look
Server == Read \/ SendLine \/ HangUp
Next == Client \/ Dialog \/ Server \/ IdleTimeout \/ Break \/ Start

(* The poll thread, and the server's, are not starved.  A receive times    *)
(* out only if nothing else becomes of it.                                 *)
NisSpec ==
  /\ Init /\ [][Next]_vars
  /\ WF_vars(Poll) /\ WF_vars(Open) /\ WF_vars(Send) /\ WF_vars(Receive)
  /\ WF_vars(Look) /\ WF_vars(Read) /\ WF_vars(SendLine)
  /\ WF_vars(HangUp)

-----------------------------------------------------------------------------
(* On a connection on which every line was received whole, a call gets the *)
(* lines of the request that was made exactly as many calls before it as   *)
(* receives have timed out; if none has, those of its own request, of the  *)
(* report it asked for.  The tray never comes back into step by itself     *)
(* (statmgr.cpp:84 looks for an error that net_recv() does not return).    *)
AnswersMatch ==
  pc = "recv" /\ ~ragged =>
    \A line \in ToSet(got) :
      /\ line.age = behind
      /\ behind = 0 =>
           (command = "status" <=> line.part \in ToSet(StatusReport))

(* A status report that a program takes for the server's answer is whole,  *)
(* unless the connection ended in it, or, in the tray, a receive on that   *)
(* connection timed out or met a line longer than its buffer: net_recv()   *)
(* tells the end of the connection no different from the end of a report   *)
(* (apclibnis.c:96), and the tray none of its errors.                      *)
WholeUnlessCut ==
  result = "ok" /\ command = "status" /\ ~cut /\ (program = "apctray" => InStep) =>
    Parts(got) = StatusReport

(* If the daemon runs from some time on, and the tray's connection is not  *)
(* one on which a line was received in part, then the icon shows the       *)
(* status of the UPS again and again: neither the end of a connection nor  *)
(* a receive that timed out between two lines keeps the tray from it.      *)
Recovers ==
  program = "apctray" /\ <>[](up /\ ~ragged) => []<><<Look /\ icon' = "fine">>_vars

(* The same of a connection whatever was received on it.  A line longer    *)
(* than MAX_DATA, before that of the flag, keeps the icon from it for      *)
(* good, and the tray does not close the connection.                       *)
RecoversAnyway ==
  program = "apctray" /\ <>[]up => []<><<Look /\ icon' = "fine">>_vars

=============================================================================
