-------------------------- MODULE SmartLinkProofs --------------------------
(* The lock of the UPS is with whom it protects, for any clients and any    *)
(* number of polls.                                                         *)
EXTENDS SmartLink, TLAPS

(* A poll is for a place in the pass; clients are served by the running     *)
(* daemon, so that main() takes the lock from nobody when it releases one   *)
(* it does not hold.                                                        *)
Places ==
  /\ pc \notin {"ask", "lock", "sleep"} \/ phase = "model" => posted < Polls
  /\ pc = "ask" => phase = "static"
  /\ phase # "body" => \A c \in Client : client[c] = "idle"

Inv == LinkTypeOK /\ LockDiscipline /\ CommEventsAlternate /\ Places

LEMMA Names == \A c \in Client : c # "free" /\ c # "main" /\ c # "driver"
  BY ClientAssumption

LEMMA InitInv == Init => Inv
  <1> SUFFICES ASSUME Init PROVE Inv
    OBVIOUS
  <1> USE NumPollsAssumption DEF Init
  <1>1. LinkTypeOK
    <2>1. link \in BOOLEAN /\ commlost \in BOOLEAN
      OBVIOUS
    <2>2. posted \in 0 .. NumPolls /\ tries \in 0 .. Retries
      BY DEF Retries, Polls
    <2>3. client \in [Client -> ClientPc]
      BY DEF ClientPc
    <2> QED
      BY <2>1, <2>2, <2>3 DEF LinkTypeOK, Pc, Polls
  <1>2. LockDiscipline
    BY Names DEF LockDiscipline, Outside
  <1>3. CommEventsAlternate /\ Places
    BY DEF CommEventsAlternate, Places, Polls
  <1> QED
    BY <1>1, <1>2, <1>3 DEF Inv

LEMMA PollInv == ASSUME Inv, PollStep PROVE Inv'
  <1> USE Names, NumPollsAssumption
  <1> USE DEF Inv, LinkTypeOK, LockDiscipline, CommEventsAlternate, Places, Pc,
      ClientPc, Outside, Retries, Polls, ModelPolls
  <1>1. CASE Lock
    <2>1. LinkTypeOK'
      BY <1>1 DEF Lock, Self
    <2>2. LockDiscipline'
      BY <1>1 DEF Lock, Self
    <2>3. CommEventsAlternate' /\ Places'
      BY <1>1 DEF Lock
    <2> QED
      BY <2>1, <2>2, <2>3
  <1>2. CASE Poll
    BY <1>2 DEF Poll
  <1>3. CASE Post
    BY <1>3 DEF Post
  <1>4. CASE Sleep \/ Ask \/ PostModel
    BY <1>4 DEF Sleep, Ask, PostModel
  <1>5. CASE Check
    <2>1. commlost' \in BOOLEAN /\ commlost' = commlost
      BY <1>5 DEF Check
    <2> QED
      BY <1>5, <2>1 DEF Check, Return
  <1>6. CASE Unlock
    BY <1>6 DEF Unlock
  <1>7. CASE Declare
    BY <1>7 DEF Declare, pollVars
  <1>8. CASE Answered
    BY <1>8 DEF Answered
  <1>9. CASE Relock
    <2>1. LinkTypeOK'
      <3>1. commlost' \in BOOLEAN
        BY <1>9 DEF Relock
      <3>2. told' = 0
        BY <1>9 DEF Relock
      <3>3. lock' \in {"main", "driver"}
        BY <1>9 DEF Relock, Self
      <3>4. pc' \in {"poll", "post"} /\ tries' \in 0 .. Retries
        BY <1>9 DEF Relock, Return
      <3> QED
        BY <1>9, <3>1, <3>2, <3>3, <3>4 DEF Relock
    <2>2. LockDiscipline'
      BY <1>9 DEF Relock, Return, Self
    <2>3. CommEventsAlternate' /\ Places'
      BY <1>9 DEF Relock, Return
    <2> QED
      BY <2>1, <2>2, <2>3
  <1> QED
    BY <1>1, <1>2, <1>3, <1>4, <1>5, <1>6, <1>7, <1>8, <1>9 DEF PollStep

LEMMA ClientInv ==
  ASSUME Inv, NEW c \in Client, Request(c) \/ ClientStep(c) \/ Close(c)
  PROVE  Inv'
  <1> USE Names
  <1> USE DEF Inv, LinkTypeOK, LockDiscipline, CommEventsAlternate, Places,
      ClientPc, ClientAt, pollVars, Polls, ModelPolls
  <1>1. CASE Request(c)
    BY <1>1 DEF Request
  <1>2. CASE Open(c)
    BY <1>2 DEF Open
  <1>3. CASE Read(c)
    BY <1>3 DEF Read
  <1>4. CASE EndRead(c)
    BY <1>4 DEF EndRead
  <1>5. CASE Close(c)
    BY <1>5 DEF Close
  <1> QED
    BY <1>1, <1>2, <1>3, <1>4, <1>5 DEF ClientStep

LEMMA NextInv == Inv /\ [Next]_vars => Inv'
  <1> SUFFICES ASSUME Inv, [Next]_vars PROVE Inv'
    OBVIOUS
  <1> USE DEF Inv, LinkTypeOK, LockDiscipline, CommEventsAlternate, Places, pollVars,
      Polls, ModelPolls
  <1>1. CASE LinkChanges
    BY <1>1 DEF LinkChanges
  <1>2. CASE UNCHANGED vars
    BY <1>2 DEF vars
  <1> QED
    BY <1>1, <1>2, PollInv, ClientInv DEF Next

(* Only the thread in a protected section has the lock.                     *)
THEOREM LockHeldInside == Spec => []LockDiscipline
  <1>1. Inv => LockDiscipline
    BY DEF Inv
  <1> QED
    BY <1>1, InitInv, NextInv, PTL DEF Spec

(* COMMFAILURE and COMMOK alternate.                                        *)
THEOREM CommAlternate == Spec => [](LinkTypeOK /\ CommEventsAlternate)
  <1>1. Inv => LinkTypeOK /\ CommEventsAlternate
    BY DEF Inv
  <1> QED
    BY <1>1, InitInv, NextInv, PTL DEF Spec

(* While a client makes its report no reading is stored; what it may find   *)
(* changed on the way is COMMLOST, and only from not set to set.            *)
THEOREM OnlyLossDuringReport == Spec => ReportsUndisturbed
  <1> DEFINE Undisturbed ==
        (\E c \in Client : client[c] = "report") =>
          UNCHANGED posted /\ (commlost' # commlost => commlost' /\ pc = "wait")
  <1>1. Inv /\ [Next]_vars => [Undisturbed]_vars
    <2> SUFFICES ASSUME Inv, [Next]_vars, NEW c \in Client, client[c] = "report"
                 PROVE  /\ posted' = posted
                        /\ commlost' # commlost => commlost' /\ pc = "wait"
      OBVIOUS
    <2>1. lock = c /\ phase = "body" /\ pc \in Outside
      BY Names DEF Inv, LinkTypeOK, LockDiscipline, Places
    <2>2. CASE PollStep
      <3>1. Sleep \/ Declare \/ Answered
        BY <2>1, <2>2, Names
        DEF PollStep, Lock, Poll, Post, Ask, PostModel, Check, Unlock, Relock, Outside,
            Inv, Places
      <3>2. CASE Declare
        BY <3>2 DEF Declare, pollVars
      <3>3. CASE Sleep \/ Answered
        BY <2>1, <3>3 DEF Sleep, Answered
      <3> QED BY <3>1, <3>2, <3>3
    <2>3. ASSUME NEW d \in Client, Request(d) \/ ClientStep(d) \/ Close(d)
          PROVE  posted' = posted /\ commlost' = commlost
      BY <2>3 DEF Request, ClientStep, Open, Read, EndRead, Close, pollVars
    <2>4. CASE LinkChanges \/ UNCHANGED vars
      BY <2>4 DEF LinkChanges, vars, pollVars
    <2> QED
      BY <2>2, <2>3, <2>4 DEF Next
  <1> QED
    BY <1>1, InitInv, NextInv, PTL DEF Spec, ReportsUndisturbed

(* The driver, the link and the clients are well typed, for any clients.   *)
COROLLARY LinkTypeCorrect == Spec => []LinkTypeOK
  BY CommAlternate, PTL

-----------------------------------------------------------------------------
(* The report buffer of apcnis.c is with the client that was let in, up to  *)
(* the end of its report.                                                   *)
BufferDiscipline ==
  /\ \A c \in Client : buffer = c <=> client[c] \in {"read", "report", "send"}
  /\ buffer # "free" => buffer \in Client

(* While main() reads the capabilities it is like the driver thread; while  *)
(* it reads the static data it has no lock, and what UPSlinkCheck() took on *)
(* its return stays taken, for get_apc_model() and the driver thread, too.  *)
StartDiscipline ==
  /\ phase = "caps" => (lock = "main" <=> pc \notin Outside) /\ pc # "sleep"
  /\ phase = "static" => lock \in {"free", "main"} /\ pc # "lock"
  /\ phase = "static" /\ pc = "sleep" => lock = "free"
  /\ phase = "model" => lock \in {"free", "main"} /\ pc # "sleep"
  /\ phase = "model" /\ pc # "lock" => (lock = "main" <=> pc \notin Outside)
  /\ phase = "body" => lock # "main" \/ pc \in {"lock", "sleep"}

OneReport ==
  \A c, d \in Client :
    /\ client[c] \in {"read", "report", "send"}
    /\ client[d] \in {"read", "report", "send"}
    => c = d

(* smart.c on UPSlinkCheck(), where the pass it was called from has the     *)
(* lock.                                                                    *)
CheckHoldsLock == phase # "static" => LinkCheckHoldsLock

(* While the lock is left with main() the UPS is not polled under it and no *)
(* report is given, and that lasts.                                         *)
StaysLeft == [][LeftLocked => /\ LeftLocked'
                              /\ \A c \in Client : client'[c] # "report"]_vars

SInv == Inv /\ BufferDiscipline /\ StartDiscipline

LEMMA InitSInv == Init => SInv
  <1>1. Init => BufferDiscipline /\ StartDiscipline
    BY Names DEF Init, BufferDiscipline, StartDiscipline, Outside
  <1> QED
    BY <1>1, InitInv DEF SInv

LEMMA NextBuffer == SInv /\ [Next]_vars => BufferDiscipline'
  <1> SUFFICES ASSUME SInv, [Next]_vars PROVE BufferDiscipline'
    OBVIOUS
  <1> USE Names DEF SInv, Inv, LinkTypeOK, BufferDiscipline
  <1>1. CASE PollStep \/ LinkChanges \/ UNCHANGED vars
    BY <1>1 DEF PollStep, Lock, Poll, Post, Ask, PostModel, Sleep, Check, Unlock,
       Declare, Answered, Relock, LinkChanges, vars
  <1>2. ASSUME NEW c \in Client, Request(c) \/ ClientStep(c) \/ Close(c)
        PROVE  BufferDiscipline'
    BY <1>2 DEF Request, ClientStep, Open, Read, EndRead, Close, ClientAt
  <1> QED
    BY <1>1, <1>2 DEF Next

LEMMA NextStart == SInv /\ [Next]_vars => StartDiscipline'
  <1> SUFFICES ASSUME SInv, [Next]_vars PROVE StartDiscipline'
    OBVIOUS
  <1> USE Names DEF SInv, Inv, LinkTypeOK, LockDiscipline, Places, StartDiscipline,
      Outside
  <1>1. CASE PollStep
    <2>1. CASE Lock BY <2>1 DEF Lock, Self
    <2>2. CASE Poll BY <2>2 DEF Poll
    <2>3. CASE Post BY <2>3 DEF Post
    <2>4. CASE Sleep \/ Ask \/ PostModel BY <2>4 DEF Sleep, Ask, PostModel
    <2>5. CASE Check BY <2>5 DEF Check, Return
    <2>6. CASE Unlock BY <2>6 DEF Unlock
    <2>7. CASE Declare \/ Answered BY <2>7 DEF Declare, Answered, pollVars
    <2>8. CASE Relock BY <2>8 DEF Relock, Return, Self
    <2> QED
      BY <1>1, <2>1, <2>2, <2>3, <2>4, <2>5, <2>6, <2>7, <2>8 DEF PollStep
  <1>2. ASSUME NEW c \in Client, Request(c) \/ ClientStep(c) \/ Close(c)
        PROVE  StartDiscipline'
    BY <1>2 DEF Request, ClientStep, Open, Read, EndRead, Close, ClientAt, pollVars
  <1>3. CASE LinkChanges \/ UNCHANGED vars
    BY <1>3 DEF LinkChanges, vars, pollVars
  <1> QED
    BY <1>1, <1>2, <1>3 DEF Next

LEMMA LinkInvariance == Spec => []SInv
  <1>1. SInv /\ [Next]_vars => SInv'
    BY NextInv, NextBuffer, NextStart DEF SInv
  <1> QED
    BY <1>1, InitSInv, PTL DEF Spec

(* The report buffer is never filled for one client while another reads or  *)
(* sends from it (apcnis.c, output_status).                                 *)
THEOREM BufferForOne == Spec => []OneReport
  <1>1. SInv => OneReport
    BY DEF SInv, BufferDiscipline, OneReport
  <1> QED
    BY <1>1, LinkInvariance, PTL

(* UPSlinkCheck() is called with the lock held except from ReadStaticData,  *)
(* which takes none: the start is the only place where the comment in       *)
(* smart.c does not hold.                                                   *)
THEOREM HeldAfterStart == Spec => []CheckHoldsLock
  <1>1. SInv => CheckHoldsLock
    BY DEF SInv, Inv, LinkTypeOK, LockDiscipline, StartDiscipline, CheckHoldsLock,
       LinkCheckHoldsLock, Self, Outside
  <1> QED
    BY <1>1, LinkInvariance, PTL

(* A link that drops in ReadStaticData and comes back leaves the lock with  *)
(* main(), which waits for it itself in get_apc_model(), or lets the driver *)
(* thread wait: the daemon neither takes a pass nor serves anyone.          *)
THEOREM LeftForGood == Spec => StaysLeft
  <1> DEFINE Left == LeftLocked => /\ LeftLocked'
                                   /\ \A c \in Client : client'[c] # "report"
  <1>1. SInv /\ [Next]_vars => [Left]_vars
    <2> SUFFICES ASSUME SInv, [Next]_vars, LeftLocked
                 PROVE  /\ LeftLocked'
                        /\ \A c \in Client : client'[c] # "report"
      OBVIOUS
    <2>1. /\ lock = "main" /\ pc \in {"ask", "lock", "sleep"}
          /\ pc = "sleep" => phase = "body"
          /\ \A c \in Client : client[c] # "report"
      BY Names DEF SInv, Inv, LinkTypeOK, LockDiscipline, StartDiscipline, LeftLocked,
         Outside
    <2>2. CASE PollStep
      BY <2>1, <2>2 DEF LeftLocked, PollStep, Lock, Poll, Post, Ask, PostModel, Sleep,
         Check, Unlock, Declare, Answered, Relock
    <2>3. ASSUME NEW c \in Client, Request(c) \/ ClientStep(c) \/ Close(c)
          PROVE  /\ LeftLocked'
                 /\ \A d \in Client : client'[d] # "report"
      BY <2>1, <2>3 DEF LeftLocked, SInv, Inv, LinkTypeOK, Request, ClientStep, Open,
         Read, EndRead, Close, ClientAt, pollVars
    <2>4. CASE LinkChanges \/ UNCHANGED vars
      BY <2>1, <2>4 DEF LeftLocked, LinkChanges, vars, pollVars
    <2> QED
      BY <2>2, <2>3, <2>4 DEF Next
  <1> QED
    BY <1>1, LinkInvariance, PTL DEF Spec, StaysLeft
=============================================================================
