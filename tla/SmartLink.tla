------------------------------ MODULE SmartLink ------------------------------
(***************************************************************************)
(* The UPS lock (UPSINFO::mutex), the serial link of the apcsmart driver,  *)
(* and the clients of the network information server.                      *)
(*                                                                         *)
(* The driver polls under the lock.  A poll that is not answered calls     *)
(* UPSlinkCheck(), which waits for the link with the lock released and     *)
(* tells the users of a loss that lasts, and of the return.  A client      *)
(* fills the one report buffer under the lock and sends it without.        *)
(* main() polls the UPS itself before the driver thread exists: for the    *)
(* capabilities under the lock, for the static data without it, and for    *)
(* the model in get_apc_model() under it again.                            *)
(*                                                                         *)
(* One poll, and one section under the lock that does not block, is one    *)
(* step.  A poll is answered if the link is up; link is external.  The     *)
(* five polls for a status that reads "SM" are one.                        *)
(***************************************************************************)
EXTENDS Naturals

CONSTANTS
  Client,     \* threads that serve a network client
  NumPolls    \* polls of one pass over the UPS

ASSUME ClientAssumption == Client \cap {"free", "main", "driver"} = {}
ASSUME NumPollsAssumption == NumPolls \in Nat \ {0}

Retries == 2     \* of smart_poll(), for any command but "Y"
ModelPolls == 2  \* of get_apc_model(): the model code, the firmware

VARIABLES
  link,       \* the UPS answers
  lock,       \* UPSINFO::mutex: who took it, or "free"
  buffer,     \* apcnis.c, mutex: the client that has the buffer, or "free"
  phase,      \* GetCapabilities, ReadStaticData, its get_apc_model(), or the
              \* driver thread's body
  pc,         \* where the thread that polls is
  caller,     \* who called UPSlinkCheck: the pass, or one of its polls
  posted,     \* polls of this pass whose answers are in the database
  tries,      \* smart_poll: retry
  commlost,   \* the UPS_commlost bit of UPSINFO::Status
  told,       \* history: COMMFAILUREs generated, less the COMMOKs
  client      \* [Client -> ClientPc]

pollVars == <<phase, pc, caller, posted, tries>>
vars == <<link, lock, buffer, pollVars, commlost, told, client>>

Polls == IF phase = "model" THEN ModelPolls ELSE NumPolls

(* "unlock", "wait" and "relock" are inside UPSlinkCheck, after its first  *)
(* poll went unanswered; "check" is that poll.  Its static linkcheck flag  *)
(* is set in these four: smart_poll() does not call it again there.        *)
Pc == {"ask", "lock", "check", "unlock", "wait", "relock", "poll", "post", "sleep"}

ClientPc == {"idle", "open", "read", "report", "send"}

LinkTypeOK ==
  /\ link \in BOOLEAN
  /\ lock \in {"free", "main", "driver"} \cup Client
  /\ buffer \in {"free"} \cup Client
  /\ phase \in {"caps", "static", "model", "body"}
  /\ pc \in Pc /\ caller \in {"pass", "poll"}
  /\ posted \in 0 .. Polls /\ tries \in 0 .. Retries
  /\ commlost \in BOOLEAN
  /\ told \in Nat
  /\ client \in [Client -> ClientPc]

(* Open() after Setup().                                                   *)
Init ==
  /\ link = TRUE
  /\ lock = "free" /\ buffer = "free"
  /\ phase = "caps"
  /\ pc = "lock" /\ caller = "pass"
  /\ posted = 0 /\ tries = Retries
  /\ commlost = FALSE /\ told = 0
  /\ client = [c \in Client |-> "idle"]

Self == IF phase = "body" THEN "driver" ELSE "main"

-----------------------------------------------------------------------------
(* A pass: ReadVolatileData, or GetCapabilities, which takes the lock but  *)
(* does not check the link first, as get_apc_model() does for each poll.   *)
(* ReadStaticData takes no lock.                                           *)
Lock ==
  /\ pc = "lock"
  /\ lock = "free"
  /\ lock' = Self
  /\ pc' = IF phase = "body" THEN "check" ELSE "poll"
  /\ caller' = "pass"
  /\ posted' = (IF phase = "model" THEN posted ELSE 0) /\ tries' = Retries
  /\ UNCHANGED <<link, buffer, phase, commlost, told, client>>

(* smart_poll(): the command is sent; UPSlinkCheck if no answer comes.     *)
Poll ==
  /\ pc = "poll"
  /\ \/ link /\ pc' = "post" /\ UNCHANGED caller
     \/ ~link /\ pc' = "check" /\ caller' = "poll"
  /\ UNCHANGED <<link, lock, buffer, phase, posted, tries, commlost, told, client>>

(* The return from UPSlinkCheck: to the first poll of the pass, to the     *)
(* next try, or, when there is none left, with an empty answer.            *)
Return ==
  \/ caller = "pass" /\ pc' = "poll" /\ UNCHANGED tries
  \/ caller = "poll" /\ tries > 0 /\ pc' = "poll" /\ tries' = tries - 1
  \/ caller = "poll" /\ tries = 0 /\ pc' = "post" /\ UNCHANGED tries

(* The answer is stored; after the last one the lock is released, which    *)
(* ReadStaticData does not hold.                                           *)
Post ==
  /\ pc = "post" /\ phase # "model"
  /\ posted' = posted + 1 /\ tries' = Retries
  /\ \/ posted' < NumPolls /\ pc' = "poll" /\ UNCHANGED <<lock, phase>>
     \/ /\ posted' = NumPolls /\ phase = "body"
        /\ lock' = "free" /\ pc' = "sleep" /\ UNCHANGED phase
     \/ /\ posted' = NumPolls /\ phase = "caps"
        /\ lock' = "free" /\ pc' = "sleep" /\ phase' = "static"
     \/ /\ posted' = NumPolls /\ phase = "static"
        /\ pc' = "ask" /\ UNCHANGED <<lock, phase>>
  /\ UNCHANGED <<link, buffer, caller, commlost, told, client>>

(* get_apc_model(): four ^A, which no UPS must answer, and no check of the *)
(* link.  The answer ends the start: the driver thread runs.               *)
Ask ==
  /\ pc = "ask"
  /\ \/ link /\ pc' = "sleep" /\ phase' = "body" /\ UNCHANGED posted
     \/ pc' = "lock" /\ phase' = "model" /\ posted' = 0
  /\ UNCHANGED <<link, lock, buffer, caller, tries, commlost, told, client>>

(* Each of the two other polls has the lock for itself; the second is made *)
(* if the first stayed without an answer.                                  *)
PostModel ==
  /\ pc = "post" /\ phase = "model"
  /\ lock' = "free" /\ tries' = Retries
  /\ \/ /\ posted + 1 < ModelPolls /\ caller = "poll" /\ tries = 0
        /\ pc' = "lock" /\ posted' = posted + 1 /\ UNCHANGED phase
     \/ pc' = "sleep" /\ posted' = 0 /\ phase' = "body"
  /\ UNCHANGED <<link, buffer, caller, commlost, told, client>>

(* Between passes: at once if _interrupt is set, else CheckState() waits   *)
(* for 60 seconds, or for a character that tells of a change.  That it     *)
(* sets _interrupt under the lock is part of the wait for it in Lock.      *)
Sleep ==
  /\ pc = "sleep"
  /\ \/ phase = "body" /\ pc' = "lock" /\ UNCHANGED posted
     \/ phase = "static" /\ pc' = "poll" /\ posted' = 0
  /\ UNCHANGED <<link, lock, buffer, phase, caller, tries, commlost, told, client>>

-----------------------------------------------------------------------------
(* UPSlinkCheck().                                                         *)
Check ==
  /\ pc = "check"
  /\ \/ link /\ commlost' = FALSE /\ Return
     \/ ~link /\ pc' = "unlock" /\ UNCHANGED <<commlost, tries>>
  /\ UNCHANGED <<link, lock, buffer, phase, caller, posted, told, client>>

(* Mutant: the lock is kept while the driver waits for the link.           *)
UnlockNot ==
  /\ pc = "unlock"
  /\ pc' = "wait"
  /\ UNCHANGED <<link, lock, buffer, phase, caller, posted, tries, commlost, told,
                 client>>

(* write_unlock(): the mutex is of the default kind, which does not look   *)
(* at who unlocks it, or whether it is locked.                             *)
Unlock ==
  /\ pc = "unlock"
  /\ lock' = "free"
  /\ pc' = "wait"
  /\ UNCHANGED <<link, buffer, phase, caller, posted, tries, commlost, told, client>>

(* Mutant: every failure past the timeout is an event.                     *)
DeclareAgain ==
  /\ pc = "wait" /\ ~link
  /\ commlost' = TRUE
  /\ told < 2
  /\ told' = told + 1
  /\ UNCHANGED <<link, lock, buffer, pollVars, client>>

(* Mutant: a loss is declared only while it is declared.                   *)
DeclareOld ==
  /\ pc = "wait" /\ ~link
  /\ commlost
  /\ UNCHANGED vars

(* No answer for COMMLOST_TIMEOUT_MS, for the first time.                  *)
Declare ==
  /\ pc = "wait" /\ ~link
  /\ ~commlost
  /\ commlost' = TRUE
  /\ told' = told + 1
  /\ UNCHANGED <<link, lock, buffer, pollVars, client>>

Answered ==
  /\ pc = "wait" /\ link
  /\ pc' = "relock"
  /\ UNCHANGED <<link, lock, buffer, phase, caller, posted, tries, commlost, told,
                 client>>

(* Mutant: the driver goes on without the lock.                            *)
RelockNot ==
  /\ pc = "relock"
  /\ commlost' = FALSE
  /\ told' = IF commlost THEN told - 1 ELSE told
  /\ Return
  /\ UNCHANGED <<link, lock, buffer, phase, caller, posted, client>>

Relock ==
  /\ pc = "relock"
  /\ lock = "free"
  /\ lock' = Self
  /\ commlost' = FALSE
  /\ told' = IF commlost THEN told - 1 ELSE told
  /\ Return
  /\ UNCHANGED <<link, buffer, phase, caller, posted, client>>

-----------------------------------------------------------------------------
(* A client's thread: output_status() with the functions of apcnis.c.  The *)
(* server starts after the device is set up.                               *)
ClientAt(c, here, there) ==
  /\ client[c] = here
  /\ client' = [client EXCEPT ![c] = there]

Request(c) ==
  /\ phase = "body"
  /\ ClientAt(c, "idle", "open")
  /\ UNCHANGED <<link, lock, buffer, pollVars, commlost, told>>

Open(c) ==
  /\ buffer = "free"
  /\ buffer' = c
  /\ ClientAt(c, "open", "read")
  /\ UNCHANGED <<link, lock, pollVars, commlost, told>>

Read(c) ==
  /\ lock = "free"
  /\ lock' = c
  /\ ClientAt(c, "read", "report")
  /\ UNCHANGED <<link, buffer, pollVars, commlost, told>>

(* Mutant: the lock is kept until the report is sent.                      *)
EndReadLater(c) ==
  /\ ClientAt(c, "report", "send")
  /\ UNCHANGED <<link, lock, buffer, pollVars, commlost, told>>

EndRead(c) ==
  /\ ClientAt(c, "report", "send")
  /\ lock' = "free"
  /\ UNCHANGED <<link, buffer, pollVars, commlost, told>>

(* The report is sent, or the client is gone: the buffer is given back.    *)
Close(c) ==
  /\ ClientAt(c, "send", "idle")
  /\ buffer' = "free"
  /\ UNCHANGED <<link, lock, pollVars, commlost, told>>

LinkChanges ==
  /\ link' = ~link
  /\ UNCHANGED <<lock, buffer, pollVars, commlost, told, client>>

PollStep ==
  \/ Lock \/ Poll \/ Post \/ Ask \/ PostModel \/ Sleep
  \/ Check \/ Unlock \/ Declare \/ Answered \/ Relock

ClientStep(c) == Open(c) \/ Read(c) \/ EndRead(c)

Next ==
  \/ PollStep
  \/ \E c \in Client : Request(c) \/ ClientStep(c) \/ Close(c)
  \/ LinkChanges

Spec == Init /\ [][Next]_vars

(* Threads run, and get a mutex that is free again and again.  A client    *)
(* may take for ever to accept its report: no fairness of Close.           *)
Fairness ==
  /\ SF_vars(Lock) /\ SF_vars(Relock)
  /\ WF_vars(\/ Poll \/ Post \/ Ask \/ PostModel \/ Sleep
             \/ Check \/ Unlock \/ Declare \/ Answered)
  /\ \A c \in Client : SF_vars(Open(c)) /\ SF_vars(Read(c)) /\ WF_vars(EndRead(c))

LiveSpec == Spec /\ Fairness

-----------------------------------------------------------------------------
Outside == {"ask", "lock", "wait", "relock", "sleep"}

(* The lock is with the thread that is in a section it protects.           *)
LockDiscipline ==
  /\ lock = "driver" <=> phase = "body" /\ pc \notin Outside
  /\ \A c \in Client : lock = c <=> client[c] = "report"

(* COMMFAILURE and COMMOK alternate, and the status bit a report shows     *)
(* agrees with them; the bit is up only while the driver waits for the     *)
(* link or for the lock.                                                   *)
CommEventsAlternate ==
  /\ told = IF commlost THEN 1 ELSE 0
  /\ commlost => pc \in {"wait", "relock"}

(* apcstatus.c: the lock is there "so the driver doesn't haul off and      *)
(* start updating fields on us".  No reading is stored while a report is   *)
(* made, and of the status only COMMLOST may change: UPSlinkCheck() sets   *)
(* it while it waits, without the lock.                                    *)
ReportsUndisturbed ==
  [][(\E c \in Client : client[c] = "report") =>
       UNCHANGED posted /\ (commlost' # commlost => commlost' /\ pc = "wait")]_vars

(* The lock is not left with main() in a place where nobody should have    *)
(* it, to lock itself out in get_apc_model() or the driver thread for good *)
(* after it; LinkCheckHoldsLock below is about how it can.                 *)
LeftLocked == lock = "main" /\ pc \in {"ask", "lock", "sleep"}
CleanStart == []~LeftLocked

(* A link that stays down is reported as lost.                             *)
LossReported == CleanStart /\ <>[]~link /\ <>(phase = "body") => <>[]commlost

(* With the link up the UPS is polled for ever, whatever clients do: one   *)
(* that never accepts its report does not hold up the driver.              *)
PassesComplete == CleanStart /\ <>[]link => []<>(pc = "sleep")

(* A client is served unless another does not accept its report, whether   *)
(* or not the UPS answers.                                                 *)
ClientsServed ==
  CleanStart /\ (\A c \in Client : []<>(client[c] # "send"))
    => \A c \in Client : client[c] = "open" ~> client[c] = "send"

(* smart.c: UPSlinkCheck "MUST be called with the UPS write lock held".    *)
LinkCheckHoldsLock == pc \in {"check", "unlock"} => lock = Self
=============================================================================
