-------------------------- MODULE UpsStateMachine --------------------------
(***************************************************************************)
(* The UPS state machine thread of src/action.c (class UpsStateMachine)    *)
(* and its timers, fed by whatever a driver thread posts to the database.  *)
(*                                                                         *)
(* Threads: the main thread runs Start(); the state machine thread takes   *)
(* one event at a time from its queue; every running timer is a thread     *)
(* whose callback enqueues a timeout event; a driver thread, left          *)
(* arbitrary here, posts values.  A handler is cut where it reads the      *)
(* database: other threads can run between the part of a handler before    *)
(* the read and the read itself.                                           *)
(***************************************************************************)
EXTENDS UpsInfo, FiniteSets

CONSTANTS
  MaxTime,   \* TIMEOUT directive (seconds), the ONBATT time limit
  Percent,   \* BATTERYLEVEL directive (percent)
  Runtime    \* MINUTES directive (minutes)

ASSUME ConfigAssumption == MaxTime \in Int /\ Percent \in Int /\ Runtime \in Int

ShutdownState == {"SHUTDOWN_LOADLIMIT", "SHUTDOWN_RUNLIMIT",
                  "SHUTDOWN_BATTLOW"}
State == {"IDLE", "ONBATT", "SELFTEST"} \cup ShutdownState

(* The timers StateOnbatt owns; the remaining one belongs to StateSelftest *)
OnbattTimer == TimerId \ {"SELFTEST"}

UpsEvent == {"POWEROUT", "ONBATTERY", "OFFBATTERY", "MAINSBACK",
             "STARTSELFTEST", "ENDSELFTEST", "BATTATTACH", "BATTDETACH",
             "FAILING", "RUNLIMIT", "LOADLIMIT"}

TestInProgress == 4   \* TEST_INPROGRESS

VARIABLES
  state,    \* UpsStateMachine::_state
  pc,       \* where the thread that runs the handlers is
  started,  \* the timers whose atimer::_started is set
  firing,   \* the timers inside the HandleTimeout callback, not enqueued yet
  posted,   \* StateOnbatt::_onbattery_posted
  log       \* history: what the generated events have told the user so far

smVars == <<state, pc, started, firing, posted, log>>
vars == <<infoVars, smVars>>

(* "idle": in StateIdle::OnEnter, before its read; "enter": in             *)
(* StateOnbatt::OnEnter, before CheckShutdown; "check": in CheckShutdown   *)
(* called from OnDatum; "register": in Start(), before regclient; "wait":  *)
(* the thread waits in dequeue.                                            *)
Pc == {"idle", "enter", "check", "register", "wait"}

(***************************************************************************)
(* What a user (or the event script) knows after an event: the last power  *)
(* condition reported, whether an ONBATTERY is outstanding, whether the    *)
(* battery was reported detached, whether a shutdown was requested, and    *)
(* the events that did not fit what had been reported before them.         *)
(***************************************************************************)
Fits(l, e) ==
  CASE e = "POWEROUT"   -> ~l.outage
    [] e = "MAINSBACK"  -> l.outage /\ ~l.onbattery
    [] e = "ONBATTERY"  -> l.outage /\ ~l.onbattery
    [] e = "OFFBATTERY" -> l.outage /\ l.onbattery
    [] e = "BATTDETACH" -> l.present
    [] e = "BATTATTACH" -> ~l.present
    [] OTHER            -> TRUE

Reported(l, e) ==
  [outage    |-> IF e = "POWEROUT" THEN TRUE
                 ELSE IF e = "MAINSBACK" THEN FALSE ELSE l.outage,
   onbattery |-> IF e = "ONBATTERY" THEN TRUE
                 ELSE IF e = "OFFBATTERY" THEN FALSE ELSE l.onbattery,
   present   |-> IF e = "BATTATTACH" THEN TRUE
                 ELSE IF e = "BATTDETACH" THEN FALSE ELSE l.present,
   shutdown  |-> l.shutdown \/ e \in {"FAILING", "RUNLIMIT", "LOADLIMIT"},
   misfit    |-> IF Fits(l, e) THEN l.misfit ELSE l.misfit \cup {e}]

LogType == [outage : BOOLEAN, onbattery : BOOLEAN, present : BOOLEAN,
            shutdown : BOOLEAN, misfit : SUBSET UpsEvent]

NothingReported ==
  [outage |-> FALSE, onbattery |-> FALSE, present |-> TRUE,
   shutdown |-> FALSE, misfit |-> {}]

generate_event(e) == log' = Reported(log, e)

TypeOK ==
  /\ InfoTypeOK
  /\ state \in State
  /\ pc \in Pc
  /\ started \in SUBSET TimerId
  /\ firing \in SUBSET TimerId
  /\ posted \in BOOLEAN
  /\ log \in LogType

Init ==
  /\ InfoInit
  /\ registered = FALSE
  /\ state = "IDLE"
  /\ pc = "idle"
  /\ started = {}
  /\ firing = {}
  /\ posted \in BOOLEAN        \* not set by the constructor
  /\ log = NothingReported

(* Open() of a driver may have stored the self test status already, and    *)
(* nobody was told.                                                        *)
OpenedInit ==
  \/ InfoInit
  \/ /\ info \in {[ci \in CI |-> CASE ci = "BatteryPresent" -> 1
                                   [] ci = "ST_STAT"        -> v
                                   [] OTHER                 -> 0] :
                    v \in Value["ST_STAT"]}
     /\ known = {"BatteryPresent", "ST_STAT"}
     /\ queue = <<>>

(* A start in which the state machine registers before the driver's first  *)
(* pass: a state the program passes through when the UPS answers slowly.   *)
SteadyInit ==
  /\ OpenedInit
  /\ registered = TRUE
  /\ state = "IDLE"
  /\ pc = "wait"
  /\ started = {}
  /\ firing = {}
  /\ posted \in BOOLEAN
  /\ log = NothingReported

-----------------------------------------------------------------------------
(* Start() calls OnEnter of the initial state before it registers and runs *)
(* the thread; the same handlers later return to the dequeue loop.         *)
Resume == pc' = IF registered THEN "wait" ELSE "register"

EnterIdle ==
  /\ state' = "IDLE"
  /\ pc' = "idle"

(* Mutant: the flag of the last outage is kept.                            *)
EnterOnbattKeepsPosted ==
  /\ state' = "ONBATT"
  /\ generate_event("POWEROUT")
  /\ started' = started \cup {"ONBATT_EVENT"}
  /\ pc' = "enter"
  /\ UNCHANGED posted

(* StateOnbatt::OnEnter up to its call of CheckShutdown.                   *)
EnterOnbatt ==
  /\ state' = "ONBATT"
  /\ generate_event("POWEROUT")
  /\ posted' = FALSE
  /\ started' = started \cup {"ONBATT_EVENT"}
  /\ pc' = "enter"

EnterSelftest ==
  /\ state' = "SELFTEST"
  /\ generate_event("STARTSELFTEST")
  /\ started' = started \cup {"SELFTEST"}
  /\ Resume

(* StateShutdown::OnEnter generates nothing: the call is commented out.    *)
EnterShutdown(s) ==
  /\ state' = s
  /\ Resume

(* StateOnbatt::OnExit.  stop() of a timer that is not started returns at  *)
(* once, even when its callback is still running; stop() of one that was   *)
(* restarted during its callback joins the thread and so waits for it.     *)
StopOnbattTimers ==
  /\ started \cap firing \cap OnbattTimer = {}
  /\ started' = started \ OnbattTimer

-----------------------------------------------------------------------------
(* Mutant: OnEnter trusts the queue alone.                                 *)
IdleOnEnterNoRead ==
  /\ pc = "idle"
  /\ Resume
  /\ UNCHANGED <<infoVars, state, started, firing, posted, log>>

(* StateIdle::OnEnter: straight to ONBATT when already discharging.        *)
IdleOnEnter ==
  /\ pc = "idle"
  /\ \/ /\ IsSet("Discharging")
        /\ EnterOnbatt
     \/ /\ ~IsSet("Discharging")
        /\ Resume
        /\ UNCHANGED <<state, started, posted, log>>
  /\ UNCHANGED <<infoVars, firing>>

(* The debounce timers whose condition holds.                              *)
Trigger ==
  {t \in OnbattTimer :
     \/ /\ t = "ONBATT_LOADLIMIT"
        /\ "BATTLEV" \in known
        /\ info["BATTLEV"] \div 10 <= Percent
     \/ /\ t = "ONBATT_RUNLIMIT"
        /\ "RUNTIM" \in known
        /\ info["RUNTIM"] \div 60 <= Runtime
     \/ t = "ONBATT_BATTLOW" /\ IsSet("BattLow")}

(* Mutant: the time limit is started before the other timers are set.      *)
CheckShutdownForgets ==
  /\ pc \in {"enter", "check"}
  /\ started' = Trigger
                  \cup {t \in {"ONBATT_TIMELIMIT"} : pc = "enter" /\ MaxTime > 0}
  /\ Resume
  /\ UNCHANGED <<infoVars, state, firing, posted, log>>

(* CheckShutdown and, when OnEnter called it, the time limit after it.     *)
CheckShutdown ==
  /\ pc \in {"enter", "check"}
  /\ started' = started \cup Trigger
                  \cup {t \in {"ONBATT_TIMELIMIT"} : pc = "enter" /\ MaxTime > 0}
  /\ Resume
  /\ UNCHANGED <<infoVars, state, firing, posted, log>>

Register ==
  /\ pc = "register"
  /\ registered' = TRUE
  /\ pc' = "wait"
  /\ UNCHANGED <<info, known, queue, state, started, firing, posted, log>>

-----------------------------------------------------------------------------
(* body(): take the event at the head of the queue, run its handler.       *)
Dequeue(type) ==
  /\ pc = "wait"
  /\ queue # <<>>
  /\ Head(queue).type = type
  /\ queue' = Tail(queue)
  /\ UNCHANGED <<info, known, registered, firing>>

Ignore == UNCHANGED smVars

(* HandleEventStateAny: a battery change is consumed in every state.       *)
DatumAny(e) ==
  /\ e.key = "BatteryPresent"
  /\ generate_event(IF e.value # 0 THEN "BATTATTACH" ELSE "BATTDETACH")
  /\ UNCHANGED <<state, pc, started, posted>>

IdleOnDatum(e) ==
  \/ /\ e.key = "Discharging" /\ e.value # 0
     /\ EnterOnbatt
  \/ /\ e.key = "ST_STAT" /\ e.value = TestInProgress
     /\ EnterSelftest
     /\ UNCHANGED posted
  \/ /\ ~(e.key = "Discharging" /\ e.value # 0)
     /\ ~(e.key = "ST_STAT" /\ e.value = TestInProgress)
     /\ Ignore

(* Mutant: OFFBATTERY without an ONBATTERY before it.                      *)
LeaveOnbattAlwaysOff ==
  /\ log' = Reported(Reported(log, "OFFBATTERY"), "MAINSBACK")
  /\ StopOnbattTimers
  /\ EnterIdle
  /\ UNCHANGED posted

(* Mutant: a short outage stops its timers but is not left.                *)
LeaveOnbattIfPosted ==
  /\ StopOnbattTimers
  /\ \/ posted /\ log' = Reported(Reported(log, "OFFBATTERY"), "MAINSBACK")
               /\ EnterIdle
     \/ ~posted /\ UNCHANGED <<state, pc, log>>
  /\ UNCHANGED posted

(* Mains are back: OFFBATTERY only after ONBATTERY, then MAINSBACK.        *)
LeaveOnbatt ==
  /\ log' = Reported(IF posted THEN Reported(log, "OFFBATTERY") ELSE log,
                     "MAINSBACK")
  /\ StopOnbattTimers
  /\ EnterIdle
  /\ UNCHANGED posted

(* Mutants: mains return only ends an announced outage; the limits are not *)
(* checked again after OnEnter.                                            *)
OnbattOnDatumPosted(e) ==
  \/ e.key = "Discharging" /\ e.value = 0 /\ posted /\ LeaveOnbatt
  \/ /\ ~(e.key = "Discharging" /\ e.value = 0 /\ posted)
     /\ Ignore

OnbattOnDatumNoCheck(e) ==
  \/ e.key = "Discharging" /\ e.value = 0 /\ LeaveOnbatt
  \/ ~(e.key = "Discharging" /\ e.value = 0) /\ Ignore

OnbattOnDatum(e) ==
  \/ /\ e.key = "Discharging" /\ e.value = 0
     /\ LeaveOnbatt
  \/ /\ e.key \in {"BATTLEV", "RUNTIM", "BattLow"}
     /\ pc' = "check"
     /\ UNCHANGED <<state, started, posted, log>>
  \/ /\ e.key = "ST_STAT" \/ (e.key = "Discharging" /\ e.value # 0)
     /\ Ignore

(* Mutant: the end of a test is only seen while its timer runs.            *)
SelftestOnDatumTimed(e) ==
  \/ /\ e.key = "ST_STAT" /\ e.value # TestInProgress
     /\ "SELFTEST" \in started \ firing
     /\ started' = started \ {"SELFTEST"}
     /\ generate_event("ENDSELFTEST")
     /\ EnterIdle
     /\ UNCHANGED posted
  \/ /\ ~(e.key = "ST_STAT" /\ e.value # TestInProgress
          /\ "SELFTEST" \in started \ firing)
     /\ Ignore

SelftestOnDatum(e) ==
  \/ /\ e.key = "ST_STAT" /\ e.value # TestInProgress
     /\ ~("SELFTEST" \in started \cap firing)   \* stop() joins the thread
     /\ started' = started \ {"SELFTEST"}
     /\ generate_event("ENDSELFTEST")
     /\ EnterIdle
     /\ UNCHANGED posted
  \/ /\ ~(e.key = "ST_STAT" /\ e.value # TestInProgress)
     /\ Ignore

HandleDatum ==
  /\ Dequeue("datum")
  /\ LET e == Head(queue)
     IN  \/ DatumAny(e)
         \/ /\ e.key # "BatteryPresent"
            /\ \/ state = "IDLE" /\ IdleOnDatum(e)
               \/ state = "ONBATT" /\ OnbattOnDatum(e)
               \/ state = "SELFTEST" /\ SelftestOnDatum(e)
               \/ state \in ShutdownState /\ Ignore

(* Where a timeout takes StateOnbatt.                                      *)
ShutdownFor(id) ==
  CASE id \in {"ONBATT_TIMELIMIT", "ONBATT_RUNLIMIT"} -> "SHUTDOWN_RUNLIMIT"
    [] id = "ONBATT_BATTLOW"                          -> "SHUTDOWN_BATTLOW"
    [] id = "ONBATT_LOADLIMIT"                        -> "SHUTDOWN_LOADLIMIT"

(* Mutants: the time limit only ends an outage not yet announced; a        *)
(* shutdown leaves the outage as if the mains were back.                   *)
OnbattOnTimeoutNoLimit(id) ==
  \/ /\ id = "ONBATT_EVENT"
     /\ posted' = TRUE
     /\ generate_event("ONBATTERY")
     /\ UNCHANGED <<state, pc, started>>
  \/ /\ id \in OnbattTimer \ {"ONBATT_EVENT"}
     /\ id = "ONBATT_TIMELIMIT" => ~posted
     /\ StopOnbattTimers
     /\ EnterShutdown(ShutdownFor(id))
     /\ UNCHANGED <<posted, log>>
  \/ id = "SELFTEST" /\ Ignore
  \/ id = "ONBATT_TIMELIMIT" /\ posted /\ Ignore

OnbattOnTimeoutMainsback(id) ==
  \/ /\ id = "ONBATT_EVENT"
     /\ posted' = TRUE
     /\ generate_event("ONBATTERY")
     /\ UNCHANGED <<state, pc, started>>
  \/ /\ id \in OnbattTimer \ {"ONBATT_EVENT"}
     /\ StopOnbattTimers
     /\ EnterShutdown(ShutdownFor(id))
     /\ generate_event("MAINSBACK")
     /\ UNCHANGED posted
  \/ id = "SELFTEST" /\ Ignore

OnbattOnTimeout(id) ==
  \/ /\ id = "ONBATT_EVENT"
     /\ posted' = TRUE
     /\ generate_event("ONBATTERY")
     /\ UNCHANGED <<state, pc, started>>
  \/ /\ id \in OnbattTimer \ {"ONBATT_EVENT"}
     /\ StopOnbattTimers
     /\ EnterShutdown(ShutdownFor(id))
     /\ UNCHANGED <<posted, log>>
  \/ /\ id = "SELFTEST"
     /\ Ignore

(* is_onbatt() is read as part of the handler; a self test that outlasts   *)
(* its timer is taken for an outage when the UPS is still discharging.     *)
SelftestOnTimeout(id) ==
  \/ id = "SELFTEST" /\ IsSet("Discharging") /\ EnterOnbatt
  \/ /\ id = "SELFTEST" /\ ~IsSet("Discharging")
     /\ generate_event("ENDSELFTEST")
     /\ EnterIdle
     /\ UNCHANGED <<started, posted>>
  \/ id # "SELFTEST" /\ Ignore

HandleTimeoutEvent ==
  /\ Dequeue("timeout")
  /\ LET id == Head(queue).key
     IN  \/ state = "ONBATT" /\ OnbattOnTimeout(id)
         \/ state = "SELFTEST" /\ SelftestOnTimeout(id)
         \/ state \in {"IDLE"} \cup ShutdownState /\ Ignore

-----------------------------------------------------------------------------
(* A timer thread: the wait times out, _started is cleared and the mutex   *)
(* released; then the callback enqueues.  stop() losing the race against   *)
(* the timeout is an Expire just before the step that stops the timer.     *)
Expire(t) ==
  /\ t \in started \ firing
  /\ Len(queue) <= MaxQueue   \* a bound: the code has none
  /\ started' = started \ {t}
  /\ firing' = firing \cup {t}
  /\ UNCHANGED <<infoVars, state, pc, posted, log>>

HandleTimeout(t) ==
  /\ t \in firing
  /\ queue' = Append(queue, Timeout(t))
  /\ firing' = firing \ {t}
  /\ UNCHANGED <<info, known, registered, state, pc, started, posted, log>>

(* Some driver posts some value.  A key no value is posted for stands for  *)
(* a capability the UPS lacks.                                             *)
DriverUpdate(ci) ==
  /\ \E v \in Value[ci] : Update(ci, v)
  /\ UNCHANGED smVars

(* The driver reads the previous Discharging, and the status report of a   *)
(* network client reads what the UPS can measure, through get(ci).         *)
ReaderGet(ci) ==
  /\ ci \in {"Discharging", "ST_STAT", "BATTLEV", "RUNTIM"}
  /\ Value[ci] # {}
  /\ GetDefault(ci)
  /\ UNCHANGED smVars

StateMachineStep ==
  IdleOnEnter \/ CheckShutdown \/ Register \/ HandleDatum \/ HandleTimeoutEvent

TimerStep == \E t \in TimerId : Expire(t) \/ HandleTimeout(t)

Next ==
  \/ StateMachineStep
  \/ TimerStep
  \/ \E ci \in CI : DriverUpdate(ci) \/ ReaderGet(ci)

Spec == Init /\ [][Next]_vars
SteadySpec == SteadyInit /\ [][Next]_vars

-----------------------------------------------------------------------------
(* Vocabulary of the properties.                                           *)

Pending(ci) == \E i \in 1 .. Len(queue) :
                 queue[i].type = "datum" /\ queue[i].key = ci

(* The i-th event is the newest queued datum of its key.                   *)
Newest(i) ==
  /\ queue[i].type = "datum"
  /\ \A j \in (i + 1) .. Len(queue) :
       queue[j].type = "timeout" \/ queue[j].key # queue[i].key

(* The timer is running, in its callback, or its event is on the queue.    *)
Armed(t) ==
  \/ t \in started \cup firing
  \/ \E i \in 1 .. Len(queue) : queue[i] = Timeout(t)

TriggerKey(t) == CASE t = "ONBATT_LOADLIMIT" -> "BATTLEV"
                   [] t = "ONBATT_RUNLIMIT"  -> "RUNTIM"
                   [] OTHER                  -> "BattLow"

-----------------------------------------------------------------------------
(* update() stores and notifies in one step, so the newest datum of a key  *)
(* on the queue always carries the value the database holds: a thread that *)
(* empties the queue ends with the current values.                         *)
QueueEndsAtInfo ==
  \A i \in 1 .. Len(queue) :
    Newest(i) => queue[i].value = info[queue[i].key]

(* A power failure is never overlooked: while the machine idles on a UPS   *)
(* that discharges, the datum that says so is still on the queue           *)
(* (StateIdle::OnEnter, StateIdle::OnDatum, StateOnbatt::OnDatum).         *)
NoMissedPowerFailure ==
  pc = "wait" /\ state = "IDLE" /\ info["Discharging"] # 0
    => Pending("Discharging")

(* Nor is the return of the mains: while the machine is in ONBATT on a UPS *)
(* that does not discharge, the datum that ends ONBATT is on the queue,    *)
(* although ONBATT can be entered ahead of the queue by a database read.   *)
NoMissedMainsReturn ==
  state = "ONBATT" /\ info["Discharging"] = 0 => Pending("Discharging")

(* Nor is the end of a self test, while its datum is what SELFTEST awaits. *)
NoMissedTestEnd ==
  state = "SELFTEST" /\ info["ST_STAT"] # TestInProgress
    => Pending("ST_STAT")

(* OnExit leaves no ONBATT timer behind: one that runs belongs to the      *)
(* present visit of ONBATT.                                                *)
OnbattTimersOwned == started \cap OnbattTimer # {} => state = "ONBATT"

(* The events tell the truth: outside a handler an outage is reported as   *)
(* going on exactly in ONBATT and the shutdown states reached from it, and *)
(* OFFBATTERY follows exactly the outages ONBATTERY was generated for.     *)
ReportsMatchState ==
  /\ log.outage <=> state \in {"ONBATT"} \cup ShutdownState
  /\ log.onbattery <=> log.outage /\ posted

(* No event contradicts the ones before it, but for an ONBATTERY repeated  *)
(* by a stale timeout: POWEROUT and MAINSBACK alternate, so do ONBATTERY   *)
(* and OFFBATTERY inside them, and BATTDETACH and BATTATTACH.              *)
EventsFit == log.misfit \subseteq {"ONBATTERY"}

(* In ONBATT the ONBATTERY event was generated or is on its way, and with  *)
(* a TIMEOUT configured so is the shutdown at the time limit.              *)
OnbattTimeoutsOnTheWay ==
  state = "ONBATT" =>
    /\ posted \/ Armed("ONBATT_EVENT")
    /\ MaxTime > 0 /\ pc # "enter" => Armed("ONBATT_TIMELIMIT")

(* A shutdown condition that holds in ONBATT has its timer on the way, or  *)
(* the datum that will start it is queued.  (A value 0 may be a default    *)
(* stored by a reader, which is not announced.)                            *)
TriggersOnTheWay ==
  state = "ONBATT" /\ pc = "wait" =>
    \A t \in Trigger :
      info[TriggerKey(t)] # 0 => Armed(t) \/ Pending(TriggerKey(t))

(* The power events of the state machine come in the order PowerEvents     *)
(* allows; a stale timeout may bring one early (StaleTimeoutsIgnored).     *)
Power == INSTANCE PowerEvents WITH
           outage <- log.outage, announced <- log.onbattery,
           down <- state \in ShutdownState

PowerContract == Power!PowerSpec

(* Each timer is used as Timer allows, which is all that ATimer keeps: the *)
(* handlers never stop one whose restart its own callback still precedes.  *)
Used(t) == INSTANCE Timer WITH
             started <- t \in started, firing <- t \in firing

TimersUsed ==
  /\ \A t \in TimerId : Used(t)!TimerInit
  /\ [][\A t \in TimerId : [Used(t)!TimerNext]_(Used(t)!timerVars)]_vars

-----------------------------------------------------------------------------
(* Statements of the sources the code does not keep.                       *)

(* statemachine.h: timer ids are unique "so stale timer events can be      *)
(* identified and ignored".  Only a stale event can repeat ONBATTERY.      *)
StaleTimeoutsIgnored == "ONBATTERY" \notin log.misfit

(* manual.rst: doshutdown "is generated to cause the machine to shutdown"  *)
(* when one of the limits expires.                                         *)
LimitCausesShutdown == state \in ShutdownState => log.shutdown

(* manual.rst: BATTERYLEVEL halts the system "when the remaining battery   *)
(* charge falls below the specified percentage".                           *)
LoadLimitNeedsLowCharge ==
  (\A v \in Value["BATTLEV"] : v \div 10 > Percent)
    => state # "SHUTDOWN_LOADLIMIT"
=============================================================================
