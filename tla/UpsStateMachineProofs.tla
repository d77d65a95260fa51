----------------------- MODULE UpsStateMachineProofs -----------------------
(***************************************************************************)
(* What holds of the UPS state machine for every driver, every bound on    *)
(* the queue and every configuration: that it generates the power events   *)
(* PowerEvents allows and no others, and why it overlooks nothing although *)
(* it enters ONBATT ahead of its queue, by reading the database.           *)
(***************************************************************************)
EXTENDS UpsStateMachine, TLAPS

-----------------------------------------------------------------------------
(* Recording an event of the list keeps the history well formed.           *)
LEMMA ReportedType ==
  ASSUME NEW l \in LogType, NEW e \in UpsEvent
  PROVE  Reported(l, e) \in LogType
  BY DEF Reported, LogType, UpsEvent

(* The head of a queue of events is an event, and what follows a queue.    *)
LEMMA QueueHead ==
  ASSUME NEW q \in Seq(Event), q # <<>>
  PROVE  /\ Head(q) \in Event
         /\ Tail(q) \in Seq(Event)
  OBVIOUS

LEMMA EventKinds ==
  ASSUME NEW e \in Event
  PROVE  /\ e.type = "datum" => e.key \in CI /\ e.value \in Int
         /\ e.type = "timeout" => e.key \in TimerId
  BY DEF Event

(* Both starts of the daemon are well typed.                               *)
LEMMA InitTypeOK == Init \/ SteadyInit => TypeOK
  <1> SUFFICES ASSUME Init \/ SteadyInit PROVE TypeOK
    OBVIOUS
  <1>1. InfoTypeOK
    <2>1. OpenedInit /\ registered \in BOOLEAN
      BY DEF Init, SteadyInit, OpenedInit
    <2>2. info \in [CI -> Int]
      <3>1. Value["ST_STAT"] \subseteq Int
        BY ValueAssumption DEF CI
      <3> QED
        BY <2>1, <3>1 DEF OpenedInit, InfoInit
    <2>3. known \in SUBSET CI /\ queue = <<>>
      BY <2>1 DEF OpenedInit, InfoInit, CI
    <2>4. queue \in Seq(Event)
      BY <2>3
    <2> QED
      BY <2>1, <2>2, <2>3, <2>4 DEF InfoTypeOK
  <1>2. NothingReported \in LogType
    BY DEF NothingReported, LogType
  <1> QED
    BY <1>1, <1>2 DEF Init, SteadyInit, TypeOK, State, Pc

LEMMA UpdateType ==
  ASSUME TypeOK, NEW ci \in CI, NEW v \in Int, Update(ci, v)
  PROVE  InfoTypeOK'
  <1>1. Datum(ci, v) \in Event
    BY DEF Datum, Event
  <1> QED
    BY <1>1 DEF TypeOK, InfoTypeOK, Update

(* A handler that starts a visit of a state leaves the machine well typed. *)
LEMMA HandleDatumType ==
  ASSUME TypeOK, HandleDatum PROVE TypeOK'
  <1> DEFINE e == Head(queue)
  <1>1. /\ queue # <<>> /\ e.type = "datum" /\ queue' = Tail(queue)
        /\ UNCHANGED <<info, known, registered, firing>>
    BY DEF HandleDatum, Dequeue
  <1>2. InfoTypeOK'
    BY <1>1, QueueHead DEF TypeOK, InfoTypeOK
  <1>3. CASE DatumAny(e)
    <2>1. log' \in LogType
      BY <1>3, ReportedType DEF DatumAny, generate_event, UpsEvent, TypeOK
    <2> QED
      BY <1>1, <1>2, <1>3, <2>1 DEF DatumAny, TypeOK
  <1>4. CASE IdleOnDatum(e)
    <2>1. log' \in LogType
      BY <1>4, ReportedType DEF IdleOnDatum, EnterOnbatt, EnterSelftest,
         Ignore, smVars, generate_event, UpsEvent, TypeOK
    <2> QED
      BY <1>1, <1>2, <1>4, <2>1 DEF IdleOnDatum, EnterOnbatt, EnterSelftest,
         Resume, Ignore, smVars, TypeOK, State, Pc, TimerId
  <1>5. CASE OnbattOnDatum(e)
    <2>1. log' \in LogType
      BY <1>5, ReportedType DEF OnbattOnDatum, LeaveOnbatt, Ignore, smVars,
         UpsEvent, TypeOK
    <2> QED
      BY <1>1, <1>2, <1>5, <2>1 DEF OnbattOnDatum, LeaveOnbatt, EnterIdle,
         StopOnbattTimers, Ignore, smVars, TypeOK, State, Pc
  <1>6. CASE SelftestOnDatum(e)
    <2>1. log' \in LogType
      BY <1>6, ReportedType DEF SelftestOnDatum, generate_event, Ignore,
         smVars, UpsEvent, TypeOK
    <2> QED
      BY <1>1, <1>2, <1>6, <2>1 DEF SelftestOnDatum, EnterIdle, Ignore,
         smVars, TypeOK, State, Pc
  <1>7. CASE Ignore
    BY <1>1, <1>2, <1>7 DEF Ignore, smVars, TypeOK
  <1> QED
    BY <1>3, <1>4, <1>5, <1>6, <1>7 DEF HandleDatum

LEMMA HandleTimeoutEventType ==
  ASSUME TypeOK, HandleTimeoutEvent PROVE TypeOK'
  <1> DEFINE id == Head(queue).key
  <1>1. /\ queue # <<>> /\ queue' = Tail(queue)
        /\ UNCHANGED <<info, known, registered, firing>>
    BY DEF HandleTimeoutEvent, Dequeue
  <1>2. InfoTypeOK'
    BY <1>1, QueueHead DEF TypeOK, InfoTypeOK
  <1>3. CASE OnbattOnTimeout(id)
    <2>1. log' \in LogType
      BY <1>3, ReportedType DEF OnbattOnTimeout, generate_event, Ignore,
         smVars, UpsEvent, TypeOK
    <2>2. id \in OnbattTimer \ {"ONBATT_EVENT"} => ShutdownFor(id) \in State
      BY DEF OnbattTimer, TimerId, ShutdownFor, State, ShutdownState
    <2> QED
      BY <1>1, <1>2, <1>3, <2>1, <2>2 DEF OnbattOnTimeout, EnterShutdown,
         StopOnbattTimers, Resume, Ignore, smVars, TypeOK, Pc
  <1>4. CASE SelftestOnTimeout(id)
    <2>1. log' \in LogType
      BY <1>4, ReportedType DEF SelftestOnTimeout, EnterOnbatt, Ignore,
         generate_event, smVars, UpsEvent, TypeOK
    <2> QED
      BY <1>1, <1>2, <1>4, <2>1 DEF SelftestOnTimeout, EnterOnbatt, EnterIdle,
         Ignore, smVars, TypeOK, State, Pc, TimerId
  <1>5. CASE Ignore
    BY <1>1, <1>2, <1>5 DEF Ignore, smVars, TypeOK
  <1> QED
    BY <1>3, <1>4, <1>5 DEF HandleTimeoutEvent

(* Every step keeps every variable in its type.                            *)
LEMMA NextTypeOK == TypeOK /\ [Next]_vars => TypeOK'
  <1> SUFFICES ASSUME TypeOK, [Next]_vars PROVE TypeOK'
    OBVIOUS
  <1>1. CASE IdleOnEnter
    <2>1. log' \in LogType
      BY <1>1, ReportedType DEF IdleOnEnter, EnterOnbatt, generate_event,
         UpsEvent, TypeOK
    <2> QED
      BY <1>1, <2>1 DEF IdleOnEnter, EnterOnbatt, Resume, TypeOK, InfoTypeOK,
         infoVars, State, Pc, TimerId
  <1>2. CASE CheckShutdown
    BY <1>2 DEF CheckShutdown, Trigger, OnbattTimer, TimerId, Resume, TypeOK,
       InfoTypeOK, infoVars, Pc
  <1>3. CASE Register
    BY <1>3 DEF Register, TypeOK, InfoTypeOK, Pc
  <1>4. CASE HandleDatum
    BY <1>4, HandleDatumType
  <1>5. CASE HandleTimeoutEvent
    BY <1>5, HandleTimeoutEventType
  <1>6. ASSUME NEW t \in TimerId, Expire(t) PROVE TypeOK'
    BY <1>6 DEF Expire, TypeOK, InfoTypeOK, infoVars
  <1>7. ASSUME NEW t \in TimerId, HandleTimeout(t) PROVE TypeOK'
    <2>1. Timeout(t) \in Event
      BY DEF Timeout, Event
    <2> QED
      BY <1>7, <2>1 DEF HandleTimeout, TypeOK, InfoTypeOK
  <1>8. ASSUME NEW ci \in CI, DriverUpdate(ci) PROVE TypeOK'
    <2>1. PICK v \in Value[ci] : Update(ci, v)
      BY <1>8 DEF DriverUpdate
    <2>2. v \in Int
      BY ValueAssumption
    <2> QED
      BY <1>8, <2>1, <2>2, UpdateType DEF DriverUpdate, smVars, TypeOK
  <1>9. ASSUME NEW ci \in CI, ReaderGet(ci) PROVE TypeOK'
    BY <1>9 DEF ReaderGet, GetDefault, smVars, TypeOK, InfoTypeOK
  <1>10. CASE UNCHANGED vars
    BY <1>10 DEF vars, infoVars, smVars, TypeOK, InfoTypeOK
  <1> QED
    BY <1>1, <1>2, <1>3, <1>4, <1>5, <1>6, <1>7, <1>8, <1>9, <1>10
    DEF Next, StateMachineStep, TimerStep

(* The daemon never leaves its types, however it starts.                   *)
THEOREM TypeCorrect == (Spec => []TypeOK) /\ (SteadySpec => []TypeOK)
  <1>1. Init \/ SteadyInit => TypeOK
    BY InitTypeOK
  <1>2. TypeOK /\ [Next]_vars => TypeOK'
    BY NextTypeOK
  <1> QED
    BY <1>1, <1>2, PTL DEF Spec, SteadySpec

-----------------------------------------------------------------------------
(* Where the handler thread is tells the state it works for; this, and not *)
(* the invariants alone, makes the steps that start timers keep them.      *)
HandlerAtState ==
  /\ pc \in {"enter", "check"} => state = "ONBATT"
  /\ pc = "idle" => state = "IDLE"

TimersAndReports == HandlerAtState /\ OnbattTimersOwned /\ ReportsMatchState

(* Only what a report is about changes.                                    *)
LEMMA ReportedPower ==
  ASSUME NEW l \in LogType
  PROVE  /\ Reported(l, "POWEROUT").outage = TRUE
         /\ Reported(l, "POWEROUT").onbattery = l.onbattery
         /\ Reported(l, "MAINSBACK").outage = FALSE
         /\ Reported(l, "MAINSBACK").onbattery = l.onbattery
         /\ Reported(l, "ONBATTERY").outage = l.outage
         /\ Reported(l, "ONBATTERY").onbattery = TRUE
         /\ Reported(l, "OFFBATTERY").outage = l.outage
         /\ Reported(l, "OFFBATTERY").onbattery = FALSE
         /\ \A e \in {"STARTSELFTEST", "ENDSELFTEST", "BATTATTACH", "BATTDETACH"} :
              /\ Reported(l, e).outage = l.outage
              /\ Reported(l, e).onbattery = l.onbattery
  BY DEF Reported

LEMMA EnterOnbattKeeps ==
  ASSUME TypeOK, TimersAndReports, state \in {"IDLE", "SELFTEST"}, EnterOnbatt
  PROVE  TimersAndReports'
  <1>1. log.outage = FALSE /\ log.onbattery = FALSE
    BY DEF TypeOK, LogType, TimersAndReports, ReportsMatchState, ShutdownState
  <1>2. log'.outage = TRUE /\ log'.onbattery = FALSE
    BY <1>1, ReportedPower DEF EnterOnbatt, generate_event, TypeOK
  <1> QED
    BY <1>2 DEF EnterOnbatt, TimersAndReports, HandlerAtState,
       OnbattTimersOwned, ReportsMatchState

LEMMA LeaveOnbattKeeps ==
  ASSUME TypeOK, TimersAndReports, state = "ONBATT", LeaveOnbatt
  PROVE  TimersAndReports'
  <1>1. log.onbattery <=> posted
    BY DEF TypeOK, LogType, TimersAndReports, ReportsMatchState
  <1>2. log'.outage = FALSE /\ log'.onbattery = FALSE
    <2>1. CASE posted
      <3> DEFINE l == Reported(log, "OFFBATTERY")
      <3>1. l \in LogType /\ l.onbattery = FALSE
        BY ReportedType, ReportedPower DEF TypeOK, UpsEvent
      <3>2. log' = Reported(l, "MAINSBACK")
        BY <2>1 DEF LeaveOnbatt
      <3> HIDE DEF l
      <3> QED
        BY <3>1, <3>2, ReportedPower
    <2>2. CASE ~posted
      BY <1>1, <2>2, ReportedPower DEF LeaveOnbatt, TypeOK, LogType
    <2> QED
      BY <2>1, <2>2
  <1>3. state' = "IDLE" /\ pc' = "idle" /\ started' = started \ OnbattTimer
    BY DEF LeaveOnbatt, EnterIdle, StopOnbattTimers
  <1> QED
    BY <1>2, <1>3 DEF TimersAndReports, HandlerAtState, OnbattTimersOwned,
       ReportsMatchState, ShutdownState

(* A step that neither moves the machine between states nor touches the    *)
(* ONBATT timers and the power reports.                                    *)
LEMMA QuietKeeps ==
  ASSUME TimersAndReports, UNCHANGED <<state, posted>>,
         log'.outage = log.outage, log'.onbattery = log.onbattery,
         pc' \in {pc, "wait", "register"},
         started' \cap OnbattTimer \subseteq started \/ state = "ONBATT"
  PROVE  TimersAndReports'
  BY DEF TimersAndReports, HandlerAtState, OnbattTimersOwned,
     ReportsMatchState

LEMMA HandleDatumKeeps ==
  ASSUME TypeOK, TimersAndReports, HandleDatum PROVE TimersAndReports'
  <1> DEFINE e == Head(queue)
  <1>1. CASE DatumAny(e)
    <2>1. log'.outage = log.outage /\ log'.onbattery = log.onbattery
      BY <1>1, ReportedPower DEF DatumAny, generate_event, TypeOK
    <2> QED
      BY <1>1, <2>1, QuietKeeps DEF DatumAny
  <1>2. CASE Ignore
    BY <1>2, QuietKeeps DEF Ignore, smVars
  <1>3. CASE state = "IDLE" /\ IdleOnDatum(e)
    <2>1. CASE EnterOnbatt
      BY <1>3, <2>1, EnterOnbattKeeps
    <2>2. CASE EnterSelftest /\ UNCHANGED posted
      <3>1. log'.outage = log.outage /\ log'.onbattery = log.onbattery
        BY <2>2, ReportedPower DEF EnterSelftest, generate_event, TypeOK
      <3> QED
        BY <1>3, <2>2, <3>1 DEF EnterSelftest, Resume, OnbattTimer,
           TimersAndReports, HandlerAtState, OnbattTimersOwned,
           ReportsMatchState, ShutdownState
    <2> QED
      BY <1>2, <1>3, <2>1, <2>2 DEF IdleOnDatum
  <1>4. CASE state = "ONBATT" /\ OnbattOnDatum(e)
    <2>1. CASE LeaveOnbatt
      BY <1>4, <2>1, LeaveOnbattKeeps
    <2>2. CASE pc' = "check" /\ UNCHANGED <<state, started, posted, log>>
      BY <1>4, <2>2 DEF TimersAndReports, HandlerAtState, OnbattTimersOwned,
         ReportsMatchState
    <2> QED
      BY <1>2, <1>4, <2>1, <2>2 DEF OnbattOnDatum
  <1>5. CASE state = "SELFTEST" /\ SelftestOnDatum(e)
    <2>1. CASE /\ started' = started \ {"SELFTEST"}
               /\ generate_event("ENDSELFTEST") /\ EnterIdle
               /\ UNCHANGED posted
      <3>1. log'.outage = log.outage /\ log'.onbattery = log.onbattery
        BY <2>1, ReportedPower DEF generate_event, TypeOK
      <3> QED
        BY <1>5, <2>1, <3>1 DEF EnterIdle, TimersAndReports, HandlerAtState,
           OnbattTimersOwned, ReportsMatchState, ShutdownState
    <2> QED
      BY <1>2, <1>5, <2>1 DEF SelftestOnDatum
  <1> QED
    BY <1>1, <1>2, <1>3, <1>4, <1>5 DEF HandleDatum

LEMMA HandleTimeoutEventKeeps ==
  ASSUME TypeOK, TimersAndReports, HandleTimeoutEvent PROVE TimersAndReports'
  <1> DEFINE id == Head(queue).key
  <1>1. CASE Ignore
    BY <1>1, QuietKeeps DEF Ignore, smVars
  <1>2. CASE state = "ONBATT" /\ OnbattOnTimeout(id)
    <2>1. CASE /\ posted' = TRUE /\ generate_event("ONBATTERY")
               /\ UNCHANGED <<state, pc, started>>
      <3>1. log'.outage = log.outage /\ log'.onbattery = TRUE
        BY <2>1, ReportedPower DEF generate_event, TypeOK
      <3> QED
        BY <1>2, <2>1, <3>1 DEF TimersAndReports, HandlerAtState,
           OnbattTimersOwned, ReportsMatchState
    <2>2. CASE /\ id \in OnbattTimer \ {"ONBATT_EVENT"}
               /\ StopOnbattTimers /\ EnterShutdown(ShutdownFor(id))
               /\ UNCHANGED <<posted, log>>
      <3>1. ShutdownFor(id) \in ShutdownState
        BY <2>2 DEF ShutdownFor, ShutdownState, OnbattTimer, TimerId
      <3> QED
        BY <1>2, <2>2, <3>1 DEF EnterShutdown, StopOnbattTimers, Resume,
           TimersAndReports, HandlerAtState, OnbattTimersOwned,
           ReportsMatchState, ShutdownState
    <2> QED
      BY <1>1, <1>2, <2>1, <2>2 DEF OnbattOnTimeout
  <1>3. CASE state = "SELFTEST" /\ SelftestOnTimeout(id)
    <2>1. CASE EnterOnbatt
      BY <1>3, <2>1, EnterOnbattKeeps
    <2>2. CASE /\ generate_event("ENDSELFTEST") /\ EnterIdle
               /\ UNCHANGED <<started, posted>>
      <3>1. log'.outage = log.outage /\ log'.onbattery = log.onbattery
        BY <2>2, ReportedPower DEF generate_event, TypeOK
      <3> QED
        BY <1>3, <2>2, <3>1 DEF EnterIdle, TimersAndReports, HandlerAtState,
           OnbattTimersOwned, ReportsMatchState, ShutdownState
    <2> QED
      BY <1>1, <1>3, <2>1, <2>2 DEF SelftestOnTimeout
  <1> QED
    BY <1>1, <1>2, <1>3 DEF HandleTimeoutEvent

LEMMA NextKeeps ==
  TypeOK /\ TimersAndReports /\ [Next]_vars => TimersAndReports'
  <1> SUFFICES ASSUME TypeOK, TimersAndReports, [Next]_vars
               PROVE  TimersAndReports'
    OBVIOUS
  <1>1. CASE IdleOnEnter
    <2>1. CASE EnterOnbatt
      BY <1>1, <2>1, EnterOnbattKeeps
      DEF IdleOnEnter, TimersAndReports, HandlerAtState
    <2>2. CASE Resume /\ UNCHANGED <<state, started, posted, log>>
      BY <2>2, QuietKeeps DEF Resume
    <2> QED
      BY <1>1, <2>1, <2>2 DEF IdleOnEnter
  <1>2. CASE CheckShutdown
    BY <1>2, QuietKeeps DEF CheckShutdown, Resume, TimersAndReports,
       HandlerAtState
  <1>3. CASE Register
    BY <1>3, QuietKeeps DEF Register
  <1>4. CASE HandleDatum
    BY <1>4, HandleDatumKeeps
  <1>5. CASE HandleTimeoutEvent
    BY <1>5, HandleTimeoutEventKeeps
  <1>6. ASSUME NEW t \in TimerId, Expire(t) PROVE TimersAndReports'
    BY <1>6, QuietKeeps DEF Expire
  <1>7. ASSUME NEW t \in TimerId, HandleTimeout(t) PROVE TimersAndReports'
    BY <1>7, QuietKeeps DEF HandleTimeout
  <1>8. ASSUME NEW ci \in CI, DriverUpdate(ci) \/ ReaderGet(ci)
        PROVE  TimersAndReports'
    BY <1>8, QuietKeeps DEF DriverUpdate, ReaderGet, smVars
  <1>9. CASE UNCHANGED vars
    BY <1>9, QuietKeeps DEF vars, smVars
  <1> QED
    BY <1>1, <1>2, <1>3, <1>4, <1>5, <1>6, <1>7, <1>8, <1>9
    DEF Next, StateMachineStep, TimerStep

LEMMA InitTimersAndReports == Init \/ SteadyInit => TimersAndReports
  BY DEF Init, SteadyInit, TimersAndReports, HandlerAtState,
     OnbattTimersOwned, ReportsMatchState, NothingReported, ShutdownState

(* No timer of StateOnbatt runs outside ONBATT, and the events generated   *)
(* so far agree with the state, from the first step of the daemon on.      *)
THEOREM OwnedAndReported ==
  Spec \/ SteadySpec => [](OnbattTimersOwned /\ ReportsMatchState)
  <1>1. Init \/ SteadyInit => TypeOK /\ TimersAndReports
    BY InitTypeOK, InitTimersAndReports
  <1>2. TypeOK /\ TimersAndReports /\ [Next]_vars
          => TypeOK' /\ TimersAndReports'
    BY NextTypeOK, NextKeeps
  <1>3. TimersAndReports => OnbattTimersOwned /\ ReportsMatchState
    BY DEF TimersAndReports
  <1> QED
    BY <1>1, <1>2, <1>3, PTL DEF Spec, SteadySpec

(* OnExit leaves no ONBATT timer behind.                                   *)
COROLLARY TimersOwned == Spec \/ SteadySpec => []OnbattTimersOwned
  BY OwnedAndReported, PTL
-----------------------------------------------------------------------------
(* Every step of the state machine maps to a step of PowerEvents or to a   *)
(* stutter.                                                                *)
PowerStep == [Power!PowerNext]_(Power!powerVars)

LEMMA PowerStutter ==
  ASSUME log'.outage = log.outage, log'.onbattery = log.onbattery,
         (state' \in ShutdownState) <=> (state \in ShutdownState)
  PROVE  PowerStep
  BY DEF PowerStep, Power!powerVars

(* What the invariants say of the mapped variables in the states a power   *)
(* event starts from.                                                      *)
LEMMA PowerInState ==
  ASSUME TypeOK, TimersAndReports
  PROVE  /\ state \in {"IDLE", "SELFTEST"}
              => log.outage = FALSE /\ log.onbattery = FALSE
         /\ state = "ONBATT" => log.outage = TRUE
         /\ log.onbattery \in BOOLEAN
         /\ "IDLE" \notin ShutdownState /\ "SELFTEST" \notin ShutdownState
         /\ "ONBATT" \notin ShutdownState
  BY DEF TypeOK, LogType, TimersAndReports, ReportsMatchState, ShutdownState

LEMMA EnterOnbattIsPowerout ==
  ASSUME TypeOK, TimersAndReports, state \in {"IDLE", "SELFTEST"}, EnterOnbatt
  PROVE  PowerStep
  <1>1. log'.outage = TRUE /\ log'.onbattery = log.onbattery
    BY ReportedPower DEF EnterOnbatt, generate_event, TypeOK
  <1>2. state' = "ONBATT"
    BY DEF EnterOnbatt
  <1>3. state \notin ShutdownState /\ state' \notin ShutdownState
    BY <1>2, PowerInState
  <1>4. (state' \in ShutdownState) = (state \in ShutdownState)
    BY <1>3
  <1>5. ~log.outage
    BY PowerInState
  <1> QED
    BY <1>1, <1>4, <1>5 DEF PowerStep, Power!PowerNext, Power!Powerout

LEMMA LeaveOnbattIsMainsback ==
  ASSUME TypeOK, TimersAndReports, state = "ONBATT", LeaveOnbatt
  PROVE  PowerStep
  <1>1. TimersAndReports' /\ state' = "IDLE"
    BY LeaveOnbattKeeps DEF LeaveOnbatt, EnterIdle
  <1>2. log' \in LogType
    BY ReportedType DEF LeaveOnbatt, UpsEvent, TypeOK
  <1>3. log'.outage = FALSE /\ log'.onbattery = FALSE
    BY <1>1, <1>2 DEF TimersAndReports, ReportsMatchState, ShutdownState,
       LogType
  <1>4. state \notin ShutdownState /\ state' \notin ShutdownState
    BY <1>1, PowerInState
  <1>5. (state' \in ShutdownState) = (state \in ShutdownState)
    BY <1>4
  <1>6. log.outage
    BY PowerInState
  <1> QED
    BY <1>3, <1>4, <1>5, <1>6 DEF PowerStep, Power!PowerNext, Power!Mainsback

LEMMA HandleDatumStep ==
  ASSUME TypeOK, TimersAndReports, HandleDatum PROVE PowerStep
  <1> DEFINE e == Head(queue)
  <1>1. CASE DatumAny(e)
    <2>1. log'.outage = log.outage /\ log'.onbattery = log.onbattery
      BY <1>1, ReportedPower DEF DatumAny, generate_event, TypeOK
    <2> QED
      BY <1>1, <2>1, PowerStutter DEF DatumAny
  <1>2. CASE Ignore
    BY <1>2, PowerStutter DEF Ignore, smVars
  <1>3. CASE state = "IDLE" /\ IdleOnDatum(e)
    <2>1. CASE EnterOnbatt
      BY <1>3, <2>1, EnterOnbattIsPowerout
    <2>2. CASE EnterSelftest
      <3>1. log'.outage = log.outage /\ log'.onbattery = log.onbattery
        BY <2>2, ReportedPower DEF EnterSelftest, generate_event, TypeOK
      <3> QED
        BY <1>3, <2>2, <3>1, PowerInState, PowerStutter DEF EnterSelftest
    <2> QED
      BY <1>2, <1>3, <2>1, <2>2 DEF IdleOnDatum
  <1>4. CASE state = "ONBATT" /\ OnbattOnDatum(e)
    <2>1. CASE LeaveOnbatt
      BY <1>4, <2>1, LeaveOnbattIsMainsback
    <2>2. CASE UNCHANGED <<state, started, posted, log>>
      BY <2>2, PowerStutter
    <2> QED
      BY <1>2, <1>4, <2>1, <2>2 DEF OnbattOnDatum
  <1>5. CASE state = "SELFTEST" /\ SelftestOnDatum(e)
    <2>1. CASE generate_event("ENDSELFTEST") /\ EnterIdle
      <3>1. log'.outage = log.outage /\ log'.onbattery = log.onbattery
        BY <2>1, ReportedPower DEF generate_event, TypeOK
      <3> QED
        BY <1>5, <2>1, <3>1, PowerInState, PowerStutter DEF EnterIdle
    <2> QED
      BY <1>2, <1>5, <2>1 DEF SelftestOnDatum
  <1> QED
    BY <1>1, <1>2, <1>3, <1>4, <1>5 DEF HandleDatum

LEMMA HandleTimeoutEventStep ==
  ASSUME TypeOK, TimersAndReports, HandleTimeoutEvent PROVE PowerStep
  <1> DEFINE id == Head(queue).key
  <1>1. CASE Ignore
    BY <1>1, PowerStutter DEF Ignore, smVars
  <1>2. CASE state = "ONBATT" /\ OnbattOnTimeout(id)
    <2>1. CASE generate_event("ONBATTERY") /\ UNCHANGED state
      <3>1. log'.outage = log.outage /\ log'.onbattery = TRUE
        BY <2>1, ReportedPower DEF generate_event, TypeOK
      <3> QED
        BY <1>2, <2>1, <3>1, PowerInState
        DEF PowerStep, Power!PowerNext, Power!Onbattery
    <2>2. CASE /\ id \in OnbattTimer \ {"ONBATT_EVENT"}
               /\ EnterShutdown(ShutdownFor(id)) /\ UNCHANGED log
      <3>1. ShutdownFor(id) \in ShutdownState
        BY <2>2 DEF ShutdownFor, ShutdownState, OnbattTimer, TimerId
      <3> QED
        BY <1>2, <2>2, <3>1, PowerInState
        DEF EnterShutdown, PowerStep, Power!PowerNext, Power!Shutdown
    <2> QED
      BY <1>1, <1>2, <2>1, <2>2 DEF OnbattOnTimeout
  <1>3. CASE state = "SELFTEST" /\ SelftestOnTimeout(id)
    <2>1. CASE EnterOnbatt
      BY <1>3, <2>1, EnterOnbattIsPowerout
    <2>2. CASE generate_event("ENDSELFTEST") /\ EnterIdle
      <3>1. log'.outage = log.outage /\ log'.onbattery = log.onbattery
        BY <2>2, ReportedPower DEF generate_event, TypeOK
      <3> QED
        BY <1>3, <2>2, <3>1, PowerInState, PowerStutter DEF EnterIdle
    <2> QED
      BY <1>1, <1>3, <2>1, <2>2 DEF SelftestOnTimeout
  <1> QED
    BY <1>1, <1>2, <1>3 DEF HandleTimeoutEvent

LEMMA NextStep == TypeOK /\ TimersAndReports /\ [Next]_vars => PowerStep
  <1> SUFFICES ASSUME TypeOK, TimersAndReports, [Next]_vars PROVE PowerStep
    OBVIOUS
  <1>1. CASE IdleOnEnter
    <2>1. CASE EnterOnbatt
      BY <1>1, <2>1, EnterOnbattIsPowerout
      DEF IdleOnEnter, TimersAndReports, HandlerAtState
    <2>2. CASE UNCHANGED <<state, started, posted, log>>
      BY <2>2, PowerStutter
    <2> QED
      BY <1>1, <2>1, <2>2 DEF IdleOnEnter
  <1>2. CASE CheckShutdown \/ Register
    BY <1>2, PowerStutter DEF CheckShutdown, Register
  <1>3. CASE HandleDatum
    BY <1>3, HandleDatumStep
  <1>4. CASE HandleTimeoutEvent
    BY <1>4, HandleTimeoutEventStep
  <1>5. ASSUME NEW t \in TimerId, Expire(t) \/ HandleTimeout(t) PROVE PowerStep
    BY <1>5, PowerStutter DEF Expire, HandleTimeout
  <1>6. ASSUME NEW ci \in CI, DriverUpdate(ci) \/ ReaderGet(ci) PROVE PowerStep
    BY <1>6, PowerStutter DEF DriverUpdate, ReaderGet, smVars
  <1>7. CASE UNCHANGED vars
    BY <1>7, PowerStutter DEF vars, smVars
  <1> QED
    BY <1>1, <1>2, <1>3, <1>4, <1>5, <1>6, <1>7
    DEF Next, StateMachineStep, TimerStep

(* The state machine implements PowerEvents from either start.             *)
THEOREM ImplementsPowerEvents == Spec \/ SteadySpec => PowerContract
  <1>1. Init \/ SteadyInit => TypeOK /\ TimersAndReports
    BY InitTypeOK, InitTimersAndReports
  <1>2. TypeOK /\ TimersAndReports /\ [Next]_vars
          => TypeOK' /\ TimersAndReports' /\ PowerStep
    BY NextTypeOK, NextKeeps, NextStep
  <1>3. Init \/ SteadyInit => Power!Mains
    BY DEF Init, SteadyInit, NothingReported, ShutdownState, Power!Mains
  <1> QED
    BY <1>1, <1>2, <1>3, PTL
    DEF Spec, SteadySpec, PowerContract, Power!PowerSpec, PowerStep

-----------------------------------------------------------------------------
(* The newest queued datum of a key carries the value the database holds,  *)
(* so a datum consumed last tells the truth.  From the same fact: every    *)
(* limit of an outage has its timer or its timeout on the way, and the     *)
(* events that are generated fit one another.                              *)

(* Nothing is queued for a machine that is not a client yet.               *)
NoDatumUnregistered ==
  ~registered => \A i \in 1 .. Len(queue) : queue[i].type = "timeout"

QueueInv == QueueEndsAtInfo /\ NoDatumUnregistered

LEMMA UpdateKeepsQueue ==
  ASSUME TypeOK, QueueInv, NEW ci \in CI, NEW v \in Int, Update(ci, v)
  PROVE  QueueInv'
  <1>1. queue \in Seq(Event) /\ info \in [CI -> Int] /\ registered \in BOOLEAN
    BY DEF TypeOK, InfoTypeOK
  <1>2. info' = [info EXCEPT ![ci] = v] /\ registered' = registered
    BY DEF Update
  <1>3. CASE registered /\ Changes(ci, v)
    <2>1. queue' = Append(queue, Datum(ci, v))
      BY <1>3 DEF Update
    <2>2. Len(queue') = Len(queue) + 1
      BY <1>1, <2>1
    <2>3. queue'[Len(queue) + 1] = Datum(ci, v)
      BY <1>1, <2>1
    <2>4. \A i \in 1 .. Len(queue) : queue'[i] = queue[i]
      BY <1>1, <2>1
    <2>5. ASSUME NEW i \in 1 .. Len(queue'), Newest(i)'
          PROVE  queue'[i].value = info'[queue'[i].key]
      <3>1. CASE i = Len(queue) + 1
        BY <1>1, <1>2, <2>3, <3>1 DEF Datum
      <3>2. CASE i \in 1 .. Len(queue)
        <4>1. queue[i].type = "datum" /\ queue[i].key # ci
          BY <1>1, <2>2, <2>3, <2>4, <2>5, <3>2 DEF Newest, Datum
        <4>2. Newest(i)
          BY <1>1, <2>2, <2>4, <2>5, <3>2 DEF Newest
        <4>3. queue[i].value = info[queue[i].key]
          BY <3>2, <4>2 DEF QueueInv, QueueEndsAtInfo
        <4> QED
          BY <1>1, <1>2, <2>4, <3>2, <4>1, <4>3
      <3> QED
        BY <1>1, <2>2, <3>1, <3>2
    <2> QED
      BY <1>2, <1>3, <2>5 DEF QueueInv, QueueEndsAtInfo, NoDatumUnregistered
  <1>4. CASE ~registered
    <2>1. queue' = queue
      BY <1>4 DEF Update
    <2> QED
      BY <1>2, <1>4, <2>1 DEF QueueInv, QueueEndsAtInfo,
         NoDatumUnregistered, Newest
  <1>5. CASE registered /\ ~Changes(ci, v)
    <2>1. queue' = queue /\ info' = info
      BY <1>1, <1>2, <1>5 DEF Update, Changes
    <2> QED
      BY <1>2, <2>1 DEF QueueInv, QueueEndsAtInfo, NoDatumUnregistered, Newest
  <1> QED
    BY <1>3, <1>4, <1>5

LEMMA DequeueKeepsQueue ==
  ASSUME TypeOK, QueueInv, queue # <<>>, queue' = Tail(queue),
         UNCHANGED <<info, registered>>
  PROVE  QueueInv'
  <1>1. queue \in Seq(Event)
    BY DEF TypeOK, InfoTypeOK
  <1>2. Len(queue') = Len(queue) - 1
    BY <1>1
  <1>3. \A i \in 1 .. Len(queue') : queue'[i] = queue[i + 1]
    BY <1>1
  <1>4. ASSUME NEW i \in 1 .. Len(queue'), Newest(i)'
        PROVE  queue'[i].value = info'[queue'[i].key]
    <2>1. i + 1 \in 1 .. Len(queue) /\ queue'[i] = queue[i + 1]
      BY <1>1, <1>2, <1>3
    <2>2. ASSUME NEW j \in (i + 2) .. Len(queue)
          PROVE  queue[j].type = "timeout" \/ queue[j].key # queue[i + 1].key
      <3>1. j - 1 \in (i + 1) .. Len(queue') /\ queue'[j - 1] = queue[j]
        BY <1>1, <1>2, <1>3
      <3> QED
        BY <1>4, <2>1, <3>1 DEF Newest
    <2>3. Newest(i + 1)
      BY <1>1, <1>4, <2>1, <2>2 DEF Newest
    <2> QED
      BY <2>1, <2>3 DEF QueueInv, QueueEndsAtInfo
  <1>5. NoDatumUnregistered'
    <2>1. \A i \in 1 .. Len(queue') : i + 1 \in 1 .. Len(queue)
      BY <1>1, <1>2
    <2> QED
      BY <1>3, <2>1 DEF QueueInv, NoDatumUnregistered
  <1> QED
    BY <1>4, <1>5 DEF QueueInv, QueueEndsAtInfo

LEMMA TimeoutKeepsQueue ==
  ASSUME TypeOK, QueueInv, NEW t \in TimerId,
         queue' = Append(queue, Timeout(t)), UNCHANGED <<info, registered>>
  PROVE  QueueInv'
  <1>1. queue \in Seq(Event)
    BY DEF TypeOK, InfoTypeOK
  <1>2. Len(queue') = Len(queue) + 1
    BY <1>1
  <1>3. queue'[Len(queue) + 1].type = "timeout"
    BY <1>1 DEF Timeout
  <1>4. \A i \in 1 .. Len(queue) : queue'[i] = queue[i]
    BY <1>1
  <1>5. ASSUME NEW i \in 1 .. Len(queue'), Newest(i)'
        PROVE  queue'[i].value = info'[queue'[i].key]
    <2>1. i \in 1 .. Len(queue)
      BY <1>1, <1>2, <1>3, <1>5 DEF Newest
    <2>2. Newest(i)
      BY <1>1, <1>2, <1>4, <1>5, <2>1 DEF Newest
    <2> QED
      BY <1>4, <2>1, <2>2 DEF QueueInv, QueueEndsAtInfo
  <1>6. NoDatumUnregistered'
    BY <1>1, <1>2, <1>3, <1>4 DEF QueueInv, NoDatumUnregistered
  <1> QED
    BY <1>5, <1>6 DEF QueueInv, QueueEndsAtInfo

LEMMA SameQueueKeeps ==
  ASSUME QueueInv, UNCHANGED <<info, queue>>, registered => registered'
  PROVE  QueueInv'
  <1>1. QueueEndsAtInfo'
    BY DEF QueueInv, QueueEndsAtInfo, Newest
  <1>2. NoDatumUnregistered'
    BY DEF QueueInv, NoDatumUnregistered
  <1> QED
    BY <1>1, <1>2 DEF QueueInv

LEMMA NextKeepsQueue == TypeOK /\ QueueInv /\ [Next]_vars => QueueInv'
  <1> SUFFICES ASSUME TypeOK, QueueInv, [Next]_vars PROVE QueueInv'
    OBVIOUS
  <1>1. CASE IdleOnEnter \/ CheckShutdown
    BY <1>1, SameQueueKeeps DEF IdleOnEnter, CheckShutdown, infoVars
  <1>2. CASE Register
    BY <1>2, SameQueueKeeps DEF Register
  <1>3. CASE HandleDatum
    BY <1>3, DequeueKeepsQueue DEF HandleDatum, Dequeue
  <1>4. CASE HandleTimeoutEvent
    BY <1>4, DequeueKeepsQueue DEF HandleTimeoutEvent, Dequeue
  <1>5. ASSUME NEW t \in TimerId, Expire(t) PROVE QueueInv'
    BY <1>5, SameQueueKeeps DEF Expire, infoVars
  <1>6. ASSUME NEW t \in TimerId, HandleTimeout(t) PROVE QueueInv'
    BY <1>6, TimeoutKeepsQueue DEF HandleTimeout
  <1>7. ASSUME NEW ci \in CI, DriverUpdate(ci) PROVE QueueInv'
    <2>1. PICK v \in Value[ci] : Update(ci, v)
      BY <1>7 DEF DriverUpdate
    <2> QED
      BY <2>1, ValueAssumption, UpdateKeepsQueue
  <1>8. ASSUME NEW ci \in CI, ReaderGet(ci) PROVE QueueInv'
    BY <1>8, SameQueueKeeps DEF ReaderGet, GetDefault
  <1>9. CASE UNCHANGED vars
    BY <1>9, SameQueueKeeps DEF vars, infoVars
  <1> QED
    BY <1>1, <1>2, <1>3, <1>4, <1>5, <1>6, <1>7, <1>8, <1>9
    DEF Next, StateMachineStep, TimerStep

(* The queue always ends at the values of the database, because update()   *)
(* stores and notifies with the database locked.                           *)
THEOREM QueueCorrect == Spec \/ SteadySpec => []QueueEndsAtInfo
  <1>1. Init \/ SteadyInit => TypeOK /\ QueueInv
    <2>1. Init \/ SteadyInit => QueueInv
      BY DEF Init, SteadyInit, OpenedInit, InfoInit, QueueInv, QueueEndsAtInfo,
         NoDatumUnregistered
    <2> QED
      BY <2>1, InitTypeOK
  <1>2. TypeOK /\ QueueInv /\ [Next]_vars => TypeOK' /\ QueueInv'
    BY NextTypeOK, NextKeepsQueue
  <1>3. QueueInv => QueueEndsAtInfo
    BY DEF QueueInv
  <1> QED
    BY <1>1, <1>2, <1>3, PTL DEF Spec, SteadySpec

-----------------------------------------------------------------------------
(* A key that is not stored reads as 0.                                    *)
UnstoredIsZero ==
  \A ci \in CI \ known : info[ci] = 0

NothingMissed ==
  /\ registered /\ pc # "register"
  /\ UnstoredIsZero
  /\ NoMissedPowerFailure /\ NoMissedMainsReturn /\ NoMissedTestEnd

(* All the steps keep: the invariants the argument rests on.               *)
Basis == TypeOK /\ QueueInv /\ TimersAndReports /\ NothingMissed

(* A driver that posts a new value leaves its datum on the queue.          *)
LEMMA PendingAfterUpdate ==
  ASSUME TypeOK, registered, NEW ci \in CI, NEW v \in Int, Update(ci, v),
         NEW k \in CI
  PROVE  /\ Pending(k) => Pending(k)'
         /\ info'[k] # info[k] => Pending(k)'
  <1>1. queue \in Seq(Event) /\ info \in [CI -> Int]
    BY DEF TypeOK, InfoTypeOK
  <1>2. CASE Changes(ci, v)
    <2>1. queue' = Append(queue, Datum(ci, v))
      BY <1>2 DEF Update
    <2>2. /\ Len(queue') = Len(queue) + 1
          /\ queue'[Len(queue) + 1] = Datum(ci, v)
          /\ \A i \in 1 .. Len(queue) : queue'[i] = queue[i]
      BY <1>1, <2>1
    <2>3. Pending(k) => Pending(k)'
      BY <1>1, <2>2 DEF Pending
    <2>4. info'[k] # info[k] => k = ci
      BY <1>1 DEF Update
    <2>5. Pending(ci)'
      <3>1. Len(queue) + 1 \in 1 .. Len(queue')
        BY <1>1, <2>2
      <3> QED
        BY <2>2, <3>1 DEF Pending, Datum
    <2> QED
      BY <2>3, <2>4, <2>5
  <1>3. CASE ~Changes(ci, v)
    BY <1>1, <1>3 DEF Update, Changes, Pending
  <1> QED
    BY <1>2, <1>3

(* Taking the last datum of a key off the queue is taking the value the    *)
(* database holds.                                                         *)
LEMMA PendingAfterDequeue ==
  ASSUME TypeOK, QueueInv, queue # <<>>, queue' = Tail(queue), NEW k \in CI,
         Pending(k)
  PROVE  \/ Pending(k)'
         \/ /\ Head(queue).type = "datum" /\ Head(queue).key = k
            /\ Head(queue).value = info[k]
  <1>1. queue \in Seq(Event)
    BY DEF TypeOK, InfoTypeOK
  <1>2. /\ Len(queue') = Len(queue) - 1
        /\ \A i \in 1 .. Len(queue') : queue'[i] = queue[i + 1]
        /\ Head(queue) = queue[1]
    BY <1>1
  <1>3. SUFFICES ASSUME ~Pending(k)'
                 PROVE  /\ queue[1].type = "datum" /\ queue[1].key = k
                        /\ queue[1].value = info[k]
    BY <1>2
  <1>4. ASSUME NEW j \in 2 .. Len(queue)
        PROVE  ~(queue[j].type = "datum" /\ queue[j].key = k)
    <2>1. j - 1 \in 1 .. Len(queue') /\ queue'[j - 1] = queue[j]
      BY <1>1, <1>2
    <2> QED
      BY <1>3, <2>1 DEF Pending
  <1>5. PICK i \in 1 .. Len(queue) : queue[i].type = "datum" /\ queue[i].key = k
    BY DEF Pending
  <1>6. i = 1
    BY <1>1, <1>4, <1>5
  <1>7. ASSUME NEW j \in 2 .. Len(queue)
        PROVE  queue[j].type = "timeout" \/ queue[j].key # k
    <2>1. queue[j] \in Event
      BY <1>1
    <2> QED
      BY <1>4, <2>1 DEF Event
  <1>8. Newest(1)
    BY <1>5, <1>6, <1>7 DEF Newest
  <1> QED
    BY <1>1, <1>5, <1>6, <1>8 DEF QueueInv, QueueEndsAtInfo

LEMMA PendingAfterTimeout ==
  ASSUME TypeOK, NEW t \in TimerId, queue' = Append(queue, Timeout(t)),
         NEW k \in CI, Pending(k)
  PROVE  Pending(k)'
  <1>1. queue \in Seq(Event)
    BY DEF TypeOK, InfoTypeOK
  <1>2. /\ Len(queue') = Len(queue) + 1
        /\ \A i \in 1 .. Len(queue) : queue'[i] = queue[i]
    BY <1>1
  <1> QED
    BY <1>1, <1>2 DEF Pending

(* A step that leaves the database, the queue and the state alone.         *)
LEMMA StillNothingMissed ==
  ASSUME NothingMissed, UNCHANGED <<info, queue, state>>, registered',
         known \subseteq known', pc' # "register",
         pc' = "wait" => pc = "wait" \/ state # "IDLE"
  PROVE  NothingMissed'
  BY DEF NothingMissed, UnstoredIsZero, NoMissedPowerFailure,
     NoMissedMainsReturn, NoMissedTestEnd, Pending

-----------------------------------------------------------------------------
LEMMA UpdateMissesNothing ==
  ASSUME Basis, NEW ci \in CI, NEW v \in Int, Update(ci, v),
         UNCHANGED smVars
  PROVE  NothingMissed'
  <1>1. TypeOK /\ NothingMissed /\ registered
    BY DEF Basis, NothingMissed
  <1>2. \A k \in CI : (Pending(k) => Pending(k)')
                       /\ (info'[k] # info[k] => Pending(k)')
    BY <1>1, PendingAfterUpdate
  <1>3. {"Discharging", "ST_STAT"} \subseteq CI
    BY DEF CI
  <1>4. UnstoredIsZero' /\ registered'
    BY <1>1 DEF Update, NothingMissed, UnstoredIsZero, TypeOK, InfoTypeOK
  <1> QED
    BY <1>1, <1>2, <1>3, <1>4 DEF smVars, NothingMissed,
       NoMissedPowerFailure, NoMissedMainsReturn, NoMissedTestEnd

(* What a dequeue leaves to prove of a handler: the datum just taken tells *)
(* the truth when it was the last of its key.                              *)
LEMMA HandlerMissesNothing ==
  ASSUME Basis, queue # <<>>, queue' = Tail(queue),
         UNCHANGED <<info, known, registered>>, pc' # "register",
         LET e == Head(queue)
             taken(k) == e.type = "datum" /\ e.key = k
             last(k) == taken(k) /\ e.value = info[k]
         IN  /\ pc' = "wait" /\ state' = "IDLE" /\ info["Discharging"] # 0
                   => state = "IDLE" /\ pc = "wait" /\ ~last("Discharging")
             /\ state' = "ONBATT" /\ info["Discharging"] = 0
                   => /\ state = "ONBATT" \/ taken("Discharging")
                      /\ ~last("Discharging")
             /\ state' = "SELFTEST" /\ info["ST_STAT"] # TestInProgress
                   => /\ state = "SELFTEST" \/ taken("ST_STAT")
                      /\ ~last("ST_STAT")
  PROVE  NothingMissed'
  <1>1. TypeOK /\ QueueInv /\ NothingMissed
    BY DEF Basis
  <1>2. "Discharging" \in CI /\ "ST_STAT" \in CI
    BY DEF CI
  <1>3. \A k \in CI : Head(queue).type = "datum" /\ Head(queue).key = k
                       => Pending(k)
    <2>1. queue \in Seq(Event)
      BY <1>1 DEF TypeOK, InfoTypeOK
    <2>2. 1 \in 1 .. Len(queue) /\ Head(queue) = queue[1]
      BY <2>1
    <2> QED
      BY <2>2 DEF Pending
  <1>4. NoMissedPowerFailure'
    BY <1>1, <1>2, PendingAfterDequeue
    DEF NothingMissed, NoMissedPowerFailure
  <1>5. NoMissedMainsReturn'
    BY <1>1, <1>2, <1>3, PendingAfterDequeue
    DEF NothingMissed, NoMissedMainsReturn
  <1>6. NoMissedTestEnd'
    BY <1>1, <1>2, <1>3, PendingAfterDequeue
    DEF NothingMissed, NoMissedTestEnd
  <1> QED
    BY <1>1, <1>4, <1>5, <1>6 DEF NothingMissed, UnstoredIsZero

LEMMA HandleDatumMissesNothing ==
  ASSUME Basis, HandleDatum PROVE NothingMissed'
  <1> DEFINE e == Head(queue)
  <1>0. registered
    BY DEF Basis, NothingMissed
  <1>1. /\ pc = "wait" /\ queue # <<>> /\ e.type = "datum"
        /\ queue' = Tail(queue) /\ UNCHANGED <<info, known, registered>>
    BY DEF HandleDatum, Dequeue
  <1>2. CASE DatumAny(e)
    BY <1>1, <1>2, HandlerMissesNothing DEF DatumAny
  <1>3. CASE state = "IDLE" /\ IdleOnDatum(e)
    BY <1>0, <1>1, <1>3, HandlerMissesNothing
    DEF IdleOnDatum, EnterOnbatt, EnterSelftest, Resume, Ignore, smVars
  <1>4. CASE state = "ONBATT" /\ OnbattOnDatum(e)
    BY <1>1, <1>4, HandlerMissesNothing
    DEF OnbattOnDatum, LeaveOnbatt, EnterIdle, Ignore, smVars
  <1>5. CASE state = "SELFTEST" /\ SelftestOnDatum(e)
    BY <1>1, <1>5, HandlerMissesNothing
    DEF SelftestOnDatum, EnterIdle, Ignore, smVars
  <1>6. CASE state \in ShutdownState /\ Ignore
    BY <1>1, <1>6, HandlerMissesNothing DEF Ignore, smVars, ShutdownState
  <1> QED
    BY <1>2, <1>3, <1>4, <1>5, <1>6 DEF HandleDatum

LEMMA HandleTimeoutEventMissesNothing ==
  ASSUME Basis, HandleTimeoutEvent PROVE NothingMissed'
  <1> DEFINE id == Head(queue).key
  <1>0. registered
    BY DEF Basis, NothingMissed
  <1>1. /\ pc = "wait" /\ queue # <<>> /\ Head(queue).type = "timeout"
        /\ queue' = Tail(queue) /\ UNCHANGED <<info, known, registered>>
    BY DEF HandleTimeoutEvent, Dequeue
  <1>2. CASE state = "ONBATT" /\ OnbattOnTimeout(id)
    <2>1. id \in OnbattTimer \ {"ONBATT_EVENT"}
            => ShutdownFor(id) \in ShutdownState
      BY DEF ShutdownFor, ShutdownState, OnbattTimer, TimerId
    <2> QED
      BY <1>0, <1>1, <1>2, <2>1, HandlerMissesNothing
      DEF OnbattOnTimeout, EnterShutdown, Resume, Ignore, smVars, ShutdownState
  <1>3. CASE state = "SELFTEST" /\ SelftestOnTimeout(id)
    BY <1>1, <1>3, HandlerMissesNothing
    DEF SelftestOnTimeout, EnterOnbatt, EnterIdle, IsSet, Ignore, smVars
  <1>4. CASE state \in {"IDLE"} \cup ShutdownState /\ Ignore
    BY <1>1, <1>4, HandlerMissesNothing DEF Ignore, smVars, ShutdownState
  <1> QED
    BY <1>2, <1>3, <1>4 DEF HandleTimeoutEvent

LEMMA NextMissesNothing == Basis /\ [Next]_vars => NothingMissed'
  <1> SUFFICES ASSUME Basis, [Next]_vars PROVE NothingMissed'
    OBVIOUS
  <1>1. TypeOK /\ NothingMissed /\ registered /\ pc # "register"
    BY DEF Basis, NothingMissed
  <1>2. CASE IdleOnEnter
    <2>1. CASE IsSet("Discharging") /\ EnterOnbatt
      BY <1>1, <1>2, <2>1 DEF IdleOnEnter, infoVars, IsSet, EnterOnbatt,
         Pending,
         NothingMissed, UnstoredIsZero, NoMissedPowerFailure,
         NoMissedMainsReturn, NoMissedTestEnd
    <2>2. CASE ~IsSet("Discharging") /\ UNCHANGED state /\ Resume
      <3>1. info["Discharging"] = 0
        BY <1>1, <2>2 DEF IsSet, NothingMissed, UnstoredIsZero, CI
      <3> QED
        BY <1>1, <1>2, <2>2, <3>1 DEF IdleOnEnter, Resume, infoVars, NothingMissed,
           UnstoredIsZero, NoMissedPowerFailure, NoMissedMainsReturn,
           NoMissedTestEnd, Pending
    <2> QED
      BY <1>2, <2>1, <2>2 DEF IdleOnEnter
  <1>3. CASE CheckShutdown
    <2>1. state = "ONBATT"
      BY <1>3 DEF CheckShutdown, Basis, TimersAndReports, HandlerAtState
    <2> QED
      BY <1>1, <1>3, <2>1, StillNothingMissed
      DEF CheckShutdown, Resume, infoVars
  <1>4. CASE Register
    BY <1>1, <1>4 DEF Register, NothingMissed
  <1>5. CASE HandleDatum
    BY <1>5, HandleDatumMissesNothing
  <1>6. CASE HandleTimeoutEvent
    BY <1>6, HandleTimeoutEventMissesNothing
  <1>7. ASSUME NEW t \in TimerId, Expire(t) PROVE NothingMissed'
    BY <1>1, <1>7, StillNothingMissed DEF Expire, infoVars
  <1>8. ASSUME NEW t \in TimerId, HandleTimeout(t) PROVE NothingMissed'
    <2>1. "Discharging" \in CI /\ "ST_STAT" \in CI
      BY DEF CI
    <2> QED
      BY <1>1, <1>8, <2>1, PendingAfterTimeout DEF HandleTimeout,
         NothingMissed, UnstoredIsZero, NoMissedPowerFailure,
         NoMissedMainsReturn, NoMissedTestEnd
  <1>9. ASSUME NEW ci \in CI, DriverUpdate(ci) PROVE NothingMissed'
    <2>1. PICK v \in Value[ci] : Update(ci, v)
      BY <1>9 DEF DriverUpdate
    <2> QED
      BY <1>9, <2>1, ValueAssumption, UpdateMissesNothing DEF DriverUpdate
  <1>10. ASSUME NEW ci \in CI, ReaderGet(ci) PROVE NothingMissed'
    BY <1>1, <1>10, StillNothingMissed DEF ReaderGet, GetDefault, smVars
  <1>11. CASE UNCHANGED vars
    BY <1>1, <1>11, StillNothingMissed DEF vars, infoVars, smVars
  <1> QED
    BY <1>2, <1>3, <1>4, <1>5, <1>6, <1>7, <1>8, <1>9, <1>10, <1>11
    DEF Next, StateMachineStep, TimerStep

LEMMA SteadyBasis == SteadyInit => Basis
  <1>1. SteadyInit => QueueInv
    BY DEF SteadyInit, OpenedInit, InfoInit, QueueInv, QueueEndsAtInfo,
       NoDatumUnregistered
  <1>2. SteadyInit => NothingMissed
    BY DEF SteadyInit, OpenedInit, InfoInit, CI, NothingMissed, UnstoredIsZero,
       NoMissedPowerFailure, NoMissedMainsReturn, NoMissedTestEnd
  <1> QED
    BY <1>1, <1>2, InitTypeOK, InitTimersAndReports DEF Basis

(* Once the state machine listens before the driver first posts, no power  *)
(* failure, no mains return and no end of a self test is overlooked.       *)
THEOREM NothingOverlooked ==
  SteadySpec
    => [](NoMissedPowerFailure /\ NoMissedMainsReturn /\ NoMissedTestEnd)
  <1>1. Basis /\ [Next]_vars => Basis'
    BY NextTypeOK, NextKeepsQueue, NextKeeps, NextMissesNothing DEF Basis
  <1>2. Basis
          => NoMissedPowerFailure /\ NoMissedMainsReturn /\ NoMissedTestEnd
    BY DEF Basis, NothingMissed
  <1> QED
    BY SteadyBasis, <1>1, <1>2, PTL DEF SteadySpec

(* The return of the mains is not overlooked, whatever state was entered   *)
(* by reading the database.                                                *)
COROLLARY MainsReturnNotOverlooked == SteadySpec => []NoMissedMainsReturn
  BY NothingOverlooked, PTL

(* Nor is the end of a self test.                                          *)
COROLLARY TestEndNotOverlooked == SteadySpec => []NoMissedTestEnd
  BY NothingOverlooked, PTL

-----------------------------------------------------------------------------
(* Where a timer is on its way it stays so, until its event is taken off   *)
(* the queue or it is stopped.                                             *)
LEMMA ArmedAfterDequeue ==
  ASSUME TypeOK, queue # <<>>, queue' = Tail(queue), NEW t \in TimerId,
         Armed(t), Head(queue) # Timeout(t),
         t \in started \cup firing => t \in started' \cup firing'
  PROVE  Armed(t)'
  <1>1. queue \in Seq(Event)
    BY DEF TypeOK, InfoTypeOK
  <1>2. ASSUME NEW i \in 1 .. Len(queue), queue[i] = Timeout(t)
        PROVE  \E j \in 1 .. Len(queue') : queue'[j] = Timeout(t)
    <2>1. i # 1
      BY <1>1, <1>2
    <2>2. i - 1 \in 1 .. Len(queue') /\ queue'[i - 1] = queue[i]
      BY <1>1, <2>1
    <2> QED
      BY <1>2, <2>2
  <1> QED
    BY <1>2 DEF Armed

LEMMA ArmedAfterAppend ==
  ASSUME TypeOK, NEW e, queue' = Append(queue, e) \/ queue' = queue,
         NEW t \in TimerId, Armed(t),
         t \in started \cup firing => t \in started' \cup firing' \/ e = Timeout(t),
         e = Timeout(t) => queue' = Append(queue, e)
  PROVE  Armed(t)'
  <1>1. queue \in Seq(Event)
    BY DEF TypeOK, InfoTypeOK
  <1>2. ASSUME NEW i \in 1 .. Len(queue)
        PROVE  i \in 1 .. Len(queue') /\ queue'[i] = queue[i]
    BY <1>1
  <1>3. CASE e = Timeout(t)
    <2>1. Len(queue) + 1 \in 1 .. Len(queue') /\ queue'[Len(queue) + 1] = Timeout(t)
      BY <1>1, <1>3
    <2> QED
      BY <2>1 DEF Armed
  <1>4. CASE t \in started' \cup firing'
    BY <1>4 DEF Armed
  <1>5. CASE ~(t \in started \cup firing)
    <2>1. PICK i \in 1 .. Len(queue) : queue[i] = Timeout(t)
      BY <1>5 DEF Armed
    <2> QED
      BY <1>2, <2>1 DEF Armed
  <1> QED
    BY <1>3, <1>4, <1>5

LEMMA ArmedAfterTimer ==
  ASSUME TypeOK, NEW u \in TimerId, Expire(u) \/ HandleTimeout(u),
         NEW t \in TimerId, Armed(t)
  PROVE  Armed(t)'
  <1>1. CASE Expire(u)
    BY <1>1 DEF Expire, infoVars, Armed
  <1>2. CASE HandleTimeout(u)
    <2>1. t \in started \cup firing => t \in started' \cup firing' \/ t = u
      BY <1>2 DEF HandleTimeout
    <2>2. Timeout(u) = Timeout(t) => t = u
      BY DEF Timeout
    <2> QED
      BY <1>2, <2>1, <2>2, ArmedAfterAppend DEF HandleTimeout
  <1> QED
    BY <1>1, <1>2

LEMMA ArmedAfterUpdate ==
  ASSUME TypeOK, NEW ci \in CI, DriverUpdate(ci), NEW t \in TimerId, Armed(t)
  PROVE  Armed(t)'
  <1>1. PICK v \in Value[ci] : Update(ci, v)
    BY DEF DriverUpdate
  <1>2. Datum(ci, v) # Timeout(t)
    BY DEF Datum, Timeout
  <1>3. queue' = Append(queue, Datum(ci, v)) \/ queue' = queue
    BY <1>1 DEF Update
  <1> QED
    BY <1>2, <1>3, ArmedAfterAppend DEF DriverUpdate, smVars

-----------------------------------------------------------------------------
(* The handlers keep ONBATTERY and the time limit on the way.              *)
LEMMA HandlerKeepsTimeouts ==
  ASSUME TypeOK, TimersAndReports, OnbattTimeoutsOnTheWay,
         HandleDatum \/ HandleTimeoutEvent
  PROVE  OnbattTimeoutsOnTheWay'
  <1> DEFINE e == Head(queue)
  <1>1. /\ pc = "wait" /\ queue # <<>> /\ queue' = Tail(queue)
        /\ UNCHANGED firing
    BY DEF HandleDatum, HandleTimeoutEvent, Dequeue
  <1>2. {"ONBATT_EVENT", "ONBATT_TIMELIMIT"} \subseteq TimerId
    BY DEF TimerId
  <1>3. ASSUME state = "ONBATT", UNCHANGED <<started, posted>>, pc' # "enter",
               \A t \in {"ONBATT_EVENT", "ONBATT_TIMELIMIT"} : e # Timeout(t)
        PROVE  OnbattTimeoutsOnTheWay'
    BY <1>1, <1>2, <1>3, ArmedAfterDequeue DEF OnbattTimeoutsOnTheWay
  <1>4. ASSUME EnterOnbatt PROVE OnbattTimeoutsOnTheWay'
    BY <1>4 DEF EnterOnbatt, OnbattTimeoutsOnTheWay, Armed
  <1>5. CASE state' # "ONBATT"
    BY <1>5 DEF OnbattTimeoutsOnTheWay
  <1>6. CASE HandleDatum
    <2>1. e.type = "datum"
      BY <1>6 DEF HandleDatum, Dequeue
    <2>2. \A t \in TimerId : e # Timeout(t)
      BY <2>1 DEF Timeout
    <2>3. CASE DatumAny(e)
      BY <1>1, <1>2, <1>3, <1>5, <2>2, <2>3 DEF DatumAny
    <2>4. CASE state = "ONBATT" /\ OnbattOnDatum(e)
      BY <1>1, <1>2, <1>3, <1>5, <2>2, <2>4
      DEF OnbattOnDatum, LeaveOnbatt, EnterIdle, Ignore, smVars
    <2>5. CASE state = "IDLE" /\ IdleOnDatum(e)
      BY <1>4, <1>5, <2>5 DEF IdleOnDatum, EnterSelftest, Ignore, smVars
    <2>6. CASE state = "SELFTEST" /\ SelftestOnDatum(e)
      BY <1>5, <2>6 DEF SelftestOnDatum, EnterIdle, Ignore, smVars
    <2>7. CASE state \in ShutdownState /\ Ignore
      BY <1>5, <2>7 DEF Ignore, smVars, ShutdownState
    <2> QED
      BY <1>6, <2>3, <2>4, <2>5, <2>6, <2>7 DEF HandleDatum
  <1>7. CASE HandleTimeoutEvent
    <2> DEFINE id == e.key
    <2>1. CASE state = "ONBATT" /\ OnbattOnTimeout(id)
      <3>1. CASE /\ id = "ONBATT_EVENT" /\ posted' = TRUE
                 /\ UNCHANGED <<state, pc, started>>
        <4>1. e # Timeout("ONBATT_TIMELIMIT")
          BY <3>1 DEF Timeout
        <4> QED
          BY <1>1, <1>2, <3>1, <4>1, <2>1, ArmedAfterDequeue
          DEF OnbattTimeoutsOnTheWay
      <3>2. CASE /\ id \in OnbattTimer \ {"ONBATT_EVENT"}
                 /\ EnterShutdown(ShutdownFor(id))
        <4>1. state' \in ShutdownState
          BY <3>2 DEF EnterShutdown, ShutdownFor, ShutdownState, OnbattTimer,
             TimerId
        <4> QED
          BY <1>5, <4>1 DEF ShutdownState
      <3>3. CASE id = "SELFTEST" /\ Ignore
        BY <1>1, <1>3, <2>1, <3>3 DEF Ignore, smVars, Timeout
      <3> QED
        BY <2>1, <3>1, <3>2, <3>3 DEF OnbattOnTimeout
    <2>2. CASE state = "SELFTEST" /\ SelftestOnTimeout(id)
      BY <1>4, <1>5, <2>2 DEF SelftestOnTimeout, EnterIdle, Ignore, smVars
    <2>3. CASE state \in {"IDLE"} \cup ShutdownState /\ Ignore
      BY <1>5, <2>3 DEF Ignore, smVars, ShutdownState
    <2> QED
      BY <1>7, <2>1, <2>2, <2>3 DEF HandleTimeoutEvent
  <1> QED
    BY <1>6, <1>7

LEMMA NextKeepsTimeouts ==
  ASSUME TypeOK, TimersAndReports, OnbattTimeoutsOnTheWay, [Next]_vars
  PROVE  OnbattTimeoutsOnTheWay'
  <1>1. {"ONBATT_EVENT", "ONBATT_TIMELIMIT"} \subseteq TimerId
    BY DEF TimerId
  <1>2. ASSUME UNCHANGED <<state, posted>>, pc' # "enter" => pc # "enter",
               \A t \in TimerId : Armed(t) => Armed(t)'
        PROVE  OnbattTimeoutsOnTheWay'
    BY <1>1, <1>2 DEF OnbattTimeoutsOnTheWay
  <1>3. CASE IdleOnEnter
    <2>1. CASE EnterOnbatt
      BY <2>1 DEF EnterOnbatt, OnbattTimeoutsOnTheWay, Armed
    <2>2. CASE UNCHANGED state
      BY <1>3, <2>2 DEF IdleOnEnter, TimersAndReports, HandlerAtState,
         OnbattTimeoutsOnTheWay
    <2> QED
      BY <1>3, <2>1, <2>2 DEF IdleOnEnter
  <1>4. CASE CheckShutdown
    <2>1. \A t \in TimerId : Armed(t) => Armed(t)'
      BY <1>4 DEF CheckShutdown, infoVars, Armed
    <2>2. MaxTime > 0 /\ pc = "enter" => Armed("ONBATT_TIMELIMIT")'
      BY <1>4 DEF CheckShutdown, Armed
    <2> QED
      BY <1>1, <1>4, <2>1, <2>2 DEF CheckShutdown, OnbattTimeoutsOnTheWay
  <1>5. CASE Register
    <2>1. \A t \in TimerId : Armed(t) => Armed(t)'
      BY <1>5 DEF Register, Armed
    <2> QED
      BY <1>2, <1>5, <2>1 DEF Register
  <1>6. CASE HandleDatum \/ HandleTimeoutEvent
    BY <1>6, HandlerKeepsTimeouts
  <1>7. ASSUME NEW t \in TimerId, Expire(t) \/ HandleTimeout(t)
        PROVE  OnbattTimeoutsOnTheWay'
    <2>1. UNCHANGED <<state, pc, posted>>
      BY <1>7 DEF Expire, HandleTimeout
    <2> QED
      BY <1>2, <1>7, <2>1, ArmedAfterTimer
  <1>8. ASSUME NEW ci \in CI, DriverUpdate(ci) PROVE OnbattTimeoutsOnTheWay'
    <2>1. UNCHANGED <<state, pc, posted>>
      BY <1>8 DEF DriverUpdate, smVars
    <2> QED
      BY <1>2, <1>8, <2>1, ArmedAfterUpdate
  <1>9. CASE UNCHANGED vars \/ \E ci \in CI : ReaderGet(ci)
    <2>1. UNCHANGED <<queue, smVars>>
      BY <1>9 DEF vars, infoVars, ReaderGet, GetDefault
    <2>2. \A t \in TimerId : Armed(t) => Armed(t)'
      BY <2>1 DEF smVars, Armed
    <2> QED
      BY <1>2, <2>1, <2>2 DEF smVars
  <1> QED
    BY <1>3, <1>4, <1>5, <1>6, <1>7, <1>8, <1>9
    DEF Next, StateMachineStep, TimerStep

(* In ONBATT the ONBATTERY event and the shutdown at the time limit are    *)
(* generated or on their way, from the first step of the daemon on.        *)
THEOREM TimeoutsOnTheWay == Spec \/ SteadySpec => []OnbattTimeoutsOnTheWay
  <1>1. Init \/ SteadyInit => TypeOK /\ TimersAndReports
    BY InitTypeOK, InitTimersAndReports
  <1>2. Init \/ SteadyInit => OnbattTimeoutsOnTheWay
    BY DEF Init, SteadyInit, OnbattTimeoutsOnTheWay
  <1>3. TypeOK /\ TimersAndReports /\ OnbattTimeoutsOnTheWay /\ [Next]_vars
          => TypeOK' /\ TimersAndReports' /\ OnbattTimeoutsOnTheWay'
    BY NextTypeOK, NextKeeps, NextKeepsTimeouts
  <1> QED
    BY <1>1, <1>2, <1>3, PTL DEF Spec, SteadySpec

-----------------------------------------------------------------------------
Debounce == {"ONBATT_LOADLIMIT", "ONBATT_RUNLIMIT", "ONBATT_BATTLOW"}
LimitKey == {"BATTLEV", "RUNTIM", "BattLow"}

LEMMA DebounceKeys ==
  /\ Trigger \subseteq Debounce
  /\ Debounce \subseteq TimerId /\ LimitKey \subseteq CI
  /\ \A t \in Debounce : TriggerKey(t) \in LimitKey
  BY DEF Trigger, OnbattTimer, TimerId, Debounce, LimitKey, TriggerKey, CI

(* A limit that is reached without a change of its value was reached       *)
(* before: a key that becomes known without one reads as 0.                *)
LEMMA TriggerBefore ==
  ASSUME TypeOK, UnstoredIsZero, NEW t \in Trigger',
         info'[TriggerKey(t)] = info[TriggerKey(t)], info[TriggerKey(t)] # 0
  PROVE  t \in Trigger
  <1>1. t \in Debounce
    BY DEF Trigger, OnbattTimer, TimerId, Debounce
  <1>2. TriggerKey(t) \in known
    BY <1>1, DebounceKeys DEF UnstoredIsZero
  <1>3. CASE t = "ONBATT_LOADLIMIT"
    BY <1>2, <1>3 DEF Trigger, TriggerKey, OnbattTimer
  <1>4. CASE t = "ONBATT_RUNLIMIT"
    BY <1>2, <1>4 DEF Trigger, TriggerKey, OnbattTimer
  <1>5. CASE t = "ONBATT_BATTLOW"
    BY <1>2, <1>5 DEF Trigger, TriggerKey, OnbattTimer, IsSet
  <1> QED
    BY <1>1, <1>3, <1>4, <1>5 DEF Debounce

(* What a step leaves to prove: a value that changed has its datum queued, *)
(* and the timers and data on their way stay so.                           *)
LEMMA TriggersKept ==
  ASSUME Basis, TriggersOnTheWay,
         state' = "ONBATT" /\ pc' = "wait" => state = "ONBATT" /\ pc = "wait",
         \A t \in Debounce : Armed(t) => Armed(t)',
         \A k \in LimitKey : Pending(k) \/ info'[k] # info[k] => Pending(k)'
  PROVE  TriggersOnTheWay'
  <1> SUFFICES ASSUME state' = "ONBATT", pc' = "wait", NEW t \in Trigger',
                      info'[TriggerKey(t)] # 0
               PROVE  Armed(t)' \/ Pending(TriggerKey(t))'
    BY DEF TriggersOnTheWay, TriggerKey
  <1>1. t \in Debounce /\ TriggerKey(t) \in LimitKey
    BY DebounceKeys DEF Trigger, OnbattTimer, TimerId, Debounce
  <1>2. CASE info'[TriggerKey(t)] = info[TriggerKey(t)]
    <2>1. t \in Trigger
      BY <1>2, TriggerBefore DEF Basis, NothingMissed
    <2> QED
      BY <1>1, <1>2, <2>1 DEF TriggersOnTheWay
  <1> QED
    BY <1>1, <1>2

LEMMA HandlerKeepsTriggers ==
  ASSUME Basis, TriggersOnTheWay, HandleDatum \/ HandleTimeoutEvent
  PROVE  TriggersOnTheWay'
  <1> DEFINE e == Head(queue)
  <1>1. /\ TypeOK /\ QueueInv /\ pc = "wait" /\ queue # <<>>
        /\ queue' = Tail(queue) /\ UNCHANGED <<info, known, firing>>
    BY DEF Basis, HandleDatum, HandleTimeoutEvent, Dequeue
  <1>2. CASE ~(state' = "ONBATT" /\ pc' = "wait")
    BY <1>2 DEF TriggersOnTheWay
  <1>3. ASSUME state = "ONBATT", UNCHANGED started,
               \A t \in Debounce : e # Timeout(t),
               \A k \in LimitKey : ~(e.type = "datum" /\ e.key = k)
        PROVE  TriggersOnTheWay'
    <2>1. \A t \in Debounce : Armed(t) => Armed(t)'
      BY <1>1, <1>3, DebounceKeys, ArmedAfterDequeue
    <2>2. \A k \in LimitKey : Pending(k) \/ info'[k] # info[k] => Pending(k)'
      BY <1>1, <1>3, DebounceKeys, PendingAfterDequeue
    <2> QED
      BY <1>1, <1>3, <2>1, <2>2, TriggersKept
  <1>4. CASE HandleDatum
    <2>1. e.type = "datum"
      BY <1>4 DEF HandleDatum, Dequeue
    <2>2. \A t \in Debounce : e # Timeout(t)
      BY <2>1 DEF Timeout
    <2>3. CASE state # "ONBATT"
      <3>1. CASE DatumAny(e)
        BY <1>2, <2>3, <3>1 DEF DatumAny
      <3>2. CASE state = "IDLE" /\ IdleOnDatum(e)
        BY <1>2, <3>2 DEF IdleOnDatum, EnterOnbatt, EnterSelftest, Ignore, smVars
      <3>3. CASE state = "SELFTEST" /\ SelftestOnDatum(e)
        BY <1>2, <3>3 DEF SelftestOnDatum, EnterIdle, Ignore, smVars
      <3>4. CASE state \in ShutdownState /\ Ignore
        BY <1>2, <2>3, <3>4 DEF Ignore, smVars
      <3> QED
        BY <1>4, <2>3, <3>1, <3>2, <3>3, <3>4 DEF HandleDatum
    <2>4. CASE state = "ONBATT" /\ DatumAny(e)
      BY <1>3, <2>2, <2>4 DEF DatumAny, LimitKey
    <2>5. CASE state = "ONBATT" /\ OnbattOnDatum(e)
      <3>1. CASE LeaveOnbatt
        BY <1>2, <3>1 DEF LeaveOnbatt, EnterIdle
      <3>2. CASE pc' = "check"
        BY <1>2, <3>2
      <3>3. CASE e.key \in {"ST_STAT", "Discharging"} /\ Ignore
        BY <1>3, <2>2, <2>5, <3>3 DEF Ignore, smVars, LimitKey
      <3> QED
        BY <2>5, <3>1, <3>2, <3>3 DEF OnbattOnDatum
    <2> QED
      BY <1>4, <2>3, <2>4, <2>5 DEF HandleDatum, ShutdownState
  <1>5. CASE HandleTimeoutEvent
    <2> DEFINE id == e.key
    <2>1. e.type = "timeout"
      BY <1>5 DEF HandleTimeoutEvent, Dequeue
    <2>2. CASE state = "ONBATT" /\ OnbattOnTimeout(id)
      <3>1. CASE id \in {"ONBATT_EVENT", "SELFTEST"} /\ UNCHANGED started
        BY <1>3, <2>1, <2>2, <3>1 DEF Timeout, Debounce
      <3>2. CASE /\ id \in OnbattTimer \ {"ONBATT_EVENT"}
                 /\ EnterShutdown(ShutdownFor(id))
        <4>1. state' \in ShutdownState
          BY <3>2 DEF EnterShutdown, ShutdownFor, ShutdownState, OnbattTimer,
             TimerId
        <4> QED
          BY <1>2, <4>1 DEF ShutdownState
      <3> QED
        BY <2>2, <3>1, <3>2 DEF OnbattOnTimeout, Ignore, smVars
    <2>3. CASE state = "SELFTEST" /\ SelftestOnTimeout(id)
      BY <1>2, <2>3 DEF SelftestOnTimeout, EnterOnbatt, EnterIdle, Ignore, smVars
    <2>4. CASE state \in {"IDLE"} \cup ShutdownState /\ Ignore
      BY <1>2, <2>4 DEF Ignore, smVars, ShutdownState
    <2> QED
      BY <1>5, <2>2, <2>3, <2>4 DEF HandleTimeoutEvent
  <1> QED
    BY <1>4, <1>5

LEMMA NextKeepsTriggers ==
  ASSUME Basis, TriggersOnTheWay, [Next]_vars PROVE TriggersOnTheWay'
  <1>1. TypeOK /\ registered
    BY DEF Basis, NothingMissed
  <1>2. CASE ~(state' = "ONBATT" /\ pc' = "wait")
    BY <1>2 DEF TriggersOnTheWay
  <1>3. CASE IdleOnEnter
    BY <1>2, <1>3 DEF IdleOnEnter, EnterOnbatt, Basis, TimersAndReports,
       HandlerAtState
  <1>4. CASE CheckShutdown
    <2>1. Trigger' = Trigger /\ Trigger \subseteq started'
      BY <1>4 DEF CheckShutdown, infoVars, Trigger, IsSet
    <2> QED
      BY <2>1 DEF TriggersOnTheWay, Armed
  <1>5. CASE Register
    BY <1>5 DEF Register, Basis, NothingMissed
  <1>6. CASE HandleDatum \/ HandleTimeoutEvent
    BY <1>6, HandlerKeepsTriggers
  <1>7. ASSUME NEW t \in TimerId, Expire(t) \/ HandleTimeout(t)
        PROVE  TriggersOnTheWay'
    <2>1. UNCHANGED <<info, state, pc>>
      BY <1>7 DEF Expire, HandleTimeout, infoVars
    <2>2. \A k \in LimitKey : Pending(k) => Pending(k)'
      <3>1. CASE Expire(t)
        BY <3>1 DEF Expire, infoVars, Pending
      <3>2. CASE HandleTimeout(t)
        BY <1>1, <3>2, DebounceKeys, PendingAfterTimeout DEF HandleTimeout
      <3> QED
        BY <1>7, <3>1, <3>2
    <2>3. \A u \in Debounce : Armed(u) => Armed(u)'
      BY <1>1, <1>7, DebounceKeys, ArmedAfterTimer
    <2> QED
      BY <2>1, <2>2, <2>3, TriggersKept
  <1>8. ASSUME NEW ci \in CI, DriverUpdate(ci) PROVE TriggersOnTheWay'
    <2>1. UNCHANGED <<state, pc>>
      BY <1>8 DEF DriverUpdate, smVars
    <2>2. PICK v \in Value[ci] : Update(ci, v)
      BY <1>8 DEF DriverUpdate
    <2>3. v \in Int
      BY <2>2, ValueAssumption
    <2>4. \A k \in LimitKey : Pending(k) \/ info'[k] # info[k] => Pending(k)'
      BY <1>1, <2>2, <2>3, DebounceKeys, PendingAfterUpdate
    <2>5. \A u \in Debounce : Armed(u) => Armed(u)'
      BY <1>1, <1>8, DebounceKeys, ArmedAfterUpdate
    <2> QED
      BY <2>1, <2>4, <2>5, TriggersKept
  <1>9. CASE UNCHANGED vars \/ \E ci \in CI : ReaderGet(ci)
    <2>1. UNCHANGED <<info, queue, smVars>>
      BY <1>9 DEF vars, infoVars, ReaderGet, GetDefault
    <2>2. \A u \in Debounce : Armed(u) => Armed(u)'
      BY <2>1 DEF smVars, Armed
    <2>3. \A k \in LimitKey : Pending(k) => Pending(k)'
      BY <2>1 DEF Pending
    <2> QED
      BY <2>1, <2>2, <2>3, TriggersKept DEF smVars
  <1> QED
    BY <1>3, <1>4, <1>5, <1>6, <1>7, <1>8, <1>9
    DEF Next, StateMachineStep, TimerStep

(* Every shutdown condition that holds in ONBATT has its timer on the way, *)
(* or the datum that starts it on the queue.                               *)
THEOREM LimitsOnTheWay == SteadySpec => []TriggersOnTheWay
  <1>1. SteadyInit => Basis /\ TriggersOnTheWay
    <2>1. SteadyInit => TriggersOnTheWay
      BY DEF SteadyInit, TriggersOnTheWay
    <2> QED
      BY <2>1, SteadyBasis
  <1>2. Basis /\ [Next]_vars => Basis'
    BY NextTypeOK, NextKeepsQueue, NextKeeps, NextMissesNothing DEF Basis
  <1>3. Basis /\ TriggersOnTheWay /\ [Next]_vars => TriggersOnTheWay'
    BY NextKeepsTriggers
  <1> QED
    BY <1>1, <1>2, <1>3, PTL DEF SteadySpec

-----------------------------------------------------------------------------
(* Battery data on the queue contradict one another in turn, beginning     *)
(* with what was reported last: update() repeats no value.                 *)
Battery(i) == queue[i].type = "datum" /\ queue[i].key = "BatteryPresent"
Present == IF log.present THEN 1 ELSE 0

Alternates ==
  /\ "BatteryPresent" \in known /\ info["BatteryPresent"] \in {0, 1}
  /\ \A i \in 1 .. Len(queue) : Battery(i) => queue[i].value \in {0, 1}
  /\ \A i, j \in 1 .. Len(queue) :
       /\ i < j /\ Battery(i) /\ Battery(j)
       /\ \A m \in (i + 1) .. (j - 1) : ~Battery(m)
       => queue[i].value # queue[j].value
  /\ \A i \in 1 .. Len(queue) :
       Battery(i) /\ (\A m \in 1 .. (i - 1) : ~Battery(m))
         => queue[i].value # Present
  /\ ~Pending("BatteryPresent") => info["BatteryPresent"] = Present

Fitting == EventsFit /\ Alternates

LEMMA DequeueKeepsAlternation ==
  ASSUME TypeOK, QueueInv, Alternates, queue # <<>>, queue' = Tail(queue),
         UNCHANGED <<info, known>>,
         IF Battery(1) THEN Present' = queue[1].value ELSE Present' = Present
  PROVE  Alternates'
  <1> DEFINE n == Len(queue)
  <1>1. queue \in Seq(Event) /\ n \in Nat /\ n >= 1
    BY DEF TypeOK, InfoTypeOK
  <1>2. /\ Len(queue') = n - 1
        /\ \A i \in 1 .. (n - 1) : queue'[i] = queue[i + 1]
    BY <1>1
  <1>3. \A i \in 1 .. (n - 1) : Battery(i)' <=> Battery(i + 1)
    BY <1>2 DEF Battery
  <1>4. \A i \in 1 .. (n - 1) : Battery(i)' => queue'[i].value \in {0, 1}
    BY <1>1, <1>2, <1>3 DEF Alternates
  <1>5. ASSUME NEW i \in 1 .. (n - 1), NEW j \in 1 .. (n - 1), i < j,
               Battery(i)', Battery(j)',
               \A m \in (i + 1) .. (j - 1) : ~Battery(m)'
        PROVE  queue'[i].value # queue'[j].value
    <2>1. ASSUME NEW m \in (i + 2) .. j PROVE ~Battery(m)
      <3>1. m - 1 \in (i + 1) .. (j - 1) /\ m - 1 \in 1 .. (n - 1)
        BY <1>1
      <3>2. Battery(m - 1)' <=> Battery(m)
        BY <1>1, <1>3, <3>1
      <3> QED
        BY <1>5, <3>1, <3>2
    <2>2. /\ i + 1 \in 1 .. n /\ j + 1 \in 1 .. n /\ i + 1 < j + 1
          /\ (i + 1) + 1 = i + 2 /\ (j + 1) - 1 = j
      BY <1>1, <1>5
    <2>3. Battery(i + 1) /\ Battery(j + 1)
      BY <1>3, <1>5
    <2>4. queue[i + 1].value # queue[j + 1].value
      BY <2>1, <2>2, <2>3 DEF Alternates
    <2> QED
      BY <1>2, <2>4
  <1>6. ASSUME NEW i \in 1 .. (n - 1), Battery(i)',
               \A m \in 1 .. (i - 1) : ~Battery(m)'
        PROVE  queue'[i].value # Present'
    <2>1. ASSUME NEW m \in 2 .. i PROVE ~Battery(m)
      <3>1. m - 1 \in 1 .. (i - 1) /\ m - 1 \in 1 .. (n - 1)
        BY <1>1
      <3>2. Battery(m - 1)' <=> Battery(m)
        BY <1>1, <1>3, <3>1
      <3> QED
        BY <1>6, <3>1, <3>2
    <2>2. /\ 1 \in 1 .. n /\ i + 1 \in 1 .. n /\ 1 < i + 1
          /\ (i + 1) - 1 = i /\ 1 + 1 = 2
      BY <1>1
    <2>3. Battery(i + 1)
      BY <1>3, <1>6
    <2>4. CASE Battery(1)
      <3>1. queue[1].value # queue[i + 1].value
        BY <2>1, <2>2, <2>3, <2>4 DEF Alternates
      <3> QED
        BY <1>2, <2>4, <3>1
    <2>5. CASE ~Battery(1)
      <3>1. \A m \in 1 .. i : ~Battery(m)
        <4>1. \A m \in 1 .. i : m = 1 \/ m \in 2 .. i
          BY <1>1
        <4> QED
          BY <2>1, <2>5, <4>1
      <3>2. queue[i + 1].value # Present
        BY <2>2, <2>3, <3>1 DEF Alternates
      <3> QED
        BY <1>2, <2>5, <3>2
    <2> QED
      BY <2>4, <2>5
  <1>7. ASSUME ~Pending("BatteryPresent")'
        PROVE  info["BatteryPresent"] = Present'
    <2>1. "BatteryPresent" \in CI /\ Head(queue) = queue[1] /\ 1 \in 1 .. n
      BY <1>1 DEF CI
    <2>2. CASE Pending("BatteryPresent")
      <3>1. Battery(1) /\ queue[1].value = info["BatteryPresent"]
        BY <1>7, <2>1, <2>2, PendingAfterDequeue DEF Battery
      <3> QED
        BY <3>1
    <2>3. CASE ~Pending("BatteryPresent")
      <3>1. ~Battery(1)
        BY <2>1, <2>3 DEF Pending, Battery
      <3> QED
        BY <2>3, <3>1 DEF Alternates
    <2> QED
      BY <2>2, <2>3
  <1> QED
    BY <1>2, <1>4, <1>5, <1>6, <1>7 DEF Alternates

LEMMA AppendKeepsAlternation ==
  ASSUME TypeOK, QueueInv, Alternates, NEW e, queue' = Append(queue, e),
         "BatteryPresent" \in known', UNCHANGED log,
         IF e.type = "datum" /\ e.key = "BatteryPresent"
           THEN /\ e.value \in {0, 1} /\ e.value # info["BatteryPresent"]
                /\ info'["BatteryPresent"] = e.value
           ELSE info'["BatteryPresent"] = info["BatteryPresent"]
  PROVE  Alternates'
  <1> DEFINE B == e.type = "datum" /\ e.key = "BatteryPresent"
  <1>0. queue \in Seq(Event) /\ Len(queue) \in Nat
    BY DEF TypeOK, InfoTypeOK
  <1> SUFFICES ASSUME NEW n \in Nat, n = Len(queue) PROVE Alternates'
    BY <1>0
  <1>1. queue \in Seq(Event) /\ n \in Nat
    BY <1>0
  <1>2. /\ Len(queue') = n + 1 /\ queue'[n + 1] = e
        /\ \A i \in 1 .. n : queue'[i] = queue[i]
    BY <1>1
  <1>3. /\ \A i \in 1 .. n : Battery(i)' <=> Battery(i)
        /\ Battery(n + 1)' <=> B
    BY <1>2 DEF Battery
  <1>4. Present' = Present
    BY DEF Present
  <1>5. info'["BatteryPresent"] \in {0, 1}
    BY DEF Alternates
  <1>6. \A i \in 1 .. (n + 1) : i = n + 1 \/ i \in 1 .. n
    BY <1>1
  <1>7. \A i \in 1 .. (n + 1) : Battery(i)' => queue'[i].value \in {0, 1}
    BY <1>2, <1>3, <1>6 DEF Alternates
  <1>8. ASSUME NEW i \in 1 .. (n + 1), NEW j \in 1 .. (n + 1), i < j,
               Battery(i)', Battery(j)',
               \A m \in (i + 1) .. (j - 1) : ~Battery(m)'
        PROVE  queue'[i].value # queue'[j].value
    <2>1. i \in 1 .. n
      BY <1>1, <1>8
    <2>2. \A m \in (i + 1) .. (j - 1) : m \in 1 .. n /\ ~Battery(m)
      <3>1. \A m \in (i + 1) .. (j - 1) : m \in 1 .. n
        BY <1>1
      <3> QED
        BY <1>3, <1>8, <3>1
    <2>3. CASE j \in 1 .. n
      BY <1>2, <1>3, <1>8, <2>1, <2>2, <2>3 DEF Alternates
    <2>4. CASE j = n + 1
      <3>1. B
        BY <1>3, <1>8, <2>4
      <3>2. Battery(i)
        BY <1>3, <1>8, <2>1
      <3>3. Newest(i)
        <4>1. ASSUME NEW m \in (i + 1) .. Len(queue)
              PROVE  queue[m].type = "timeout" \/ queue[m].key # queue[i].key
          <5>1. m \in (i + 1) .. (j - 1) /\ m \in 1 .. n
            BY <1>1, <2>1, <2>4
          <5>2. ~Battery(m) /\ queue[m] \in Event
            BY <1>1, <2>2, <5>1
          <5> QED
            BY <3>2, <5>2 DEF Battery, Event
        <4> QED
          BY <3>2, <4>1 DEF Newest, Battery
      <3>4. queue[i].value = info["BatteryPresent"]
        BY <2>1, <3>2, <3>3 DEF QueueInv, QueueEndsAtInfo, Battery
      <3> QED
        BY <1>2, <2>1, <2>4, <3>1, <3>4
    <2> QED
      BY <1>6, <2>3, <2>4
  <1>9. ASSUME NEW i \in 1 .. (n + 1), Battery(i)',
               \A m \in 1 .. (i - 1) : ~Battery(m)'
        PROVE  queue'[i].value # Present'
    <2>1. \A m \in 1 .. (i - 1) : m \in 1 .. n /\ ~Battery(m)
      <3>1. \A m \in 1 .. (i - 1) : m \in 1 .. n
        BY <1>1
      <3> QED
        BY <1>3, <1>9, <3>1
    <2>2. CASE i \in 1 .. n
      BY <1>2, <1>3, <1>4, <1>9, <2>1, <2>2 DEF Alternates
    <2>3. CASE i = n + 1
      <3>1. B
        BY <1>3, <1>9, <2>3
      <3>2. i - 1 = n
        BY <1>1, <2>3
      <3>3. ~Pending("BatteryPresent")
        BY <2>1, <3>2 DEF Pending, Battery
      <3> QED
        BY <1>2, <1>4, <2>3, <3>1, <3>3 DEF Alternates
    <2> QED
      BY <1>6, <2>2, <2>3
  <1>10. ASSUME ~Pending("BatteryPresent")'
         PROVE  info'["BatteryPresent"] = Present'
    <2>1. n + 1 \in 1 .. Len(queue') /\ \A i \in 1 .. n : i \in 1 .. Len(queue')
      BY <1>1, <1>2
    <2>2. ~B
      BY <1>2, <1>10, <2>1 DEF Pending
    <2>3. ~Pending("BatteryPresent")
      BY <1>2, <1>10, <2>1 DEF Pending
    <2> QED
      BY <1>4, <2>2, <2>3 DEF Alternates
  <1> QED
    BY <1>2, <1>5, <1>7, <1>8, <1>9, <1>10 DEF Alternates

LEMMA QuietKeepsAlternation ==
  ASSUME Alternates, UNCHANGED <<info, queue>>, known \subseteq known',
         log'.present = log.present
  PROVE  Alternates'
  BY DEF Alternates, Battery, Present, Pending

(* The events that can contradict an earlier one, and those that cannot.   *)
LEMMA FittingReport ==
  ASSUME EventsFit, NEW e \in UpsEvent, Fits(log, e) \/ e = "ONBATTERY",
         log' = Reported(log, e)
  PROVE  EventsFit'
  BY DEF EventsFit, Reported

LEMMA PresentKept ==
  ASSUME NEW l, NEW e, e \notin {"BATTATTACH", "BATTDETACH"}
  PROVE  Reported(l, e).present = l.present
  BY DEF Reported

LEMMA EnterOnbattFits ==
  ASSUME TypeOK, TimersAndReports, EventsFit, EnterOnbatt,
         state \in {"IDLE", "SELFTEST"}
  PROVE  EventsFit' /\ log'.present = log.present
  <1>1. ~log.outage
    BY DEF TimersAndReports, ReportsMatchState, ShutdownState
  <1>2. Fits(log, "POWEROUT")
    BY <1>1 DEF Fits
  <1> QED
    BY <1>2, FittingReport, PresentKept DEF EnterOnbatt, generate_event, UpsEvent

LEMMA LeaveOnbattFits ==
  ASSUME TypeOK, TimersAndReports, EventsFit, LeaveOnbatt, state = "ONBATT"
  PROVE  EventsFit' /\ log'.present = log.present
  <1>1. log.outage /\ (log.onbattery <=> posted)
    BY DEF TypeOK, LogType, TimersAndReports, ReportsMatchState
  <1>2. CASE posted
    <2> DEFINE l == Reported(log, "OFFBATTERY")
    <2>1. /\ l.misfit = log.misfit /\ l.present = log.present
          /\ l.outage /\ ~l.onbattery
      BY <1>1, <1>2 DEF Reported, Fits
    <2>2. log' = Reported(l, "MAINSBACK")
      BY <1>2 DEF LeaveOnbatt
    <2> HIDE DEF l
    <2> QED
      BY <2>1, <2>2 DEF Reported, Fits, EventsFit
  <1>3. CASE ~posted
    BY <1>1, <1>3 DEF LeaveOnbatt, Reported, Fits, EventsFit
  <1> QED
    BY <1>2, <1>3

LEMMA HandleDatumFits ==
  ASSUME Basis, Fitting, HandleDatum PROVE Fitting'
  <1> DEFINE e == Head(queue)
  <1>1. /\ TypeOK /\ QueueInv /\ TimersAndReports /\ EventsFit /\ Alternates
        /\ queue # <<>> /\ queue' = Tail(queue) /\ e.type = "datum"
        /\ UNCHANGED <<info, known>>
    BY DEF Basis, Fitting, HandleDatum, Dequeue
  <1>2. queue \in Seq(Event) /\ e = queue[1] /\ 1 \in 1 .. Len(queue)
    BY <1>1 DEF TypeOK, InfoTypeOK
  <1>3. log.present \in BOOLEAN
    BY <1>1 DEF TypeOK, LogType
  <1>4. CASE DatumAny(e)
    <2>1. Battery(1) /\ e.value \in {0, 1}
      BY <1>1, <1>2, <1>4 DEF DatumAny, Battery, Alternates
    <2>2. e.value # Present
      <3>1. \A m \in 1 .. (1 - 1) : ~Battery(m)
        OBVIOUS
      <3> QED
        BY <1>1, <1>2, <2>1, <3>1 DEF Alternates
    <2>3. CASE e.value = 1
      <3>1. log' = Reported(log, "BATTATTACH") /\ Fits(log, "BATTATTACH")
        BY <1>3, <1>4, <2>2, <2>3 DEF DatumAny, generate_event, Present, Fits
      <3>2. EventsFit'
        BY <1>1, <3>1, FittingReport DEF UpsEvent
      <3>3. Present' = queue[1].value
        BY <1>2, <2>3, <3>1 DEF Present, Reported
      <3> QED
        BY <1>1, <2>1, <3>2, <3>3, DequeueKeepsAlternation DEF Fitting
    <2>4. CASE e.value = 0
      <3>1. log' = Reported(log, "BATTDETACH") /\ Fits(log, "BATTDETACH")
        BY <1>3, <1>4, <2>2, <2>4 DEF DatumAny, generate_event, Present, Fits
      <3>2. EventsFit'
        BY <1>1, <3>1, FittingReport DEF UpsEvent
      <3>3. Present' = queue[1].value
        BY <1>2, <2>4, <3>1 DEF Present, Reported
      <3> QED
        BY <1>1, <2>1, <3>2, <3>3, DequeueKeepsAlternation DEF Fitting
    <2> QED
      BY <2>1, <2>3, <2>4
  <1>5. ASSUME e.key # "BatteryPresent", EventsFit', log'.present = log.present
        PROVE  Fitting'
    <2>1. ~Battery(1) /\ Present' = Present
      BY <1>2, <1>5 DEF Battery, Present
    <2> QED
      BY <1>1, <1>5, <2>1, DequeueKeepsAlternation DEF Fitting
  <1>6. ASSUME Ignore PROVE EventsFit' /\ log'.present = log.present
    BY <1>1, <1>6 DEF Ignore, smVars, EventsFit
  <1>7. CASE state = "IDLE" /\ IdleOnDatum(e) /\ e.key # "BatteryPresent"
    <2>1. CASE EnterOnbatt
      BY <1>1, <1>5, <1>7, <2>1, EnterOnbattFits
    <2>2. CASE EnterSelftest
      BY <1>1, <1>5, <1>7, <2>2, FittingReport, PresentKept
      DEF EnterSelftest, generate_event, UpsEvent, Fits
    <2> QED
      BY <1>5, <1>6, <1>7, <2>1, <2>2 DEF IdleOnDatum
  <1>8. CASE state = "ONBATT" /\ OnbattOnDatum(e) /\ e.key # "BatteryPresent"
    <2>1. CASE LeaveOnbatt
      BY <1>1, <1>5, <1>8, <2>1, LeaveOnbattFits
    <2>2. CASE UNCHANGED log
      BY <1>1, <1>5, <1>8, <2>2 DEF EventsFit
    <2> QED
      BY <1>5, <1>6, <1>8, <2>1, <2>2 DEF OnbattOnDatum
  <1>9. CASE state = "SELFTEST" /\ SelftestOnDatum(e) /\ e.key # "BatteryPresent"
    <2>1. CASE generate_event("ENDSELFTEST")
      BY <1>1, <1>5, <1>9, <2>1, FittingReport, PresentKept
      DEF generate_event, UpsEvent, Fits
    <2> QED
      BY <1>5, <1>6, <1>9, <2>1 DEF SelftestOnDatum
  <1>10. CASE Ignore /\ e.key # "BatteryPresent"
    BY <1>5, <1>6, <1>10
  <1> QED
    BY <1>4, <1>7, <1>8, <1>9, <1>10 DEF HandleDatum

LEMMA HandleTimeoutEventFits ==
  ASSUME Basis, Fitting, HandleTimeoutEvent PROVE Fitting'
  <1> DEFINE id == Head(queue).key
  <1>1. /\ TypeOK /\ QueueInv /\ TimersAndReports /\ EventsFit /\ Alternates
        /\ queue # <<>> /\ queue' = Tail(queue)
        /\ Head(queue).type = "timeout" /\ UNCHANGED <<info, known>>
    BY DEF Basis, Fitting, HandleTimeoutEvent, Dequeue
  <1>2. ASSUME EventsFit', log'.present = log.present PROVE Fitting'
    <2>1. Head(queue) = queue[1]
      BY <1>1 DEF TypeOK, InfoTypeOK
    <2>2. ~Battery(1) /\ Present' = Present
      BY <1>1, <1>2, <2>1 DEF Battery, Present
    <2> QED
      BY <1>1, <1>2, <2>2, DequeueKeepsAlternation DEF Fitting
  <1>3. CASE UNCHANGED log
    BY <1>1, <1>2, <1>3 DEF EventsFit
  <1>4. ASSUME NEW e \in {"ONBATTERY", "ENDSELFTEST"}, generate_event(e)
        PROVE  Fitting'
    BY <1>1, <1>2, <1>4, FittingReport, PresentKept
    DEF generate_event, UpsEvent, Fits
  <1>5. CASE state = "SELFTEST" /\ EnterOnbatt
    BY <1>1, <1>2, <1>5, EnterOnbattFits
  <1> QED
    BY <1>3, <1>4, <1>5 DEF HandleTimeoutEvent, OnbattOnTimeout,
       SelftestOnTimeout, Ignore, smVars

LEMMA NextFits ==
  ASSUME Basis, Fitting, [Next]_vars PROVE Fitting'
  <1>1. TypeOK /\ QueueInv /\ TimersAndReports /\ EventsFit /\ Alternates /\ registered
    BY DEF Basis, Fitting, NothingMissed
  <1>2. ASSUME UNCHANGED <<info, queue, log>>, known \subseteq known' PROVE Fitting'
    BY <1>1, <1>2, QuietKeepsAlternation DEF Fitting, EventsFit
  <1>3. CASE IdleOnEnter
    <2>1. CASE EnterOnbatt
      BY <1>1, <1>3, <2>1, EnterOnbattFits, QuietKeepsAlternation
      DEF IdleOnEnter, infoVars, Fitting, TimersAndReports, HandlerAtState
    <2>2. CASE UNCHANGED log
      BY <1>2, <1>3, <2>2 DEF IdleOnEnter, infoVars
    <2> QED
      BY <1>3, <2>1, <2>2 DEF IdleOnEnter
  <1>4. CASE CheckShutdown \/ Register
    BY <1>2, <1>4 DEF CheckShutdown, Register, infoVars
  <1>5. CASE HandleDatum
    BY <1>5, HandleDatumFits
  <1>6. CASE HandleTimeoutEvent
    BY <1>6, HandleTimeoutEventFits
  <1>7. ASSUME NEW t \in TimerId, Expire(t) PROVE Fitting'
    BY <1>2, <1>7 DEF Expire, infoVars
  <1>8. ASSUME NEW t \in TimerId, HandleTimeout(t) PROVE Fitting'
    <2>1. /\ queue' = Append(queue, Timeout(t)) /\ UNCHANGED <<info, known, log>>
      BY <1>8 DEF HandleTimeout
    <2>2. "BatteryPresent" \in known /\ Timeout(t).type # "datum"
      BY <1>1 DEF Alternates, Timeout
    <2>3. Alternates'
      BY <1>1, <2>1, <2>2, AppendKeepsAlternation
    <2> QED
      BY <1>1, <2>1, <2>3 DEF Fitting, EventsFit
  <1>9. ASSUME NEW ci \in CI, DriverUpdate(ci) PROVE Fitting'
    <2>1. UNCHANGED log /\ EventsFit'
      BY <1>1, <1>9 DEF DriverUpdate, smVars, EventsFit
    <2>2. PICK v \in Value[ci] : Update(ci, v)
      BY <1>9 DEF DriverUpdate
    <2>3. /\ known' = known \cup {ci} /\ info' = [info EXCEPT ![ci] = v]
          /\ info \in [CI -> Int]
      BY <1>1, <2>2 DEF Update, TypeOK, InfoTypeOK
    <2>4. CASE Changes(ci, v)
      <3> DEFINE e == Datum(ci, v)
      <3>1. queue' = Append(queue, e)
        BY <1>1, <2>2, <2>4 DEF Update
      <3>2. "BatteryPresent" \in known'
        BY <1>1, <2>3 DEF Alternates
      <3>3. CASE ci = "BatteryPresent"
        <4>1. v \in {0, 1} /\ v # info["BatteryPresent"]
          BY <1>1, <2>4, <3>3, PresentAssumption DEF Alternates, Changes
        <4>2. /\ e.type = "datum" /\ e.key = "BatteryPresent" /\ e.value = v
              /\ info'["BatteryPresent"] = v
          BY <2>3, <3>3 DEF Datum
        <4>3. Alternates'
          BY <1>1, <2>1, <3>1, <3>2, <4>1, <4>2, AppendKeepsAlternation
        <4> QED
          BY <2>1, <4>3 DEF Fitting
      <3>4. CASE ci # "BatteryPresent"
        <4>1. e.key # "BatteryPresent" /\ info'["BatteryPresent"] = info["BatteryPresent"]
          BY <2>3, <3>4 DEF Datum, CI
        <4>2. Alternates'
          BY <1>1, <2>1, <3>1, <3>2, <4>1, AppendKeepsAlternation
        <4> QED
          BY <2>1, <4>2 DEF Fitting
      <3> QED
        BY <3>3, <3>4
    <2>5. CASE ~Changes(ci, v)
      <3>1. queue' = queue /\ info' = info
        BY <2>2, <2>3, <2>5 DEF Update, Changes
      <3> QED
        BY <1>2, <2>1, <2>3, <3>1
    <2> QED
      BY <2>4, <2>5
  <1>10. ASSUME NEW ci \in CI, ReaderGet(ci) PROVE Fitting'
    BY <1>2, <1>10 DEF ReaderGet, GetDefault, smVars
  <1>11. CASE UNCHANGED vars
    BY <1>2, <1>11 DEF vars, infoVars, smVars
  <1> QED
    BY <1>3, <1>4, <1>5, <1>6, <1>7, <1>8, <1>9, <1>10, <1>11
    DEF Next, StateMachineStep, TimerStep

(* No event contradicts the ones before it, except that a stale timeout    *)
(* may repeat ONBATTERY.                                                   *)
THEOREM NoContradiction == SteadySpec => []EventsFit
  <1>1. SteadyInit => Fitting
    BY DEF SteadyInit, OpenedInit, InfoInit, CI, NothingReported, Fitting,
       EventsFit, Alternates, Battery, Present, Pending
  <1>2. Basis /\ Fitting /\ [Next]_vars => Basis' /\ Fitting'
    BY NextFits, NextTypeOK, NextKeepsQueue, NextKeeps, NextMissesNothing DEF Basis
  <1>3. Fitting => EventsFit
    BY DEF Fitting
  <1> QED
    BY SteadyBasis, <1>1, <1>2, <1>3, PTL DEF SteadySpec

-----------------------------------------------------------------------------
(* The timers.                                                             *)
UsedStep(t) == [Used(t)!TimerNext]_(Used(t)!timerVars)

LEMMA StartsUsed ==
  ASSUME NEW t \in TimerId, started \subseteq started', firing' = firing
  PROVE  UsedStep(t)
  <1>1. CASE t \in started'
    BY <1>1 DEF UsedStep, Used!TimerNext, Used!Start
  <1>2. CASE t \notin started'
    BY <1>2 DEF UsedStep, Used!timerVars
  <1> QED
    BY <1>1, <1>2

(* Stopping waits for a callback that runs beside the timer it restarted.  *)
LEMMA StopsUsed ==
  ASSUME NEW t \in TimerId, NEW stopped,
         started \cap firing \cap stopped = {}, started' = started \ stopped,
         firing' = firing
  PROVE  UsedStep(t)
  <1>1. CASE t \in stopped
    BY <1>1 DEF UsedStep, Used!TimerNext, Used!Stop
  <1>2. CASE t \notin stopped
    BY <1>2 DEF UsedStep, Used!timerVars
  <1> QED
    BY <1>1, <1>2

LEMMA StateMachineUses ==
  ASSUME NEW t \in TimerId, StateMachineStep PROVE UsedStep(t)
  <1>1. firing' = firing
    BY DEF StateMachineStep, IdleOnEnter, CheckShutdown, Register, HandleDatum,
       HandleTimeoutEvent, Dequeue
  <1>2. CASE StopOnbattTimers
    BY <1>1, <1>2, StopsUsed DEF StopOnbattTimers
  <1>3. CASE /\ ~("SELFTEST" \in started \cap firing)
             /\ started' = started \ {"SELFTEST"}
    <2>1. started \cap firing \cap {"SELFTEST"} = {}
      BY <1>3
    <2> QED
      BY <1>1, <1>3, <2>1, StopsUsed
  <1>4. CASE started \subseteq started'
    BY <1>1, <1>4, StartsUsed
  <1>5. CASE IdleOnEnter \/ CheckShutdown \/ Register
    BY <1>4, <1>5 DEF IdleOnEnter, EnterOnbatt, CheckShutdown, Register
  <1>6. CASE HandleDatum
    <2> DEFINE e == Head(queue)
    <2>1. CASE DatumAny(e) \/ Ignore
      BY <1>4, <2>1 DEF DatumAny, Ignore, smVars
    <2>2. CASE IdleOnDatum(e)
      BY <1>4, <2>2 DEF IdleOnDatum, EnterOnbatt, EnterSelftest, Ignore, smVars
    <2>3. CASE OnbattOnDatum(e)
      BY <1>2, <1>4, <2>3 DEF OnbattOnDatum, LeaveOnbatt, Ignore, smVars
    <2>4. CASE SelftestOnDatum(e)
      BY <1>3, <1>4, <2>4 DEF SelftestOnDatum, Ignore, smVars
    <2> QED
      BY <1>6, <2>1, <2>2, <2>3, <2>4 DEF HandleDatum
  <1>7. CASE HandleTimeoutEvent
    <2> DEFINE id == Head(queue).key
    <2>1. CASE OnbattOnTimeout(id)
      BY <1>2, <1>4, <2>1 DEF OnbattOnTimeout, Ignore, smVars
    <2>2. CASE SelftestOnTimeout(id) \/ Ignore
      BY <1>4, <2>2 DEF SelftestOnTimeout, EnterOnbatt, Ignore, smVars
    <2> QED
      BY <1>7, <2>1, <2>2 DEF HandleTimeoutEvent
  <1> QED
    BY <1>5, <1>6, <1>7 DEF StateMachineStep

LEMMA NextUses == ASSUME NEW t \in TimerId, [Next]_vars PROVE UsedStep(t)
  <1>1. CASE StateMachineStep
    BY <1>1, StateMachineUses
  <1>2. ASSUME NEW u \in TimerId, Expire(u) PROVE UsedStep(t)
    BY <1>2 DEF Expire, UsedStep, Used!timerVars, Used!TimerNext, Used!Expire
  <1>3. ASSUME NEW u \in TimerId, HandleTimeout(u) PROVE UsedStep(t)
    BY <1>3 DEF HandleTimeout, UsedStep, Used!timerVars, Used!TimerNext,
       Used!Deliver
  <1>4. CASE UNCHANGED smVars
    BY <1>4 DEF smVars, UsedStep, Used!timerVars
  <1> QED
    BY <1>1, <1>2, <1>3, <1>4
    DEF Next, TimerStep, DriverUpdate, ReaderGet, vars

(* The handlers of action.c ask of a timer what Timer promises, and with   *)
(* ImplementsTimer what atimer.cpp does: none is stopped while its own     *)
(* callback runs beside its restart, and no timeout comes from nowhere.    *)
THEOREM TimersAsPromised == Spec \/ SteadySpec => TimersUsed
  <1>1. Init \/ SteadyInit => \A t \in TimerId : Used(t)!TimerInit
    BY DEF Init, SteadyInit, Used!TimerInit
  <1>2. [Next]_vars
          => [\A t \in TimerId : [Used(t)!TimerNext]_(Used(t)!timerVars)]_vars
    BY NextUses DEF UsedStep
  <1> QED
    BY <1>1, <1>2, PTL DEF Spec, SteadySpec, TimersUsed

-----------------------------------------------------------------------------
(* Shutdown.                                                               *)

(* The limits expire and the machine goes to a shutdown state, but none of *)
(* the events that would have the script call for a shutdown is generated. *)
ShutdownAnnounced == log.shutdown

(* A shutdown state is for good: nothing that happens leaves it, ends the  *)
(* outage for the user, or starts a timer.                                 *)
ShutdownStep ==
  state \in ShutdownState =>
    /\ state' = state
    /\ log'.outage = log.outage
    /\ log'.onbattery = log.onbattery
    /\ started' \subseteq started

ShutdownIsFinal == [][ShutdownStep]_vars

(* The events the handlers generate.                                       *)
Generated == {"POWEROUT", "ONBATTERY", "OFFBATTERY", "MAINSBACK",
              "STARTSELFTEST", "ENDSELFTEST", "BATTATTACH", "BATTDETACH"}

LEMMA GeneratedAnnouncesNothing ==
  ASSUME NEW l \in LogType, NEW e \in Generated
  PROVE  Reported(l, e).shutdown = l.shutdown
  BY DEF Generated, Reported, LogType

LEMMA NextAnnouncesNothing ==
  ASSUME TypeOK, [Next]_vars PROVE log'.shutdown = log.shutdown
  <1>1. CASE UNCHANGED log
    BY <1>1
  <1>2. ASSUME NEW e \in Generated, generate_event(e)
        PROVE  log'.shutdown = log.shutdown
    BY <1>2, GeneratedAnnouncesNothing DEF generate_event, TypeOK
  <1>3. CASE EnterOnbatt \/ EnterSelftest
    BY <1>2, <1>3 DEF EnterOnbatt, EnterSelftest, Generated
  <1>4. CASE LeaveOnbatt
    <2>1. PICK l \in {log, Reported(log, "OFFBATTERY")} : log' = Reported(l, "MAINSBACK")
      BY <1>4 DEF LeaveOnbatt
    <2>2. l \in LogType /\ l.shutdown = log.shutdown
      BY <2>1, ReportedType, GeneratedAnnouncesNothing
      DEF Generated, UpsEvent, TypeOK
    <2> QED
      BY <2>1, <2>2, GeneratedAnnouncesNothing DEF Generated
  <1>5. CASE IdleOnEnter \/ CheckShutdown \/ Register
    BY <1>1, <1>3, <1>5 DEF IdleOnEnter, CheckShutdown, Register
  <1>6. CASE HandleDatum
    <2> DEFINE e == Head(queue)
    <2>1. CASE DatumAny(e)
      BY <1>2, <2>1 DEF DatumAny, Generated
    <2>2. CASE IdleOnDatum(e) \/ OnbattOnDatum(e) \/ Ignore
      BY <1>1, <1>3, <1>4, <2>2 DEF IdleOnDatum, OnbattOnDatum, Ignore, smVars
    <2>3. CASE SelftestOnDatum(e)
      BY <1>1, <1>2, <2>3 DEF SelftestOnDatum, Ignore, smVars, Generated
    <2> QED
      BY <1>6, <2>1, <2>2, <2>3 DEF HandleDatum
  <1>7. CASE HandleTimeoutEvent
    <2> DEFINE id == Head(queue).key
    <2>1. CASE OnbattOnTimeout(id)
      BY <1>1, <1>2, <2>1 DEF OnbattOnTimeout, Ignore, smVars, Generated
    <2>2. CASE SelftestOnTimeout(id) \/ Ignore
      BY <1>1, <1>2, <1>3, <2>2 DEF SelftestOnTimeout, Ignore, smVars, Generated
    <2> QED
      BY <1>7, <2>1, <2>2 DEF HandleTimeoutEvent
  <1> QED
    BY <1>1, <1>5, <1>6, <1>7
    DEF Next, StateMachineStep, TimerStep, Expire, HandleTimeout, DriverUpdate,
        ReaderGet, smVars, vars

(* Whatever the configuration, the driver and the timing: no shutdown      *)
(* event is ever generated.  The run on LimitCausesShutdown shows that a   *)
(* shutdown state is reached all the same.                                 *)
THEOREM ShutdownNeverAnnounced == Spec \/ SteadySpec => []~ShutdownAnnounced
  <1>1. Init \/ SteadyInit => ~ShutdownAnnounced
    BY DEF Init, SteadyInit, NothingReported, ShutdownAnnounced
  <1>2. TypeOK /\ ~ShutdownAnnounced /\ [Next]_vars => (~ShutdownAnnounced)'
    BY NextAnnouncesNothing DEF ShutdownAnnounced
  <1> QED
    BY TypeCorrect, <1>1, <1>2, PTL DEF Spec, SteadySpec

(* In a shutdown state the thread waits or is about to register; the only  *)
(* events with a handler there report that the battery came or went.       *)
LEMMA NextStaysShutDown ==
  ASSUME TypeOK, HandlerAtState, [Next]_vars PROVE ShutdownStep
  <1> SUFFICES ASSUME state \in ShutdownState
               PROVE  /\ UNCHANGED state /\ started' \subseteq started
                      /\ log'.outage = log.outage
                      /\ log'.onbattery = log.onbattery
    BY DEF ShutdownStep
  <1>1. state \notin {"IDLE", "ONBATT", "SELFTEST"}
    BY DEF ShutdownState
  <1>2. pc \notin {"idle", "enter", "check"}
    BY <1>1 DEF HandlerAtState
  <1>3. CASE UNCHANGED <<state, log>> /\ started' \subseteq started
    BY <1>3
  <1>4. CASE HandleDatum
    <2>1. CASE DatumAny(Head(queue))
      BY <2>1, ReportedPower DEF DatumAny, generate_event, TypeOK
    <2> QED
      BY <1>1, <1>3, <1>4, <2>1 DEF HandleDatum, Ignore, smVars
  <1>5. CASE HandleTimeoutEvent
    BY <1>1, <1>3, <1>5 DEF HandleTimeoutEvent, Ignore, smVars
  <1> QED
    BY <1>2, <1>3, <1>4, <1>5
    DEF Next, StateMachineStep, TimerStep, IdleOnEnter, CheckShutdown, Register,
        Expire, HandleTimeout, DriverUpdate, ReaderGet, smVars, vars

(* Once the machine shuts down it never goes back, not even when the mains *)
(* return: only the script or the user can stop what it has decided.       *)
THEOREM ShutdownForGood == Spec \/ SteadySpec => ShutdownIsFinal
  <1>1. Init \/ SteadyInit => TypeOK /\ TimersAndReports
    BY InitTypeOK, InitTimersAndReports
  <1>2. TypeOK /\ TimersAndReports /\ [Next]_vars
          => (TypeOK /\ TimersAndReports)' /\ ShutdownStep
    BY NextTypeOK, NextKeeps, NextStaysShutDown DEF TimersAndReports
  <1> QED
    BY <1>1, <1>2, PTL DEF Spec, SteadySpec, ShutdownIsFinal
=============================================================================
