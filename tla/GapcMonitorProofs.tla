------------------------- MODULE GapcMonitorProofs -------------------------
(***************************************************************************)
(* What holds of a monitor of gapcmon for every number of requests, of     *)
(* acts of the user and of updates between two requests.                   *)
(***************************************************************************)
EXTENDS GapcMonitor, TLAPS

USE DEF userVars, timerVars, showVars, threadVars, hostVars, history

(* A callback that is called has its timer pending.                        *)
LEMMA TimerUpdates ==
  ASSUME timer \in [Timer -> Nat], NEW t \in Timer, NEW u \in Timer,
         timer[t] > 0, t # u
  PROVE  /\ [timer EXCEPT ![t] = @ - 1] \in [Timer -> Nat]
         /\ [timer EXCEPT ![t] = @ - 1, ![u] = @ + 1] \in [Timer -> Nat]
  BY SMT

LEMMA UpdateType ==
  ASSUME WindowType, ThreadType, Update
  PROVE  busy' \in 0 .. Every - 1 /\ shown' \subseteq Report
  <1>1. (busy + 1) % Every \in 0 .. Every - 1
    BY EveryAssumption DEF WindowType
  <1> QED
    BY <1>1 DEF Update, WindowType, ThreadType

LEMMA InitType == Init => MonitorTypeOK
  <1> SUFFICES ASSUME Init PROVE MonitorTypeOK
    OBVIOUS
  <1>1. timer \in [Timer -> Nat]
    BY DEF Init
  <1>2. user \in 0 .. MaxUser /\ busy \in 0 .. Every - 1
    BY EveryAssumption, MaxUserAssumption DEF Init
  <1>3. WindowType
    BY <1>1, <1>2 DEF Init, WindowType
  <1>4. ThreadType
    BY DEF Init, ThreadType, Pc, Asking, Report
  <1>5. HostType
    BY DEF Init, HostType
  <1> QED
    BY <1>4, <1>5, <1>3 DEF MonitorTypeOK

LEMMA TimerStepType == ASSUME MonitorTypeOK, TimerStep PROVE MonitorTypeOK'
  <1> USE DEF MonitorTypeOK, Callback
  <1>1. CASE AutomaticRefresh
    BY <1>1, UpdateType DEF AutomaticRefresh, WindowType, ThreadType, HostType
  <1>2. CASE AutomaticEnds
    <2>1. timer' \in [Timer -> Nat]
      BY <1>2, TimerUpdates DEF AutomaticEnds, Becomes, WindowType, Timer
    <2> QED
      BY <1>2, <2>1 DEF AutomaticEnds, WindowType, ThreadType, HostType
  <1>3. CASE RefreshControl
    <2>1. timer' \in [Timer -> Nat]
      BY <1>3, TimerUpdates DEF RefreshControl, Becomes, WindowType, Timer
    <2> QED
      BY <1>3, <2>1 DEF RefreshControl, WindowType, ThreadType, HostType
  <1>4. CASE OneTimeRefresh
    <2>1. timer' \in [Timer -> Nat]
      BY <1>4 DEF OneTimeRefresh, Ends, WindowType, Timer
    <2> QED
      BY <1>4, <2>1, UpdateType
      DEF OneTimeRefresh, WindowType, ThreadType, HostType
  <1>5. ASSUME NEW t \in {"graph", "loose"}, LineChartRefresh(t)
        PROVE  MonitorTypeOK'
    <2>1. timer' \in [Timer -> Nat]
      BY <1>5, TimerUpdates
      DEF LineChartRefresh, Ends, Becomes, WindowType, Timer
    <2> QED
      BY <1>5, <2>1 DEF LineChartRefresh, WindowType, ThreadType, HostType
  <1>6. CASE LineChartControl
    <2>1. timer' \in [Timer -> Nat]
      BY <1>6 DEF LineChartControl, WindowType, Timer
    <2> QED
      BY <1>6, <2>1 DEF LineChartControl, WindowType, ThreadType, HostType
  <1>7. ASSUME NEW t \in Timer, Stopped(t)
        PROVE  MonitorTypeOK'
    <2>1. timer' \in [Timer -> Nat]
      BY <1>7 DEF Stopped, Ends, WindowType, Timer
    <2> QED
      BY <1>7, <2>1 DEF Stopped, WindowType, ThreadType, HostType
  <1> QED
    BY <1>1, <1>2, <1>3, <1>4, <1>5, <1>6, <1>7 DEF TimerStep

LEMMA UserStepType == ASSUME MonitorTypeOK, UserStep PROVE MonitorTypeOK'
  <1> USE DEF MonitorTypeOK
  <1>1. ASSUME Acts PROVE user' = user + 1 /\ user' \in 0 .. MaxUser /\ up' = up
    BY <1>1, MaxUserAssumption DEF Acts, WindowType
  <1>2. CASE ButtonRefresh
    <2>1. timer' \in [Timer -> Nat] /\ requests' \in Nat
      BY <1>2 DEF ButtonRefresh, WindowType, ThreadType, Timer
    <2>2. HostType'
      BY <1>1, <1>2 DEF ButtonRefresh, HostType, WindowType
    <2> QED
      BY <1>1, <1>2, <2>1, <2>2 DEF ButtonRefresh, WindowType, ThreadType
  <1>3. CASE ChangeInterval
    <2>1. HostType'
      BY <1>1, <1>3 DEF ChangeInterval, HostType, WindowType
    <2>2. newRefresh' \in BOOLEAN /\ newGraph' \in BOOLEAN
      BY <1>3 DEF ChangeInterval, WindowType
    <2> QED
      BY <1>1, <1>3, <2>1, <2>2 DEF ChangeInterval, WindowType, ThreadType
  <1>4. CASE ChangeHost
    <2>1. host' \in 0 .. user' /\ target' \in 0 .. host' /\ address' \in 0 .. host'
      BY <1>1, <1>4 DEF ChangeHost, HostType, WindowType
    <2>2. resolve' \in BOOLEAN /\ overtaken' \in BOOLEAN
      BY <1>4 DEF ChangeHost, HostType, ThreadType
    <2> QED
      BY <1>1, <1>4, <2>1, <2>2 DEF ChangeHost, WindowType, ThreadType, HostType
  <1>5. CASE MenuExit
    <2>1. HostType'
      BY <1>1, <1>5 DEF MenuExit, HostType, WindowType
    <2> QED
      BY <1>1, <1>5, <2>1 DEF MenuExit, WindowType, ThreadType
  <1>6. CASE Destroy
    <2>1. timer' \in [Timer -> Nat] /\ requests' \in Nat
      BY <1>6 DEF Destroy, WindowType, ThreadType, Timer
    <2> QED
      BY <1>6, <2>1 DEF Destroy, WindowType, ThreadType, HostType
  <1> QED
    BY <1>2, <1>3, <1>4, <1>5, <1>6 DEF UserStep

LEMMA ThreadStepType ==
  ASSUME MonitorTypeOK, ThreadStep \/ ReceiveCut
  PROVE  MonitorTypeOK'
  <1> USE DEF MonitorTypeOK, Thread
  <1>1. WindowType'
    BY DEF WindowType, ThreadStep, ClientInit, Assign, Pop, Check, Recheck, Open,
       NotOpened, Connect, Send, Receive, ReceiveCut, Unlock, Flag
  <1>2. CASE ClientInit \/ Assign \/ Unlock \/ Flag
    <2> USE <1>2 DEF ClientInit, Assign, Unlock, Flag
    <2>1. ThreadType'
      BY DEF ThreadType, Pc, Asking, Report
    <2>2. HostType'
      BY DEF HostType
    <2> QED
      BY <1>1, <2>1, <2>2
  <1>3. CASE Pop \/ Check \/ Recheck
    <2> USE <1>3 DEF Pop, Check, Recheck
    <2>1. pc' \in Pc /\ cmd' \in Report /\ requests' \in Nat
      BY DEF ThreadType, Pc, Asking, Report
    <2>2. available' \in BOOLEAN /\ got' \in BOOLEAN
      BY DEF ThreadType
    <2>3. ThreadType'
      BY <2>1, <2>2 DEF ThreadType
    <2>4. HostType'
      BY DEF HostType
    <2> QED
      BY <1>1, <2>3, <2>4
  <1>4. CASE Open \/ NotOpened \/ Connect
    <2> USE <1>4 DEF Open, NotOpened, Connect
    <2>1. ThreadType'
      BY DEF ThreadType, Pc, Asking, Report
    <2>2. HostType'
      BY DEF HostType
    <2> QED
      BY <1>1, <2>1, <2>2
  <1>5. CASE Send \/ Receive \/ ReceiveCut
    <2> USE <1>5 DEF Send, Receive, ReceiveCut
    <2>1. pc' \in Pc /\ cmd' \in Report /\ torn' \subseteq Report
      BY DEF ThreadType, Pc, Asking, Report
    <2>2. got' \in BOOLEAN /\ cut' \in BOOLEAN
      BY DEF ThreadType
    <2>3. ThreadType'
      BY <2>1, <2>2 DEF ThreadType
    <2>4. HostType'
      BY DEF HostType
    <2> QED
      BY <1>1, <2>3, <2>4
  <1> QED
    BY <1>2, <1>3, <1>4, <1>5 DEF ThreadStep

LEMMA NextType == MonitorTypeOK /\ [Next]_vars => MonitorTypeOK'
  <1> SUFFICES ASSUME MonitorTypeOK, [Next]_vars PROVE MonitorTypeOK'
    OBVIOUS
  <1>1. CASE Free \/ ServerChanges \/ UNCHANGED vars
    <2> USE <1>1 DEF Free, ServerChanges, vars, MonitorTypeOK
    <2>1. WindowType'
      BY DEF WindowType
    <2>2. ThreadType'
      BY DEF ThreadType
    <2>3. HostType'
      BY DEF HostType
    <2> QED
      BY <2>1, <2>2, <2>3
  <1> QED
    BY <1>1, TimerStepType, UserStepType, ThreadStepType DEF Next

(* Type correctness.                                                       *)
THEOREM MonitorTypeCorrect == Spec => []MonitorTypeOK
  BY InitType, NextType, PTL DEF Spec

-----------------------------------------------------------------------------
(* Callbacks that end and start one another lose none and leave none over. *)
LEMMA InitTimers == Init => TimersLast
  <1> SUFFICES ASSUME Init PROVE TimersLast
    OBVIOUS
  <1>1. /\ timer["auto"] = 1 /\ timer["restart"] = 0 /\ timer["graph"] = 1
        /\ timer["loose"] = 1 /\ timer["regraph"] = 0 /\ startup
    BY DEF Init, Timer
  <1> QED
    BY <1>1 DEF TimersLast

LEMMA TimerStepTimers ==
  ASSUME MonitorTypeOK, TimersLast, TimerStep
  PROVE  TimersLast'
  <1> USE DEF MonitorTypeOK, WindowType, Callback, Timer, TimersLast
  <1>1. CASE AutomaticRefresh
    BY <1>1 DEF AutomaticRefresh
  <1>2. CASE AutomaticEnds
    BY <1>2 DEF AutomaticEnds, Becomes
  <1>3. CASE RefreshControl
    BY <1>3 DEF RefreshControl, Becomes
  <1>4. CASE OneTimeRefresh
    BY <1>4 DEF OneTimeRefresh, Ends
  <1>5. ASSUME NEW t \in {"graph", "loose"}, LineChartRefresh(t)
        PROVE  TimersLast'
    BY <1>5 DEF LineChartRefresh, Ends, Becomes
  <1>6. CASE LineChartControl
    BY <1>6 DEF LineChartControl
  <1>7. ASSUME NEW t \in Timer, Stopped(t)
        PROVE  TimersLast'
    BY <1>7 DEF Stopped
  <1> QED
    BY <1>1, <1>2, <1>3, <1>4, <1>5, <1>6, <1>7 DEF TimerStep

LEMMA NextTimers ==
  MonitorTypeOK /\ TimersLast /\ [Next]_vars => TimersLast'
  <1> SUFFICES ASSUME MonitorTypeOK, TimersLast, [Next]_vars PROVE TimersLast'
    OBVIOUS
  <1>1. CASE ThreadStep \/ ReceiveCut \/ Free \/ ServerChanges \/ UNCHANGED vars
    <2>1. UNCHANGED <<run, timer, startup>>
      BY <1>1 DEF ThreadStep, Thread, ClientInit, Assign, Pop, Check, Recheck,
         Open, NotOpened, Connect, Send, Receive, ReceiveCut, Unlock, Flag, Free,
         ServerChanges, vars
    <2> QED
      BY <2>1 DEF TimersLast
  <1>2. CASE ButtonRefresh
    BY <1>2 DEF ButtonRefresh, MonitorTypeOK, WindowType, Timer, TimersLast
  <1>3. CASE ChangeInterval \/ ChangeHost
    <2>1. UNCHANGED <<run, timer, startup>>
      BY <1>3 DEF ChangeInterval, ChangeHost
    <2> QED
      BY <2>1 DEF TimersLast
  <1>4. CASE MenuExit \/ Destroy
    BY <1>4 DEF MenuExit, Destroy, TimersLast
  <1> QED
    BY <1>1, <1>2, <1>3, <1>4, TimerStepTimers DEF Next, UserStep

(* While the monitor runs, its window has one automatic refresh and its    *)
(* graph one timer, one more until the first sample (gapcmon.c).           *)
THEOREM TimersNeitherLostNorDoubled == Spec => []TimersLast
  BY InitType, NextType, InitTimers, NextTimers, PTL DEF Spec

-----------------------------------------------------------------------------
(* The report under way is the only one that is partial, unless a          *)
(* connection was cut.                                                     *)
TornReceiving ==
  /\ ShownWhole
  /\ torn # {} => cut \/ (pc = "receive" /\ torn = {cmd})

LEMMA UpdateWhole ==
  ASSUME TornReceiving, pc \notin Asking, Update, UNCHANGED <<torn, cut, pc, cmd>>
  PROVE  TornReceiving'
  BY DEF TornReceiving, ShownWhole, Update, Asking

LEMMA NextTorn == TornReceiving /\ [Next]_vars => TornReceiving'
  <1> SUFFICES ASSUME TornReceiving, [Next]_vars PROVE TornReceiving'
    OBVIOUS
  <1>1. CASE AutomaticRefresh \/ OneTimeRefresh
    BY <1>1, UpdateWhole DEF AutomaticRefresh, OneTimeRefresh
  <1>2. CASE UNCHANGED <<shown, torn, pc, cmd, cut>>
    BY <1>2 DEF TornReceiving, ShownWhole
  <1>3. CASE ClientInit \/ Assign \/ Pop \/ Check \/ Recheck \/ Open \/ NotOpened
             \/ Connect \/ Unlock \/ Flag
    <2>1. pc # "receive" /\ UNCHANGED <<shown, torn, cut>>
      BY <1>3 DEF Thread, ClientInit, Assign, Pop, Check, Recheck, Open, NotOpened,
         Connect, Unlock, Flag
    <2> QED
      BY <2>1 DEF TornReceiving, ShownWhole
  <1>4. CASE Send
    <2>1. pc = "send" /\ UNCHANGED <<shown, cut, cmd>>
      BY <1>4 DEF Send, Thread
    <2>2. CASE up
      BY <1>4, <2>1, <2>2 DEF Send, Thread, TornReceiving, ShownWhole
    <2>3. CASE ~up
      BY <1>4, <2>1, <2>3 DEF Send, Thread, TornReceiving, ShownWhole
    <2> QED
      BY <2>2, <2>3
  <1>5. CASE Receive
    BY <1>5 DEF Receive, Thread, TornReceiving, ShownWhole
  <1>6. CASE ReceiveCut
    BY <1>6 DEF ReceiveCut, Thread, TornReceiving, ShownWhole
  <1>7. ASSUME TimerStep \/ UserStep \/ Free \/ ServerChanges \/ UNCHANGED vars,
               ~(AutomaticRefresh \/ OneTimeRefresh)
        PROVE  UNCHANGED <<shown, torn, pc, cmd, cut>>
    BY <1>7 DEF TimerStep, AutomaticEnds, RefreshControl, LineChartRefresh,
       LineChartControl, Stopped, UserStep, ButtonRefresh, ChangeInterval,
       ChangeHost, MenuExit, Destroy, Free, ServerChanges, vars
  <1> QED
    BY <1>1, <1>2, <1>3, <1>4, <1>5, <1>6, <1>7 DEF Next, ThreadStep

(* The window never shows a report that the thread is still reading: the   *)
(* callbacks only try to take gm_update, and give up.                      *)
THEOREM NeverShownInPart == Spec => []ShownWhole
  <1>1. Init => TornReceiving
    BY DEF Init, TornReceiving, ShownWhole
  <1> QED
    BY <1>1, NextTorn, PTL DEF Spec, TornReceiving

-----------------------------------------------------------------------------
(* Where the host is known: in the thread's PSKCOMM once that exists, and  *)
(* in the address between its resolution and the end of the connection.    *)
HostKnown ==
  /\ HostFollowed
  /\ pc \in {"create", "assign"} => resolve
  /\ pc # "create" /\ ~overtaken => target = host
  /\ pc = "connect" /\ ~overtaken => address = target

LEMMA NextHost == HostKnown /\ [Next]_vars => HostKnown'
  <1> SUFFICES ASSUME HostKnown, [Next]_vars PROVE HostKnown'
    OBVIOUS
  <1> USE DEF HostKnown, HostFollowed
  <1>1. CASE UNCHANGED <<pc, host, target, address, resolve, overtaken>>
    BY <1>1
  <1>2. CASE ChangeHost
    BY <1>2 DEF ChangeHost
  <1>3. CASE ClientInit \/ Assign
    BY <1>3 DEF ClientInit, Assign, Thread
  <1>4. CASE Open
    BY <1>4 DEF Open, Thread
  <1>5. CASE Connect
    BY <1>5 DEF Connect, Thread
  <1>6. CASE Pop \/ Check \/ Recheck \/ NotOpened \/ Send \/ Receive
             \/ ReceiveCut \/ Unlock \/ Flag
    <2>1. /\ UNCHANGED <<host, target, address, resolve, overtaken>>
          /\ pc \notin {"create", "assign", "connect"}
          /\ pc' \notin {"create", "assign", "connect"}
      BY <1>6 DEF Pop, Check, Recheck, NotOpened, Send, Receive, ReceiveCut,
         Unlock, Flag, Thread
    <2> QED
      BY <2>1
  <1>7. ASSUME TimerStep \/ UserStep \/ Free \/ ServerChanges \/ UNCHANGED vars,
               ~ChangeHost
        PROVE  UNCHANGED <<pc, host, target, address, resolve, overtaken>>
    BY <1>7 DEF TimerStep, AutomaticRefresh, AutomaticEnds, RefreshControl,
       OneTimeRefresh, LineChartRefresh, LineChartControl, Stopped, UserStep,
       ButtonRefresh, ChangeInterval, MenuExit, Destroy, Free, ServerChanges, vars
  <1> QED
    BY <1>1, <1>2, <1>3, <1>4, <1>5, <1>6, <1>7 DEF Next, ThreadStep

(* A change of the host takes effect with the next connection, unless it   *)
(* came while the thread created its PSKCOMM or was connecting.            *)
THEOREM HostChangeFollowed == Spec => []HostFollowed
  <1>1. Init => HostKnown
    BY DEF Init, HostKnown, HostFollowed
  <1> QED
    BY <1>1, NextHost, PTL DEF Spec, HostKnown
=============================================================================
