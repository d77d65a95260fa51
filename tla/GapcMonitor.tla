---------------------------- MODULE GapcMonitor ----------------------------
(***************************************************************************)
(* One monitor of gapcmon (src/gapcmon/gapcmon.c): the window of a server, *)
(* its timers, and the thread that asks the server.                        *)
(*                                                                         *)
(* Everything but the thread runs in the GTK main loop, one callback after *)
(* the other.  The callbacks only try to take the lock gm_update, so one   *)
(* callback is one step; the thread keeps the lock while it asks.  Timers  *)
(* expire in any order.  The server and the network are external.          *)
(***************************************************************************)
EXTENDS Naturals

CONSTANTS
  Every,        \* one failed update in so many asks the server again
  MaxRequests,  \* bound: refreshes wait for the thread at so many requests
  MaxUser       \* bound: what the user does before the window is closed

ASSUME EveryAssumption == Every \in Nat \ {0}
ASSUME MaxRequestsAssumption == MaxRequests \in Nat \ {0}
ASSUME MaxUserAssumption == MaxUser \in Nat

VARIABLES
  up,           \* the server can be reached and answers
  user,         \* what the user did so far, at most MaxUser
  \* the monitor
  life,         \* "open", "joining" (in the destroy handler) or "freed"
  run,          \* b_run
  timer,        \* [Timer -> Nat]: timeouts pending in the main loop
  newRefresh,   \* b_timer_control
  newGraph,     \* b_graph_control
  startup,      \* phs.b_startup
  busy,         \* i_netbusy_counter % Every
  shown,        \* reports that the window shows in part
  \* the thread
  requests,     \* length of q_network
  pc, cmd,      \* where the thread is, and which report it asks for
  available,    \* b_data_available
  got,          \* rc # 0
  torn,         \* reports, of pach_status and pach_events, that are partial
  \* the server, by number: each change of the preference is a new one
  host,         \* pch_host
  target,       \* ch_ip_string
  address,      \* gip
  resolve,      \* b_network_control: resolve the address again
  \* history
  cut,          \* a connection ended in the middle of a report
  overtaken     \* the host changed while the thread made use of it

userVars == <<up, user>>
timerVars == <<timer, newRefresh, newGraph, startup>>
showVars == <<busy, shown>>
threadVars == <<pc, cmd, available, got, torn>>
hostVars == <<host, target, address, resolve>>
history == <<cut, overtaken>>
vars == <<userVars, life, run, timerVars, showVars, requests, threadVars,
          hostVars, history>>

(* The automatic refresh and its restart, one-time refreshes, the graph    *)
(* timer whose id is kept, other graph timers, and the graph's restart.    *)
Timer == {"auto", "restart", "once", "graph", "loose", "regraph"}

(* A thread that holds gm_update is at one of these.                       *)
Asking == {"recheck", "open", "connect", "send", "receive", "unlock"}

Pc == Asking \cup {"create", "assign", "pop", "check", "flag", "exit"}

Report == {"status", "events"}

WindowType ==
  /\ user \in 0 .. MaxUser
  /\ life \in {"open", "joining", "freed"} /\ run \in BOOLEAN
  /\ timer \in [Timer -> Nat]
  /\ newRefresh \in BOOLEAN /\ newGraph \in BOOLEAN /\ startup \in BOOLEAN
  /\ busy \in 0 .. Every - 1 /\ shown \subseteq Report

ThreadType ==
  /\ up \in BOOLEAN
  /\ requests \in Nat /\ pc \in Pc /\ cmd \in Report
  /\ available \in BOOLEAN /\ got \in BOOLEAN /\ torn \subseteq Report
  /\ cut \in BOOLEAN /\ overtaken \in BOOLEAN

HostType ==
  /\ host \in 0 .. user /\ target \in 0 .. host /\ address \in 0 .. host
  /\ resolve \in BOOLEAN

MonitorTypeOK == WindowType /\ ThreadType /\ HostType

(* gapc_monitor_interface_create: it starts the thread, the graph timer    *)
(* and a second one for the first sample, and asks for a report.           *)
Init ==
  /\ up \in BOOLEAN /\ user = 0
  /\ life = "open" /\ run = TRUE
  /\ timer = [t \in Timer |-> IF t \in {"auto", "graph", "loose"} THEN 1 ELSE 0]
  /\ newRefresh = FALSE /\ newGraph = FALSE /\ startup = TRUE
  /\ busy = 0 /\ shown = {}
  /\ requests = 1 /\ pc = "create" /\ cmd = "status"
  /\ available = FALSE /\ got = FALSE /\ torn = {}
  /\ host = 0 /\ target = 0 /\ address = 0 /\ resolve = TRUE
  /\ cut = FALSE /\ overtaken = FALSE

-----------------------------------------------------------------------------
(* The timers.                                                             *)

Callback(t) == life = "open" /\ timer[t] > 0

Ends(t) == timer' = [timer EXCEPT ![t] = @ - 1]
Becomes(t, u) == timer' = [timer EXCEPT ![t] = @ - 1, ![u] = @ + 1]

Stopped(t) ==
  /\ Callback(t) /\ ~run
  /\ Ends(t)
  /\ UNCHANGED <<userVars, life, run, newRefresh, newGraph, startup, showVars,
                 requests, threadVars, hostVars, history>>

(* gapc_monitor_update, and what both refresh callbacks do when it fails.  *)
Update ==
  \/ available /\ shown' = torn /\ UNCHANGED busy
  \/ ~available /\ busy' = (busy + 1) % Every /\ UNCHANGED shown

(* Mutant: a failed update never asks the server again.                    *)
GivesUpAlways == ~available

GivesUp == ~available /\ busy # 0

(* Mutant: the window is updated without the lock.                         *)
AutomaticUnlocked ==
  /\ Callback("auto") /\ run /\ ~newRefresh
  /\ requests < MaxRequests
  /\ Update
  /\ requests' = IF GivesUp THEN requests ELSE requests + 1
  /\ UNCHANGED <<userVars, life, run, timerVars, threadVars, hostVars, history>>

AutomaticRefresh ==
  /\ Callback("auto") /\ run /\ ~newRefresh
  /\ pc \notin Asking /\ requests < MaxRequests
  /\ Update
  /\ requests' = IF GivesUp THEN requests ELSE requests + 1
  /\ UNCHANGED <<userVars, life, run, timerVars, threadVars, hostVars, history>>

(* Mutant: the timer goes on beside the one that replaces it.              *)
AutomaticGoesOn ==
  /\ Callback("auto") /\ run /\ newRefresh
  /\ timer' = [timer EXCEPT !["restart"] = @ + 1]
  /\ UNCHANGED <<userVars, life, run, newRefresh, newGraph, startup, showVars,
                 requests, threadVars, hostVars, history>>

AutomaticEnds ==
  /\ Callback("auto") /\ run /\ newRefresh
  /\ Becomes("auto", "restart")
  /\ UNCHANGED <<userVars, life, run, newRefresh, newGraph, startup, showVars,
                 requests, threadVars, hostVars, history>>

RefreshControl ==
  /\ Callback("restart") /\ run
  /\ Becomes("restart", "auto")
  /\ newRefresh' = FALSE
  /\ UNCHANGED <<userVars, life, run, newGraph, startup, showVars, requests,
                 threadVars, hostVars, history>>

OneTimeRefresh ==
  /\ Callback("once") /\ run
  /\ pc \notin Asking
  /\ Update
  /\ IF GivesUp THEN UNCHANGED timer ELSE Ends("once")
  /\ UNCHANGED <<userVars, life, run, newRefresh, newGraph, startup, requests,
                 threadVars, hostVars, history>>

(* cb_util_line_chart_refresh.  Either timer may be the first to expire:   *)
(* a sample may be taken as often as the window is refreshed.              *)
LineChartRefresh(t) ==
  /\ Callback(t) /\ run
  /\ \/ newGraph /\ Becomes(t, "regraph") /\ UNCHANGED startup
     \/ ~newGraph /\ startup /\ Ends(t) /\ startup' = FALSE
  /\ UNCHANGED <<userVars, life, run, newRefresh, newGraph, showVars, requests,
                 threadVars, hostVars, history>>

(* The id of a timer that is still pending is overwritten.                 *)
LineChartControl ==
  /\ Callback("regraph") /\ run
  /\ timer' = [timer EXCEPT !["regraph"] = @ - 1, !["graph"] = 1,
                            !["loose"] = @ + timer["graph"]]
  /\ newGraph' = FALSE
  /\ UNCHANGED <<userVars, life, run, newRefresh, startup, showVars, requests,
                 threadVars, hostVars, history>>

-----------------------------------------------------------------------------
(* The user: the refresh button, the preferences, and the end.             *)

Acts ==
  /\ life = "open" /\ user < MaxUser
  /\ user' = user + 1
  /\ UNCHANGED up

ButtonRefresh ==
  /\ Acts /\ run
  /\ requests' = requests + 1
  /\ timer' = [timer EXCEPT !["once"] = @ + 1]
  /\ UNCHANGED <<life, run, newRefresh, newGraph, startup, showVars, threadVars,
                 hostVars, history>>

(* cb_panel_controller_gconf_changed: network_interval, graph_interval.    *)
ChangeInterval ==
  /\ Acts
  /\ \/ newRefresh' = TRUE /\ UNCHANGED newGraph
     \/ newGraph' = TRUE /\ UNCHANGED newRefresh
  /\ UNCHANGED <<life, run, timer, startup, showVars, requests, threadVars,
                 hostVars, history>>

(* Mutant: the thread is not told to resolve the address again.            *)
ChangeHostUntold ==
  /\ Acts
  /\ host' = host + 1
  /\ IF pc \in {"create", "assign"}
     THEN UNCHANGED target
     ELSE target' = host + 1
  /\ overtaken' = (overtaken \/ pc \in {"assign", "connect"})
  /\ UNCHANGED <<life, run, timerVars, showVars, requests, threadVars, address,
                 resolve, cut>>

(* host_name.  Until the thread has made its PSKCOMM there is no one to    *)
(* tell.                                                                   *)
ChangeHost ==
  /\ Acts
  /\ host' = host + 1
  /\ IF pc \in {"create", "assign"}
     THEN UNCHANGED <<target, resolve>>
     ELSE target' = host + 1 /\ resolve' = TRUE
  /\ overtaken' = (overtaken \/ pc \in {"assign", "connect"})
  /\ UNCHANGED <<life, run, timerVars, showVars, requests, threadVars, address,
                 cut>>

(* The menu's Quit stops the monitor; its window goes when the preference  *)
(* has changed.                                                            *)
MenuExit ==
  /\ Acts
  /\ run' = FALSE
  /\ UNCHANGED <<life, timerVars, showVars, requests, threadVars, hostVars,
                 history>>

(* Mutant: the thread is not woken.                                        *)
DestroyQuietly ==
  /\ life = "open"
  /\ life' = "joining" /\ run' = FALSE
  /\ timer' = [timer EXCEPT !["auto"] = 0, !["graph"] = 0]
  /\ UNCHANGED <<userVars, newRefresh, newGraph, startup, showVars, requests,
                 threadVars, hostVars, history>>

(* cb_monitor_interface_destroy: the two timers whose ids are kept are     *)
(* removed, and the main loop waits for the thread.                        *)
Destroy ==
  /\ life = "open"
  /\ life' = "joining" /\ run' = FALSE
  /\ timer' = [timer EXCEPT !["auto"] = 0, !["graph"] = 0]
  /\ requests' = requests + 1
  /\ UNCHANGED <<userVars, newRefresh, newGraph, startup, showVars, threadVars,
                 hostVars, history>>

Free ==
  /\ life = "joining" /\ pc = "exit"
  /\ life' = "freed"
  /\ UNCHANGED <<userVars, run, timerVars, showVars, requests, threadVars,
                 hostVars, history>>

-----------------------------------------------------------------------------
(* The thread, gapc_net_thread_qwork.                                      *)

Thread(here, there) ==
  /\ pc = here /\ pc' = there
  /\ UNCHANGED <<userVars, life, run, timerVars, showVars, host, overtaken>>

ClientInit ==
  /\ Thread("create", "assign")
  /\ target' = host
  /\ UNCHANGED <<requests, cmd, available, got, torn, address, resolve, cut>>

Assign ==
  /\ Thread("assign", "pop")
  /\ UNCHANGED <<requests, cmd, available, got, torn, target, address, resolve, cut>>

(* b_thread_stop is set with the request that Destroy makes.               *)
Pop ==
  /\ Thread("pop", IF life = "joining" THEN "exit" ELSE "check")
  /\ requests > 0 /\ requests' = requests - 1
  /\ UNCHANGED <<cmd, available, got, torn, target, address, resolve, cut>>

Check ==
  /\ Thread("check", IF run THEN "recheck" ELSE "pop")
  /\ available' = (available /\ run)
  /\ UNCHANGED <<requests, cmd, got, torn, target, address, resolve, cut>>

Recheck ==
  /\ Thread("recheck", IF run THEN "open" ELSE "pop")
  /\ cmd' = "status" /\ got' = FALSE
  /\ UNCHANGED <<requests, available, torn, target, address, resolve, cut>>

(* sknet_net_open.  A name may fail to resolve.                            *)
Open ==
  /\ Thread("open", "connect")
  /\ address' = IF resolve THEN target ELSE address
  /\ UNCHANGED <<requests, cmd, available, got, torn, target, resolve, cut>>

NotOpened ==
  /\ Thread("open", "unlock")
  /\ ~up /\ resolve
  /\ UNCHANGED <<requests, cmd, available, got, torn, target, address, resolve, cut>>

Connect ==
  /\ Thread("connect", IF up THEN "send" ELSE "unlock")
  /\ resolve' = ~up
  /\ UNCHANGED <<requests, cmd, available, got, torn, target, address, cut>>

Send ==
  /\ Thread("send", IF up THEN "receive" ELSE "unlock")
  /\ torn' = IF up THEN torn \cup {cmd} ELSE torn
  /\ UNCHANGED <<requests, cmd, available, got, target, address, resolve, cut>>

(* The end of a report, and the end of the connection, which the caller    *)
(* does not tell apart: what counts is that a line was read.  Nothing      *)
(* limits the wait for the next line.                                      *)
Receive ==
  /\ Thread("receive", IF cmd = "status" THEN "open" ELSE "unlock")
  /\ up
  /\ torn' = torn \ {cmd} /\ cmd' = "events"
  /\ got' = TRUE
  /\ UNCHANGED <<requests, available, target, address, resolve, cut>>

ReceiveCut ==
  /\ ~up
  /\ cut' = TRUE
  /\ \E line \in BOOLEAN :
       /\ Thread("receive", IF cmd = "status" /\ line THEN "open" ELSE "unlock")
       /\ got' = (got \/ line)
  /\ cmd' = "events"
  /\ UNCHANGED <<requests, available, torn, target, address, resolve>>

Unlock ==
  /\ Thread("unlock", "flag")
  /\ UNCHANGED <<requests, cmd, available, got, torn, target, address, resolve, cut>>

(* Mutant: a report that fails leaves the flag as it is.                   *)
FlagKept ==
  /\ Thread("flag", "pop")
  /\ available' = (available \/ got)
  /\ UNCHANGED <<requests, cmd, got, torn, target, address, resolve, cut>>

Flag ==
  /\ Thread("flag", "pop")
  /\ available' = got
  /\ UNCHANGED <<requests, cmd, got, torn, target, address, resolve, cut>>

ServerChanges ==
  /\ up' = ~up
  /\ UNCHANGED <<user, life, run, timerVars, showVars, requests, threadVars,
                 hostVars, history>>

-----------------------------------------------------------------------------
ThreadStep ==
  \/ ClientInit \/ Assign \/ Pop \/ Check \/ Recheck \/ Open \/ NotOpened
  \/ Connect \/ Send \/ Receive \/ Unlock \/ Flag

TimerStep ==
  \/ AutomaticRefresh \/ AutomaticEnds \/ RefreshControl \/ OneTimeRefresh
  \/ \E t \in {"graph", "loose"} : LineChartRefresh(t)
  \/ LineChartControl
  \/ \E t \in Timer : Stopped(t)

UserStep ==
  \/ ButtonRefresh \/ ChangeInterval \/ ChangeHost \/ MenuExit \/ Destroy

Next == ThreadStep \/ ReceiveCut \/ TimerStep \/ UserStep \/ Free \/ ServerChanges

Spec == Init /\ [][Next]_vars

(* The thread runs, and the main loop calls what has expired: each of the  *)
(* callbacks that the refresh of the window rests on, and the join.        *)
Fairness ==
  /\ WF_vars(ThreadStep)
  /\ WF_vars(AutomaticRefresh)
  /\ WF_vars(AutomaticEnds)
  /\ WF_vars(RefreshControl)
  /\ WF_vars(Free)

MonitorSpec == Spec /\ Fairness

-----------------------------------------------------------------------------
(* While the monitor runs, its window has one automatic refresh, pending   *)
(* or about to be restarted, and its graph one timer, but for the one more *)
(* that takes the first sample: callbacks that end and start one another   *)
(* lose none and leave none over.                                          *)
TimersLast ==
  run => /\ timer["auto"] + timer["restart"] = 1
         /\ timer["graph"] + timer["loose"] + timer["regraph"]
              = IF startup THEN 2 ELSE 1

(* The window never shows a report that the thread is still reading: a     *)
(* part of a report is shown only if a connection was cut.                 *)
ShownWhole == shown # {} => cut

(* A change of the host takes effect with the next connection, unless it   *)
(* was made while the thread created its PSKCOMM or was connecting.        *)
HostFollowed ==
  pc \notin {"create", "assign", "connect"} /\ ~resolve /\ ~overtaken
    => address = host

(* The thread is not left waiting for a server that is gone.               *)
NoHang == []<>(pc # "receive")

(* The window of a server that answers is refreshed again and again, also  *)
(* after a time in which the server did not answer.                        *)
Refreshed ==
  <>[]up /\ []run => []<><<AutomaticRefresh /\ available>>_vars

(* The window of a server that is gone comes to say so.                    *)
LossShown == NoHang /\ <>[]~up /\ []run => <>[]~available

(* A window that is closed is gone some time: the main loop does not wait  *)
(* for the thread for ever.                                                *)
CloseEnds == NoHang => (life = "joining" ~> life = "freed")

(* Not so: no callback is left for a monitor whose memory was freed        *)
(* (gapcmon.h: "controller for all monitor resources").                    *)
NothingLeft == life = "freed" => \A t \in Timer : timer[t] = 0
=============================================================================
