# TLA+ verification of apcupsd

apcupsd is a daemon that watches an uninterruptible power supply (UPS), tells
the users and an event script what happens to the power, and brings the
machine down before the battery is empty. This directory models the parts that
decide all that: the UPS database, the event queue, the state machine with its
timers, the serial and the USB driver, the lock file that keeps two programs
off one port, and the commands that switch the UPS off; and the programs that
report on it: the information server, its clients, and the windows of gapcmon.

Paths below are relative to the repository root.

## The system

| Component | Code | State | Operations |
|---|---|---|---|
| UPS database | `include/UpsValue.h` | the values by key, the registered clients, a mutex | `update`, `get`, `regclient`, `unregclient`, `notify` |
| Event queue | `include/aqueue.h` | a FIFO list, mutex, condition variable | `enqueue`, `dequeue` |
| Timers, threads | `src/lib/atimer.cpp`, `src/lib/athread.cpp` | started flag, absolute time, thread, running flag | `start`, `stop`, expiry and callback |
| State machine | `src/action.c`, `include/statemachine.h` | the state, its timers, `_onbattery_posted` | `Start`, one handler per state and kind of event |
| apcsmart driver | `src/drivers/apcsmart/*` | serial port, `_selftest`, `_interrupt`, link state | `Open`, `ReadVolatileData`, `UPSlinkCheck`, `CheckState`, `KillPower` |
| USB driver | `src/drivers/usb/{usb.c,linux,generic}` | open device, capabilities, queued reports, link state | `GetCapabilities`, `ReadStaticData`, `ReadVolatileData`, `CheckState`, `link_check`, `KillPower` |
| Other drivers | `src/drivers/{net,dumb,pcnet,snmp,test}` | per driver | none of them has a thread that runs |
| Network information server | `src/apcnis.c`, `src/lib/apclibnis.c`, `src/lib/apcstatus.c`, `src/lib/apcevents.c` | one thread per client, a report buffer shared by all | status and event reports |
| Clients of it | `src/apcaccess.c`, `src/cgi/upsfetch.c`, `src/win32/statmgr.cpp` | a connection, the last report | ask, receive until the empty message |
| gapcmon | `src/gapcmon/gapcmon.c` | per server: a window, timers, a thread, a queue of requests | refresh, change of preferences, exit |
| Lock file | `src/lib/apclock.c`, `src/apcupsd.c`, `src/device.c` | the file, its pid | check, create, delete |
| Kill power | `src/device.c`, `KillPower` of the drivers | powerfail file, flags and countdowns in the UPS | `initiate_hibernate` and the ways to hibernate |
| Event scripts | `src/lib/apcexec.c`, `src/action.c` | child processes | `generate_event`, `execute_command` |
| Reports | `src/reports.c`, `src/lib/apcevents.c` | event file | output of recent events |

How they interact. A driver thread reads the UPS and calls `update()` on the
database. `update()` stores the value and, if it changed, calls the clients
back while the database mutex is still held; the only client, the state
machine, puts a datum on its own queue. A timer thread calls the state machine
back too, and the callback puts a timeout event on the same queue. The state
machine thread takes one event at a time and runs the handler of the current
state; a handler may read the database, start and stop timers, generate events
and change the state, and a change of state runs the exit and entry handlers
at once. `generate_event()` notifies the users and runs the event script.
Clients of the network information server read the database at any time.

What is hard here:

- the state machine acts on two views of the UPS, the queue it consumes and
  the database it reads, and the database is ahead of the queue;
- a timer that is stopped may already have its event on the queue, or be
  about to put it there;
- the driver reads the UPS in several polls, so what it posts in one pass was
  true at different times; self tests and power failures look alike;
- start-up: the driver thread runs before the state machine registers;
- readers of the database change it (a missing key is stored as 0);
- the USB driver has two sources of the same values, its polls and the reports
  that wait in the device meanwhile, and a device that comes and goes;
- the lock file is examined, removed and written in separate system calls;
- a kill-power run talks to a UPS that may do what it reports not to have done,
  on a serial line that another thread reads;
- a connection to the information server that ends looks like a report that
  ends, and one on which a receive timed out still has its answer to come;
- gapcmon's main loop, its timers and its thread share a lock that one side
  only tries and the other keeps while it waits for the network.

What makes each part correct:

- database and queue: whoever empties the queue knows what the database knows;
- state machine: no power failure, mains return or end of a self test is
  overlooked; each event generated fits those before it and the state; every
  limit that is reached in an outage leads to a shutdown; what a timer does late
  keeps the order of the events;
- timers: a started timer fires unless it is stopped, and what it does is of use
  in the state it finds;
- apcsmart driver: what it posts is what the UPS said; a UPS that stays on
  battery, or on mains, is found out;
- link check: loss and return of the communication are reported alternately,
  and the UPS lock is released by who holds it;
- USB driver: an outage is noticed and the database follows the UPS whatever
  waits in the queue of reports; a device that stays away is reported lost;
- lock file: at most one program works on the port, and what a dead one left
  does not keep the next from starting;
- kill power: a UPS that can hibernate does, and keeps no flag for later;
- information server and clients: a report is one state of the UPS, it is the
  answer to the request, whole, and clients do not stop each other for ever;
- gapcmon: a window goes on being refreshed from the host that was chosen,
  shows no report in part, says when the server is gone, and closes.

## Modules

| Module | What it is |
|---|---|
| `UpsInfo` | the database, its one client's queue, `update()` and the two `get()` |
| `UpsStateMachine` | the state machine and its timers with an arbitrary driver |
| `PowerEvents` | the abstract promise: the events of a power failure and their order |
| `ApcSmart` | the apcsmart driver's polling passes, the UPS itself, status reports |
| `Timer` | the abstract promise of a timer, and all the state machine uses of one |
| `ATimer` | `atimer` and `athread`: the mutex, the threads, start, stop and expiry |
| `SmartLink` | the UPS lock, the driver's polls and `UPSlinkCheck`, network clients |
| `UsbDriver` | the USB driver with the state machine: passes, reports, reconnection |
| `LockFile` | the lock file and the programs that compete for the port |
| `KillPower` | kill-power runs of the three drivers that have commands for it |
| `GapcMonitor` | a monitor window of gapcmon, its timers, its thread, its server |
| `NisClient` | tray, apcaccess and CGI fetch on a connection to the server |
| `MCStateMachine`, `MCApcSmart`, `MCUsbDriver`, `MCSmartLink` | instances for TLC: what the UPS can report; the clients |
| `UpsStateMachineProofs`, `ApcSmartProofs`, `ATimerProofs`, `SmartLinkProofs`, `UsbDriverProofs`, `DaemonProofs`, `GapcMonitorProofs`, `NisClientProofs` | theorems and their proofs |

`ApcSmart` and `UsbDriver` each EXTEND `UpsStateMachine`, which EXTENDS
`UpsInfo`: they are the state machine, its timers and one driver together, and
both are shown to implement the specification in which the driver is any.
`ATimer` and `SmartLink` stand on their own: the first below the state machine,
shown to implement the timer it uses, the second beside it, with the control of
a driver's pass and no values. `LockFile`, `KillPower`, `GapcMonitor` and
`NisClient` share no memory with the rest in the code either.
`DaemonProofs` is about `LockFile` and `KillPower`; `ApcSmartProofs` and
`UsbDriverProofs` EXTEND `UpsStateMachineProofs`, whose theorems they carry over.

The operators that a comment calls a mutant are deliberate mistakes in one
definition each; no specification uses them. They are there to show that the
property they are paired with can fail.

### UpsInfo

`info` and `known` are `UpsInfo::_values`; a key that is missing reads as "not
available" through `get(ci, val)` and is stored with 0 by `get(ci)`
(`GetDefault`). `update()` holds the mutex from the comparison to the last
callback, and the callback appends to the queue, so `Update` is one step.
Only the six keys a state handler looks at are kept.

### UpsStateMachine

`state` is `_state`; `pc` is where the thread that runs the handlers is. The
event loop `body()` dequeues and handles an event in one step, except where a
handler reads the database after having had visible effects: a visit of
`StateIdle::OnEnter` waits at `pc = "idle"` for its read of Discharging, and
`CheckShutdown` at `"enter"` or `"check"`. `Start()` runs the entry handler in
the main thread before `regclient()`, hence `pc = "register"`. Handlers of one
state are one operator each (`IdleOnDatum`, `OnbattOnDatum`, `OnbattOnTimeout`,
`SelftestOnDatum`, `SelftestOnTimeout`), with exit and entry actions included:
`LeaveOnbatt` stops the timers and enters IDLE, `EnterOnbatt` generates
POWEROUT, clears `_onbattery_posted` and starts the event timer.

A timer is `started` (its `_started` flag), or in its callback (`firing`), or
both when it is restarted during the callback, which `atimer::body` allows.
Time is abstracted: a started timer expires at any moment. `stop()` joins the
thread only if the timer is started, which `StopOnbattTimers` keeps: a stopped
timer can be left in its callback.

`log` is a history variable: what the events generated so far have told the
user (outage reported, ONBATTERY outstanding, battery attached, shutdown
requested) and the events that did not fit.

There are two initial conditions. `Init` is the start of the daemon, in which a
driver thread already posts. `SteadyInit` is the state after a start in which
the UPS answered only after the state machine had registered; the properties
that the start-up window destroys are stated from there.

### ApcSmart

One pass of `ReadVolatileData()` is `ReadStatus` (status byte, and the cause of
the transfer when the database says the UPS was on line) followed by a
`PostNext` for each key in the order of the code. The status bits come from
the byte read first, the levels from the UPS at the moment they are polled.
The UPS (`hw`) is external: mains fail and return, tests begin and end, the
battery changes, at any time. `StatusReport` is what `output_status()` does to
the database for a network client.

`MaxLost` polls may stay unanswered through all their retries. `smart_poll()`
then returns the empty string, which is not an error to its callers: `strtoul`
makes it a status byte without a bit (`StatusUnanswered`: mains, full battery),
`atof` a level of 0 (`PostUnanswered`). One lost answer to the charge poll on
battery posts 0 and starts the debounce of the charge limit; a later pass that
posts the true charge does not stop that timer. The properties of the driver
hold with it: they say that what must be noticed is, not that nothing else is.

### ATimer

One timer and the thread that owns it, at the grain of the timer's mutex. A
section under the mutex that does not block is one step; `pthread_cond_timedwait`
releases the mutex and is a place (`"wait"`), and so is its return before the
mutex is taken again (`"timedout"`, `"woken"`), which is where a `stop()` races
with an expiry. The callback runs with the mutex unlocked (`"callback"`).
`springboard()` clears `_running` after `body()`, without the mutex: the place
`"finish"` is that window. `Thread` is the system's table of threads: a thread
whose timer fired is joined only if the timer is stopped later while started,
so the table can fill and `pthread_create` fail. `calc_abstimeout` takes an
`int` of milliseconds; a time it cannot hold makes `timedwait` fail (`Refused`).

### SmartLink

`lock` is `UPSINFO::mutex`, `buffer` the mutex of `apcnis.c`. The thread that
polls is `main()` in `Open()` (`phase` `"caps"`, then `"static"`) and the driver
thread from then on (`"body"`). A pass is `Lock`, a `Poll` and a `Post` per
command, with the lock released by the last `Post`; `ReadStaticData` is the
same without a lock. It ends with `get_apc_model()`: `Ask` sends ^A and may get
an answer; if not, up to two polls follow, each in a section of its own under
the lock (`phase` `"model"`, `PostModel`). An unanswered poll goes through `UPSlinkCheck` (`Check`,
`Unlock`, `Declare` after 20 seconds, `Answered`, `Relock`) and is tried again,
twice, after which the empty answer is used. A mutex is of the default kind:
unlocking one that is not held frees it. A client takes the buffer, then the
lock, makes its report, gives the lock back and sends.

### UsbDriver

One pass of `ReadVolatileData()` is a `Fetch` for each item in `PollOrder`; an
item of several values, the APC status word, leaves the others in `pending`,
each stored by a `Post`. Then `CheckState()` takes reports (`TakeReport`) until
its time is over (`CheckTimeout`) or a read fails, which starts `link_check()`
(`LinkCheck`, `Retry`, `GetCapabilities`, the static items, `LinkOk`). A read
error of the file descriptor is delivered only after the reports that were
queued, and polls of a device that has gone are passed over one by one: the
loss is noticed in `CheckState()` and nowhere else. `Handled` are the items with
a callback: the status word takes the place of the usages it stands for.
`process_battpresent` believes that a battery is connected the second time only
(`seen`), and a value the generic driver had before is no second time (`Ignored`).
A reopening finds the device that was open, or the one there is; the generic
driver takes the first on the bus and ignores DEVICE (`Found`). On battery a pass
less than five seconds after the last poll polls nothing: it changes nothing and
is no step; `CheckTimeout` is the end of a wait after which the driver polls. The
UPS is external: it measures, reports or does not report,
is unplugged and plugged in again; `Other` is a second UPS on the bus. A UPS
that has gone between its reopening and `GetCapabilities()` makes the Linux
daemon end (`"aborted"`), and each liveness property allows for it.

### LockFile

A process is at a `call` of its program (the check at the start of `main()`, the
opening of the port, `create_lockfile()` of `setup_device()` and again of
`main()`, its work, its clean-up) and, in `check_stale_lockfile()` and its
callers, at a `step`, one for each system call. `file` is the file under its
name: its creator and whether the pid is in it. `Look` opens it and `Read` reads
what was opened (`seen`), which may have lost its name or got its pid meanwhile;
a process that writes into a file that was unlinked writes only for those who
have it open (`Write`). `parent` is `getppid()`: a program may be started by the
event script of a daemon, or by a process that gets one of the pids, and a lock
with the parent's pid counts as its own (`Exists`). `Fork` is `daemon_start()`,
after which the daemon has another pid and no parent. Faults are a port
that cannot be opened, a signal, and a crash; a pid whose process has ended can
be given to another program (`Reuse`) or to the next of ours. `beaten` marks
those for whom the file, or the pid in it, is another's by now than they found;
`raced` records that one of them removed a lock in use, `shared` that a process
took or removed its parent's. `OneOwner` says that there is no third way to two
owners.

### KillPower

`Check` is `initiate_hibernate()`. The USB driver is the chain of `Onward`: ways
to hibernate in order, each with the usages it `Needs`; a write takes effect or
not, and is reported as done or as failed, in all four combinations, since
`write_int_to_ups()` reads the usage back after the write but does not compare
what it read. The two walks lower a setting
step by step through `switch` cases that fall through. The smart driver sends
characters and reads answers beside the thread that `Open()` started, which
polls the same line (`Poll`, `ThreadReads`): a poll between the characters of a
command spoils it, and an answer can reach the wrong thread. `Fate` is what
becomes of the UPS. An acknowledgement has two forms, "OK" and "*": `"@"` accepts
both, `"S"` the first only (`Acknowledges`). `getline()` waits a second (`GetLine`):
an answer that comes later is the next command's, a line that came in part is
taken for an answer and its rest for the next, and what `GetDelay` did not wait
for is still to come. When a poll of the other thread goes unanswered,
`UPSlinkCheck()` flushes the line (`Flush`). `misled` records that a write was
reported other than it was or that an answer was taken for what it was not. The
two settings for the time after (`RETPCT`, `APCDelayBeforeStartup`) are places in
the chain, whose writes no way reads. The module has no constants.

### GapcMonitor

Everything but the thread runs in the main loop, one callback at a time, so a
callback is one step. `timer` counts the timeouts that are pending for each
callback, those with a kept id (`auto`, `graph`) and those without. Two flags ask
a timer to end and be started again with a new interval; the first sample of
the graph has a timer of its own. The thread (`pc`) takes a request from its
queue, holds `gm_update` while it asks for both reports, and sets
`b_data_available`. Callbacks only try to take that lock. A host is a number,
each change of the preference the next one; `target` and `address` are the
string and the resolved address of the thread's connection, `resolve` the flag
that asks for a new resolution. The server is external: it stops and comes
back, and cuts connections.

### NisClient

One client program, chosen in the initial state, the connection, and the
server's thread. A message is a line of a report or the empty one that ends
it; each receive or send is a step, and each direction holds `MaxBuffer`
messages. The server closes a connection on which nothing came for 15 seconds
(`IdleTimeout`), the daemon dies or the network breaks the connection (`Break`),
a receive times out (`TimesOut`), possibly inside a line (`torn`). The server
gives up on events it has no memory for: an end, a line, another end, and it
closes (`GivesUp`, `HangUp`). `wide` is chosen at the start: the lines that are
longer than the 99 bytes `StatMgr::Update()` receives into. `net_recv()` takes the
header of such a line and leaves the line itself, which is then read as headers
(`TooLong`, the `torn` branch of `Receive`). A send to a connection that the
server closed is answered with a reset, which throws away what was not received.
`age` counts the calls made since the one whose request a message belongs to;
`behind` the timeouts on this connection, `ragged` that the lines on it no longer
fall into answers. `StatMgr::Update()` compares the result of `net_recv()` with -1,
which it never returns: `Return` therefore is a success for the tray in every
case, and keeps the socket.

## Properties and runs

| Run | Specification | Properties | Instance |
|---|---|---|---|
| `SM_startup` | `Spec`, from the start of the daemon | `QueueEndsAtInfo`, `ReportsMatchState`, `OnbattTimeoutsOnTheWay` | status bits, time limit set, queue 2 |
| `SM_outage` | `SteadySpec`, any driver | `NoMissedPowerFailure`, `NoMissedMainsReturn`, `NoMissedTestEnd`, `EventsFit`, `TriggersOnTheWay`, `PowerContract` | outages, tests, charge, battery unplugged, queue 2 |
| `AS_live` | `ApcSmartLive` | `DriverRefines`, `OutageNoticed`, `MainsReturnNoticed`, `TimeLimitReached` | self tests, cause of transfer known, one lost poll, queue 1 |
| `AS_limits` | `ApcSmartLive` | `LowChargeReached` | charge and battery presence, one lost poll, queue 1 |
| `AT_timer` | `Spec` of `ATimer` | `OneBody`, `TimerContract` | a table of 3 threads |
| `SL_link` | `LiveSpec` of `SmartLink` | `LockDiscipline`, `CommEventsAlternate`, `LossReported`, `PassesComplete`, `ClientsServed` | 2 clients, passes of 2 polls |
| `UD_live` | `UsbLive` | `UsbRefines`, `OutageNoticed`, `DatabaseFollows`, `LossReported` | Linux driver, status word, 2 queued reports |
| `UD_generic` | `UsbLive` | `OutageNoticed`, violated | generic driver, a UPS without the status word |
| `DM_lock` | `LockSpec` | `OneOwner`, `LeftByCrash`, `StaleGivesWay` | 2 processes at a time, serial port, two faults |
| `KP_kill` | `KillSpec` | `Hibernates`, `NoFlagLeft`, `StaysHibernating` | every UPS and driver |
| `GM_live` | `MonitorSpec` | `TimersLast`, `ShownWhole`, `HostFollowed`, `Refreshed`, `LossShown`, `CloseEnds` | one user action |
| `NC_client` | `NisSpec` | `AnswersMatch`, `WholeUnlessCut`, `Recovers` | all three programs, one timeout, two breaks |

The type invariant of each module (`TypeOK`, `ApcSmartTypeOK`, `ATimerTypeOK`,
`LinkTypeOK`, `UsbTypeOK`, `LockTypeOK`, `KillTypeOK`, `MonitorTypeOK`,
`NisTypeOK`) holds in the runs above when it is added to their properties, as do
`OnbattTimersOwned`, `TimersUsed`, `StopWaits`, `ReportsUndisturbed` and
`SettingsFall`. They are proved, and so is every property of a passing run that is
not a liveness property.

`QueueEndsAtInfo` is the heart of it: the newest queued datum of a key carries
the value in the database. It is why entering ONBATT by reading the database
ahead of the queue loses nothing (`NoMissedMainsReturn`), and why an idle
machine on a discharging UPS always has the datum that wakes it on the queue
(`NoMissedPowerFailure`). `OnbattTimeoutsOnTheWay` and `TriggersOnTheWay` say
that no limit is forgotten: its timer runs, is in its callback, or its event is
queued. `EventsFit`, `ReportsMatchState` and `PowerContract` are about what the
user is told.

`TimerContract` is the link between the timer of the code and the one
`UpsStateMachine` contains: started, fired once unless stopped, started again
during the callback, and then stopped only after it. `LockDiscipline` is what
`ReportsUndisturbed` rests on. `PassesComplete` assumes nothing of a client
that has a report to accept: only the buffer waits for it, never the driver.
`ClientsServed` needs no link: `UPSlinkCheck` waits without the lock. These two
and `LossReported` have the premise `CleanStart`; `LinkCheckHoldsLock` below says
how the start can leave the lock behind, `LeftForGood` what becomes of it. The
comment in `apcstatus.c:47` that a client can lock the driver out is not so:
`s_write()` fills the report buffer, which is sent after `read_unlock()`.

`DatabaseFollows` is the point where the two sources of the USB driver meet: it
fails when a pass does not poll what reports set. `LossReported` and
`OutageNoticed` go through losses in any place, the middle of a reconnection
included. `OneOwner` with `LeftByCrash` and `StaleGivesWay` is all the lock file
promises: exclusion but for one race and for a daemon's children, no pid that
outlives its process in the file but by a crash, nor that for ever. A file
without a pid is excepted from the last two: a failed write leaves it, and it
stays. `StaysHibernating` and `Hibernates` are stated
for runs in which no answer was mistaken; `OnlyHibernates` below is the same
without that premise, and fails. `TimersLast` holds of callbacks that end and start one
another, `HostFollowed` of a flag that one side sets and the other clears;
`CloseEnds` and `LossShown` have the premise `NoHang`, since nothing limits the
thread's wait for the next line. `PowerContract` is about the order of what the
user is told, whatever outage a timeout was started in. `AnswersMatch` and
`WholeUnlessCut` say for which connections a program can trust a report: after
`n` timeouts a call gets the answer to the request of `n` calls before, for as
long as the connection lasts. `Recovers` says that the tray's icon comes back
from every end of a connection and from every such timeout, but not from a line
received in part; `RecoversAnyway` below is the same without that exception.

### Bounds

`MaxQueue` bounds how far a driver may run ahead of the state machine: no
changed value is posted while that many events are queued. Timers are not held
back by it, except that none expires while more than `MaxQueue` events wait;
every timer is one-shot and restarted only by a handler, so the queue stays
finite. Two or three queued events are enough to have a change, its reversal
and a timeout in every order, which is what the counterexamples need. Values
are taken on both sides of the limits (59 and 60 tenths of a percent for
BATTERYLEVEL 5, which compares whole percents). In `ATimer` three threads leave room for the
one that works, one that ended, and one more, so that the table fills in few
steps. In `SmartLink` two polls give one that has a successor in the pass and
one that ends it, and two clients compete for the buffer.

In `UsbDriver` two queued reports are a change and its reversal behind a poll.
`MaxLost` is one: a second lost poll repeats what the first does at another
pass. In `LockFile` a race needs the process that removes, the one whose lock
is removed and the one that left the stale lock. Pids are used again, so two
are enough for the three, and for a parent with its child; two faults are a crash that
leaves a lock and one more while it is in the way. With three pids and one fault
`OneOwner` and `LeftByCrash` hold of 21 million states, too many for the run. `GapcMonitor` takes `Every` as 2 for the 10 of the
code, a counter that must come round, and one action of the user, whose effect
on timers and connection is over before the next could matter to the
properties; the proofs cover any number. In `NisClient` five messages are a
report and its end with room for one more, so that a server waits and does not
wait; one timeout and two breaks are enough for a late answer on a connection
that ends, and for an end during the recovery from one. `MaxWide` is one: the
first line that is too long ends the order of the connection, whatever follows.
`KillPower` has no bound: each command is sent once, which bounds the line.

Time, delays and the
five-second debounce are abstracted to "at any moment", which allows more than
the clock does.

### Fairness

`ApcSmartLive` assumes that the state machine thread, the driver thread and
each timer thread that can take a step for ever eventually takes one. The code
gives this: threads block only on the queue, on the database mutex (held for a
callback that only enqueues) and on the condition variable of a timer, with a
timeout. Nothing is assumed of the UPS or of network clients: the liveness
properties have a premise about the UPS instead (it stays on battery, it stays
on mains, its charge stays low).

`LiveSpec` of `ATimer` assumes that threads run and that a time that has come
is noticed though wake-ups intervene (strong fairness of `TimeOut`: the time is
absolute). `LiveSpec` of `SmartLink` assumes strong fairness of taking a mutex:
between two acquisitions a client does network input and output and the driver
sleeps up to a minute, so a waiting thread finds the mutex free for long, again
and again. A client may keep its report for ever: `Close` is not fair, and
`ClientsServed` has the premise that the other clients accept theirs.

`UsbLive` assumes that the driver and the state machine run, and that the wait
of `CheckState()` ends although reports keep coming (strong fairness of
`CheckTimeout`: `select()` gets what is left of the time). `LockSpec` assumes
that processes run and, for `StaleGivesWay`, that one program is started again
and again. `KillSpec` assumes only that the main thread runs. `MonitorSpec`
assumes that the thread runs and that the main loop calls the callbacks that
have expired; `AutomaticRefresh` needs the lock, which the thread gives back
between two requests. `NisSpec` assumes the polling thread and the server's
thread, `HangUp` included; nothing of dialogs, of the network or of the daemon's
being up.

### Disagreements with the documentation and comments

`UD_generic` ends in a counterexample: the generic USB driver claims the APC
status word for every UPS, drops the usages the word replaces, and never
notices an outage of a UPS that has none.

The properties below contradict a sentence of a comment or of the manual as
well. They are stated in their modules, hold of no run, and TLC shows each
violated within seconds when it is put in the place of the properties of the
configuration named.

| Property | Configuration | What happens |
|---|---|---|
| `NoMissedPowerFailure` | `SM_startup` | `Start()` enters IDLE, which reads the database, and only then registers; a power failure posted in between is never handled (`action.c:818`: "If we're already running on battery go straight to POWERFAIL") |
| `StaleTimeoutsIgnored` | `SM_outage`, `Value <- StatusOnly` | a timeout queued, or in its callback, when an outage ended is handled in the next (`statemachine.h:103`: ids are unique "so stale timer events can be identified and ignored") |
| `LimitCausesShutdown` | `SM_outage` | a shutdown state generates nothing: the body of `OnEnter` is commented out (`manual.rst:3362`) |
| `LoadLimitNeedsLowCharge` | `AS_limits`, `ApcSmartSteady`, `MaxLost = 0`, `Caps = {"BATTLEV"}`, `Value <- FullBattery` | a status report before the first charge stores 0 (`manual.rst:4925`: halted "when the remaining battery charge falls below the specified percentage") |
| `StartedFires` | `AT_timer`, `LiveSpec` | a timer started after its thread left the loop of `body()` and before `_running` is cleared gets no thread (`atimer.cpp:65`: "Unlock around callback to allow restart") |
| `LinkCheckHoldsLock` | `SL_link` | `ReadStaticData()` runs without the UPS lock, `UPSlinkCheck()` releases it and takes it, for ever; `main()` waits for it itself in `get_apc_model()`, or the driver thread does (`smart.c:320`: "MUST be called with the UPS write lock held") |
| `OnePort` | `DM_lock` | a stale lock found by two processes: the second unlinks the first one's new file; or a program that the daemon's script starts takes the lock for its own, since `getppid()` is in it (`manual.rst:4855`) |
| `NamedDeviceOnly` | `UD_live`, `Named = TRUE`, `Other = TRUE` | a reconnection forgets that the user named the device (`linux-usb.c:179`: "If user-specified device could not be opened, fail.") |
| `OnlyHibernates` | `KP_kill` | the driver thread reads the acknowledgement of the soft shutdown, or it comes later than a second, and `KillPower()` goes on to "off" (`options.c`: "put UPS into hibernation mode") |
| `RecoversAnyway` | `NC_client` | a status line of more than 99 bytes before that of the flag: `net_recv()` returns an error that `StatMgr` does not know, the connection is kept and no later report on it is understood (`apclibnis.c:158`: "Returns -1 on hard end of file (i.e. network connection close)") |
| `NothingLeft` | `GM_live` | timers without an id expire with a freed monitor |

In `UpsStateMachine` a started timer can always expire: its liveness properties
hold where the loss that `StartedFires` shows does not happen.

One comment says other than the code without a property that fails:
`apcstatus.c:47` says that `read_lock()` has "the potential for a misbehaving
client to create long lock hold times, essentially locking the driver out",
while nothing between it and `read_unlock()` waits for a client, and
`PassesComplete` holds. `net_recv()` is documented to return -1 "on hard end of
file" and -2 on error, and returns 0 and minus an error number
(`apclibnis.c:158`); `StatMgr` tests for that -1. One consequence is
`RecoversAnyway`; another, that a connection on which receives timed out stays as
many reports behind, is what `AnswersMatch` says.

## Proofs

All theorems are for every value of the constants, those of the UPS (`Value`,
`Raw`, `Caps`, `TestResult`), of the configuration and of the bounds, that
satisfy the assumptions stated with the constants (any driver that posts
integers; a UPS whose reports include what its capabilities imply).

- `TypeCorrect` (`UpsStateMachineProofs`): `TypeOK` is inductive.
- `ShutdownForGood`, `ShutdownNeverAnnounced`: what `LimitCausesShutdown` finds
  on one path, said of all. In a shutdown state the handler thread waits or is
  about to register (`HandlerAtState`), and the only events with a handler there
  are about the battery's presence: the state lasts, the outage is not reported
  as over, no timer starts. And none of the eight events the handlers generate
  is one that calls for a shutdown: the machine decides to shut down and tells
  nobody, for every driver, configuration and order of steps.
- `TimersAsPromised`: `TimersUsed`, each of the six timers used as `Timer` allows.
  `Timer` lets a timer be stopped only when its callback does not run beside its
  restart, which the code gets by joining the thread; the theorem is the other
  half of `ImplementsTimer`: what `ATimer` gives is all that the handlers take.
- `OwnedAndReported`: `OnbattTimersOwned` and `ReportsMatchState`. They are not
  inductive: `CheckShutdown` starts timers without looking at the state, so
  the invariant adds where the handler thread can be in which state
  (`HandlerAtState`).
- `QueueCorrect`: `QueueEndsAtInfo`, from both starts.
  The strengthening is that nothing but timeouts is queued before the machine
  registers; otherwise an unannounced update would falsify a queued datum.
- `NothingOverlooked`: `NoMissedPowerFailure`, `NoMissedMainsReturn` and
  `NoMissedTestEnd` from `SteadyInit`. The argument: a datum leaves the queue
  as the last of its key only with the database's value (`PendingAfterDequeue`),
  a change of the database puts one on (`PendingAfterUpdate`); a key that is
  not stored is 0 (`UnstoredIsZero`), so a failed read is a read of 0.
- `MainsReturnNotOverlooked`, `TestEndNotOverlooked`: the two others by
  themselves.
- `TimeoutsOnTheWay`, `LimitsOnTheWay`: `OnbattTimeoutsOnTheWay` and
  `TriggersOnTheWay`. A timer that is armed stays so until its event is taken
  off the queue or it is stopped (`ArmedAfterDequeue`); a datum that reaches a
  limit is pending from the moment the database has it.
- `NoContradiction`: `EventsFit`. The history follows the states, so that each
  handler generates an event only where it fits.
- `ImplementsPowerEvents`: every step of the state
  machine is a step of `PowerEvents` or a stutter, under the mapping
  outage, announced, down to the history and the shutdown states.
- `ApcSmartImplements` (`ApcSmartProofs`): every step of the system with the
  smart driver is a step of `UpsStateMachine` with an arbitrary driver. With
  it the theorems about `SteadySpec` hold of that system. The invariant says
  that a pass posts only keys the UPS has, and that `_selftest` is set only
  where the cause of a transfer can be read; that the 0 of an empty answer is
  a value the UPS could report is an assumption of the constants. With
  `DriverTypeCorrect`.
- `SmartDaemonPromises`: the theorems above put together, for the daemon with
  this driver, and `UsbDaemonPromises` the same for the other.
- `StatusHeeded` joins the driver's state to the machine's: when a pass is over,
  a machine that idles although the status byte of that pass said on battery, or
  is in an outage although it said on mains, has the datum that changes it on
  its queue. The step from the byte to the database is `StatusPosted`: from its
  post to the end of the pass the database keeps the bit, since only the driver
  stores it, and every pass has that post (`PassHasStatus`), through self tests
  and lost answers.

- `OneThread`, `ImplementsTimer` (`ATimerProofs`), for every `MaxThreads`: at
  most one thread works for a timer, and every step of `ATimer` is a step of
  `Timer` or a stutter. The abstract timer stays started while a `stop()` that
  the expiry may still beat is under way (`stopping`); the invariant `Flags`
  says a thread that waits does so for a timer started or being stopped.
- `StartedStopWaits`: `StopWaits`. A `stop()` that finds its timer started is over
  only when no thread works for the timer, not one of an earlier start either,
  by `OneBody` (`JoinedQuiet`). A `stop()` that finds it fired returns at once,
  while the callback may still run: nothing is claimed of that one.
- `LockHeldInside`, `CommAlternate`, `OnlyLossDuringReport` (`SmartLinkProofs`),
  for any clients and any number of polls: `LockDiscipline`,
  `CommEventsAlternate`, `ReportsUndisturbed`. `set_commlost()` is called without
  the lock, so the last says what does change during a report: COMMLOST may be
  set, and nothing else. The strengthening `Places` says that there are no
  clients before the driver thread runs: the lock `main()` frees by mistake is
  then nobody's.
- `BufferForOne`, `HeldAfterStart`, `LeftForGood`: what the two mutexes protect,
  and what becomes of the one `main()` misuses. `StartDiscipline` says who can
  have the UPS lock in each phase of the start. With it, `LinkCheckHoldsLock`
  fails in `ReadStaticData()` and nowhere else; and once it has ended with the
  lock left to `main()`, the lock is never given back: no pass begins and no
  report is made from then on, whether `main()` gets through `get_apc_model()` or
  not (the premise `CleanStart` of the liveness properties is therefore needed,
  on every path and not just on one).

- `UsbTypeCorrect`, `UsbImplements` (`UsbDriverProofs`): what is in the queue of
  reports, pending or about to be fetched is a value of a handled item, so
  every store of the USB driver is one an arbitrary driver may make; unplugging,
  reconnecting and the rest are stutters of `SteadySpec`. All theorems about
  `SteadySpec` hold of it (`UsbDaemonPromises`).
- `LinkConsistent`: the device under the driver, for any
  sequence of losses, attempts and a second UPS on the bus. `LinkInv` relates the
  file descriptor, the device named in `UPSINFO`, the flag COMMLOST and what is
  queued. No report outlives its device because a read error is delivered after
  all reports, and `link_check()` begins with one.
- `LockTypeCorrect`, `OneOwnerUnlessRaced`, `OnlyCrashesLeaveLocks`
  (`DaemonProofs`), for any set of pids and any number of faults. Unless a
  lock was removed in a race or a child took it, who is past `create_lockfile()`
  has its own pid in the file (`HasLock`); what a process that is not `beaten`
  has found out about the file is still so (`Known`); a pid in the file is that
  of a process that still has its clean-up before it, or crashed.
- `MonitorTypeCorrect`, `TimersNeitherLostNorDoubled`, `NeverShownInPart`,
  `HostChangeFollowed` (`GapcMonitorProofs`), for any number of user actions and
  of failed updates: `TimersLast`, `ShownWhole`, `HostFollowed`. The second rests
  on the lock: a report is partial only while the thread holds it or after a
  cut.

- `NisTypeCorrect`, `AnswersAreToTheRequest`, `ReportsWhole`
  (`NisClientProofs`), for buffers of any size, any lines that are too long, and
  any number of timeouts and ends of the connection: `AnswersMatch` and
  `WholeUnlessCut`. As long as the connection is in step (`InStep`), nothing is on
  its way between two calls (`Quiet`); during one it is the request, or what was
  received, is on its way and is still to be sent make up an answer in its order
  (`Answered`), in full while the connection is open. So the message that ends it
  is the last one there is (`EndIsLast`). In the tray, after timeouts, the
  argument is about ages: along what was sent, what the server has still to send
  and the requests it has not read, the age falls by one with each end and with
  nothing else (`Pending`), from `behind` at the front to the last request at the
  back. A call that ends in order takes one end, a timeout takes none, and the
  next call makes everything one older.

- `KillTypeCorrect`, `AbleHibernates`, `FlagsReset`, `HibernationStands`,
  `SettingsOnlyFall` (`DaemonProofs`): `Hibernates`, `NoFlagLeft`,
  `StaysHibernating`, `SettingsFall`. `KillPower` has no constants, so TLC's run is
  all its states; the proofs say why. For USB (`UsbOrder`, `UsbFlags`), every way
  the run has passed had a usage missing or a write that failed, and a flag is
  set only between its write and its reset. For the serial driver
  (`LineInStep`, `AnswersInStep`), unless an answer was mistaken there is at most
  one to a command on the line, to the one just sent, and if the UPS has agreed to
  hibernate the agreement is read before anything else is sent. Answers to polls
  may be anywhere between.

The invariants behind these proofs were checked with TLC on the instances of the
runs before they were proved.

Liveness is checked by TLC only: it rests on fairness, which the prover does
not handle. The counterexamples are TLC's.

## What is not modelled

- The net, pcnet, snmp, dumb and test drivers as threads. Only the apcsmart and
  usb drivers call `run()`; the loop that polled the others, `do_device()`, is
  compiled out. The dumb driver's kill-power bit is in `KillPower`. Their
  protocols and MIB tables (a good part of the lines of `src/`) have no caller.
- `bsd-usb.c`, which implements an interface that `usb.c` no longer calls, and
  the HID report parser of the generic driver.
- `do_shutdown`, `powerfail` and the logon functions of `action.c`: the code
  that would enter them is commented out.
- `apctest`: commented out of the Makefile, it calls an interface that the
  drivers no longer have. `LockFile` has it as a program that takes the lock.
- Event scripts: `execute_command` gets the command's record by value and starts
  a child that nothing waits for.
- The debounce of low battery, charge and run time as a time: its timers are
  not stopped when the condition ends, which the model has, but no property
  speaks of how long a condition must last.
- The TCP wrappers and the listener of the information server.
- Set-up of the serial line, static strings, the EEPROM program (no caller).
- Parsing of the configuration, output formats, the HTML pages and images of
  the CGI programs, the widgets of gapcmon, the Windows service and dialogs.
- Keys no state handler looks at, and the wording of events.

## Plan

What is left to prove: the six timers of `UpsStateMachine` replaced by six of
`ATimer`, of which `TimersAsPromised` and `ImplementsTimer` are the two halves;
and that the monitor's and the client's state between two reports is the same
however the last one ended.

What is left that the code would allow to be modelled:

1. `SmartLink` and `ApcSmart` in one module: the values of a pass that waits
   for the link between its polls.
2. The set-up of the serial line (`getline`, `smart_poll` during `Setup`).
3. Timer identities that change with each visit of ONBATT, as the proposal that
   would make `StaleTimeoutsIgnored` hold, and the debounce as one more.
