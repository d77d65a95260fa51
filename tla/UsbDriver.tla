----------------------------- MODULE UsbDriver -----------------------------
(***************************************************************************)
(* The USB driver thread (src/drivers/usb and its linux and generic        *)
(* subclasses) at work with the state machine, on a UPS that changes,      *)
(* reports changes or not, and is unplugged and plugged in again.          *)
(*                                                                         *)
(* body() alternates two sources of the same values.  ReadVolatileData()   *)
(* asks for item after item of a fixed table; CheckState() then takes the  *)
(* interrupt reports, queued meanwhile, until wait_time is over.  A read   *)
(* error there, and only there, starts link_check(): the device is closed  *)
(* and reopened until it answers, its capabilities and static items are    *)
(* read again, and polling goes on.                                        *)
(*                                                                         *)
(* An item is a usage the UPS may have.  The APC status word ("STATUS")    *)
(* holds what other UPSes report as usages of their own.                   *)
(***************************************************************************)
EXTENDS UpsStateMachine

CONSTANTS
  Caps,        \* the items the UPS has
  Raw,         \* [CI -> SUBSET Int]: what it may report for them
  Generic,     \* TRUE: the libusb driver, FALSE: the Linux hiddev driver
  Named,       \* DEVICE names the UPS to use
  Other,       \* a second UPS is plugged in all the time
  MaxReports   \* bound: reports queued between the UPS and the driver

Item == {"Discharging", "BATTLEV", "RUNTIM", "BatteryPresent", "STATUS",
         "ST_STAT"}

(* UPS_Cap: the generic driver claims the status word for every UPS.       *)
UPS_Cap == IF Generic THEN Caps \cup {"STATUS"} ELSE Caps

(* Mutant: the status word has no callback, the usages of their own have.  *)
HandledWord == Caps \ {"STATUS"}

(* The items whose value is fetched and has a callback: those the status   *)
(* word replaces have none.                                                *)
Handled == {item \in Caps : item = "Discharging" => "STATUS" \notin UPS_Cap}

(* The process_* callbacks: masks of the status word, codes of a self      *)
(* test, tenths of a percent.                                              *)
Converted(ci, v) ==
  CASE ci = "Discharging" -> IF "STATUS" \in Caps THEN 16 * v ELSE v
    [] ci = "BattLow"     -> 64 * v
    [] ci = "ST_STAT"     -> CASE v = 6 -> TestInProgress
                               [] v = 1 -> 5
                               [] OTHER -> 2
    [] ci = "BATTLEV"     -> 10 * v
    [] OTHER              -> v

Keys(item) == IF item = "STATUS" THEN {"Discharging", "BattLow"} ELSE {item}

ASSUME UsbAssumption ==
  /\ Caps \subseteq Item
  /\ Generic \in BOOLEAN /\ Named \in BOOLEAN /\ Other \in BOOLEAN
  /\ MaxReports \in Nat

ASSUME RawAssumption ==
  /\ \A ci \in CI : Raw[ci] # {} /\ Raw[ci] \subseteq Int
  /\ Raw["Discharging"] = {0, 1}
  /\ \A item \in Handled : \A ci \in Keys(item) : \A v \in Raw[ci] :
       Converted(ci, v) \in Value[ci]

VARIABLES
  hw,        \* what the UPS measures at the moment
  plugged,   \* it is on the bus
  reports,   \* interrupt reports not read yet
  fd,        \* the open device; "dead" when it went away
  device,    \* UPSINFO::device: the name the next open tries first
  named,     \* LinuxUsbDriver::_orig_device is set
  at,        \* where the driver thread is
  todo,      \* items the pass under way has yet to fetch
  pending,   \* data of the report in process_value not posted yet
  seen,      \* _batt_present_count > 0
  commlost,  \* UPS_commlost
  tries      \* attempts begun in this link_check, up to 3

linkVars == <<fd, device, named, at, commlost, tries>>
driverVars == <<linkVars, todo, pending, seen>>
upsVars == <<hw, plugged, reports>>
allVars == <<vars, upsVars, driverVars>>

HwType == {h \in [CI -> UNION {Raw[ci] : ci \in CI}] :
             \A ci \in CI : h[ci] \in Raw[ci]}

(* What the state machine may be sent.                                     *)
Postable == UNION {{Datum(ci, v) : v \in Value[ci]} : ci \in CI}

Device == {"ups", "other"}

UsbTypeOK ==
  /\ hw \in HwType
  /\ plugged \in BOOLEAN /\ named \in BOOLEAN /\ seen \in BOOLEAN
  /\ commlost \in BOOLEAN
  /\ fd \in Device \cup {"dead", "none"}
  /\ device \in Device \cup {"none"}
  /\ at \in {"run", "lost", "caps", "static", "aborted"}
  /\ todo \in Seq(Handled)
  /\ pending \in Seq(Postable)
  /\ reports \in Seq(Seq(Postable) \ {<<>>})
  /\ tries \in 0 .. 3

-----------------------------------------------------------------------------
(* The volatile items in the order of the table, then the only other item  *)
(* of interest.                                                            *)
When(item) == IF item \in Handled THEN <<item>> ELSE <<>>

PollOrderNoStatus ==
  When("Discharging") \o When("BATTLEV") \o When("RUNTIM")
    \o When("BatteryPresent")

PollOrder ==
  When("Discharging") \o When("BATTLEV") \o When("RUNTIM")
    \o When("BatteryPresent") \o When("STATUS")

StaticOrder == When("ST_STAT")

(* A report: the values of its item, as the callback will post them.       *)
Reading(item, h) ==
  IF item = "STATUS"
    THEN <<Datum("Discharging", Converted("Discharging", h["Discharging"])),
           Datum("BattLow", Converted("BattLow", h["BattLow"]))>>
    ELSE <<Datum(item, Converted(item, h[item]))>>

(* Mutant: the value is stored without telling the clients.                *)
ProcessSilent(r) ==
  LET d == Head(r)
      believed == d.key = "BatteryPresent" /\ d.value # 0 => seen
  IN  /\ info' = IF believed THEN [info EXCEPT ![d.key] = d.value] ELSE info
      /\ known' = IF believed THEN known \cup {d.key} ELSE known
      /\ UNCHANGED <<registered, queue>>
      /\ pending' = Tail(r)
      /\ seen' = IF d.key = "BatteryPresent" THEN d.value # 0 ELSE seen

(* process_value up to its first update, the others stay pending.  That a  *)
(* battery is connected is believed the second time.                       *)
Process(r) ==
  LET d == Head(r)
      believed == d.key = "BatteryPresent" /\ d.value # 0 => seen
  IN  /\ \/ believed /\ Update(d.key, d.value)
         \/ ~believed /\ UNCHANGED infoVars
      /\ pending' = Tail(r)
      /\ seen' = IF d.key = "BatteryPresent" THEN d.value # 0 ELSE seen

(* Open() has posted the static items before the thread runs.              *)
UsbInit ==
  /\ SteadyInit
  /\ hw \in HwType
  /\ IF "ST_STAT" \in Handled
       THEN "ST_STAT" \in known /\ info["ST_STAT"] = Converted("ST_STAT", hw["ST_STAT"])
       ELSE "ST_STAT" \notin known
  /\ plugged = TRUE /\ reports = <<>>
  /\ fd = "ups" /\ device = "ups" /\ named = (Named /\ ~Generic)
  /\ at = "run" /\ todo = PollOrder /\ pending = <<>> /\ seen = FALSE
  /\ commlost = FALSE /\ tries = 0

(* update_value of the next item.  One that cannot be fetched, for the UPS *)
(* has gone away, is passed over.                                          *)
Fetch ==
  /\ at \in {"run", "static"}
  /\ pending = <<>> /\ todo # <<>>
  /\ todo' = Tail(todo)
  /\ \/ /\ fd \in Device
        /\ \E h \in IF fd = "ups" THEN {hw} ELSE HwType :
             Process(Reading(Head(todo), h))
     \/ /\ fd \notin Device
        /\ UNCHANGED <<infoVars, pending, seen>>
  /\ UNCHANGED <<smVars, upsVars, linkVars>>

(* The next info.update() of a status word.                                *)
Post ==
  /\ pending # <<>>
  /\ Update(Head(pending).key, Head(pending).value)
  /\ pending' = Tail(pending)
  /\ UNCHANGED <<smVars, upsVars, linkVars, todo, seen>>

-----------------------------------------------------------------------------
Waiting == at = "run" /\ todo = <<>> /\ pending = <<>>

(* The generic driver ignores a value the UPS gave last time: it does not  *)
(* count as the second sight of the battery.  (Any other value that is in  *)
(* the database already changes nothing when it is stored again.)          *)
Ignored(r) ==
  Generic /\ Head(r).key = "BatteryPresent" /\ Head(r).value # 0 /\ seen

(* CheckState: the next report; reports left by a device that has gone are *)
(* still read.                                                             *)
TakeReport ==
  /\ Waiting
  /\ reports # <<>>
  /\ IF Ignored(Head(reports))
       THEN UNCHANGED <<infoVars, pending, seen>>
       ELSE Process(Head(reports))
  /\ reports' = Tail(reports)
  /\ UNCHANGED <<smVars, hw, plugged, linkVars, todo>>

(* wait_time is over: the next pass of body() begins.  On battery a pass   *)
(* that comes within five seconds of the last poll asks nothing: it would  *)
(* change nothing here, and is no step.                                    *)
CheckTimeout ==
  /\ Waiting
  /\ fd \in Device
  /\ Generic \/ reports = <<>>
  /\ todo' = PollOrder
  /\ UNCHANGED <<vars, upsVars, linkVars, pending, seen>>

(* A read error: link_check() begins.                                      *)
LinkCheck ==
  /\ Waiting
  /\ fd = "dead" /\ reports = <<>>
  /\ at' = "lost"
  /\ commlost' = TRUE
  /\ tries' = 0
  /\ UNCHANGED <<vars, upsVars, fd, device, named, todo, pending, seen>>

(* The devices open_usb_device() finds.  Linux: the one whose name it has; *)
(* failing that, unless the user named one, whichever is there.  Generic:  *)
(* the first on the bus, whatever the name.                                *)
Found(keep) ==
  LET there == {d \in Device : IF d = "ups" THEN plugged ELSE Other}
  IN  IF device \in there /\ ~Generic THEN {device}
      ELSE IF keep THEN {} ELSE there

(* Mutant: every attempt counts as the first.                              *)
RetryUncounted ==
  /\ at = "lost"
  /\ tries' = 1
  /\ named' = (named /\ fd # "dead")
  /\ \/ \E d \in Found(named') : fd' = d /\ device' = d /\ at' = "caps"
     \/ /\ Found(named') = {}
        /\ fd' = "none" /\ at' = "lost"
        /\ device' = IF named' THEN device ELSE "none"
  /\ UNCHANGED <<vars, upsVars, todo, pending, seen, commlost>>

(* One attempt of the loop; the third one begins with COMMFAILURE.         *)
(* Closing the device reinitializes, which forgets that the user named it. *)
Retry ==
  /\ at = "lost"
  /\ tries' = IF tries = 3 THEN 3 ELSE tries + 1
  /\ named' = (named /\ fd # "dead")
  /\ \/ \E d \in Found(named') :
          fd' = d /\ device' = d /\ at' = "caps"
     \/ /\ Found(named') = {}
        /\ fd' = "none" /\ UNCHANGED at
        /\ device' = IF named' THEN device ELSE "none"
  /\ UNCHANGED <<vars, upsVars, todo, pending, seen, commlost>>

(* GetCapabilities.  A device that has gone again ends the Linux daemon.   *)
GetCapabilities ==
  /\ at = "caps"
  /\ at' = IF fd = "dead" /\ ~Generic THEN "aborted" ELSE "static"
  /\ todo' = IF at' = "static" THEN StaticOrder ELSE <<>>
  /\ UNCHANGED <<vars, upsVars, fd, device, named, commlost, tries,
                 pending, seen>>

(* ReadStaticData always succeeds: COMMOK, and a new pass of body().       *)
LinkOk ==
  /\ at = "static" /\ todo = <<>> /\ pending = <<>>
  /\ at' = "run"
  /\ commlost' = FALSE
  /\ tries' = 0
  /\ todo' = PollOrder
  /\ UNCHANGED <<vars, upsVars, fd, device, named, pending, seen>>

-----------------------------------------------------------------------------
(* The UPS.                                                                *)
Unplug ==
  /\ plugged
  /\ plugged' = FALSE
  /\ fd' = IF fd = "ups" THEN "dead" ELSE fd
  /\ UNCHANGED <<vars, hw, reports, device, named, at, commlost, tries,
                 todo, pending, seen>>

Plug ==
  /\ ~plugged
  /\ plugged' = TRUE
  /\ UNCHANGED <<vars, hw, reports, driverVars>>

(* A measurement, new or as before, which may or may not be reported.      *)
Measure ==
  /\ \E ci \in CI : \E v \in Raw[ci] : hw' = [hw EXCEPT ![ci] = v]
  /\ \/ UNCHANGED reports
     \/ /\ fd = "ups" /\ Len(reports) < MaxReports
        /\ \E item \in Handled :
             /\ \E ci \in Keys(item) : hw[ci] # hw'[ci]
             /\ reports' = Append(reports, Reading(item, hw'))
  /\ UNCHANGED <<vars, plugged, driverVars>>

-----------------------------------------------------------------------------
Driver == \/ Fetch \/ Post \/ TakeReport \/ CheckTimeout \/ LinkCheck
          \/ Retry \/ GetCapabilities \/ LinkOk

System == /\ at # "aborted"
          /\ StateMachineStep \/ TimerStep
          /\ UNCHANGED <<upsVars, driverVars>>

UsbNext == System \/ Driver \/ Unplug \/ Plug \/ Measure

(* Threads keep running, and a wait whose time is over ends although       *)
(* reports keep coming: select() takes the time left, down to none.  The   *)
(* UPS owes nothing.                                                       *)
UsbFairness ==
  /\ WF_allVars(System /\ StateMachineStep)
  /\ WF_allVars(Driver)
  /\ SF_allVars(CheckTimeout)
  /\ \A t \in TimerId : WF_allVars(System /\ (Expire(t) \/ HandleTimeout(t)))

UsbSteady == UsbInit /\ [][UsbNext]_allVars
UsbLive == UsbSteady /\ UsbFairness

-----------------------------------------------------------------------------
Aborted == at = "aborted"
OnBattery == hw["Discharging"] = 1
Told == tries = 3   \* COMMFAILURE was executed in this link_check

(* The driver is one of the drivers UpsStateMachine allows.                *)
UsbRefines == SteadySpec

(* A UPS that stays on battery and plugged in ends up with the outage      *)
(* noticed: through late, stale and missing reports, link losses and self  *)
(* tests nobody polls for.                                                 *)
OutageNoticed ==
  <>[](plugged /\ OnBattery)
    => <>[](Aborted \/ state \in {"ONBATT"} \cup ShutdownState)

(* A UPS that stays on mains, no test running, ends with the machine idle. *)
MainsReturnNoticed ==
  <>[](plugged /\ ~OnBattery /\ hw["ST_STAT"] # 6)
    => <>[](Aborted \/ state \in {"IDLE"} \cup ShutdownState)

(* The database follows what a plugged UPS measures: no report older than  *)
(* the last poll stays in force (ReadVolatileData, SubclassCheckState).    *)
DatabaseFollows ==
  \A ci \in CI \ {"ST_STAT", "BatteryPresent"} : \A v \in Raw[ci] :
    (\E item \in Handled : ci \in Keys(item)) /\ <>[](plugged /\ hw[ci] = v)
      => <>[](Aborted \/ info[ci] = Converted(ci, v))

(* A UPS that is not plugged in again is reported lost, and stays so.      *)
LossReported == <>[]~plugged => <>[](Aborted \/ (commlost /\ Told))

(* linux-usb.c: "If user-specified device could not be opened, fail."      *)
NamedDeviceOnly == Named /\ ~Generic => fd # "other"
=============================================================================
