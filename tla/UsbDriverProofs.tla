-------------------------- MODULE UsbDriverProofs --------------------------
(***************************************************************************)
(* The USB driver is one of the drivers UpsStateMachine allows, whatever   *)
(* the UPS can report, whichever of the two drivers reads it and however   *)
(* often it is unplugged: the theorems about SteadySpec hold with it.      *)
(***************************************************************************)
EXTENDS UsbDriver, UpsStateMachineProofs

(* Joining passes over handled items gives one.                            *)
LEMMA PassType ==
  /\ PollOrder \in Seq(Handled)
  /\ StaticOrder \in Seq(Handled)
  <1>1. \A item : When(item) \in Seq(Handled)
    BY DEF When
  <1>2. \A s, t \in Seq(Handled) : s \o t \in Seq(Handled)
    OBVIOUS
  <1> DEFINE a == When("Discharging")
             b == When("BATTLEV")
             c == When("RUNTIM")
             d == When("BatteryPresent")
             e == When("STATUS")
  <1>3. PollOrder = a \o b \o c \o d \o e
    BY DEF PollOrder
  <1>4. StaticOrder \in Seq(Handled)
    BY <1>1 DEF StaticOrder
  <1>5. /\ a \in Seq(Handled) /\ b \in Seq(Handled) /\ c \in Seq(Handled)
        /\ d \in Seq(Handled) /\ e \in Seq(Handled)
    BY <1>1
  <1> HIDE DEF a, b, c, d, e
  <1>6. a \o b \in Seq(Handled)
    BY <1>2, <1>5
  <1>7. a \o b \o c \in Seq(Handled)
    BY <1>2, <1>5, <1>6
  <1>8. a \o b \o c \o d \in Seq(Handled)
    BY <1>2, <1>5, <1>7
  <1> QED
    BY <1>2, <1>3, <1>4, <1>5, <1>8

(* A report carries data the state machine may be sent, at least one.      *)
LEMMA ReadingType ==
  ASSUME NEW item \in Handled, NEW h \in HwType
  PROVE  Reading(item, h) \in Seq(Postable) \ {<<>>}
  <1>1. \A ci \in Keys(item) :
          ci \in CI => Datum(ci, Converted(ci, h[ci])) \in Postable
    <2> SUFFICES ASSUME NEW ci \in Keys(item), ci \in CI
                 PROVE  Datum(ci, Converted(ci, h[ci])) \in Postable
      OBVIOUS
    <2>1. h[ci] \in Raw[ci]
      BY DEF HwType
    <2>2. Converted(ci, h[ci]) \in Value[ci]
      BY <2>1, RawAssumption
    <2> HIDE DEF Datum, Converted
    <2> QED
      BY <2>2 DEF Postable
  <1>2. item \in Item
    BY UsbAssumption DEF Handled
  <1>3. CASE item = "STATUS"
    <2> DEFINE d == Datum("Discharging",
                          Converted("Discharging", h["Discharging"]))
               b == Datum("BattLow", Converted("BattLow", h["BattLow"]))
    <2>1. d \in Postable /\ b \in Postable
      BY <1>1, <1>3 DEF Keys, CI
    <2>2. Reading(item, h) = <<d, b>>
      BY <1>3 DEF Reading
    <2> HIDE DEF d, b
    <2> QED
      BY <2>1, <2>2
  <1>4. CASE item # "STATUS"
    <2> DEFINE d == Datum(item, Converted(item, h[item]))
    <2>1. d \in Postable
      BY <1>1, <1>2, <1>4 DEF Keys, CI, Item
    <2>2. Reading(item, h) = <<d>>
      BY <1>4 DEF Reading
    <2> HIDE DEF d
    <2> QED
      BY <2>1, <2>2
  <1> QED
    BY <1>3, <1>4

LEMMA PostableDatum ==
  ASSUME NEW d \in Postable
  PROVE  d.key \in CI /\ d.value \in Value[d.key]
  BY DEF Postable, Datum

(* Taking a report posts at most one value a driver may post.              *)
LEMMA ProcessStep ==
  ASSUME NEW r \in Seq(Postable) \ {<<>>}, Process(r), UNCHANGED smVars,
         seen \in BOOLEAN
  PROVE  [Next]_vars /\ pending' \in Seq(Postable) /\ seen' \in BOOLEAN
  <1> DEFINE d == Head(r)
  <1>1. d \in Postable /\ Tail(r) \in Seq(Postable)
    OBVIOUS
  <1>2. d.key \in CI /\ d.value \in Value[d.key]
    BY <1>1, PostableDatum
  <1>3. CASE Update(d.key, d.value)
    <2>1. DriverUpdate(d.key)
      BY <1>2, <1>3 DEF DriverUpdate
    <2> QED
      BY <1>1, <1>2, <2>1 DEF Next, Process
  <1>4. CASE UNCHANGED infoVars
    BY <1>1, <1>4 DEF Process, vars
  <1> QED
    BY <1>3, <1>4 DEF Process

LEMMA InitUsbTypeOK == UsbInit => UsbTypeOK
  <1> SUFFICES ASSUME UsbInit PROVE UsbTypeOK
    OBVIOUS
  <1>1. todo \in Seq(Handled)
    BY PassType DEF UsbInit
  <1>2. pending \in Seq(Postable) /\ reports \in Seq(Seq(Postable) \ {<<>>})
    BY DEF UsbInit
  <1> QED
    <2>1. hw \in HwType /\ named \in BOOLEAN
      BY UsbAssumption DEF UsbInit
    <2>2. plugged \in BOOLEAN /\ seen \in BOOLEAN /\ commlost \in BOOLEAN
      BY Zenon DEF UsbInit
    <2>4. tries = 0
      BY Zenon DEF UsbInit
    <2>3. /\ fd \in Device \cup {"dead", "none"}
          /\ device \in Device \cup {"none"}
          /\ at \in {"run", "lost", "caps", "static", "aborted"}
      BY DEF UsbInit, Device
    <2> QED
      BY <1>1, <1>2, <2>1, <2>2, <2>3, <2>4 DEF UsbTypeOK

LEMMA DriverStep ==
  ASSUME UsbTypeOK, Driver PROVE [Next]_vars /\ UsbTypeOK'
  <1>1. CASE Fetch
    <2>1. todo' \in Seq(Handled) /\ Head(todo) \in Handled
      BY <1>1 DEF Fetch, UsbTypeOK
    <2>2. CASE fd \in Device
      <3>1. PICK h \in HwType : Process(Reading(Head(todo), h))
        BY <1>1, <2>2 DEF Fetch, UsbTypeOK
      <3>2. Reading(Head(todo), h) \in Seq(Postable) \ {<<>>}
        BY <2>1, ReadingType
      <3>3. /\ [Next]_vars
            /\ pending' \in Seq(Postable)
            /\ seen' \in BOOLEAN
        BY <1>1, <3>1, <3>2, ProcessStep DEF Fetch, UsbTypeOK
      <3> QED
        BY <1>1, <2>1, <3>3 DEF Fetch, UsbTypeOK, upsVars, linkVars
    <2>3. CASE fd \notin Device
      BY <1>1, <2>1, <2>3
      DEF Fetch, UsbTypeOK, vars, upsVars, linkVars
    <2> QED
      BY <2>2, <2>3
  <1>2. CASE Post
    <2>1. Head(pending) \in Postable /\ Tail(pending) \in Seq(Postable)
      BY <1>2 DEF Post, UsbTypeOK
    <2>2. DriverUpdate(Head(pending).key) /\ Head(pending).key \in CI
      BY <1>2, <2>1, PostableDatum DEF Post, DriverUpdate
    <2> QED
      BY <1>2, <2>1, <2>2 DEF Post, Next, UsbTypeOK, upsVars, linkVars
  <1>3. CASE TakeReport
    <2>1. /\ Head(reports) \in Seq(Postable) \ {<<>>}
          /\ reports' \in Seq(Seq(Postable) \ {<<>>})
      BY <1>3 DEF TakeReport, UsbTypeOK
    <2>2. /\ [Next]_vars
          /\ pending' \in Seq(Postable)
          /\ seen' \in BOOLEAN
      <3>1. CASE Ignored(Head(reports))
        BY <1>3, <3>1 DEF TakeReport, UsbTypeOK, vars
      <3>2. CASE ~Ignored(Head(reports))
        BY <1>3, <2>1, <3>2, ProcessStep DEF TakeReport, UsbTypeOK
      <3> QED
        BY <3>1, <3>2
    <2> QED
      BY <1>3, <2>1, <2>2 DEF TakeReport, UsbTypeOK, linkVars
  <1>4. CASE CheckTimeout
    <2>1. todo' \in Seq(Handled)
      BY <1>4, PassType DEF CheckTimeout
    <2>2. UNCHANGED <<vars, upsVars, linkVars, pending, seen>>
      BY <1>4 DEF CheckTimeout
    <2> QED
      BY <2>1, <2>2 DEF UsbTypeOK, upsVars, linkVars
  <1>5. CASE LinkCheck
    BY <1>5 DEF LinkCheck, UsbTypeOK, upsVars
  <1>6. CASE Retry
    <2>1. Found(named') \subseteq Device
      BY DEF Found
    <2>2. named' \in BOOLEAN /\ tries' \in 0 .. 3 /\ at' \in {"caps", "lost"}
      BY <1>6 DEF Retry, UsbTypeOK
    <2>3. /\ fd' \in Device \cup {"dead", "none"}
          /\ device' \in Device \cup {"none"}
      BY <1>6, <2>1 DEF Retry, UsbTypeOK
    <2>4. UNCHANGED <<vars, upsVars, todo, pending, seen, commlost>>
      BY <1>6 DEF Retry
    <2> QED
      BY <2>2, <2>3, <2>4 DEF UsbTypeOK, upsVars
  <1>7. CASE GetCapabilities
    <2>1. todo' \in Seq(Handled)
      BY <1>7, PassType DEF GetCapabilities
    <2> QED
      BY <1>7, <2>1 DEF GetCapabilities, UsbTypeOK, upsVars
  <1>8. CASE LinkOk
    <2>1. todo' \in Seq(Handled)
      BY <1>8, PassType DEF LinkOk
    <2>2. UNCHANGED <<vars, upsVars, fd, device, named, pending, seen>>
      BY <1>8 DEF LinkOk
    <2>3. at' = "run" /\ commlost' \in BOOLEAN /\ tries' = 0
      BY <1>8 DEF LinkOk
    <2> QED
      BY <2>1, <2>2, <2>3 DEF UsbTypeOK, upsVars
  <1> QED
    BY <1>1, <1>2, <1>3, <1>4, <1>5, <1>6, <1>7, <1>8 DEF Driver

LEMMA UpsStep ==
  ASSUME UsbTypeOK, Unplug \/ Plug \/ Measure PROVE UNCHANGED vars /\ UsbTypeOK'
  <1>1. CASE Unplug \/ Plug
    BY <1>1 DEF Unplug, Plug, UsbTypeOK, driverVars, linkVars, Device
  <1>2. CASE Measure
    <2>1. PICK ci \in CI : \E v \in Raw[ci] : hw' = [hw EXCEPT ![ci] = v]
      BY <1>2 DEF Measure
    <2>2. hw' \in HwType
      BY <2>1 DEF UsbTypeOK, HwType
    <2>3. reports' \in Seq(Seq(Postable) \ {<<>>})
      <3>1. reports \in Seq(Seq(Postable) \ {<<>>})
        BY DEF UsbTypeOK
      <3>2. CASE UNCHANGED reports
        BY <3>1, <3>2
      <3>3. CASE \E item \in Handled :
                   reports' = Append(reports, Reading(item, hw'))
        <4>1. PICK item \in Handled :
                reports' = Append(reports, Reading(item, hw'))
          BY <3>3
        <4>2. Reading(item, hw') \in Seq(Postable) \ {<<>>}
          BY <2>2, ReadingType
        <4> QED
          BY <3>1, <4>1, <4>2
      <3> QED
        BY <1>2, <3>2, <3>3 DEF Measure
    <2> QED
      BY <1>2, <2>2, <2>3 DEF Measure, UsbTypeOK, driverVars, linkVars
  <1> QED
    BY <1>1, <1>2

LEMMA UsbStep ==
  UsbTypeOK /\ [UsbNext]_allVars => [Next]_vars /\ UsbTypeOK'
  <1> SUFFICES ASSUME UsbTypeOK, [UsbNext]_allVars
               PROVE  [Next]_vars /\ UsbTypeOK'
    OBVIOUS
  <1>1. CASE System
    BY <1>1 DEF System, Next, UsbTypeOK, upsVars, driverVars, linkVars
  <1>2. CASE Driver
    BY <1>2, DriverStep
  <1>3. CASE Unplug \/ Plug \/ Measure
    BY <1>3, UpsStep
  <1>4. CASE UNCHANGED allVars
    BY <1>4 DEF allVars, UsbTypeOK, upsVars, driverVars, linkVars
  <1> QED
    BY <1>1, <1>2, <1>3, <1>4 DEF UsbNext

(* Every state of the driver is well typed.                                *)
THEOREM UsbTypeCorrect == UsbSteady => []UsbTypeOK
  <1>1. UsbInit => UsbTypeOK
    BY InitUsbTypeOK
  <1>2. UsbTypeOK /\ [UsbNext]_allVars => UsbTypeOK'
    BY UsbStep
  <1> QED
    BY <1>1, <1>2, PTL DEF UsbSteady

(* The daemon with the USB driver implements the daemon with any driver.   *)
THEOREM UsbImplements == UsbSteady => UsbRefines
  <1>1. UsbInit => SteadyInit
    BY DEF UsbInit
  <1>2. UsbTypeOK /\ [UsbNext]_allVars => [Next]_vars
    BY UsbStep
  <1> QED
    BY <1>1, <1>2, UsbTypeCorrect, PTL DEF UsbSteady, UsbRefines, SteadySpec

(* What was proved of the state machine with any driver holds with this    *)
(* one, whatever is reported, lost or plugged: the events of an outage     *)
(* come in order, the queue ends at the database, no change is overlooked, *)
(* no limit in reach is left without its timer.                            *)
COROLLARY UsbDaemonPromises ==
  UsbSteady
    => /\ PowerContract /\ TimersUsed /\ ShutdownIsFinal
       /\ [](QueueEndsAtInfo /\ OnbattTimersOwned /\ ReportsMatchState)
       /\ [](NoMissedPowerFailure /\ NoMissedMainsReturn /\ NoMissedTestEnd)
       /\ [](OnbattTimeoutsOnTheWay /\ TriggersOnTheWay /\ EventsFit)
       /\ []~ShutdownAnnounced
  BY UsbImplements, ImplementsPowerEvents, TimersAsPromised, QueueCorrect,
     OwnedAndReported, NothingOverlooked, TimeoutsOnTheWay, LimitsOnTheWay,
     NoContradiction, ShutdownForGood, ShutdownNeverAnnounced, PTL DEF UsbRefines

-----------------------------------------------------------------------------
(* The link.  A device that is asked is open and is the one UPSINFO names; *)
(* an open UPS is there.                                                   *)
DeviceOpen ==
  /\ at \in {"run", "caps", "static"} => fd # "none"
  /\ fd \in Device => device = fd
  /\ fd = "ups" => plugged

(* COMMLOST is up from the read error to the end of ReadStaticData, and    *)
(* the attempts are counted in between.                                    *)
LostWhileDown ==
  /\ at \in {"lost", "caps", "static"} => commlost
  /\ at = "run" => ~commlost /\ tries = 0

(* Reports of a device that has gone are all taken before another is       *)
(* looked for: none is ever taken for a report of the next one.            *)
NoReportOutlives ==
  /\ at = "lost" => reports = <<>> /\ todo = <<>>
  /\ fd \notin {"ups", "dead"} => reports = <<>>
  /\ at \in {"lost", "caps", "aborted"} => pending = <<>>

LinkInv ==
  /\ DeviceOpen /\ LostWhileDown /\ NoReportOutlives
  /\ at = "lost" => fd \in {"dead", "none"}

LEMMA InitLink == UsbInit => LinkInv
  BY DEF UsbInit, LinkInv, DeviceOpen, LostWhileDown, NoReportOutlives,
     Device

LEMMA SameLink ==
  ASSUME LinkInv, UNCHANGED <<linkVars, plugged>>,
         reports = <<>> => reports' = <<>>,
         at = "lost" /\ todo = <<>> => todo' = <<>>,
         pending = <<>> /\ at \in {"lost", "caps", "aborted"} => pending' = <<>>
  PROVE  LinkInv'
  BY DEF LinkInv, DeviceOpen, LostWhileDown, NoReportOutlives, linkVars

LEMMA DriverKeepsLink == ASSUME UsbTypeOK, LinkInv, Driver PROVE LinkInv'
  <1>1. CASE Fetch
    BY <1>1, SameLink DEF Fetch, upsVars
  <1>2. CASE Post
    BY <1>2, SameLink DEF Post, upsVars
  <1>3. CASE TakeReport
    BY <1>3, SameLink DEF TakeReport, Waiting
  <1>4. CASE CheckTimeout
    BY <1>4, SameLink DEF CheckTimeout, Waiting, upsVars
  <1> USE DEF LinkInv, DeviceOpen, LostWhileDown, NoReportOutlives,
      Device, UsbTypeOK
  <1>5. CASE LinkCheck
    BY <1>5 DEF LinkCheck, Waiting, upsVars
  <1>6. CASE Retry
    <2>1. /\ at = "lost" /\ fd \in {"dead", "none"} /\ commlost' = commlost
          /\ reports' = reports /\ todo' = todo /\ pending' = pending
          /\ plugged' = plugged
      BY <1>6 DEF Retry, upsVars
    <2>2. CASE \E x \in Found(named') : fd' = x /\ device' = x /\ at' = "caps"
      <3>1. PICK x \in Found(named') : fd' = x /\ device' = x /\ at' = "caps"
        BY <2>2
      <3>2. x \in Device /\ (x = "ups" => plugged)
        BY <3>1 DEF Found
      <3> QED
        BY <2>1, <3>1, <3>2
    <2>3. CASE /\ fd' = "none" /\ at' = at
               /\ device' = IF named' THEN device ELSE "none"
      BY <2>1, <2>3
    <2> QED
      BY <1>6, <2>2, <2>3 DEF Retry
  <1>7. CASE GetCapabilities
    <2>1. /\ at = "caps" /\ at' \in {"aborted", "static"}
          /\ UNCHANGED <<vars, upsVars, fd, device, named, commlost, tries,
                         pending, seen>>
      BY <1>7 DEF GetCapabilities
    <2> QED
      BY <2>1 DEF upsVars
  <1>8. CASE LinkOk
    <2>1. /\ at = "static" /\ at' = "run" /\ commlost' = FALSE /\ tries' = 0
          /\ UNCHANGED <<fd, device, named, pending, plugged, reports>>
      BY <1>8 DEF LinkOk, upsVars
    <2> QED
      BY <2>1
  <1> QED
    BY <1>1, <1>2, <1>3, <1>4, <1>5, <1>6, <1>7, <1>8 DEF Driver

LEMMA NextKeepsLink == UsbTypeOK /\ LinkInv /\ [UsbNext]_allVars => LinkInv'
  <1> SUFFICES ASSUME UsbTypeOK, LinkInv, [UsbNext]_allVars PROVE LinkInv'
    OBVIOUS
  <1>1. CASE System \/ UNCHANGED allVars
    BY <1>1, SameLink DEF System, allVars, upsVars, driverVars
  <1>2. CASE Driver
    BY <1>2, DriverKeepsLink
  <1>3. CASE Unplug
    BY <1>3 DEF Unplug, LinkInv, DeviceOpen, LostWhileDown, NoReportOutlives,
       Device
  <1>4. CASE Plug
    BY <1>4 DEF Plug, LinkInv, DeviceOpen, LostWhileDown, NoReportOutlives,
       driverVars, linkVars
  <1>5. CASE Measure
    <2>1. /\ UNCHANGED <<plugged, driverVars>>
          /\ fd = "ups" \/ reports' = reports
      BY <1>5 DEF Measure
    <2> QED
      BY <2>1 DEF LinkInv, DeviceOpen, LostWhileDown, NoReportOutlives,
         driverVars, linkVars
  <1> QED
    BY <1>1, <1>2, <1>3, <1>4, <1>5 DEF UsbNext

(* Through any unplugging and reconnecting, the device asked is open and   *)
(* the one named, COMMLOST is up exactly while there is none to ask, and   *)
(* no report outlives the device it came from (UsbDriver::CheckState,      *)
(* link_check).                                                            *)
THEOREM LinkConsistent ==
  UsbSteady => [](DeviceOpen /\ LostWhileDown /\ NoReportOutlives)
  <1>1. LinkInv => DeviceOpen /\ LostWhileDown /\ NoReportOutlives
    BY DEF LinkInv
  <1> QED
    BY <1>1, InitLink, NextKeepsLink, UsbTypeCorrect, PTL DEF UsbSteady
=============================================================================
