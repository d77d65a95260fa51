--------------------------- MODULE ApcSmartProofs ---------------------------
(***************************************************************************)
(* The smart driver is one of the drivers UpsStateMachine allows, whatever *)
(* the UPS can report: the theorems about SteadySpec hold with it.         *)
(***************************************************************************)
EXTENDS ApcSmart, UpsStateMachineProofs

(* The keys a pass may post: a self test status is only posted by a UPS    *)
(* that tells the cause of a transfer or the result of a test.             *)
Postable(test) ==
  {"Discharging", "BattLow"}
    \cup {ci \in {"ST_STAT"} : test \/ "ST_STAT" \in Caps}
    \cup {ci \in {"BATTLEV", "RUNTIM"} : ci \in Caps}
    \cup {ci \in {"BatteryPresent"} : "REG2" \in Caps}

DriverInv ==
  /\ hw \in HwType
  /\ selftest \in BOOLEAN
  /\ status \in [onbatt : Bit, battlow : Value["BattLow"]]
  /\ todo \in Seq(Postable(selftest))
  /\ selftest \/ hw.test => "WHY_BATT" \in Caps
  /\ lost \in 0..MaxLost

(* A pass is a sequence of postable keys.                                  *)
LEMMA PassType ==
  ASSUME NEW test \in BOOLEAN
  PROVE  Pass(test) \in Seq(Postable(test))
  <1> DEFINE S == Postable(test)
  <1>1. When(test \/ "ST_STAT" \in Caps, "ST_STAT") \in Seq(S)
    <2>1. test \/ "ST_STAT" \in Caps => "ST_STAT" \in S
      BY DEF Postable
    <2> HIDE DEF S
    <2> QED
      BY <2>1 DEF When
  <1>2. <<"Discharging", "BattLow">> \in Seq(S)
    <2>1. "Discharging" \in S /\ "BattLow" \in S
      BY DEF Postable
    <2> HIDE DEF S
    <2> QED
      BY <2>1
  <1>3. When("BATTLEV" \in Caps, "BATTLEV") \in Seq(S)
    <2>1. "BATTLEV" \in Caps => "BATTLEV" \in S
      BY DEF Postable
    <2> HIDE DEF S
    <2> QED
      BY <2>1 DEF When
  <1>4. When("RUNTIM" \in Caps, "RUNTIM") \in Seq(S)
    <2>1. "RUNTIM" \in Caps => "RUNTIM" \in S
      BY DEF Postable
    <2> HIDE DEF S
    <2> QED
      BY <2>1 DEF When
  <1>5. When("REG2" \in Caps, "BatteryPresent") \in Seq(S)
    <2>1. "REG2" \in Caps => "BatteryPresent" \in S
      BY DEF Postable
    <2> HIDE DEF S
    <2> QED
      BY <2>1 DEF When
  <1>6. \A s, t \in Seq(S) : s \o t \in Seq(S)
    OBVIOUS
  <1> DEFINE a == When(test \/ "ST_STAT" \in Caps, "ST_STAT")
             b == <<"Discharging", "BattLow">>
             c == When("BATTLEV" \in Caps, "BATTLEV")
             d == When("RUNTIM" \in Caps, "RUNTIM")
             f == When("REG2" \in Caps, "BatteryPresent")
  <1>7. Pass(test) = a \o b \o c \o d \o f
    BY DEF Pass
  <1> HIDE DEF S, a, b, c, d, f
  <1>8. a \o b \in Seq(S)
    BY <1>1, <1>2, <1>6 DEF a, b
  <1>9. a \o b \o c \in Seq(S)
    BY <1>3, <1>6, <1>8 DEF c
  <1>10. a \o b \o c \o d \in Seq(S)
    BY <1>4, <1>6, <1>9 DEF d
  <1> QED
    BY <1>5, <1>6, <1>7, <1>10 DEF f, S

(* What the driver reads for a key is a value the UPS reports.             *)
LEMMA ReadingType ==
  ASSUME DriverInv, NEW ci \in Postable(selftest)
  PROVE  ci \in CI /\ Reading(ci) \in Value[ci]
  <1>1. CASE ci = "ST_STAT"
    <2>1. hw.result \in TestResult \cup {TestNone}
      BY DEF DriverInv, HwType
    <2> QED
      BY <1>1, <2>1, ReportAssumption DEF Reading, Postable, DriverInv, CI
  <1>2. CASE ci \in {"Discharging", "BattLow"}
    BY <1>2, ReportAssumption DEF Reading, DriverInv, CI, Bit
  <1>3. CASE ci \in {"BATTLEV", "RUNTIM"}
    <2>1. ci \in Caps
      BY <1>3 DEF Postable
    <2>2. hw.BATTLEV \in Level("BATTLEV") /\ hw.RUNTIM \in Level("RUNTIM")
      BY DEF DriverInv, HwType
    <2> QED
      BY <1>3, <2>1, <2>2 DEF Reading, Level, CI
  <1>4. CASE ci = "BatteryPresent"
    <2>1. hw.present \in Bit
      BY DEF DriverInv, HwType
    <2> QED
      BY <1>4, <2>1, ReportAssumption DEF Reading, Postable, CI
  <1> QED
    BY <1>1, <1>2, <1>3, <1>4 DEF Postable

(* So is what an empty answer stands for, once one can be lost.            *)
LEMMA EmptyType ==
  ASSUME DriverInv, MaxLost > 0, NEW ci \in Postable(selftest),
         ci \in {"ST_STAT", "BATTLEV", "RUNTIM", "BatteryPresent"},
         selftest => ci # "ST_STAT"
  PROVE  ci \in CI /\ Empty(ci) \in Value[ci]
  <1>1. CASE ci = "ST_STAT"
    <2>1. "ST_STAT" \in Caps
      BY <1>1 DEF Postable, DriverInv
    <2> QED
      BY <1>1, <2>1, ReportAssumption DEF Empty, CI
  <1>2. CASE ci \in {"BATTLEV", "RUNTIM"}
    <2>1. ci \in Caps
      BY <1>2 DEF Postable
    <2> QED
      BY <1>2, <2>1, ReportAssumption DEF Empty, CI
  <1>3. CASE ci = "BatteryPresent"
    <2>1. "REG2" \in Caps
      BY <1>3 DEF Postable
    <2> QED
      BY <1>3, <2>1, ReportAssumption DEF Empty, CI, Bit
  <1> QED
    BY <1>1, <1>2, <1>3

LEMMA InitDriver == SteadyInit /\ HwInit => DriverInv
  <1> SUFFICES ASSUME HwInit PROVE DriverInv
    OBVIOUS
  <1>1. hw \in HwType /\ hw.test = FALSE
    BY DEF HwInit, HwType, Bit
  <1>2. status \in [onbatt : Bit, battlow : Value["BattLow"]]
    BY <1>1 DEF HwInit, HwType, Bit
  <1>3. todo \in Seq(Postable(selftest))
    BY DEF HwInit
  <1>4. lost \in 0..MaxLost
    BY MaxLostAssumption DEF HwInit
  <1> QED
    BY <1>1, <1>2, <1>3, <1>4 DEF HwInit, DriverInv

LEMMA HardwareKeepsDriver ==
  ASSUME DriverInv, Hardware PROVE DriverInv'
  <1>1. hw \in HwType
    BY DEF DriverInv
  <1>2. hw' \in HwType
    <2>1. CASE MainsFail \/ MainsReturn
      BY <1>1, <2>1 DEF MainsFail, MainsReturn, HwType
    <2>2. CASE TestBegins \/ TestEnds
      BY <1>1, <2>2 DEF TestBegins, TestEnds, HwType
    <2>3. CASE BatteryChanges
      <3>1. ASSUME NEW b \in Value["BattLow"], hw' = [hw EXCEPT !.battlow = b]
            PROVE  hw' \in HwType
        BY <1>1, <3>1 DEF HwType
      <3>2. CASE hw' = [hw EXCEPT !.present = 1 - @]
        BY <1>1, <3>2 DEF HwType, Bit
      <3>3. ASSUME NEW v \in Value["BATTLEV"], "BATTLEV" \in Caps,
                   hw' = [hw EXCEPT !["BATTLEV"] = v]
            PROVE  hw' \in HwType
        BY <1>1, <3>3 DEF HwType, Level
      <3>4. ASSUME NEW v \in Value["RUNTIM"], "RUNTIM" \in Caps,
                   hw' = [hw EXCEPT !["RUNTIM"] = v]
            PROVE  hw' \in HwType
        BY <1>1, <3>4 DEF HwType, Level
      <3> QED
        BY <2>3, <3>1, <3>2, <3>3, <3>4 DEF BatteryChanges
    <2> QED
      BY <2>1, <2>2, <2>3 DEF Hardware
  <1>3. hw'.test => hw.test \/ "WHY_BATT" \in Caps
    BY <1>1 DEF Hardware, MainsFail, MainsReturn, TestBegins, TestEnds,
       BatteryChanges, HwType
  <1> QED
    BY <1>2, <1>3 DEF DriverInv, Hardware, driverVars

LEMMA NextKeepsDriver == DriverInv /\ [ApcSmartNext]_allVars => DriverInv'
  <1> SUFFICES ASSUME DriverInv, [ApcSmartNext]_allVars PROVE DriverInv'
    OBVIOUS
  <1>1. CASE UNCHANGED <<hw, driverVars>>
    BY <1>1 DEF DriverInv, driverVars
  <1>2. ASSUME NEW byte \in [onbatt : Bit, battlow : Value["BattLow"]],
               NEW tests \in SUBSET {t \in BOOLEAN : t => "WHY_BATT" \in Caps},
               PassBegins(byte, tests)
        PROVE  /\ selftest' \in BOOLEAN /\ (selftest' => "WHY_BATT" \in Caps)
               /\ todo' \in Seq(Postable(selftest'))
               /\ status' \in [onbatt : Bit, battlow : Value["BattLow"]]
    BY <1>2, PassType DEF PassBegins
  <1>3. CASE ReadStatus
    <2>1. SelftestDetected \subseteq {t \in BOOLEAN : t => "WHY_BATT" \in Caps}
      BY DEF SelftestDetected, DriverInv, HwType, OnBattery
    <2>2. [onbatt |-> AsBit(OnBattery), battlow |-> hw.battlow]
            \in [onbatt : Bit, battlow : Value["BattLow"]]
      BY DEF DriverInv, HwType, AsBit, Bit
    <2> QED
      BY <1>2, <1>3, <2>1, <2>2 DEF ReadStatus, PassBegins, DriverInv
  <1>4. CASE StatusUnanswered
    <2>1. lost' \in 0..MaxLost /\ MaxLost > 0
      BY <1>4, MaxLostAssumption DEF StatusUnanswered, DriverInv
    <2>2. [onbatt |-> 0, battlow |-> 0] \in [onbatt : Bit, battlow : Value["BattLow"]]
      BY <2>1, ReportAssumption DEF Bit
    <2> QED
      BY <1>2, <1>4, <2>1, <2>2 DEF StatusUnanswered, PassBegins, DriverInv
  <1>5. ASSUME NEW v, Post(v)
        PROVE  /\ UNCHANGED <<hw, selftest, status>>
               /\ todo' \in Seq(Postable(selftest))
    BY <1>5 DEF Post, DriverInv
  <1>6. CASE PostNext
    BY <1>5, <1>6 DEF PostNext, DriverInv
  <1>7. CASE PostUnanswered
    <2>1. lost' \in 0..MaxLost
      BY <1>7, MaxLostAssumption DEF PostUnanswered, DriverInv
    <2> QED
      BY <1>5, <1>7, <2>1 DEF PostUnanswered, DriverInv
  <1>8. CASE Hardware
    BY <1>8, HardwareKeepsDriver
  <1> QED
    BY <1>1, <1>3, <1>4, <1>6, <1>7, <1>8
       DEF ApcSmartNext, System, Driver, StatusReport, allVars

LEMMA DriverStep ==
  DriverInv /\ [ApcSmartNext]_allVars => [Next]_vars
  <1> SUFFICES ASSUME DriverInv, [ApcSmartNext]_allVars PROVE [Next]_vars
    OBVIOUS
  <1>1. CASE System
    BY <1>1 DEF System, Next
  <1>2. CASE ReadStatus \/ StatusUnanswered
    <2>1. ReaderGet("Discharging") /\ "Discharging" \in CI
      BY <1>2, ReportAssumption
         DEF ReadStatus, StatusUnanswered, PassBegins, ReaderGet, CI, Bit
    <2> QED
      BY <2>1 DEF Next
  <1>3. CASE PostNext \/ PostUnanswered
    <2> DEFINE ci == Head(todo)
    <2>1. todo # <<>> /\ ci \in Postable(selftest)
      BY <1>3 DEF PostNext, PostUnanswered, Post, DriverInv
    <2>2. ASSUME PostNext PROVE DriverUpdate(ci) /\ ci \in CI
      BY <2>1, <2>2, ReadingType DEF PostNext, Post, DriverUpdate
    <2>3. ASSUME PostUnanswered PROVE DriverUpdate(ci) /\ ci \in CI
      <3>1. MaxLost > 0
        BY <2>3, MaxLostAssumption DEF PostUnanswered, DriverInv
      <3>2. Empty(ci) \in Value[ci] /\ ci \in CI
        BY <2>1, <2>3, <3>1, EmptyType DEF PostUnanswered
      <3> QED
        BY <2>3, <3>2 DEF PostUnanswered, Post, DriverUpdate
    <2>4. DriverUpdate(ci) /\ ci \in CI
      BY <1>3, <2>2, <2>3
    <2> QED
      BY <2>4 DEF Next
  <1>4. ASSUME NEW ci \in CI, StatusReport(ci) PROVE [Next]_vars
    BY <1>4 DEF StatusReport, Next
  <1>5. CASE Hardware \/ UNCHANGED allVars
    BY <1>5 DEF Hardware, allVars
  <1> QED
    BY <1>1, <1>2, <1>3, <1>4, <1>5 DEF ApcSmartNext, Driver

(* The daemon with the smart driver implements the daemon with any driver. *)
THEOREM ApcSmartImplements == ApcSmartSteady => DriverRefines
  <1>1. SteadyInit /\ HwInit => DriverInv
    BY InitDriver
  <1>2. DriverInv /\ [ApcSmartNext]_allVars => DriverInv' /\ [Next]_vars
    BY NextKeepsDriver, DriverStep
  <1> QED
    BY <1>1, <1>2, PTL DEF ApcSmartSteady, DriverRefines, SteadySpec

(* The driver's own state is well typed all along.                         *)
THEOREM DriverTypeCorrect == ApcSmartSteady => []ApcSmartTypeOK
  <1>1. DriverInv => ApcSmartTypeOK
    <2> SUFFICES ASSUME DriverInv PROVE ApcSmartTypeOK
      OBVIOUS
    <2>1. Postable(selftest) \subseteq CI
      BY DEF Postable, CI
    <2>2. todo \in Seq(CI)
      BY <2>1 DEF DriverInv
    <2> QED
      BY <2>2 DEF DriverInv, ApcSmartTypeOK
  <1>2. DriverInv /\ [ApcSmartNext]_allVars => DriverInv'
    BY NextKeepsDriver
  <1>3. SteadyInit /\ HwInit => DriverInv
    BY InitDriver
  <1> QED
    BY <1>1, <1>2, <1>3, PTL DEF ApcSmartSteady

-----------------------------------------------------------------------------
(* What was proved of the state machine with any driver holds with this    *)
(* one: the events of an outage come in order, the queue ends at the       *)
(* database, no change is overlooked, no limit in reach is left without    *)
(* its timer, and the timers are used as they may be.                      *)
COROLLARY SmartDaemonPromises ==
  ApcSmartSteady
    => /\ PowerContract /\ TimersUsed /\ ShutdownIsFinal
       /\ [](QueueEndsAtInfo /\ OnbattTimersOwned /\ ReportsMatchState)
       /\ [](NoMissedPowerFailure /\ NoMissedMainsReturn /\ NoMissedTestEnd)
       /\ [](OnbattTimeoutsOnTheWay /\ TriggersOnTheWay /\ EventsFit)
       /\ []~ShutdownAnnounced
  BY ApcSmartImplements, ImplementsPowerEvents, TimersAsPromised, QueueCorrect,
     OwnedAndReported, NothingOverlooked, TimeoutsOnTheWay, LimitsOnTheWay,
     NoContradiction, ShutdownForGood, ShutdownNeverAnnounced, PTL DEF DriverRefines

(* Once the pass has posted it, the database has the mains bit of the      *)
(* status byte the pass began with.                                        *)
StatusPosted ==
  (\A i \in 1 .. Len(todo) : todo[i] # "Discharging")
    => info["Discharging"] = status.onbatt

(* After a pass the machine is not idle on a UPS that said it discharges,  *)
(* nor in an outage on one that said it does not, unless the datum that    *)
(* changes that is on its queue.                                           *)
PassHeeded ==
  todo = <<>>
    => /\ status.onbatt # 0 /\ pc = "wait" /\ state = "IDLE" => Pending("Discharging")
       /\ status.onbatt = 0 /\ state = "ONBATT" => Pending("Discharging")

(* Where an item of either part is in their concatenation.                 *)
LEMMA Joined ==
  ASSUME NEW S, NEW s \in Seq(S), NEW t \in Seq(S)
  PROVE  /\ s \o t \in Seq(S)
         /\ \A i \in 1 .. Len(s) : i \in 1 .. Len(s \o t) /\ (s \o t)[i] = s[i]
         /\ \A i \in 1 .. Len(t) :
              Len(s) + i \in 1 .. Len(s \o t) /\ (s \o t)[Len(s) + i] = t[i]
  OBVIOUS

LEMMA PassHasStatus ==
  ASSUME NEW test \in BOOLEAN
  PROVE  \E i \in 1 .. Len(Pass(test)) : Pass(test)[i] = "Discharging"
  <1> DEFINE a == When(test \/ "ST_STAT" \in Caps, "ST_STAT")
             b == <<"Discharging", "BattLow">>
             c == When("BATTLEV" \in Caps, "BATTLEV")
             d == When("RUNTIM" \in Caps, "RUNTIM")
             e == When("REG2" \in Caps, "BatteryPresent")
  <1>1. Pass(test) = a \o b \o c \o d \o e
    BY DEF Pass
  <1>2. /\ a \in Seq(CI) /\ b \in Seq(CI) /\ c \in Seq(CI)
        /\ d \in Seq(CI) /\ e \in Seq(CI)
    <2>1. <<>> \in Seq(CI) /\ \A ci \in CI : <<ci>> \in Seq(CI)
      OBVIOUS
    <2>2. b \in Seq(CI)
      <3>1. "Discharging" \in CI /\ "BattLow" \in CI
        BY DEF CI
      <3> QED BY <3>1
    <2>3. {"ST_STAT", "BATTLEV", "RUNTIM", "BatteryPresent"} \subseteq CI
      BY DEF CI
    <2> QED BY <2>1, <2>2, <2>3 DEF When
  <1>3. Len(b) = 2 /\ b[1] = "Discharging"
    OBVIOUS
  <1> HIDE DEF a, b, c, d, e
  <1> DEFINE k == Len(a) + 1
  <1>4. k \in 1 .. Len(a \o b) /\ (a \o b)[k] = "Discharging" /\ a \o b \in Seq(CI)
    <2>1. 1 \in 1 .. Len(b)
      BY <1>3
    <2>2. k \in 1 .. Len(a \o b) /\ (a \o b)[k] = b[1] /\ a \o b \in Seq(CI)
      BY <1>2, <2>1, Joined
    <2> QED BY <1>3, <2>2
  <1> HIDE DEF k
  <1>5. /\ k \in 1 .. Len(a \o b \o c) /\ (a \o b \o c)[k] = "Discharging"
        /\ a \o b \o c \in Seq(CI)
    BY <1>2, <1>4, Joined
  <1>6. /\ k \in 1 .. Len(a \o b \o c \o d) /\ (a \o b \o c \o d)[k] = "Discharging"
        /\ a \o b \o c \o d \in Seq(CI)
    BY <1>2, <1>5, Joined
  <1>7. /\ k \in 1 .. Len(a \o b \o c \o d \o e)
        /\ (a \o b \o c \o d \o e)[k] = "Discharging"
    BY <1>2, <1>6, Joined
  <1> QED
    BY <1>1, <1>7

LEMMA NextPosts ==
  DriverInv /\ TypeOK /\ StatusPosted /\ [ApcSmartNext]_allVars => StatusPosted'
  <1> SUFFICES ASSUME DriverInv, TypeOK, StatusPosted, [ApcSmartNext]_allVars
               PROVE  StatusPosted'
    OBVIOUS
  <1>1. ASSUME UNCHANGED <<todo, status, info>> PROVE StatusPosted'
    BY <1>1 DEF StatusPosted
  <1>2. CASE System
    <2>1. info' = info
      BY <1>2 DEF System, StateMachineStep, TimerStep, Register, IdleOnEnter,
         CheckShutdown, HandleDatum, HandleTimeoutEvent, HandleTimeout, Dequeue, Expire, infoVars
    <2> QED
      BY <1>1, <1>2, <2>1 DEF System, driverVars
  <1>3. CASE ReadStatus \/ StatusUnanswered
    <2>1. selftest' \in BOOLEAN
      BY <1>3, NextKeepsDriver DEF DriverInv
    <2>2. todo' = Pass(selftest')
      BY <1>3 DEF ReadStatus, StatusUnanswered, PassBegins
    <2>3. \E i \in 1 .. Len(todo') : todo'[i] = "Discharging"
      BY <2>1, <2>2, PassHasStatus
    <2> QED
      BY <2>3 DEF StatusPosted
  <1>4. ASSUME NEW v, Post(v), todo # <<>>,
               Head(todo) = "Discharging" => v = status.onbatt
        PROVE  StatusPosted'
    <2>1. /\ Head(todo) = todo[1] /\ Len(todo) \in Nat \ {0}
          /\ Len(todo') = Len(todo) - 1
          /\ \A i \in 1 .. Len(todo) - 1 : todo'[i] = todo[i + 1]
      BY <1>4 DEF Post, DriverInv
    <2>2. status' = status /\ info' = [info EXCEPT ![Head(todo)] = v]
      BY <1>4 DEF Post, Update
    <2>3. CASE Head(todo) = "Discharging"
      BY <1>4, <2>2, <2>3 DEF StatusPosted, TypeOK, InfoTypeOK, CI
    <2>4. CASE Head(todo) # "Discharging"
      <3>1. info'["Discharging"] = info["Discharging"]
        BY <2>2, <2>4 DEF TypeOK, InfoTypeOK, CI
      <3>2. (\A i \in 1 .. Len(todo') : todo'[i] # "Discharging")
              => \A i \in 1 .. Len(todo) : todo[i] # "Discharging"
        <4>1. SUFFICES ASSUME \A i \in 1 .. Len(todo') : todo'[i] # "Discharging",
                              NEW i \in 1 .. Len(todo)
                       PROVE  todo[i] # "Discharging"
          OBVIOUS
        <4>2. CASE i = 1
          BY <2>1, <2>4, <4>2
        <4>3. CASE i # 1
          <5>1. i - 1 \in 1 .. Len(todo') /\ todo'[i - 1] = todo[(i - 1) + 1]
            BY <2>1, <4>3
          <5> QED BY <4>1, <5>1
        <4> QED BY <4>2, <4>3
      <3> QED
        BY <2>2, <3>1, <3>2 DEF StatusPosted
    <2> QED
      BY <2>3, <2>4
  <1>5. CASE PostNext
    BY <1>4, <1>5 DEF PostNext, Post, Reading
  <1>6. CASE PostUnanswered
    BY <1>4, <1>6 DEF PostUnanswered
  <1>7. ASSUME NEW ci \in CI, StatusReport(ci) PROVE StatusPosted'
    BY <1>1, <1>7 DEF StatusReport, ReaderGet, GetDefault, driverVars
  <1>8. CASE Hardware \/ UNCHANGED allVars
    BY <1>1, <1>8 DEF Hardware, allVars, vars, infoVars, driverVars
  <1> QED
    BY <1>2, <1>3, <1>5, <1>6, <1>7, <1>8 DEF ApcSmartNext, Driver

(* The mains bit of each pass is heeded, through lost answers, self tests  *)
(* and whatever the machine is doing (ReadVolatileData, UpsStateMachine).  *)
THEOREM StatusHeeded == ApcSmartSteady => []PassHeeded
  <1>1. SteadyInit /\ HwInit => DriverInv /\ StatusPosted
    <2>1. SteadyInit /\ HwInit => StatusPosted
      BY DEF HwInit, InfoInit, StatusPosted, CI
    <2> QED
      BY <2>1, InitDriver
  <1>2. DriverInv /\ TypeOK /\ StatusPosted /\ [ApcSmartNext]_allVars
          => DriverInv' /\ StatusPosted'
    BY NextKeepsDriver, NextPosts
  <1>3. DriverInv /\ StatusPosted /\ NoMissedPowerFailure /\ NoMissedMainsReturn
          => PassHeeded
    BY DEF DriverInv, StatusPosted, NoMissedPowerFailure, NoMissedMainsReturn,
       PassHeeded
  <1>4. ApcSmartSteady => SteadySpec
    BY ApcSmartImplements DEF DriverRefines
  <1>5. ApcSmartSteady => []TypeOK
    BY <1>4, TypeCorrect, PTL
  <1>6. ApcSmartSteady => [](NoMissedPowerFailure /\ NoMissedMainsReturn)
    BY <1>4, NothingOverlooked, PTL
  <1> QED
    BY <1>1, <1>2, <1>3, <1>5, <1>6, PTL DEF ApcSmartSteady
=============================================================================
