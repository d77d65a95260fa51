------------------------------ MODULE ApcSmart ------------------------------
(***************************************************************************)
(* The serial smart-protocol driver thread (src/drivers/apcsmart) at work  *)
(* with the state machine, on a UPS whose mains, self tests and battery    *)
(* change at any time.                                                     *)
(*                                                                         *)
(* body() calls ReadVolatileData() over and over.  One pass, under the     *)
(* UPSINFO write lock: read the status byte once; when it shows a transfer *)
(* to battery, ask for its cause; then post key after key, the self test   *)
(* status before the status bits, the levels (each polled when its turn    *)
(* comes) after them.  The state machine and its timers run meanwhile.     *)
(* The alert characters of CheckState() only shorten the time between two  *)
(* passes, which is left open here.  A poll that stays unanswered through  *)
(* its retries returns an empty string, and the pass posts what atof(),    *)
(* strtoul() and decode_testresult() make of it.                           *)
(***************************************************************************)
EXTENDS UpsStateMachine

CONSTANTS
  Caps,        \* UPS_Cap: the optional commands the UPS understands
  TestResult,  \* what decode_testresult returns after a test
  MaxLost      \* bound: polls that stay unanswered

Bit == {0, 1}
TestNone == 1   \* TEST_NONE: no test in the last minutes

ASSUME CapsAssumption ==
  /\ Caps \subseteq {"WHY_BATT", "ST_STAT", "BATTLEV", "RUNTIM", "REG2"}
  /\ TestResult \subseteq {1, 5, 6, 7} /\ TestResult # {}

ASSUME MaxLostAssumption == MaxLost \in Nat

(* Value has what this UPS reports, and the 0 of an empty answer.          *)
ASSUME ReportAssumption ==
  /\ Value["Discharging"] = Bit
  /\ Value["BattLow"] # {} /\ Value["BattLow"] \subseteq Bit
  /\ "WHY_BATT" \in Caps => TestInProgress \in Value["ST_STAT"]
  /\ "ST_STAT" \in Caps => TestResult \cup {TestNone} \subseteq Value["ST_STAT"]
  /\ "REG2" \in Caps => Bit \subseteq Value["BatteryPresent"]
  /\ \A ci \in {"BATTLEV", "RUNTIM"} : ci \in Caps <=> Value[ci] # {}
  /\ MaxLost > 0 =>
       \A ci \in {"BattLow"} \cup (Caps \cap {"BATTLEV", "RUNTIM"}) : 0 \in Value[ci]

VARIABLES
  hw,        \* the UPS itself
  selftest,  \* ApcSmartDriver::_selftest
  status,    \* the status byte of the pass under way
  todo,      \* the keys the pass has yet to post
  lost       \* the polls that stayed unanswered so far

driverVars == <<selftest, status, todo, lost>>
allVars == <<vars, hw, driverVars>>

(* The UPS: mains present, self test running, low battery signal, charge,  *)
(* remaining time, battery connected, result of the last test.             *)
Level(ci) == IF ci \in Caps THEN Value[ci] ELSE {0}

HwType == [mains : BOOLEAN, test : BOOLEAN, battlow : Value["BattLow"],
           BATTLEV : Level("BATTLEV"), RUNTIM : Level("RUNTIM"),
           present : Bit, result : TestResult \cup {TestNone}]

OnBattery == ~hw.mains \/ hw.test
AsBit(b) == IF b THEN 1 ELSE 0

ApcSmartTypeOK ==
  /\ hw \in HwType
  /\ selftest \in BOOLEAN
  /\ status \in [onbatt : Bit, battlow : Value["BattLow"]]
  /\ todo \in Seq(CI)
  /\ lost \in 0..MaxLost

(* The daemon may start while the UPS is on battery.  Open() posts none of *)
(* these keys.                                                             *)
HwInit ==
  /\ InfoInit
  /\ hw \in [mains : BOOLEAN, test : {FALSE}, battlow : Value["BattLow"],
             BATTLEV : Level("BATTLEV"), RUNTIM : Level("RUNTIM"),
             present : {1}, result : {TestNone}]
  /\ selftest = FALSE
  /\ status = [onbatt |-> 0, battlow |-> hw.battlow]
  /\ todo = <<>>
  /\ lost = 0

-----------------------------------------------------------------------------
(* What ReadVolatileData posts once the status byte is read, in order.     *)
When(cond, ci) == IF cond THEN <<ci>> ELSE <<>>

Pass(test) ==
  When(test \/ "ST_STAT" \in Caps, "ST_STAT")
    \o <<"Discharging", "BattLow">>
    \o When("BATTLEV" \in Caps, "BATTLEV")
    \o When("RUNTIM" \in Caps, "RUNTIM")
    \o When("REG2" \in Caps, "BatteryPresent")

(* Whether this transfer to battery is a self test.  The cause may still   *)
(* be "not available" at every one of the retries.                         *)
SelftestDetected ==
  IF info["Discharging"] = 0 /\ OnBattery /\ "WHY_BATT" \in Caps
    THEN {hw.test, FALSE}
    ELSE {OnBattery /\ selftest}

PassBegins(byte, tests) ==
  /\ todo = <<>>
  /\ GetDefault("Discharging")
  /\ status' = byte
  /\ selftest' \in tests
  /\ todo' = Pass(selftest')
  /\ UNCHANGED <<smVars, hw>>

ReadStatus ==
  /\ PassBegins([onbatt |-> AsBit(OnBattery), battlow |-> hw.battlow],
                SelftestDetected)
  /\ UNCHANGED lost

(* No answer: no bit is set, which reads as mains and a full battery.      *)
StatusUnanswered ==
  /\ lost < MaxLost
  /\ lost' = lost + 1
  /\ PassBegins([onbatt |-> 0, battlow |-> 0], {FALSE})

Reading(ci) ==
  CASE ci = "ST_STAT"        -> IF selftest THEN TestInProgress ELSE hw.result
    [] ci = "Discharging"    -> status.onbatt
    [] ci = "BattLow"        -> status.battlow
    [] ci \in {"BATTLEV", "RUNTIM"} -> hw[ci]
    [] ci = "BatteryPresent" -> hw.present

(* Mutant: the value is stored without telling the clients.                *)
PostSilent(v) ==
  /\ todo # <<>>
  /\ info' = [info EXCEPT ![Head(todo)] = v]
  /\ known' = known \cup {Head(todo)}
  /\ todo' = Tail(todo)
  /\ UNCHANGED <<registered, queue, smVars, hw, selftest, status>>

Post(v) ==
  /\ todo # <<>>
  /\ Update(Head(todo), v)
  /\ todo' = Tail(todo)
  /\ UNCHANGED <<smVars, hw, selftest, status>>

PostNext == Post(Reading(Head(todo))) /\ UNCHANGED lost

(* What an empty answer stands for; the status bits and the status of a    *)
(* test under way are not polled for.                                      *)
Empty(ci) ==
  CASE ci = "ST_STAT"               -> TestNone
    [] ci \in {"BATTLEV", "RUNTIM"} -> 0
    [] ci = "BatteryPresent"        -> 1

PostUnanswered ==
  /\ todo # <<>>
  /\ Head(todo) \in {"ST_STAT", "BATTLEV", "RUNTIM", "BatteryPresent"}
  /\ selftest => Head(todo) # "ST_STAT"
  /\ lost < MaxLost
  /\ lost' = lost + 1
  /\ Post(Empty(Head(todo)))

(* output_status() for a network client, under the UPSINFO lock and so     *)
(* between two passes: reading a level nobody has posted stores 0.         *)
StatusReport(ci) ==
  /\ todo = <<>>
  /\ ci \in Caps \cap {"BATTLEV", "RUNTIM"}
  /\ ReaderGet(ci)
  /\ UNCHANGED <<hw, driverVars>>

-----------------------------------------------------------------------------
(* The UPS.                                                                *)
MainsFail == hw.mains /\ hw' = [hw EXCEPT !.mains = FALSE]
MainsReturn == ~hw.mains /\ hw' = [hw EXCEPT !.mains = TRUE]

TestBegins ==
  /\ "WHY_BATT" \in Caps
  /\ ~OnBattery
  /\ hw' = [hw EXCEPT !.test = TRUE]

TestEnds ==
  /\ hw.test
  /\ \E r \in TestResult :
       hw' = [hw EXCEPT !.test = FALSE, !.result = r]

BatteryChanges ==
  \/ \E b \in Value["BattLow"] : hw' = [hw EXCEPT !.battlow = b]
  \/ "REG2" \in Caps /\ hw' = [hw EXCEPT !.present = 1 - @]
  \/ \E ci \in Caps \cap {"BATTLEV", "RUNTIM"} :
       \E v \in Value[ci] : hw' = [hw EXCEPT ![ci] = v]

Hardware ==
  /\ MainsFail \/ MainsReturn \/ TestBegins \/ TestEnds \/ BatteryChanges
  /\ UNCHANGED <<vars, driverVars>>

-----------------------------------------------------------------------------
Driver == ReadStatus \/ StatusUnanswered \/ PostNext \/ PostUnanswered

System == (StateMachineStep \/ TimerStep) /\ UNCHANGED <<hw, driverVars>>

ApcSmartNext ==
  \/ System
  \/ Driver
  \/ \E ci \in CI : StatusReport(ci)
  \/ Hardware

(* Threads keep running; the UPS and network clients owe nothing.          *)
Fairness ==
  /\ WF_allVars(StateMachineStep /\ UNCHANGED <<hw, driverVars>>)
  /\ WF_allVars(Driver)
  /\ \A t \in TimerId :
       WF_allVars((Expire(t) \/ HandleTimeout(t)) /\ UNCHANGED <<hw, driverVars>>)

ApcSmartSteady == SteadyInit /\ HwInit /\ [][ApcSmartNext]_allVars
ApcSmartLive == ApcSmartSteady /\ Fairness

-----------------------------------------------------------------------------
(* The driver is one of the drivers UpsStateMachine allows: what holds     *)
(* there for any order of posts holds here.                                *)
DriverRefines == SteadySpec

(* A UPS that stays on battery ends up with the outage noticed, through    *)
(* lost answers, self tests and the posting order (IDLE does not stay, a    *)
(* self test that does not end is taken for an outage after 40 seconds).   *)
OutageNoticed ==
  <>[]OnBattery => <>[](state \in {"ONBATT"} \cup ShutdownState)

(* A UPS that stays on mains ends with the machine idle (or in a shutdown  *)
(* decided before), never stuck in ONBATT or SELFTEST.                     *)
MainsReturnNoticed ==
  <>[]~OnBattery => <>[](state \in {"IDLE"} \cup ShutdownState)

(* With TIMEOUT set an outage that lasts leads to a shutdown state.        *)
TimeLimitReached ==
  MaxTime > 0 => (<>[]OnBattery => <>(state \in ShutdownState))

(* So does a charge that stays at or under BATTERYLEVEL during an outage.   *)
LowChargeReached ==
  <>[](OnBattery /\ "BATTLEV" \in Caps /\ hw.BATTLEV \div 10 <= Percent)
    => <>(state \in ShutdownState)
=============================================================================
