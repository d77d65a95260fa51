----------------------------- MODULE KillPower -----------------------------
(***************************************************************************)
(* "apcupsd --killpower": initiate_hibernate() of src/device.c and the     *)
(* KillPower() of the USB, smart and dumb drivers, which try one way after *)
(* the other to have the UPS cut the power and give it back with the       *)
(* mains.  Off for good is the last resort.                                *)
(*                                                                         *)
(* A USB write is read back, but the value is not compared: one that took  *)
(* effect may be reported as failed, one without effect as done.  On a     *)
(* serial port an answer may come late or in part, and the driver thread,  *)
(* started by Open(), polls and reads answers at the same time, without a  *)
(* lock between the two threads.                                           *)
(***************************************************************************)
EXTENDS Naturals, Sequences

VARIABLES
  driver,     \* "usb", "smart" or "dumb"
  mode,       \* UPSINFO::mode
  caps,       \* what the UPS can do
  pwrfail,    \* the powerfail file exists
  onbatt,     \* the UPS is on battery
  at,         \* where the main thread is
  countdown,  \* what makes the UPS cut the power, if anything
  failed,     \* history: writes that had no effect
  misled,     \* history: a report or answer was taken for what it was not
  \* the USB UPS
  armed,      \* its flags DWAKE and BUPHibernate that are set
  setting,    \* its two settings that are walked down to their minimum
  left,       \* steps of the walk not made yet
  \* the serial line
  sent,       \* characters sent of the command under way
  partial,    \* characters of it the UPS has got in sequence
  response,   \* the buffer of KillPower()
  out,        \* answers not read yet
  asked       \* the driver thread waits for the answer to a poll

config == <<driver, mode, caps, pwrfail>>
usbVars == <<armed, setting, left>>
lineVars == <<sent, partial, response, out, asked>>
killVars == <<config, onbatt, at, countdown, failed, misled, usbVars, lineVars>>

(* Ways to hibernate in the order they are tried: the usages each writes.  *)
Flag == {"DWAKE", "BUPHibernate"}
Walk == {"BUPBattCap", "BUPDelay"}
Method == {{"APCDelay"}, {"DWAKE", "Delay"}, {"BUPHibernate", "BUPSelfTest"},
           {"Reboot"}, {"Force"}}
Usage == UNION Method \cup Walk
Startup == {"RETPCT", "APCDelayBeforeStartup"}
Command == {"S", "@", "K"}
(* Two acknowledgements, a refusal, and what answers a poll.               *)
Answer == {"OK", "*", "NA", "data"}

UsbAt ==
  Startup \cup {"BUPBattCap", "BUPDelay", "APCDelay", "DWAKE", "Delay", "unDWAKE",
          "BUPHibernate", "BUPSelfTest", "unBUPHibernate", "Reboot", "Force",
          "Shutdown"}
SmartAt == {"D", "D?", "S", "S?", "@1", "@1?", "@2", "@2?", "K", "K?"}

KillTypeOK ==
  /\ driver \in {"usb", "smart", "dumb"}
  /\ mode \in {"BK", "SHAREBASIC", "SMART"}
  /\ caps \subseteq Usage \cup Command \cup {"bit"}
  /\ pwrfail \in BOOLEAN /\ onbatt \in BOOLEAN /\ misled \in BOOLEAN
  /\ asked \in BOOLEAN
  /\ at \in UsbAt \cup SmartAt \cup {"check", "done"}
  /\ countdown \in {"none", "hibernate", "Delay", "off"}
  /\ failed \subseteq UsbAt
  /\ armed \subseteq Flag
  /\ setting \in [Walk -> 0 .. 3]
  /\ left \in 0 .. 3 /\ sent \in 0 .. 3 /\ partial \in 0 .. 3
  /\ response \in {"none"} \cup Answer
  /\ out \in Seq(Answer)

KillInit ==
  /\ \/ driver = "usb" /\ mode = "SMART" /\ caps \in SUBSET Usage
     \/ driver = "smart" /\ mode = "SMART" /\ caps \in SUBSET Command
     \/ driver = "dumb" /\ mode \in {"BK", "SHAREBASIC"} /\ caps \in SUBSET {"bit"}
  /\ pwrfail \in BOOLEAN /\ onbatt \in BOOLEAN
  /\ setting \in [Walk -> 0 .. 3]
  /\ \A w \in Walk \ caps : setting[w] = 0
  /\ at = "check" /\ countdown = "none" /\ failed = {} /\ misled = FALSE
  /\ armed = {} /\ left = 0
  /\ sent = 0 /\ partial = 0 /\ response = "none" /\ out = <<>> /\ asked = FALSE

-----------------------------------------------------------------------------
(* A walk reads its setting first, which may fail or give a value that is  *)
(* none of the four known; there is nothing to walk down then.             *)
Reads(step) == left' \in IF step \in Walk THEN {0, setting[step]} ELSE {0}

(* initiate_hibernate().  Without a powerfail file it refuses, except for  *)
(* a simple signalling UPS that is not on battery.                         *)
Allowed == pwrfail \/ (mode = "BK" /\ ~onbatt)

(* The dumb driver sets the line of the cable that has the UPS cut power.  *)
HasBit == mode = "BK" /\ "bit" \in caps

Check ==
  /\ at = "check"
  /\ at' = CASE ~Allowed         -> "done"
             [] driver = "usb"   -> "RETPCT"
             [] driver = "smart" -> "D"
             [] OTHER            -> "done"
  /\ Reads(at')
  /\ countdown' = IF Allowed /\ HasBit THEN "hibernate" ELSE countdown
  /\ UNCHANGED <<config, onbatt, failed, misled, armed, setting, lineVars>>

-----------------------------------------------------------------------------
(* The USB driver.                                                         *)

(* A step that needs usages the UPS lacks, or has failed, leads on here.   *)
Onward(step) ==
  CASE step = "RETPCT"         -> "BUPBattCap"
    [] step = "BUPBattCap"     -> "APCDelayBeforeStartup"
    [] step = "APCDelayBeforeStartup" -> "BUPDelay"
    [] step = "BUPDelay"       -> "APCDelay"
    [] step = "APCDelay"       -> "DWAKE"
    [] step = "DWAKE"          -> "BUPHibernate"
    [] step = "Delay"          -> "unDWAKE"
    [] step = "unDWAKE"        -> "BUPHibernate"
    [] step = "BUPHibernate"   -> "Reboot"
    [] step = "BUPSelfTest"    -> "unBUPHibernate"
    [] step = "unBUPHibernate" -> "Reboot"
    [] step = "Reboot"         -> "Force"
    [] step = "Force"          -> "Shutdown"
    [] step = "Shutdown"       -> "done"

(* Mutant: the first half of a pair counts as the whole.                   *)
SucceededAtOnce(step) ==
  IF step \in {"unDWAKE", "unBUPHibernate"} THEN Onward(step) ELSE "done"

(* A write that succeeded ends KillPower() unless it is a first half.      *)
Succeeded(step) ==
  CASE step = "DWAKE"                         -> "Delay"
    [] step = "BUPHibernate"                  -> "BUPSelfTest"
    [] step \in {"unDWAKE", "unBUPHibernate"} -> Onward(step)
    [] OTHER                                  -> "done"

(* UPS_HAS_CAP of the usages a step and its second half write.             *)
Needs(step) ==
  CASE step = "DWAKE"        -> {"DWAKE", "Delay"}
    [] step = "BUPHibernate" -> {"BUPHibernate", "BUPSelfTest"}
    [] step = "Shutdown"     -> {"Delay"}
    [] step \in {"APCDelay", "Reboot", "Force"} \cup Walk -> {step}
    [] OTHER                 -> {}

(* Mutant: the flags are reset to the value they have.                     *)
EffectNoReset(step) ==
  /\ armed' = IF step \in Flag THEN armed \cup {step} ELSE armed
  /\ countdown' = CASE step \in {"Delay", "Shutdown"} -> "Delay"
                    [] step \in {"APCDelay", "Reboot", "Force"}
                         \/ (step = "BUPSelfTest" /\ "BUPHibernate" \in armed)
                       -> "hibernate"
                    [] OTHER -> countdown

(* What a write does in the UPS.  DelayBeforeShutdown also makes DWAKE     *)
(* tick, after which the UPS comes back; BUPSelfTest hibernates when       *)
(* BUPHibernate is set.                                                    *)
Effect(step) ==
  /\ armed' = CASE step \in Flag          -> armed \cup {step}
                [] step = "unDWAKE"        -> armed \ {"DWAKE"}
                [] step = "unBUPHibernate" -> armed \ {"BUPHibernate"}
                [] OTHER                   -> armed
  /\ countdown' = CASE step \in {"Delay", "Shutdown"} -> "Delay"
                    [] step \in {"APCDelay", "Reboot", "Force"}
                         \/ (step = "BUPSelfTest" /\ "BUPHibernate" \in armed)
                       -> "hibernate"
                    [] OTHER -> countdown

(* write_int_to_ups(): the write is reported as done or not, and took      *)
(* effect or not.                                                          *)
UsbWrite ==
  /\ at \in UsbAt \ (Walk \cup Startup)
  /\ Needs(at) \subseteq caps
  /\ \/ Effect(at) /\ at' = Succeeded(at) /\ UNCHANGED <<failed, misled>>
     \/ /\ at' = Onward(at) /\ failed' = failed \cup {at}
        /\ UNCHANGED <<armed, countdown, misled>>
     \/ Effect(at) /\ at' = Onward(at) /\ misled' = TRUE /\ UNCHANGED failed
     \/ /\ at' = Succeeded(at) /\ misled' = TRUE
        /\ UNCHANGED <<armed, countdown, failed>>
  /\ UNCHANGED <<config, onbatt, setting, left, lineVars>>

(* The UPS cannot do it; or it is one of the two settings for the time     *)
(* after, which are allowed to fail and are read by none of the ways.      *)
UsbSkip ==
  /\ at \in UsbAt
  /\ at \in Startup \/ ~(Needs(at) \subseteq caps)
  /\ at' = Onward(at) /\ Reads(at')
  /\ UNCHANGED <<config, onbatt, countdown, failed, misled, armed, setting, lineVars>>

(* Writing 2 takes the setting one value down, from the least to the       *)
(* greatest; the cases fall through to as many writes as there are values  *)
(* below, whether a write fails or not.                                    *)
UsbWalk ==
  /\ at \in Walk /\ Needs(at) \subseteq caps
  /\ \/ /\ left > 0
        /\ left' = left - 1
        /\ \/ setting' = [setting EXCEPT ![at] = (@ + 3) % 4]
           \/ UNCHANGED setting
        /\ UNCHANGED at
     \/ /\ left = 0
        /\ at' = Onward(at) /\ Reads(at')
        /\ UNCHANGED setting
  /\ UNCHANGED <<config, onbatt, countdown, failed, misled, armed, lineVars>>

-----------------------------------------------------------------------------
(* The smart driver: a command, then the answer to it.                     *)
CommandOf(step) ==
  CASE step = "S" -> "S" [] step \in {"@1", "@2"} -> "@" [] step = "K" -> "K"

Length(step) ==
  CASE step = "S" -> 1 [] step \in {"@1", "@2"} -> 4 [] step = "K" -> 2

AnswerOf(step) ==
  CASE step = "S" -> "S?" [] step = "@1" -> "@1?" [] step = "@2" -> "@2?"
    [] step = "K" -> "K?"

(* A soft shutdown is for a UPS on battery only.                           *)
Accepts(cmd) == cmd \in caps /\ (cmd = "S" => onbatt)

(* GetShutdownDelay(): a poll whose answer only goes into a message.       *)
AskDelay ==
  /\ at = "D" /\ at' = "D?"
  /\ partial' = 0 /\ out' = Append(out, "data")
  /\ UNCHANGED <<config, onbatt, countdown, failed, misled, usbVars, sent, response,
                 asked>>

(* The answer may come late, for the next to read.                         *)
GetDelay ==
  /\ at = "D?" /\ at' = "S"
  /\ \/ UNCHANGED out
     \/ out # <<>> /\ out' = Tail(out)
  /\ UNCHANGED <<config, onbatt, countdown, failed, misled, usbVars, sent, partial,
                 response, asked>>

(* writechar().  A complete command is carried out and answered, in one of *)
(* two forms; smartprotocol.rst gives "S" the first one only.              *)
SendChar ==
  /\ at \in {"S", "@1", "@2", "K"}
  /\ LET complete == partial + 1 = Length(at)
         whole == sent + 1 = Length(at)
         accepted == complete /\ Accepts(CommandOf(at))
     IN  /\ partial' = IF whole THEN 0 ELSE partial + 1
         /\ sent' = IF whole THEN 0 ELSE sent + 1
         /\ at' = IF whole THEN AnswerOf(at) ELSE at
         /\ IF complete
              THEN \E a \in (IF accepted THEN {"OK", "*"} ELSE {"NA"}) :
                     /\ out' = Append(out, a)
                     /\ misled' = (misled \/ (at = "S" /\ a = "*"))
              ELSE UNCHANGED <<out, misled>>
         /\ countdown' = IF ~accepted THEN countdown
                         ELSE IF at = "K" THEN "off"
                         ELSE IF countdown = "none" THEN "hibernate"
                         ELSE countdown
  /\ UNCHANGED <<config, onbatt, failed, usbVars, response, asked>>

(* Mutant: an acknowledgement is not recognized.                           *)
VerdictNever(step, r) ==
  CASE step = "S?"  -> "@1"
    [] step = "@1?" -> "@2"
    [] step = "@2?" -> "K"
    [] step = "K?"  -> "done"

(* A soft shutdown is taken for acknowledged by one form only.             *)
Acknowledges(step, r) == r = "OK" \/ (r = "*" /\ step # "S?")

(* The next way is tried unless the response is an acknowledgement.        *)
Verdict(step, r) ==
  IF Acknowledges(step, r) THEN "done"
  ELSE CASE step = "S?"  -> "@1"
         [] step = "@1?" -> "@2"
         [] step = "@2?" -> "K"
         [] step = "K?"  -> "done"

(* getline() gives up after a second of silence, with nothing or a part of *)
(* a line in the buffer.  A part is not terminated, what the buffer had    *)
(* follows it, and the rest of the line is read next.  The answer to the   *)
(* driver thread's poll may itself read "OK" (a self test's result).       *)
GetLine ==
  \/ /\ out # <<>>
     /\ \/ response' = Head(out) /\ out' = Tail(out)
        \/ Head(out) = "data" /\ response' = "OK" /\ out' = Tail(out)
        \/ response' \in {Head(out), "data"} /\ out' = <<"data">> \o Tail(out)
     /\ misled' = (misled \/ Head(out) = "data" \/ response' # Head(out))
  \/ /\ UNCHANGED <<response, out>>
     /\ misled' = (misled \/ \E i \in DOMAIN out : out[i] # "data")

GetAnswer ==
  /\ at \in {"S?", "@1?", "@2?", "K?"}
  /\ GetLine
  /\ at' = Verdict(at, response')
  /\ UNCHANGED <<config, onbatt, countdown, failed, usbVars, sent, partial, asked>>

(* The driver thread sends a poll, which spoils a command under way.       *)
Poll ==
  /\ driver = "smart" /\ ~asked
  /\ asked' = TRUE
  /\ partial' = 0
  /\ out' = Append(out, "data")
  /\ UNCHANGED <<config, onbatt, at, countdown, failed, misled, usbVars, sent, response>>

(* It reads whatever comes, in CheckState() as well as after a poll.       *)
ThreadReads ==
  /\ driver = "smart" /\ (asked \/ out # <<>>)
  /\ asked' = FALSE
  /\ out' = IF out = <<>> THEN out ELSE Tail(out)
  /\ misled' = (misled \/ (out # <<>> /\ Head(out) # "data"))
  /\ UNCHANGED <<config, onbatt, at, countdown, failed, usbVars, sent, partial,
                 response>>

(* If the answer to a poll does not come, UPSlinkCheck() flushes the line  *)
(* in both directions.                                                     *)
Flush ==
  /\ driver = "smart" /\ asked
  /\ asked' = FALSE
  /\ partial' \in {0, partial}
  /\ out' = <<>>
  /\ misled' = (misled \/ \E i \in DOMAIN out : out[i] # "data")
  /\ UNCHANGED <<config, onbatt, at, countdown, failed, usbVars, sent, response>>

-----------------------------------------------------------------------------
Mains ==
  /\ at # "check" /\ at # "done"
  /\ onbatt' = ~onbatt
  /\ UNCHANGED <<config, at, countdown, failed, misled, usbVars, lineVars>>

KillStep == \/ Check \/ UsbWrite \/ UsbSkip \/ UsbWalk
            \/ AskDelay \/ GetDelay \/ SendChar \/ GetAnswer

KillNext == KillStep \/ (at # "done" /\ (Poll \/ ThreadReads \/ Flush)) \/ Mains

KillSpec == KillInit /\ [][KillNext]_killVars /\ WF_killVars(KillStep)

-----------------------------------------------------------------------------
(* How it will end for the UPS.                                            *)
Fate ==
  CASE countdown = "none"      -> "on"
    [] countdown = "hibernate" -> "hibernate"
    [] countdown = "Delay"     -> IF "DWAKE" \in armed THEN "hibernate" ELSE "off"
    [] countdown = "off"       -> "off"

UsbAble == driver = "usb" /\ \E m \in Method : m \subseteq caps /\ m \cap failed = {}

(* A USB UPS with a way to hibernate that no write of has failed           *)
(* hibernates, whatever else went wrong, if no write was reported other    *)
(* than it was (UsbDriver::KillPower).                                     *)
Hibernates ==
  at = "done" /\ pwrfail /\ UsbAble /\ ~misled => Fate = "hibernate"

(* No flag is left in the UPS that would turn a later self test or delay   *)
(* into something else, unless the reset itself failed.                    *)
NoFlagLeft ==
  at = "done" /\ ~misled
    => /\ "DWAKE" \in armed /\ countdown # "Delay" => "unDWAKE" \in failed
       /\ "BUPHibernate" \in armed /\ "BUPSelfTest" \in failed
            => "unBUPHibernate" \in failed

(* No walk passes the minimum, where the UPS would wrap to the maximum and *)
(* wait for a full battery after the next power failure.                   *)
SettingsFall == [][\A w \in Walk : setting'[w] <= setting[w]]_killVars

(* A UPS that has agreed to hibernate is not then turned off for good,     *)
(* from which only its button brings it back, unless an answer was lost,   *)
(* came late or in part, was taken for another's, or is one that "S" does  *)
(* not know (ApcSmartDriver::KillPower).                                   *)
StaysHibernating == [][Fate = "hibernate" /\ Fate' = "off" => misled']_killVars

(* options.c on --killpower: "put UPS into hibernation mode".  Off for     *)
(* good, which --power-off is for, is left to a UPS that has not agreed    *)
(* (ApcSmartDriver::KillPower, ShutdownWithDelay).                         *)
OnlyHibernates ==
  [][driver = "smart" => ~(Fate = "hibernate" /\ Fate' = "off")]_killVars

(* The kill-power run comes to an end.                                     *)
KillEnds == <>(at = "done")
=============================================================================
