---------------------------- MODULE PowerEvents ----------------------------
(***************************************************************************)
(* What the event script is promised about one power failure, whatever the *)
(* UPS and the network clients do (action.c and the event list of the      *)
(* manual): POWEROUT begins an outage; ONBATTERY may follow; the outage    *)
(* ends with MAINSBACK, after an OFFBATTERY when there was an ONBATTERY,   *)
(* or with the decision to shut down, after which nothing more is said of  *)
(* the power.  What is promised is the order: the ONBATTERY of an outage,  *)
(* or the decision to shut down, may come of a timer of an earlier one     *)
(* whose timeout was queued before the timer was stopped.                  *)
(***************************************************************************)
VARIABLES
  outage,     \* POWEROUT was the last of POWEROUT and MAINSBACK
  announced,  \* ONBATTERY was generated in this outage
  down        \* a shutdown was decided

powerVars == <<outage, announced, down>>

Mains == ~outage /\ ~announced /\ ~down

Powerout ==
  /\ ~outage
  /\ outage' = TRUE
  /\ UNCHANGED <<announced, down>>

Onbattery ==
  /\ outage /\ ~down
  /\ announced' = TRUE
  /\ UNCHANGED <<outage, down>>

(* OFFBATTERY, if due, and MAINSBACK are generated in one step.            *)
Mainsback ==
  /\ outage /\ ~down
  /\ outage' = FALSE
  /\ announced' = FALSE
  /\ UNCHANGED down

Shutdown ==
  /\ outage /\ ~down
  /\ down' = TRUE
  /\ UNCHANGED <<outage, announced>>

PowerNext == Powerout \/ Onbattery \/ Mainsback \/ Shutdown

PowerSpec == Mains /\ [][PowerNext]_powerVars
=============================================================================
