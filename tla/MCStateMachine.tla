--------------------------- MODULE MCStateMachine ---------------------------
(* Instances of UpsStateMachine for TLC: what the UPS can report.  The     *)
(* levels are on both sides of the configured limits and next to them.     *)
EXTENDS UpsStateMachine

Reports(f) == [ci \in CI |-> IF ci \in DOMAIN f THEN f[ci] ELSE {}]

(* Nothing but the status byte.                                            *)
StatusOnly ==
  Reports([Discharging |-> {0, 1}, BattLow |-> {0, 1}])

(* Self tests, a battery that can be unplugged, and its charge in tenths   *)
(* of a percent.                                                           *)
SelfTests ==
  Reports([Discharging |-> {0, 1}, ST_STAT |-> {4, 5},
           BatteryPresent |-> {0, 1}, BATTLEV |-> {59, 60}])
=============================================================================
