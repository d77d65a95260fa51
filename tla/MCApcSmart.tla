----------------------------- MODULE MCApcSmart -----------------------------
(* Instances of ApcSmart for TLC.                                          *)
EXTENDS ApcSmart

Reports(f) == [ci \in CI |-> IF ci \in DOMAIN f THEN f[ci] ELSE {}]

SelfTests ==
  Reports([Discharging |-> {0, 1}, BattLow |-> {0}, ST_STAT |-> {1, 4, 5}])

(* A charge on both sides of the limit, a battery that can be disconnected *)
Levels ==
  Reports([Discharging |-> {0, 1}, BattLow |-> {0}, BATTLEV |-> {0, 60},
           BatteryPresent |-> {0, 1}])

FullBattery ==
  Reports([Discharging |-> {0, 1}, BattLow |-> {0}, BATTLEV |-> {1000}])
=============================================================================
