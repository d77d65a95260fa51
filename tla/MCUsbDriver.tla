---------------------------- MODULE MCUsbDriver ----------------------------
(* Instances of UsbDriver for TLC.                                         *)
EXTENDS UsbDriver

Given(f, default) == [ci \in CI |-> IF ci \in DOMAIN f THEN f[ci] ELSE default]

(* Only the mains come and go, reported by the status word or by a usage   *)
(* of their own.  The battery stays connected.                             *)
MainsRaw ==
  Given([Discharging |-> {0, 1}, BatteryPresent |-> {1}], {0})
WordValue ==
  Given([Discharging |-> {0, 16}, BattLow |-> {0}, BatteryPresent |-> {1}], {})
UsageValue == Given([Discharging |-> {0, 1}], {})
=============================================================================
