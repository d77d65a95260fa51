---------------------------- MODULE MCSmartLink ----------------------------
(* Two clients; two polls in a pass, so that one has a successor and one    *)
(* ends the pass.                                                           *)
EXTENDS SmartLink

CONSTANTS c1, c2

MCClient == {c1, c2}
=============================================================================
