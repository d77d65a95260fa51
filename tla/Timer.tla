------------------------------- MODULE Timer -------------------------------
(***************************************************************************)
(* What the owner of a timer may rely on, and all that UpsStateMachine     *)
(* uses of one.  A timer that is started fires once, unless it is stopped  *)
(* first; it may be started again while its callback runs, and stopping it *)
(* then waits for the callback.                                            *)
(***************************************************************************)
VARIABLES
  started,   \* start() was called and the timer neither fired nor stopped
  firing     \* the callback is running

timerVars == <<started, firing>>

TimerInit == ~started /\ ~firing

Start == started' = TRUE /\ UNCHANGED firing

Expire ==
  /\ started /\ ~firing
  /\ started' = FALSE
  /\ firing' = TRUE

Deliver == firing /\ firing' = FALSE /\ UNCHANGED started

Stop ==
  /\ ~(started /\ firing)
  /\ started' = FALSE
  /\ UNCHANGED firing

TimerNext == Start \/ Expire \/ Deliver \/ Stop

TimerSpec == TimerInit /\ [][TimerNext]_timerVars
=============================================================================
