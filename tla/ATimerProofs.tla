---------------------------- MODULE ATimerProofs ----------------------------
(* A timer keeps the promise of Timer, whatever the size of the table.     *)
EXTENDS ATimer, TLAPS

(* The history flag is up only inside stop(), with _started down; a thread *)
(* that waits, or whose time has come, waits for a timer that is started   *)
(* or being stopped.                                                       *)
Flags ==
  /\ stopping => owner = "join"
  /\ owner = "join" => ~started
  /\ \A i \in Thread :
       thread[i] \in {"wait", "timedout"} => started \/ stopping

Inv == ATimerTypeOK /\ OneBody /\ Flags

LEMMA InitInv == Init => Inv
  BY DEF Init, Inv, ATimerTypeOK, OneBody, Flags, InBody, ThreadPc, Thread

LEMMA NextTypeOK == ATimerTypeOK /\ [Next]_timerVars => ATimerTypeOK'
  <1> SUFFICES ASSUME ATimerTypeOK, [Next]_timerVars PROVE ATimerTypeOK'
    OBVIOUS
  <1> USE DEF ATimerTypeOK
  <1>1. CASE start
    BY <1>1 DEF start, Run, At, ThreadPc
  <1>2. CASE stop
    BY <1>2 DEF stop
  <1>3. CASE join
    BY <1>3 DEF join, ThreadPc
  <1>4. ASSUME NEW i \in Thread, ThreadStep(i) PROVE ATimerTypeOK'
    BY <1>4 DEF ThreadStep, Test, TimeOut, Wake, Fire, Refused, Finish, At,
       ThreadPc
  <1>5. CASE UNCHANGED timerVars
    BY <1>5 DEF timerVars
  <1> QED
    BY <1>1, <1>2, <1>3, <1>4, <1>5 DEF Next

LEMMA NextOneBody == Inv /\ [Next]_timerVars => OneBody'
  <1> SUFFICES ASSUME Inv, [Next]_timerVars PROVE OneBody'
    OBVIOUS
  <1> USE DEF Inv, ATimerTypeOK, OneBody, InBody
  <1>1. CASE start
    BY <1>1 DEF start, Run, At
  <1>2. CASE stop
    BY <1>2 DEF stop
  <1>3. CASE join
    BY <1>3 DEF join
  <1>4. ASSUME NEW i \in Thread, ThreadStep(i) PROVE OneBody'
    BY <1>4 DEF ThreadStep, Test, TimeOut, Wake, Fire, Refused, Finish, At
  <1>5. CASE UNCHANGED timerVars
    BY <1>5 DEF timerVars
  <1> QED
    BY <1>1, <1>2, <1>3, <1>4, <1>5 DEF Next

LEMMA NextFlags == Inv /\ [Next]_timerVars => Flags'
  <1> SUFFICES ASSUME Inv, [Next]_timerVars PROVE Flags'
    OBVIOUS
  <1> USE DEF Inv, ATimerTypeOK, OneBody, InBody, Flags
  <1>1. CASE start
    BY <1>1 DEF start, Run, At
  <1>2. CASE stop
    BY <1>2 DEF stop
  <1>3. CASE join
    BY <1>3 DEF join
  <1>4. ASSUME NEW i \in Thread, ThreadStep(i) PROVE Flags'
    BY <1>4 DEF ThreadStep, Test, TimeOut, Wake, Fire, Refused, Finish, At
  <1>5. CASE UNCHANGED timerVars
    BY <1>5 DEF timerVars
  <1> QED
    BY <1>1, <1>2, <1>3, <1>4, <1>5 DEF Next

LEMMA NextInv == Inv /\ [Next]_timerVars => Inv'
  BY NextTypeOK, NextOneBody, NextFlags DEF Inv

(* At most one thread works for a timer.                                   *)
THEOREM OneThread == Spec => [](ATimerTypeOK /\ OneBody)
  <1>1. Inv => ATimerTypeOK /\ OneBody
    BY DEF Inv
  <1> QED
    BY <1>1, InitInv, NextInv, PTL DEF Spec

-----------------------------------------------------------------------------
InCallback == \E i \in Thread : thread[i] = "callback"

Step == [T!TimerNext]_(T!timerVars)

LEMMA Stutter ==
  ASSUME (started \/ stopping)' <=> (started \/ stopping),
         InCallback' <=> InCallback
  PROVE  Step
  BY DEF Step, T!timerVars, InCallback

LEMMA StartStep == ASSUME Inv, start PROVE Step
  <1>1. InCallback' <=> InCallback
    BY DEF start, Run, At, InCallback, Inv, ATimerTypeOK
  <1>2. CASE started
    BY <1>1, <1>2, Stutter DEF start
  <1>3. CASE ~started
    <2>1. started' = TRUE
      BY <1>3 DEF start
    <2> QED
      BY <1>1, <2>1 DEF Step, T!TimerNext, T!Start, InCallback
  <1> QED
    BY <1>2, <1>3 DEF Inv, ATimerTypeOK

(* The thread that is joined is the only one that could call back.         *)
LEMMA JoinedQuiet ==
  ASSUME Inv, join, NEW i \in Thread
  PROVE  thread[i] \notin InBody \cup {"finish"}
  <1>1. tid = 0 \/ thread[tid] \in {"done", "none"}
    BY DEF join
  <1>2. 0 \notin Thread
    BY DEF Thread
  <1> QED
    BY <1>1, <1>2 DEF Inv, OneBody, InBody

LEMMA JoinStep == ASSUME Inv, join PROVE Step
  <1>1. ~InCallback /\ ~InCallback'
    BY JoinedQuiet DEF join, InCallback, InBody
  <1>2. ~(started' \/ stopping')
    BY DEF join, Inv, Flags
  <1> QED
    BY <1>1, <1>2 DEF Step, T!TimerNext, T!Stop, InCallback

LEMMA TestStep == ASSUME Inv, NEW i \in Thread, Test(i) PROVE Step
  <1>1. (started \/ stopping)' <=> (started \/ stopping)
    BY DEF Test
  <1>2. CASE thread[i] = "callback"
    <2>1. InCallback /\ ~InCallback'
      BY <1>2 DEF Test, At, InCallback, Inv, ATimerTypeOK, OneBody, InBody
    <2> QED
      BY <1>1, <2>1 DEF Step, T!TimerNext, T!Deliver, InCallback
  <1>3. CASE thread[i] # "callback"
    <2>1. InCallback' <=> InCallback
      BY <1>3 DEF Test, At, InCallback, Inv, ATimerTypeOK
    <2> QED
      BY <1>1, <2>1, Stutter
  <1> QED
    BY <1>2, <1>3

LEMMA FireStep == ASSUME Inv, NEW i \in Thread, Fire(i) PROVE Step
  <1>1. (started \/ stopping) /\ ~(started' \/ stopping')
    BY DEF Fire, At, Inv, Flags
  <1>2. ~InCallback /\ InCallback'
    BY DEF Fire, At, InCallback, Inv, ATimerTypeOK, OneBody, InBody
  <1> QED
    BY <1>1, <1>2 DEF Step, T!TimerNext, T!Expire, InCallback

LEMMA RefusedStep == ASSUME Inv, NEW i \in Thread, Refused(i) PROVE Step
  <1>1. ~InCallback /\ ~InCallback'
    BY DEF Refused, At, InCallback, Inv, ATimerTypeOK, OneBody, InBody
  <1>2. CASE stopping
    BY <1>1, <1>2, Stutter DEF Refused
  <1>3. CASE ~stopping
    <2>1. ~(started' \/ stopping')
      BY <1>3 DEF Refused
    <2> QED
      BY <1>1, <2>1 DEF Step, T!TimerNext, T!Stop, InCallback
  <1> QED
    BY <1>2, <1>3 DEF Inv, ATimerTypeOK

LEMMA NextStep == Inv /\ [Next]_timerVars => Step
  <1> SUFFICES ASSUME Inv, [Next]_timerVars PROVE Step
    OBVIOUS
  <1>1. CASE stop
    <2>1. (started \/ stopping)' <=> (started \/ stopping)
      BY <1>1 DEF stop
    <2>2. InCallback' <=> InCallback
      BY <1>1 DEF stop, InCallback
    <2> QED
      BY <2>1, <2>2, Stutter
  <1>2. ASSUME NEW i \in Thread, TimeOut(i) \/ Wake(i) \/ Finish(i) PROVE Step
    <2>1. (started \/ stopping)' <=> (started \/ stopping)
      BY <1>2 DEF TimeOut, Wake, Finish
    <2>2. InCallback' <=> InCallback
      BY <1>2 DEF TimeOut, Wake, Finish, At, InCallback, Inv, ATimerTypeOK
    <2> QED
      BY <2>1, <2>2, Stutter
  <1>3. CASE UNCHANGED timerVars
    <2>1. (started \/ stopping)' <=> (started \/ stopping)
      BY <1>3 DEF timerVars
    <2>2. InCallback' <=> InCallback
      BY <1>3 DEF timerVars, InCallback
    <2> QED
      BY <2>1, <2>2, Stutter
  <1> QED
    BY <1>1, <1>2, <1>3, StartStep, JoinStep, TestStep, FireStep, RefusedStep
    DEF Next, ThreadStep

(* The timer of the code implements the timer UpsStateMachine uses.        *)
THEOREM ImplementsTimer == Spec => TimerContract
  <1>1. Init => T!TimerInit
    BY DEF Init, T!TimerInit, Thread
  <1> QED
    BY <1>1, InitInv, NextInv, NextStep, PTL
    DEF Spec, TimerContract, T!TimerSpec, Step

(* The timer and its threads are well typed for any number of threads.     *)
COROLLARY TimerTypeCorrect == Spec => []ATimerTypeOK
  BY OneThread, PTL

(* A stop() that finds its timer started comes back only when no thread    *)
(* works for the timer (atimer::stop, the branch that joins).  It is not   *)
(* so for a stop() of a timer that has fired (atimer.cpp:45), which may    *)
(* come back while the callback runs.                                      *)
THEOREM StartedStopWaits == Spec => StopWaits
  <1>1. ASSUME Inv, [Next]_timerVars, owner = "join", owner' = "free"
        PROVE  join
    BY <1>1 DEF Next, start, stop, ThreadStep, Test, TimeOut, Wake, Fire, Refused,
       Finish, timerVars
  <1>2. Inv /\ [Next]_timerVars
          => [owner = "join" /\ owner' = "free" => Working = {}]_timerVars
    BY <1>1, JoinedQuiet DEF Working
  <1> QED
    BY <1>2, InitInv, NextInv, PTL DEF Spec, StopWaits
=============================================================================
