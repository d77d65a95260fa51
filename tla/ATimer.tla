------------------------------- MODULE ATimer -------------------------------
(***************************************************************************)
(* One timer of src/lib/atimer.cpp on the threads of src/lib/athread.cpp,  *)
(* and the thread that owns it.                                            *)
(*                                                                         *)
(* start() creates a thread unless one is running; the thread waits for    *)
(* the time with the timer's mutex released and calls back with it         *)
(* unlocked, so that the owner can start the timer again.  The sections    *)
(* under the mutex do not block and are one step each.  The thread clears  *)
(* _running after body(), without the mutex.  A thread that is not joined  *)
(* keeps its place in the system's table.                                  *)
(***************************************************************************)
EXTENDS Naturals

CONSTANT MaxThreads   \* places in the table: pthread_create fails past it
ASSUME MaxThreadsAssumption == MaxThreads \in Nat \ {0}

Thread == 1 .. MaxThreads

VARIABLES
  started,   \* atimer::_started
  running,   \* athread::_running
  tid,       \* athread::_tid; 0 before the first thread
  thread,    \* [Thread -> ThreadPc]: where each thread is
  owner,     \* the owner is in "join" (inside stop) or elsewhere, "free"
  stopping   \* history: a stop() is under way that the timer did not beat

timerVars == <<started, running, tid, thread, owner, stopping>>

(* "none": no thread; "begin": created; "wait": in timedwait; "timedout",  *)
(* "woken": timedwait is to return, the mutex not yet taken; "callback";   *)
(* "finish": body() has returned; "done": ended, not joined.               *)
ThreadPc == {"none", "begin", "wait", "timedout", "woken", "callback",
             "finish", "done"}

InBody == {"begin", "wait", "timedout", "woken", "callback"}

ATimerTypeOK ==
  /\ started \in BOOLEAN /\ running \in BOOLEAN /\ stopping \in BOOLEAN
  /\ tid \in {0} \cup Thread
  /\ thread \in [Thread -> ThreadPc]
  /\ owner \in {"free", "join"}

Init ==
  /\ started = FALSE /\ running = FALSE /\ stopping = FALSE
  /\ tid = 0
  /\ thread = [i \in Thread |-> "none"]
  /\ owner = "free"

At(i, here, there) ==
  /\ thread[i] = here
  /\ thread' = [thread EXCEPT ![i] = there]

-----------------------------------------------------------------------------
(* Mutant: a thread is created whether or not one is running.              *)
RunAlways ==
  \/ /\ \E i \in Thread : At(i, "none", "begin") /\ tid' = i
     /\ running' = TRUE
  \/ /\ \A i \in Thread : thread[i] # "none"
     /\ UNCHANGED <<running, tid, thread>>

(* athread::run(): nothing while _running; otherwise a new thread, whose   *)
(* creation fails when the table is full.                                  *)
Run ==
  \/ /\ ~running
     /\ \E i \in Thread : At(i, "none", "begin") /\ tid' = i
     /\ running' = TRUE
  \/ /\ running \/ \A i \in Thread : thread[i] # "none"
     /\ UNCHANGED <<running, tid, thread>>

start ==
  /\ owner = "free"
  /\ \/ ~started /\ started' = TRUE /\ Run
     \/ started /\ UNCHANGED <<started, running, tid, thread>>
  /\ UNCHANGED <<owner, stopping>>

(* stop(): a started timer is flagged and signalled, then joined.          *)
stop ==
  /\ owner = "free" /\ started
  /\ started' = FALSE
  /\ owner' = "join"
  /\ stopping' = TRUE
  /\ UNCHANGED <<running, tid, thread>>

join ==
  /\ owner = "join"
  /\ tid = 0 \/ thread[tid] \in {"done", "none"}
  /\ thread' = [i \in Thread |-> IF i = tid THEN "none" ELSE thread[i]]
  /\ owner' = "free"
  /\ stopping' = FALSE
  /\ UNCHANGED <<started, running, tid>>

-----------------------------------------------------------------------------
(* body(): the loop's test, from each place the mutex is taken to reach it *)
Test(i) ==
  /\ \/ started /\ \E pc \in {"begin", "woken", "callback"} : At(i, pc, "wait")
     \/ ~started /\ \E pc \in {"begin", "woken", "callback"} : At(i, pc, "finish")
  /\ UNCHANGED <<started, running, tid, owner, stopping>>

(* The time comes; or the signal, or a spurious wake-up.                   *)
TimeOut(i) ==
  /\ At(i, "wait", "timedout")
  /\ UNCHANGED <<started, running, tid, owner, stopping>>

Wake(i) ==
  /\ At(i, "wait", "woken")
  /\ UNCHANGED <<started, running, tid, owner, stopping>>

(* Mutant: the timer stays started through its callback.                   *)
FireKeeps(i) ==
  /\ At(i, "timedout", "callback")
  /\ stopping' = FALSE
  /\ UNCHANGED <<started, running, tid, owner>>

(* With the mutex back: _started is cleared and the callback called, even  *)
(* if stop() cleared it first.                                             *)
Fire(i) ==
  /\ At(i, "timedout", "callback")
  /\ started' = FALSE
  /\ stopping' = FALSE
  /\ UNCHANGED <<running, tid, owner>>

(* springboard() after body().                                             *)
Finish(i) ==
  /\ At(i, "finish", "done")
  /\ running' = FALSE
  /\ UNCHANGED <<started, tid, owner, stopping>>

(* timedwait refuses the time: calc_abstimeout() takes an int of           *)
(* milliseconds, which more than 24 days overflow.                         *)
Refused(i) ==
  /\ At(i, "wait", "finish")
  /\ started' = FALSE
  /\ UNCHANGED <<running, tid, owner, stopping>>

ThreadStep(i) ==
  Test(i) \/ TimeOut(i) \/ Wake(i) \/ Fire(i) \/ Refused(i) \/ Finish(i)

Next == start \/ stop \/ join \/ \E i \in Thread : ThreadStep(i)

Spec == Init /\ [][Next]_timerVars

(* Threads run, and a time once come stays come: wake-ups cannot put off   *)
(* the timeout for ever.  The owner owes nothing but the end of a join.    *)
Fairness ==
  /\ WF_timerVars(join)
  /\ \A i \in Thread :
       /\ WF_timerVars(Test(i) \/ Fire(i) \/ Finish(i))
       /\ SF_timerVars(TimeOut(i))

LiveSpec == Spec /\ Fairness

-----------------------------------------------------------------------------
(* At most one thread works for the timer, and while it does _running says *)
(* so and _tid names it: run() creates no second one.                      *)
OneBody ==
  \A i \in Thread : thread[i] \in InBody \cup {"finish"} => running /\ i = tid

(* The threads that work for the timer, in body() or just out of it.       *)
Working == {i \in Thread : thread[i] \in InBody \cup {"finish"}}

(* A stop() that finds the timer started joins its thread, and is over     *)
(* when no thread works for the timer, not one of an earlier start either. *)
(* One that finds it fired returns at once, be the callback over or not:   *)
(* nothing is said of that one.                                            *)
StopWaits ==
  [][owner = "join" /\ owner' = "free" => Working = {}]_timerVars

(* The timer is what UpsStateMachine takes it for.                         *)
T == INSTANCE Timer WITH
       started <- started \/ stopping,
       firing  <- \E i \in Thread : thread[i] = "callback"

TimerContract == T!TimerSpec

(* atimer.cpp: the callback runs unlocked "to allow restart".  A timer     *)
(* that is started fires or is stopped.                                    *)
StartedFires == started ~> ~started
=============================================================================
