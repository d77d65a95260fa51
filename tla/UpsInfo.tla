------------------------------ MODULE UpsInfo ------------------------------
(***************************************************************************)
(* The UPS database of include/UpsValue.h and the event queue its client   *)
(* callback feeds.                                                         *)
(*                                                                         *)
(* A driver thread calls update().  Under the database mutex the new value *)
(* is stored and, when the key is new or the value changed, every          *)
(* registered client is called back with the datum.  The only client, the  *)
(* UPS state machine, puts the datum at the end of its own FIFO queue.     *)
(* Since the callback runs with the database mutex held, store and enqueue *)
(* are one step to every other thread that reads the database.             *)
(*                                                                         *)
(* A key that was never stored reads as "not available" through            *)
(* get(ci, val); get(ci) on such a key silently stores the default 0.      *)
(***************************************************************************)
EXTENDS Integers, Sequences

CONSTANTS
  Value,     \* [CI -> SUBSET Int]: the values a driver may post for a key
  MaxQueue   \* bound: no driver posts a change while the queue is this long

(* Keys the state machine reacts to.  Every other CI_* is posted the same  *)
(* way and ignored by all state handlers, so it is left out.               *)
CI == {"Discharging", "ST_STAT", "BattLow", "BATTLEV", "RUNTIM",
       "BatteryPresent"}

TimerId == {"SELFTEST", "ONBATT_TIMELIMIT", "ONBATT_BATTLOW",
            "ONBATT_RUNLIMIT", "ONBATT_LOADLIMIT", "ONBATT_EVENT"}

ASSUME ValueAssumption == Value \in [CI -> SUBSET Int]
ASSUME PresentAssumption == Value["BatteryPresent"] \subseteq {0, 1}   \* a bool
ASSUME MaxQueueAssumption == MaxQueue \in Nat \ {0}

VARIABLES
  info,        \* UpsInfo::_values; 0 where the key is not stored
  known,       \* the keys UpsInfo::_values contains
  registered,  \* the state machine is in UpsInfo::_clients
  queue        \* UpsStateMachine::_events

infoVars == <<info, known, registered, queue>>

Datum(ci, v) == [type |-> "datum", key |-> ci, value |-> v]
Timeout(id)  == [type |-> "timeout", key |-> id, value |-> 0]

Event == [type : {"datum"}, key : CI, value : Int]
           \cup [type : {"timeout"}, key : TimerId, value : {0}]

InfoTypeOK ==
  /\ info \in [CI -> Int]
  /\ known \in SUBSET CI
  /\ registered \in BOOLEAN
  /\ queue \in Seq(Event)

(* Constructor: only the battery is assumed present.                       *)
InfoInit ==
  /\ info = [ci \in CI |-> IF ci = "BatteryPresent" THEN 1 ELSE 0]
  /\ known = {"BatteryPresent"}
  /\ queue = <<>>

(* get(ci, val) succeeds and the value is non-zero.                        *)
IsSet(ci) == ci \in known /\ info[ci] # 0

(* Mutant: only the first value of a key notifies.                         *)
ChangesFirst(ci, v) == ci \notin known

(* update(): an unchanged value of a stored key notifies nobody.           *)
Changes(ci, v) == ci \notin known \/ info[ci] # v

(* Mutant: the datum overtakes those already on the queue.                 *)
UpdateInFront(ci, v) ==
  /\ registered /\ Changes(ci, v) => Len(queue) < MaxQueue
  /\ info' = [info EXCEPT ![ci] = v]
  /\ known' = known \cup {ci}
  /\ queue' = IF registered /\ Changes(ci, v)
                THEN <<Datum(ci, v)>> \o queue
                ELSE queue
  /\ UNCHANGED registered

Update(ci, v) ==
  /\ registered /\ Changes(ci, v) => Len(queue) < MaxQueue
  /\ info' = [info EXCEPT ![ci] = v]
  /\ known' = known \cup {ci}
  /\ queue' = IF registered /\ Changes(ci, v)
                THEN Append(queue, Datum(ci, v))
                ELSE queue
  /\ UNCHANGED registered

(* get(ci): the default value of a missing key is stored unannounced.      *)
GetDefault(ci) ==
  /\ known' = known \cup {ci}
  /\ UNCHANGED <<info, registered, queue>>
=============================================================================
