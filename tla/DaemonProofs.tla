---------------------------- MODULE DaemonProofs ----------------------------
(* What the processes around the driver guarantee: the lock file, for any  *)
(* number of programs and faults, and the kill-power run, for every UPS    *)
(* and every failure.                                                      *)
EXTENDS LockFile, KillPower, TLAPS

-----------------------------------------------------------------------------
(* The lock file.                                                          *)

(* A program has its lock while it is found, written, used or removed: the *)
(* file is its own.  True until a lock in use is removed or taken over.    *)
HasLock(p) ==
  /\ step[p] = "read" /\ seen[p].by = p => file = seen[p]
  /\ step[p] = "write" => file = [by |-> p, written |-> FALSE]
  /\ step[p] = "remove" /\ seen[p].by = p => file = [by |-> p, written |-> TRUE]
  /\ Working(p) => file = [by |-> p, written |-> TRUE]

(* System calls are made in the calls that make them.                      *)
Placed(p) ==
  /\ call[p] \in {"off", "foreign", "fork", "open", "run"} => step[p] = "none"
  /\ call[p] \in {"start", "setup", "main", "end"} => step[p] # "none"
  /\ step[p] \in {"create", "write"} => call[p] \in {"setup", "main"}
  /\ step[p] = "remove" => call[p] \in {"start", "end"}

(* What a process that looks has found out is so, until it is beaten.      *)
Known(p) ==
  /\ step[p] \in Looking => seen[p].by \in Pid
  /\ step[p] \in {"probe", "unlink"} => seen[p].by # p
  /\ step[p] \in Looking /\ file # NoFile /\ p \notin beaten
       => /\ file.by = seen[p].by
          /\ step[p] = "unlink" => ~Active(seen[p].by)
          /\ step[p] = "remove"
               => seen[p].by = p \/ seen[p].by = parent[p] \/ ~Active(seen[p].by)

(* A process that did not find its lock has none.                          *)
Cleared(p) ==
  \/ step[p] \in {"probe", "unlink"} \/ call[p] = "fork"
  \/ step[p] = "read" /\ (seen[p].by # p \/ ~seen[p].written)
  => ~(file.by = p /\ file.written)

LInv ==
  /\ LockTypeOK
  /\ \A p \in Pid : Placed(p) /\ Known(p) /\ Cleared(p)
  /\ LeftByCrash
  /\ ~raced /\ ~shared => \A p \in Pid : HasLock(p)

-----------------------------------------------------------------------------
(* The process that moves is the only one whose state changes; its         *)
(* children lose their parent when it ends.                                *)
LEMMA GotoOthers ==
  ASSUME LockTypeOK, NEW p \in Pid, NEW c \in Calls \cup Off, NEW s \in Steps,
         Goto(p, c, s)
  PROVE  /\ call' \in [Pid -> Calls \cup Off] /\ step' \in [Pid -> Steps]
         /\ kind' \in [Pid -> Kinds \cup {"none"}]
         /\ parent' \in [Pid -> Pid \cup {"nobody"}]
         /\ call'[p] = c /\ step'[p] = s
         /\ c \notin Off => kind' = kind /\ parent' = parent
         /\ \A q \in Pid : q # p =>
              call'[q] = call[q] /\ step'[q] = step[q] /\ kind'[q] = kind[q]
         /\ \A q \in Pid : q # p =>
              parent'[q] = parent[q] \/ (parent[q] = p /\ c \in Off)
BY DEF LockTypeOK, Goto, Orphaned

LEMMA InitLInv == Init => LInv
<1>1. SUFFICES ASSUME Init PROVE LInv
  OBVIOUS
<1>2. LockTypeOK
  <2>1. file \in File
    BY <1>1 DEF Init, File
  <2>2. raced \in BOOLEAN /\ shared \in BOOLEAN /\ beaten \subseteq Pid
        /\ crashed \subseteq Pid
    BY <1>1 DEF Init
  <2>3. faults \in 0 .. MaxFaults
    BY <1>1, LockAssumption DEF Init
  <2>4. /\ kind \in [Pid -> Kinds \cup {"none"}] /\ call \in [Pid -> Calls \cup Off]
        /\ step \in [Pid -> Steps] /\ seen \in [Pid -> File]
        /\ parent \in [Pid -> Pid \cup {"nobody"}]
    BY <1>1 DEF Init, Off, Steps, File
  <2> QED BY <2>1, <2>2, <2>3, <2>4 DEF LockTypeOK
<1>3. \A p \in Pid : Placed(p) /\ Known(p) /\ Cleared(p) /\ HasLock(p)
  BY <1>1 DEF Init, Placed, Known, Cleared, HasLock, Working, Looking
<1>4. LeftByCrash
  BY <1>1 DEF Init, LeftByCrash, NoFile
<1> QED BY <1>2, <1>3, <1>4 DEF LInv

-----------------------------------------------------------------------------
(* A step that leaves the file alone says something of its process only.   *)
LEMMA OthersKeep ==
  ASSUME LInv, NEW p \in Pid, NEW c \in Calls \cup Off, NEW s \in Steps,
         Goto(p, c, s), call[p] \in Off => c \in Off,
         file' = file, raced' = raced, shared => shared',
         \A q \in Pid : q # p => seen'[q] = seen[q] /\ (q \in beaten' <=> q \in beaten)
  PROVE  /\ \A q \in Pid : q # p => (Placed(q) /\ Known(q) /\ Cleared(q))'
         /\ ~raced' /\ ~shared' => \A q \in Pid : q # p => HasLock(q)'
<1> USE DEF LInv, LockTypeOK
<1>1. ASSUME NEW q \in Pid, q # p PROVE (Placed(q) /\ Cleared(q))'
  BY <1>1, GotoOthers DEF Placed, Cleared
<1>2. ASSUME NEW q \in Pid, q # p PROVE Known(q)'
  <2>1. /\ Known(q) /\ step'[q] = step[q] /\ seen'[q] = seen[q]
        /\ (q \in beaten' <=> q \in beaten)
    BY <1>2, GotoOthers
  <2>2. \A r \in Pid : ~Active(r) => ~Active(r)'
    BY GotoOthers DEF Active
  <2>3. parent'[q] = parent[q] \/ (parent[q] = p /\ ~Active(p)')
    BY <1>2, GotoOthers DEF Active
  <2> QED BY <2>1, <2>2, <2>3 DEF Known
<1>3. ASSUME ~raced', ~shared', NEW q \in Pid, q # p PROVE HasLock(q)'
  BY <1>3, GotoOthers DEF HasLock, Working
<1> QED BY <1>1, <1>2, <1>3

(* Steps that leave the file alone, after which a process does not look at *)
(* it, and has no lock unless it was its own.                              *)
LEMMA LeavesAlone ==
  ASSUME LInv, NEW p \in Pid, NEW c \in Calls \cup Off, NEW s \in Steps,
         Goto(p, c, s), call[p] \in Off => c \in Off,
         file' = file, raced' = raced, shared' \in BOOLEAN, shared => shared',
         faults' \in 0 .. MaxFaults,
         seen' \in [Pid -> File], beaten' \subseteq Pid, crashed' \subseteq Pid,
         \A q \in Pid : q # p => seen'[q] = seen[q] /\ (q \in beaten' <=> q \in beaten),
         crashed \subseteq crashed',
         c \in Off => call[p] \in Off \/ p \in crashed' \/ ~(file.by = p /\ file.written),
         c = "fork" => ~(file.by = p /\ file.written),
         \/ s = "look" /\ c \in {"setup", "main", "end"}
         \/ s = "none" /\ c \in {"off", "foreign", "fork", "open"}
         \/ s = "create" /\ c \in {"setup", "main"}
         \/ s = "none" /\ c = "run" /\ kind[p] = "kill"
         \/ s = "none" /\ c = "run" /\ shared'
         \/ s = "none" /\ c = "run" /\ (~raced => file = [by |-> p, written |-> TRUE])
  PROVE  LInv'
<1> USE DEF LInv, LockTypeOK, Off, Looking
<1>1. LockTypeOK'
  BY GotoOthers
<1>2. (Placed(p) /\ Known(p) /\ Cleared(p))'
  <2>1. call'[p] = c /\ step'[p] = s /\ s \in {"look", "none", "create"}
    BY GotoOthers
  <2>2. (Placed(p) /\ Known(p))'
    BY <2>1 DEF Placed, Known
  <2>3. Cleared(p)'
    BY <2>1 DEF Cleared
  <2> QED BY <2>2, <2>3
<1>3. LeftByCrash'
  <2>1. call'[p] = c /\ \A q \in Pid : q # p => call'[q] = call[q]
    BY GotoOthers
  <2>2. ASSUME file.written, file.by = p, c \in Off PROVE p \in crashed'
    BY <2>2 DEF LeftByCrash
  <2> QED BY <2>1, <2>2 DEF LeftByCrash, File, NoFile
<1>4. ASSUME ~raced', ~shared' PROVE HasLock(p)'
  <2>1. call'[p] = c /\ step'[p] = s /\ s \in {"look", "none", "create"}
    BY GotoOthers
  <2>2. Working(p)' => c = "run" /\ kind[p] # "kill"
    BY <2>1, GotoOthers DEF Working
  <2>3. Working(p)' => file = [by |-> p, written |-> TRUE]
    BY <1>4, <2>2
  <2> QED BY <2>1, <2>3 DEF HasLock
<1> QED BY <1>1, <1>2, <1>3, <1>4, OthersKeep

LEMMA LookStep == ASSUME LInv, NEW p \in Pid, Look(p) PROVE LInv'
<1> USE DEF LInv, LockTypeOK, Off, Calls, Steps, Kinds, Looking
<1>1. /\ call[p] \in {"start", "setup", "main", "end"}
      /\ seen' \in [Pid -> File] /\ seen'[p] = file
      /\ \A q \in Pid : q # p => seen'[q] = seen[q]
  BY DEF Look, Placed
<1>2. UNCHANGED <<file, beaten, raced, shared, crashed, faults>>
  BY DEF Look
<1>3. CASE file = NoFile
  <2>1. PICK c \in Calls \cup Off, s \in Steps :
          /\ Goto(p, c, s)
          /\ \/ s = "none" /\ c \in {"off", "fork", "open"}
             \/ s = "create" /\ c \in {"setup", "main"}
    BY <1>1, <1>3 DEF Look, Absent, Deleted, Started, Exit, Step
  <2>2. ~(file.by = p /\ file.written)
    BY <1>3 DEF NoFile
  <2> QED BY <1>1, <1>2, <2>1, <2>2, LeavesAlone
<1>4. CASE file # NoFile /\ Goto(p, call[p], "read")
  <2>1. LockTypeOK'
    BY <1>1, <1>2, <1>4, GotoOthers
  <2>2. (Placed(p) /\ Known(p) /\ Cleared(p))'
    BY <1>1, <1>2, <1>4, GotoOthers DEF Placed, Known, Cleared, File
  <2>3. LeftByCrash'
    BY <1>1, <1>2, <1>4, GotoOthers DEF LeftByCrash, File, NoFile
  <2>4. HasLock(p)'
    BY <1>1, <1>2, <1>4, GotoOthers DEF HasLock, Working
  <2> QED BY <1>1, <1>2, <1>4, <2>1, <2>2, <2>3, <2>4, OthersKeep
<1> QED BY <1>3, <1>4 DEF Look, Step

(* The end of a look at the file that did not find a lock of one's own.    *)
LEMMA RefusedMoves ==
  ASSUME LInv, NEW p \in Pid, Refused(p), call[p] \in {"start", "setup", "main", "end"}
  PROVE  \E c \in Calls \cup Off, s \in Steps :
           /\ Goto(p, c, s)
           /\ \/ s = "none" /\ c \in {"off", "fork", "open"}
              \/ s = "look" /\ c = "end"
BY DEF Refused, Deleted, Started, Exit, Fail, Calls, Off, Steps

LEMMA ForgetOthers ==
  ASSUME LInv, NEW p \in Pid, Forget(p)
  PROVE  /\ seen' \in [Pid -> File] /\ beaten' \subseteq Pid
         /\ \A q \in Pid : q # p => seen'[q] = seen[q] /\ (q \in beaten' <=> q \in beaten)
BY DEF LInv, LockTypeOK, Forget, File

LEMMA ReadStep == ASSUME LInv, NEW p \in Pid, Read(p) PROVE LInv'
<1> USE DEF LInv, LockTypeOK, Off, Calls, Steps, Kinds, Looking
<1>1. call[p] \in {"start", "setup", "main", "end"} /\ step[p] = "read"
  BY DEF Read, Placed
<1>2. UNCHANGED <<file, raced, crashed, faults>>
  BY DEF Read
<1>3. CASE ~seen[p].written /\ Refused(p) /\ Forget(p) /\ UNCHANGED shared
  <2>1. ~(file.by = p /\ file.written)
    BY <1>1, <1>3 DEF Cleared
  <2> QED BY <1>1, <1>2, <1>3, <2>1, RefusedMoves, ForgetOthers, LeavesAlone
<1>4. CASE /\ seen[p].written /\ seen[p].by \in {p, parent[p]}
           /\ call[p] \in {"setup", "main"} /\ Locked(p) /\ Forget(p)
           /\ shared' = (shared \/ seen[p].by # p)
  <2>1. PICK c \in {"main", "run"}, s \in {"look", "none"} :
          Goto(p, c, s) /\ (c = "main" <=> s = "look")
    BY <1>4 DEF Locked
  <2>2. ~raced /\ ~shared' => file = [by |-> p, written |-> TRUE]
    BY <1>1, <1>4 DEF HasLock, File, NoFile
  <2> QED BY <1>1, <1>2, <1>4, <2>1, <2>2, ForgetOthers, LeavesAlone
<1>5. CASE /\ seen[p].written /\ seen[p].by \in {p, parent[p]}
           /\ call[p] \in {"start", "end"} /\ Goto(p, call[p], "remove")
           /\ UNCHANGED <<seen, beaten, shared>>
  <2>1. LockTypeOK'
    BY <1>1, <1>2, <1>5, GotoOthers
  <2>2. (Placed(p) /\ Known(p) /\ Cleared(p))'
    BY <1>1, <1>2, <1>5, GotoOthers DEF Placed, Known, Cleared
  <2>3. LeftByCrash'
    BY <1>1, <1>2, <1>5, GotoOthers DEF LeftByCrash, File, NoFile
  <2>4. ~raced' /\ ~shared' => HasLock(p)'
    BY <1>1, <1>2, <1>5, GotoOthers DEF HasLock, Working, File, NoFile
  <2> QED BY <1>1, <1>2, <1>5, <2>1, <2>2, <2>3, <2>4, OthersKeep
<1>6. CASE /\ seen[p].written /\ seen[p].by \notin {p, parent[p]}
           /\ Goto(p, call[p], "probe") /\ UNCHANGED <<seen, beaten, shared>>
  <2>1. LockTypeOK'
    BY <1>1, <1>2, <1>6, GotoOthers
  <2>2. (Placed(p) /\ Known(p) /\ Cleared(p))'
    BY <1>1, <1>2, <1>6, GotoOthers DEF Placed, Known, Cleared
  <2>3. LeftByCrash'
    BY <1>1, <1>2, <1>6, GotoOthers DEF LeftByCrash, File, NoFile
  <2>4. ~raced' /\ ~shared' => HasLock(p)'
    BY <1>1, <1>2, <1>6, GotoOthers DEF HasLock, Working
  <2> QED BY <1>1, <1>2, <1>6, <2>1, <2>2, <2>3, <2>4, OthersKeep
<1> QED BY <1>3, <1>4, <1>5, <1>6 DEF Read, Exists, Step

LEMMA ProbeStep == ASSUME LInv, NEW p \in Pid, Probe(p) PROVE LInv'
<1> USE DEF LInv, LockTypeOK, Off, Calls, Steps, Kinds, Looking
<1>1. call[p] \in {"start", "setup", "main", "end"} /\ step[p] = "probe"
  BY DEF Probe, Placed
<1>2. UNCHANGED <<file, raced, shared, crashed, faults>>
  BY DEF Probe
<1>3. ~(file.by = p /\ file.written)
  BY <1>1 DEF Cleared
<1>4. CASE Refused(p) /\ Forget(p)
  BY <1>1, <1>2, <1>3, <1>4, RefusedMoves, ForgetOthers, LeavesAlone
<1>5. CASE /\ call[seen[p].by] = "off"
           /\ Goto(p, call[p], "unlink") /\ UNCHANGED <<seen, beaten>>
  <2>1. LockTypeOK'
    BY <1>1, <1>2, <1>5, GotoOthers
  <2>2. (Placed(p) /\ Known(p) /\ Cleared(p))'
    <3>1. seen[p].by \in Pid /\ seen[p].by # p
      BY <1>1 DEF Known
    <3>2. ~Active(seen[p].by)'
      BY <1>1, <1>5, <3>1, GotoOthers DEF Active
    <3> QED BY <1>1, <1>2, <1>3, <1>5, <3>1, <3>2, GotoOthers DEF Placed, Known, Cleared
  <2>3. LeftByCrash'
    BY <1>1, <1>2, <1>5, GotoOthers DEF LeftByCrash, File, NoFile
  <2>4. ~raced' /\ ~shared' => HasLock(p)'
    BY <1>1, <1>2, <1>5, GotoOthers DEF HasLock, Working
  <2> QED BY <1>1, <1>2, <1>5, <2>1, <2>2, <2>3, <2>4, OthersKeep
<1> QED BY <1>4, <1>5 DEF Probe, Step

-----------------------------------------------------------------------------
(* The file goes away.  If no lock in use was removed or taken over, it    *)
(* was nobody's lock but the remover's.                                    *)
LEMMA RemovedStep ==
  ASSUME LInv, NEW p \in Pid, NEW c \in Calls \cup Off, NEW s \in Steps,
         Goto(p, c, s), Unlinked(p), Forget(p), UNCHANGED <<crashed, faults>>,
         step[p] \in {"unlink", "remove"},
         \/ s = "none" /\ c \in {"off", "fork", "open"}
         \/ s = "create" /\ c \in {"setup", "main"}
  PROVE  LInv'
<1>0. /\ call'[p] = c /\ step'[p] = s
      /\ \A q \in Pid : q # p =>
           call'[q] = call[q] /\ step'[q] = step[q] /\ kind'[q] = kind[q]
  BY GotoOthers DEF LInv
<1> USE DEF LInv, LockTypeOK, Off, Looking
<1>1. /\ file' = NoFile /\ raced' \in BOOLEAN /\ shared' \in BOOLEAN
      /\ (raced => raced') /\ (shared => shared')
  BY DEF Unlinked
<1>2. LockTypeOK'
  BY <1>1, GotoOthers, ForgetOthers DEF File
<1>3. \A q \in Pid : (Placed(q) /\ Cleared(q))'
  <2>1. \A q \in Pid : Placed(q)'
    <3>1. Placed(p)'
      <4>1. call'[p] = c /\ step'[p] = s
        BY <1>0
      <4> QED BY <4>1 DEF Placed
    <3>2. ASSUME NEW q \in Pid, q # p PROVE Placed(q)'
      <4>1. call'[q] = call[q] /\ step'[q] = step[q]
        BY <3>2, <1>0
      <4> QED BY <4>1 DEF Placed
    <3> QED BY <3>1, <3>2
  <2>2. \A q \in Pid : Cleared(q)'
    BY <1>1, ForgetOthers DEF Cleared, NoFile
  <2> QED BY <2>1, <2>2
<1>4. \A q \in Pid : Known(q)'
  BY <1>1, GotoOthers, ForgetOthers DEF Known
<1>5. LeftByCrash'
  BY <1>1 DEF LeftByCrash, NoFile
<1>6. ASSUME ~raced', ~shared', NEW q \in Pid PROVE HasLock(q)'
  <2>1. CASE q = p
    BY <2>1, GotoOthers DEF HasLock, Working
  <2>2. CASE q # p
    <3>1. file = NoFile \/ ~Active(file.by) \/ file.by = p
      <4>1. SUFFICES ASSUME file # NoFile, Active(file.by), file.by # p PROVE FALSE
        OBVIOUS
      <4>2. p \notin beaten /\ file.by # parent[p]
        BY <1>6, <4>1 DEF Unlinked
      <4> QED BY <4>1, <4>2 DEF Known
    <3>2. HasLock(q) /\ Placed(q) /\ Known(q)
      BY <1>1, <1>6
    <3>3. \/ step[q] = "read" /\ seen[q].by = q
          \/ step[q] = "write" \/ (step[q] = "remove" /\ seen[q].by = q) \/ Working(q)
          => file.by = q /\ file # NoFile /\ Active(q)
      BY <3>2, LockAssumption DEF HasLock, Working, Placed, Active, NoFile
    <3>4. ~ \/ step[q] = "read" /\ seen[q].by = q
            \/ step[q] = "write" \/ (step[q] = "remove" /\ seen[q].by = q) \/ Working(q)
      BY <2>2, <3>1, <3>3
    <3>5. call'[q] = call[q] /\ step'[q] = step[q] /\ kind'[q] = kind[q]
      BY <2>2, <1>0
    <3>6. seen'[q] = seen[q]
      BY <2>2, ForgetOthers
    <3> QED BY <3>4, <3>5, <3>6 DEF HasLock, Working
  <2> QED BY <2>1, <2>2
<1> QED BY <1>2, <1>3, <1>4, <1>5, <1>6

LEMMA UnlinkStep == ASSUME LInv, NEW p \in Pid, Unlink(p) PROVE LInv'
<1> USE DEF LInv, LockTypeOK, Off, Calls, Steps, Kinds
<1>1. call[p] \in {"start", "setup", "main", "end"} /\ step[p] = "unlink"
  BY DEF Unlink, Placed
<1>2. CASE file # NoFile /\ Unlinked(p) /\ Absent(p)
  <2>1. \E c \in Calls \cup Off, s \in Steps :
          /\ Goto(p, c, s)
          /\ \/ s = "none" /\ c \in {"off", "fork", "open"}
             \/ s = "create" /\ c \in {"setup", "main"}
    BY <1>1, <1>2 DEF Absent, Deleted, Started, Exit, Step
  <2> QED BY <1>1, <1>2, <2>1, RemovedStep DEF Unlink
<1>3. CASE file = NoFile /\ Refused(p) /\ UNCHANGED <<file, raced, shared>>
  <2>1. ~(file.by = p /\ file.written)
    BY <1>3 DEF NoFile
  <2> QED BY <1>1, <1>3, <2>1, RefusedMoves, ForgetOthers, LeavesAlone DEF Unlink
<1> QED BY <1>2, <1>3 DEF Unlink

LEMMA RemoveStep == ASSUME LInv, NEW p \in Pid, Remove(p) PROVE LInv'
<1>1. \E c \in {"fork", "open", "off"} : Goto(p, c, "none")
  <2>1. call[p] \in {"start", "end"}
    BY DEF Remove, LInv, Placed
  <2> QED BY <2>1 DEF Remove, Deleted, Started, Exit
<1> QED BY <1>1, RemovedStep DEF Remove, Off, Calls, Steps

LEMMA CreateStep == ASSUME LInv, NEW p \in Pid, Create(p) PROVE LInv'
<1> USE DEF LInv, LockTypeOK, Off, Calls, Steps, Kinds, Looking
<1>1. /\ call[p] \in {"setup", "main"} /\ step[p] = "create"
      /\ UNCHANGED <<seen, raced, shared, crashed, faults>>
  BY DEF Create, Placed
<1>2. CASE /\ file = NoFile /\ file' = [by |-> p, written |-> FALSE]
           /\ Goto(p, call[p], "write") /\ beaten' = Outdated(p)
  <2>1. LockTypeOK'
    BY <1>1, <1>2, GotoOthers DEF File, Outdated
  <2>2. \A q \in Pid : (Placed(q) /\ Cleared(q))'
    BY <1>1, <1>2, GotoOthers DEF Placed, Cleared
  <2>3. \A q \in Pid : Known(q)'
    <3>1. \A q \in Pid : q # p /\ step[q] \in Looking => q \in beaten'
      BY <1>2 DEF Outdated
    <3> QED BY <1>1, <1>2, <3>1, GotoOthers DEF Known
  <2>4. LeftByCrash'
    BY <1>2 DEF LeftByCrash
  <2>5. ASSUME ~raced', ~shared', NEW q \in Pid PROVE HasLock(q)'
    <3>1. HasLock(q) /\ Known(q)
      BY <1>1, <2>5
    <3>2. CASE q # p
      BY <1>1, <1>2, <3>1, <3>2, GotoOthers, LockAssumption
      DEF HasLock, Working, Known, NoFile
    <3>3. CASE q = p
      BY <1>1, <1>2, <3>3, GotoOthers DEF HasLock, Working
    <3> QED BY <3>2, <3>3
  <2> QED BY <2>1, <2>2, <2>3, <2>4, <2>5
<1>3. CASE Goto(p, "end", "look") /\ UNCHANGED <<file, beaten>>
  BY <1>1, <1>3, LeavesAlone
<1> QED BY <1>1, <1>2, <1>3 DEF Create, Refused, Deleted, Fail, Step

LEMMA WriteStep == ASSUME LInv, NEW p \in Pid, Write(p) PROVE LInv'
<1> USE DEF LInv, LockTypeOK, Off, Calls, Steps, Kinds, Looking
<1>1. /\ call[p] \in {"setup", "main"} /\ step[p] = "write"
      /\ UNCHANGED <<beaten, raced, shared, crashed, faults>>
  BY DEF Write, Placed
<1>2. CASE /\ file' = IF file.by = p THEN [file EXCEPT !.written = TRUE] ELSE file
           /\ seen' = [q \in Pid |-> IF step[q] = "read" /\ seen[q].by = p
                                       THEN [seen[q] EXCEPT !.written = TRUE]
                                       ELSE seen[q]]
           /\ Locked(p)
  <2>1. PICK c \in {"main", "run"}, s \in {"look", "none"} :
          Goto(p, c, s) /\ (c = "main" <=> s = "look")
    BY <1>2 DEF Locked
  <2>2. /\ file' \in File
        /\ file.by = p => file' = [by |-> p, written |-> TRUE]
        /\ file.by # p => file' = file
        /\ file'.by = file.by /\ (file' = NoFile <=> file = NoFile)
    <3>1. CASE file.by = p
      <4>1. file = [by |-> p, written |-> file.written]
        BY <3>1, LockAssumption DEF File, NoFile
      <4>2. file' = [by |-> p, written |-> TRUE]
        BY <1>2, <3>1, <4>1
      <4> QED BY <3>1, <4>1, <4>2, LockAssumption DEF File, NoFile
    <3>2. CASE file.by # p
      BY <1>2, <3>2
    <3> QED BY <3>1, <3>2
  <2>3. \A q \in Pid : /\ seen'[q] \in File
                       /\ seen'[q].by = seen[q].by
                       /\ seen[q].by # p => seen'[q] = seen[q]
                       /\ step[q] # "read" => seen'[q] = seen[q]
                       /\ seen'[q].written => seen[q].written \/ seen[q].by = p
    <3>1. SUFFICES ASSUME NEW q \in Pid
                   PROVE  /\ seen'[q] \in File
                          /\ seen'[q].by = seen[q].by
                          /\ seen[q].by # p => seen'[q] = seen[q]
                          /\ step[q] # "read" => seen'[q] = seen[q]
                          /\ seen'[q].written => seen[q].written \/ seen[q].by = p
      OBVIOUS
    <3>2. CASE step[q] = "read" /\ seen[q].by = p
      <4>1. seen'[q] = [seen[q] EXCEPT !.written = TRUE]
        BY <1>2, <3>2
      <4>2. seen[q] \in [by : Pid, written : BOOLEAN]
        <5>1. seen[q] \in File
          OBVIOUS
        <5> QED BY <3>2, <5>1, LockAssumption DEF File, NoFile
      <4>3. seen'[q] = [by |-> p, written |-> TRUE]
        BY <3>2, <4>1, <4>2
      <4> QED BY <3>2, <4>3 DEF File
    <3>3. CASE ~(step[q] = "read" /\ seen[q].by = p)
      BY <1>2, <3>3
    <3> QED BY <3>2, <3>3
  <2>4. LockTypeOK'
    <3>1. seen' \in [Pid -> File]
      BY <1>2, <2>3
    <3> QED BY <1>1, <2>1, <2>2, <3>1, GotoOthers
  <2>5. \A q \in Pid : Placed(q)'
    BY <1>1, <2>1, GotoOthers DEF Placed
  <2>6. \A q \in Pid : Cleared(q)'
    BY <1>1, <2>1, <2>2, <2>3, GotoOthers DEF Cleared
  <2>7. \A q \in Pid : Known(q)'
    <3>1. parent' = parent /\ \A q \in Pid : Active(q)' <=> Active(q)
      BY <1>1, <2>1, GotoOthers DEF Active
    <3> QED BY <1>1, <2>1, <2>2, <2>3, <3>1, GotoOthers DEF Known
  <2>8. LeftByCrash'
    BY <1>1, <2>1, <2>2, GotoOthers DEF LeftByCrash, File, NoFile
  <2>9. ASSUME ~raced', ~shared', NEW q \in Pid PROVE HasLock(q)'
    <3>1. file = [by |-> p, written |-> FALSE] /\ HasLock(q) /\ Known(q)
      BY <1>1, <2>9 DEF HasLock
    <3>2. CASE q # p
      BY <1>1, <2>1, <2>3, <3>1, <3>2, GotoOthers DEF HasLock, Working, Known
    <3>3. CASE q = p
      BY <1>1, <2>1, <2>2, <3>1, <3>3, GotoOthers DEF HasLock, Working
    <3> QED BY <3>2, <3>3
  <2> QED BY <2>4, <2>5, <2>6, <2>7, <2>8, <2>9
<1>3. CASE Goto(p, "end", "look") /\ UNCHANGED <<file, seen>>
  BY <1>1, <1>3, LeavesAlone
<1> QED BY <1>1, <1>2, <1>3 DEF Write, Refused, Deleted, Fail

-----------------------------------------------------------------------------
LEMMA OpenStep == ASSUME LInv, NEW p \in Pid, Open(p) PROVE LInv'
<1>1. PICK c \in Calls, s \in Steps :
        /\ Goto(p, c, s)
        /\ \/ s = "look" /\ c \in {"setup", "main", "end"}
           \/ s = "none" /\ c = "run" /\ kind[p] = "kill"
  <2>1. CASE Fail(p)
    BY <2>1 DEF Fail, Calls, Steps
  <2>2. CASE ~Fail(p)
    <3>1. kind[p] = "kill" => Goto(p, "run", "none")
      BY <2>2 DEF Open
    <3>2. kind[p] # "kill" /\ Serial => Goto(p, "setup", "look")
      BY <2>2 DEF Open
    <3>3. kind[p] = "daemon" /\ ~Serial => Goto(p, "main", "look")
      BY <2>2 DEF Open
    <3>4. kind[p] = "kill" \/ Serial \/ kind[p] = "daemon"
      BY <2>2 DEF Open
    <3> QED BY <3>1, <3>2, <3>3, <3>4 DEF Calls, Steps
  <2> QED BY <2>1, <2>2
<1>2. faults' \in 0 .. MaxFaults
  <2>1. Fault \/ faults' = faults
    BY DEF Open
  <2> QED BY <2>1, LockAssumption DEF LInv, LockTypeOK, Fault
<1>3. UNCHANGED <<file, seen, beaten, raced, shared, crashed>> /\ call[p] = "open"
  BY DEF Open
<1> QED
  BY <1>1, <1>2, <1>3, LeavesAlone DEF LInv, LockTypeOK, Off, Calls

LEMMA EndStep ==
  ASSUME LInv, NEW p \in Pid,
         Stop(p) \/ Interrupt(p) \/ Crash(p) \/ Reuse(p)
  PROVE  LInv'
<1> USE DEF LInv, LockTypeOK, Off, Calls, Steps
<1>1. Fault => faults' \in 0 .. MaxFaults
  BY LockAssumption DEF Fault
<1>2. CASE Stop(p)
  BY <1>2, LeavesAlone DEF Stop, Fail
<1>3. CASE Interrupt(p)
  BY <1>1, <1>3, ForgetOthers, LeavesAlone DEF Interrupt, Fail
<1>4. CASE Crash(p)
  BY <1>1, <1>4, ForgetOthers, LeavesAlone DEF Crash, Exit
<1>5. CASE Reuse(p)
  BY <1>5, LeavesAlone DEF Reuse, Exit
<1> QED BY <1>2, <1>3, <1>4, <1>5

(* A pid comes into use again, another goes out of use or none does:       *)
(* whoever found it dead is beaten.                                        *)
LEMMA Born ==
  ASSUME LInv, NEW p \in Pid \cup {"nobody"}, NEW b \in Pid, p # b,
         call[b] = "off", file' = file, seen' = seen, raced' = raced,
         shared' = shared, faults' = faults, beaten' = Reborn(b),
         crashed' = crashed \ {b},
         call' \in [Pid -> Calls \cup Off], step' \in [Pid -> Steps],
         kind' \in [Pid -> Kinds \cup {"none"}],
         parent' \in [Pid -> Pid \cup {"nobody"}],
         \A q \in Pid : q # b /\ q # p =>
           /\ call'[q] = call[q] /\ step'[q] = step[q] /\ kind'[q] = kind[q]
           /\ parent'[q] = parent[q] \/ (parent[q] = p /\ p \in Pid),
         \/ call'[b] = "start" /\ step'[b] = "look"
         \/ call'[b] = "open" /\ step'[b] = "none",
         p \in Pid => call[p] = "fork" /\ call'[p] = "off" /\ step'[p] = "none"
  PROVE  LInv'
<1> USE DEF LInv, LockTypeOK, Off, Looking
<1>1. LockTypeOK'
  BY DEF Reborn
<1>2. \A q \in Pid : (Placed(q) /\ Cleared(q))'
  BY DEF Placed, Cleared
<1>3. ASSUME NEW q \in Pid PROVE Known(q)'
  <2>1. CASE q = p \/ q = b
    BY <2>1 DEF Known
  <2>2. CASE q # p /\ q # b
    <3>1. Known(q)
      OBVIOUS
    <3>2. q \notin beaten' => /\ q \notin beaten
                              /\ step[q] \in {"unlink", "remove"} => seen[q].by # b
      BY DEF Reborn
    <3>3. \A r \in Pid : r # b /\ ~Active(r) => ~Active(r)'
      BY DEF Active
    <3>4. parent'[q] = parent[q] \/ (p \in Pid /\ parent[q] = p /\ ~Active(p)')
      BY <2>2 DEF Active
    <3> QED BY <2>2, <3>1, <3>2, <3>3, <3>4 DEF Known
  <2> QED BY <2>1, <2>2
<1>4. LeftByCrash'
  BY DEF LeftByCrash, Cleared, File, NoFile
<1>5. ~raced' /\ ~shared' => \A q \in Pid : HasLock(q)'
  BY DEF HasLock, Working, Placed
<1> QED BY <1>1, <1>2, <1>3, <1>4, <1>5

LEMMA StartStep == ASSUME LInv, NEW p \in Pid, Start(p) PROVE LInv'
<1>1. /\ call[p] = "off" /\ call'[p] = "start" /\ step'[p] = "look"
      /\ call' \in [Pid -> Calls \cup Off] /\ step' \in [Pid -> Steps]
      /\ \A q \in Pid : q # p => call'[q] = call[q] /\ step'[q] = step[q]
  BY DEF Start, LInv, LockTypeOK, Calls, Steps
<1>2. /\ kind' \in [Pid -> Kinds \cup {"none"}]
      /\ \A q \in Pid : q # p => kind'[q] = kind[q]
  BY DEF Start, LInv, LockTypeOK, Kinds
<1>3. /\ parent' \in [Pid -> Pid \cup {"nobody"}]
      /\ \A q \in Pid : q # p => parent'[q] = parent[q]
  <2>1. Parents(p) \subseteq Pid \cup {"nobody"}
    BY DEF Parents
  <2> QED BY <2>1 DEF Start, LInv, LockTypeOK
<1>4. /\ file' = file /\ seen' = seen /\ raced' = raced /\ shared' = shared
      /\ faults' = faults /\ beaten' = Reborn(p) /\ crashed' = crashed \ {p}
  BY DEF Start
<1>5. "nobody" \in Pid \cup {"nobody"} /\ "nobody" \notin Pid
  BY LockAssumption
<1>6. \A q \in Pid : q # p /\ q # "nobody" =>
        /\ call'[q] = call[q] /\ step'[q] = step[q] /\ kind'[q] = kind[q]
        /\ parent'[q] = parent[q] \/ (parent[q] = "nobody" /\ "nobody" \in Pid)
  BY <1>1, <1>2, <1>3
<1>7. \/ call'[p] = "start" /\ step'[p] = "look"
      \/ call'[p] = "open" /\ step'[p] = "none"
  BY <1>1
<1> QED BY <1>1, <1>2, <1>3, <1>4, <1>5, <1>6, <1>7, Born

LEMMA ForkStep == ASSUME LInv, NEW p \in Pid, Fork(p) PROVE LInv'
<1>1. CASE Goto(p, "open", "none") /\ UNCHANGED <<crashed, beaten>>
  BY <1>1, LeavesAlone DEF Fork, LInv, LockTypeOK, Off, Calls, Steps
<1>2. CASE \E q \in Pid :
             /\ call[q] = "off"
             /\ call' = [call EXCEPT ![p] = "off", ![q] = "open"]
             /\ kind' = [kind EXCEPT ![p] = "none", ![q] = kind[p]]
             /\ parent' = Orphaned(p)
             /\ crashed' = crashed \ {q}
             /\ beaten' = Reborn(q)
             /\ UNCHANGED step
  <2>1. PICK b \in Pid :
          /\ call[b] = "off" /\ b # p
          /\ call' = [call EXCEPT ![p] = "off", ![b] = "open"]
          /\ kind' = [kind EXCEPT ![p] = "none", ![b] = kind[p]]
          /\ parent' = Orphaned(p)
          /\ crashed' = crashed \ {b}
          /\ beaten' = Reborn(b)
          /\ UNCHANGED step
    BY <1>2 DEF Fork
  <2>2. /\ call' \in [Pid -> Calls \cup Off] /\ call'[b] = "open" /\ call'[p] = "off"
        /\ kind' \in [Pid -> Kinds \cup {"none"}]
        /\ \A q \in Pid : q # b /\ q # p => call'[q] = call[q] /\ kind'[q] = kind[q]
    BY <2>1 DEF LInv, LockTypeOK, Off, Calls
  <2>3. /\ parent' \in [Pid -> Pid \cup {"nobody"}]
        /\ \A q \in Pid : q # p => parent'[q] = parent[q] \/ parent[q] = p
    BY <2>1 DEF LInv, LockTypeOK, Orphaned
  <2>4. call[p] = "fork" /\ step[b] = "none" /\ step[p] = "none" /\ step' \in [Pid -> Steps]
    BY <2>1 DEF Fork, LInv, LockTypeOK, Placed
  <2> QED BY <2>1, <2>2, <2>3, <2>4, Born DEF Fork
<1> QED BY <1>1, <1>2 DEF Fork

-----------------------------------------------------------------------------
LEMMA LInvStep == LInv /\ [Next]_vars => LInv'
<1>1. LInv /\ UNCHANGED vars => LInv'
  BY DEF vars, procVars, LInv, LockTypeOK, Placed, Known, Cleared, LeftByCrash, HasLock,
     Working, Active
<1>2. ASSUME LInv, NEW p \in Pid,
             \/ Run(p) \/ Start(p) \/ Stop(p)
             \/ Interrupt(p) \/ Crash(p) \/ Reuse(p)
      PROVE  LInv'
  BY <1>2, LookStep, ReadStep, ProbeStep, UnlinkStep, CreateStep, WriteStep, RemoveStep,
     ForkStep, OpenStep, EndStep, StartStep DEF Run
<1> QED BY <1>1, <1>2 DEF Next

LEMMA Invariance == Spec => []LInv
BY InitLInv, LInvStep, PTL DEF Spec

(* Type correctness, for any set of pids.                                  *)
THEOREM LockTypeCorrect == Spec => []LockTypeOK
<1>1. LInv => LockTypeOK
  BY DEF LInv
<1> QED BY <1>1, Invariance, PTL

(* Two programs work on the port only if a process that was beaten removed *)
(* the lock of one, or a child took its parent's (check_stale_lockfile).   *)
THEOREM OneOwnerUnlessRaced == Spec => []OneOwner
<1>1. LInv => OneOwner
  <2>1. SUFFICES ASSUME LInv, ~raced, ~shared, NEW p \in Pid, NEW q \in Pid,
                        Working(p), Working(q)
                 PROVE  p = q
    BY DEF OneOwner, OnePort
  <2>2. file.by = p /\ file.by = q
    BY <2>1 DEF LInv, HasLock
  <2> QED BY <2>2
<1> QED BY <1>1, Invariance, PTL

(* A lock that has no process was left by a crash.                         *)
THEOREM OnlyCrashesLeaveLocks == Spec => []LeftByCrash
<1>1. LInv => LeftByCrash
  BY DEF LInv
<1> QED BY <1>1, Invariance, PTL

-----------------------------------------------------------------------------
(* The kill-power run.  Where each way to hibernate is still to come.      *)
First == Startup \cup Walk \cup {"APCDelay"}
ToCome(m) ==
  CASE "APCDelay" \in m -> First
    [] "DWAKE" \in m -> First \cup {"DWAKE", "Delay"}
    [] "BUPHibernate" \in m ->
         UsbAt \ {"unBUPHibernate", "Reboot", "Force", "Shutdown"}
    [] "Reboot" \in m -> UsbAt \ {"Force", "Shutdown"}
    [] "Force" \in m -> UsbAt \ {"Shutdown"}

(* It cannot be done, or was tried in vain.                                *)
GivenUp(m) == ~(m \subseteq caps) \/ m \cap failed # {}

(* The USB driver goes through the ways in order, and stops at the first   *)
(* write that counts.                                                      *)
UsbOrder ==
  /\ \A m \in Method : at \in UsbAt \ ToCome(m) => GivenUp(m)
  /\ at = "done" /\ pwrfail => Fate = "hibernate" \/ \A m \in Method : GivenUp(m)
  /\ countdown # "none" => at = "done"

(* A flag is set only while its second half is due, or its reset failed.   *)
UsbFlags ==
  /\ at = "Delay" => "DWAKE" \in armed
  /\ at = "BUPSelfTest" => "BUPHibernate" \in armed
  /\ "DWAKE" \in armed => \/ at \in {"Delay", "unDWAKE"} \/ countdown = "Delay"
                          \/ "unDWAKE" \in failed
  /\ "BUPSelfTest" \in failed =>
       /\ at \in {"unBUPHibernate", "Reboot", "Force", "Shutdown", "done"}
       /\ "BUPHibernate" \in armed =>
            at = "unBUPHibernate" \/ "unBUPHibernate" \in failed

(* The UPS has not got more of a command than was sent of it.              *)
Sending == {"S", "@1", "@2", "K"}
LineInStep ==
  /\ partial <= sent
  /\ IF at \in Sending THEN sent < Length(at) ELSE sent = 0

(* Answers to commands are in the line only where they are waited for, one *)
(* at a time, and an agreement is read before anything else is sent.       *)
Awaited == {"S?", "@1?", "@2?", "K?"}
Verdicts == {i \in DOMAIN out : out[i] # "data"}
AnswersInStep ==
  /\ at \notin Awaited \cup {"done"} => Verdicts = {}
  /\ at # "done" => \A i, j \in Verdicts : i = j
  /\ countdown = "hibernate" /\ at # "done" =>
       at \in Awaited \ {"K?"} /\ \E i \in Verdicts : Acknowledges(at, out[i])

KInv ==
  /\ KillTypeOK
  /\ driver = "usb" => at \in UsbAt \cup {"check", "done"} /\ mode = "SMART"
  /\ driver = "smart" => at \in SmartAt \cup {"check", "done"} /\ mode = "SMART"
  /\ driver = "dumb" => at \in {"check", "done"}
  /\ at = "check" => countdown = "none" /\ armed = {} /\ failed = {}
  /\ at \in Walk => left <= setting[at]
  /\ driver # "usb" => armed = {}
  /\ driver = "usb" /\ ~misled => UsbOrder /\ UsbFlags
  /\ driver = "smart" => LineInStep /\ countdown # "Delay"
  /\ driver = "smart" /\ ~misled => AnswersInStep

-----------------------------------------------------------------------------
LEMMA KillInitInv == KillInit => KInv
<1>1. SUFFICES ASSUME KillInit PROVE KInv
  OBVIOUS
<1>2. /\ at = "check" /\ countdown = "none" /\ failed = {} /\ misled = FALSE
      /\ armed = {} /\ left = 0
      /\ sent = 0 /\ partial = 0 /\ response = "none" /\ out = <<>> /\ asked = FALSE
  BY <1>1 DEF KillInit
<1>3. KillTypeOK
  <2>1. caps \subseteq Usage \cup Command \cup {"bit"}
    BY <1>1 DEF KillInit
  <2>2. /\ driver \in {"usb", "smart", "dumb"} /\ mode \in {"BK", "SHAREBASIC", "SMART"}
        /\ pwrfail \in BOOLEAN /\ onbatt \in BOOLEAN /\ setting \in [Walk -> 0 .. 3]
    BY <1>1 DEF KillInit
  <2>3. out \in Seq(Answer)
    BY <1>2
  <2>4. left \in 0 .. 3 /\ sent \in 0 .. 3 /\ partial \in 0 .. 3
    BY <1>2
  <2> QED BY <1>2, <2>1, <2>2, <2>3, <2>4, Zenon DEF KillTypeOK
<1>4. /\ driver \in {"usb", "smart"} => mode = "SMART"
  BY <1>1 DEF KillInit
<1>5. UsbOrder /\ UsbFlags
  BY <1>2 DEF UsbOrder, UsbFlags, UsbAt, Startup
<1>6. LineInStep /\ AnswersInStep
  BY <1>2 DEF LineInStep, AnswersInStep, Sending, Awaited, Verdicts
<1> QED BY <1>2, <1>3, <1>4, <1>5, <1>6 DEF KInv, Walk

LEMMA KillCheckStep == ASSUME KInv, Check PROVE KInv'
<1>1. /\ at = "check" /\ at' \in {"RETPCT", "D", "done"} /\ KillTypeOK
      /\ driver = "usb" => at' \in {"RETPCT", "done"} /\ countdown' = countdown
      /\ driver = "smart" => at' \in {"D", "done"} /\ countdown' = countdown
      /\ driver = "dumb" => at' = "done"
      /\ countdown' \in {countdown, "hibernate"}
      /\ driver = "usb" /\ at' = "done" => ~pwrfail
      /\ left' = 0
      /\ UNCHANGED <<config, onbatt, failed, misled, armed, setting, lineVars>>
  BY DEF Check, KInv, KillTypeOK, Allowed, HasBit, Reads, Walk
<1>2. KillTypeOK'
  BY <1>1 DEF KillTypeOK, config, lineVars, UsbAt, SmartAt, Walk, Startup
<1>3. driver = "usb" /\ ~misled => (UsbOrder /\ UsbFlags)'
  BY <1>1 DEF KInv, UsbOrder, UsbFlags, ToCome, First, Method, UsbAt, Startup, config
<1>4. driver = "smart" => LineInStep' /\ countdown' # "Delay"
  BY <1>1 DEF KInv, LineInStep, Sending, lineVars
<1>5. driver = "smart" /\ ~misled => AnswersInStep'
  BY <1>1 DEF KInv, AnswersInStep, Awaited, Verdicts, lineVars
<1> QED
  BY <1>1, <1>2, <1>3, <1>4, <1>5 DEF KInv, UsbAt, SmartAt, Walk, Startup, config, KillTypeOK

(* A step that leads on to the next leaves a way behind it that the UPS    *)
(* lacks, or for which this or an earlier write has failed.                *)
LEMMA OnwardGivesUp ==
  ASSUME KInv, UsbOrder, UsbFlags, at \in UsbAt, NEW m \in Method,
         Onward(at) \notin ToCome(m)
  PROVE  GivenUp(m) \/ (at \in m /\ Needs(at) \in {m, {}})
<1>1. CASE at \notin ToCome(m)
  BY <1>1 DEF UsbOrder
<1>2. CASE at \in ToCome(m)
  <2>1. at \in m
    <3>1. CASE m \in {{"APCDelay"}, {"DWAKE", "Delay"}}
      BY <1>2, <3>1 DEF ToCome, First, Onward, UsbAt, Startup, Walk
    <3>2. CASE m \in {{"BUPHibernate", "BUPSelfTest"}, {"Reboot"}, {"Force"}}
      BY <1>2, <3>2 DEF ToCome, First, Onward, UsbAt, Startup
    <3> QED BY <3>1, <3>2 DEF Method
  <2>2. at \in m => Needs(at) \in {m, {}}
    BY DEF Needs, Method, Walk
  <2> QED BY <2>1, <2>2
<1> QED BY <1>1, <1>2

LEMMA UsbOrderNext ==
  ASSUME at' \in UsbAt \cup {"done"},
         \A m \in Method : at' \notin ToCome(m) => at' = "done" \/ GivenUp(m)',
         at' = "done" /\ pwrfail' =>
           Fate' = "hibernate" \/ \A m \in Method : GivenUp(m)',
         countdown' # "none" => at' = "done"
  PROVE  UsbOrder'
BY DEF UsbOrder, ToCome, First, UsbAt, Startup

(* A write: done, refused, or done and reported as refused.                *)
LEMMA UsbWriteStep == ASSUME KInv, UsbWrite PROVE KInv'
<1>1. /\ at \in UsbAt \ (Walk \cup Startup) /\ KillTypeOK /\ driver = "usb" /\ mode = "SMART"
      /\ UNCHANGED <<config, onbatt, setting, left, lineVars>>
  BY DEF UsbWrite, KInv, KillTypeOK, UsbAt, Startup, SmartAt
<1>2. at' \in UsbAt \cup {"done"} /\ at' \notin Walk \cup Startup
  BY <1>1 DEF UsbWrite, Succeeded, Onward, UsbAt, Startup, Walk
<1>3. KillTypeOK'
  <2>1. /\ armed' \subseteq Flag /\ failed' \subseteq UsbAt /\ misled' \in BOOLEAN
        /\ countdown' \in {"none", "hibernate", "Delay", "off"}
    BY <1>1 DEF UsbWrite, Effect, KillTypeOK, Flag
  <2> QED BY <1>1, <1>2, <2>1, Zenon DEF KillTypeOK, config, lineVars
<1>4. ~misled' => (UsbOrder /\ UsbFlags)'
  <2>1. SUFFICES ASSUME ~misled' PROVE (UsbOrder /\ UsbFlags)'
    OBVIOUS
  <2>2. /\ ~misled /\ UsbOrder /\ UsbFlags /\ Needs(at) \subseteq caps /\ caps' = caps
        /\ pwrfail' = pwrfail
        /\ \/ Effect(at) /\ at' = Succeeded(at) /\ failed' = failed
           \/ /\ at' = Onward(at) /\ failed' = failed \cup {at}
              /\ UNCHANGED <<armed, countdown>>
    BY <1>1, <2>1 DEF UsbWrite, KInv, KillTypeOK, config
  <2>3. CASE Effect(at) /\ at' = Succeeded(at) /\ failed' = failed
    <3>1. UsbFlags'
      BY <1>1, <2>2, <2>3 DEF UsbFlags, UsbOrder, Effect, Succeeded, Onward, UsbAt, Startup, Walk, Flag
    <3>2. countdown = "none"
      BY <1>1, <2>2 DEF UsbOrder, UsbAt, Startup
    <3>3. CASE at \in {"DWAKE", "BUPHibernate", "unDWAKE", "unBUPHibernate"}
      <4>1. /\ at' \in {"Delay", "BUPHibernate", "BUPSelfTest", "Reboot"}
            /\ countdown' = "none"
        BY <2>3, <3>2, <3>3 DEF Effect, Succeeded, Onward
      <4>2. ASSUME NEW m \in Method, at' \notin ToCome(m) PROVE GivenUp(m)'
        <5>1. at \in UsbAt \ ToCome(m)
          BY <1>1, <2>3, <3>3, <4>1, <4>2 DEF Succeeded, Onward, ToCome, First, Method, UsbAt, Startup
        <5> QED BY <2>2, <2>3, <5>1 DEF UsbOrder, GivenUp
      <4> QED BY <1>2, <3>1, <4>1, <4>2, UsbOrderNext
    <3>4. CASE at \notin {"DWAKE", "BUPHibernate", "unDWAKE", "unBUPHibernate"}
      <4>1. at' = "done"
        BY <1>1, <2>3, <3>4 DEF Succeeded
      <4>2. CASE at = "Shutdown"
        <5>1. ASSUME NEW m \in Method PROVE GivenUp(m)'
          <6>1. at \in UsbAt \ ToCome(m)
            BY <1>1, <4>2 DEF ToCome, First, Method, UsbAt, Startup
          <6> QED BY <2>2, <2>3, <6>1 DEF UsbOrder, GivenUp
        <5> QED BY <1>2, <3>1, <4>1, <5>1, UsbOrderNext
      <4>3. CASE at # "Shutdown"
        <5>1. Fate' = "hibernate"
          BY <1>1, <2>2, <2>3, <3>4, <4>3 DEF Effect, UsbFlags, Fate, UsbAt, Startup, Walk
        <5> QED BY <1>2, <3>1, <4>1, <5>1, UsbOrderNext
      <4> QED BY <4>2, <4>3
    <3> QED BY <3>1, <3>3, <3>4
  <2>4. CASE /\ at' = Onward(at) /\ failed' = failed \cup {at}
             /\ UNCHANGED <<armed, countdown>>
    <3>1. UsbFlags'
      <4>1. /\ at' # "Delay" /\ at' # "BUPSelfTest"
            /\ at = "Delay" => at' = "unDWAKE"
            /\ at = "BUPSelfTest" => at' = "unBUPHibernate"
            /\ at \in {"unBUPHibernate", "Reboot", "Force", "Shutdown"}
                 => at' \in {"Reboot", "Force", "Shutdown", "done"}
        BY <1>1, <2>4 DEF Onward, UsbAt, Startup, Walk
      <4>2. at # "done"
        BY <1>1 DEF UsbAt, Startup
      <4> QED BY <2>2, <2>4, <4>1, <4>2 DEF UsbFlags
    <3>2. ASSUME NEW m \in Method, at' \notin ToCome(m) PROVE GivenUp(m)'
      BY <1>1, <2>2, <2>4, <3>2, OnwardGivesUp DEF GivenUp
    <3>3. at' = "done" => \A m \in Method : at' \notin ToCome(m)
      BY DEF ToCome, First, Walk, UsbAt, Startup, Method
    <3>4. UsbOrder'
      BY <1>1, <1>2, <2>2, <2>4, <3>2, <3>3, UsbOrderNext DEF UsbOrder, UsbAt, Startup
    <3> QED BY <3>1, <3>4
  <2> QED BY <2>2, <2>3, <2>4
<1> QED BY <1>1, <1>2, <1>3, <1>4 DEF KInv, config, UsbAt, Startup, Walk

LEMMA UsbSkipStep == ASSUME KInv, UsbSkip PROVE KInv'
<1>1. /\ at \in UsbAt /\ KillTypeOK /\ driver = "usb" /\ mode = "SMART"
      /\ UNCHANGED <<config, onbatt, countdown, failed, misled, armed, setting, lineVars>>
      /\ at' = Onward(at) /\ Reads(at')
      /\ at \in Startup \/ ~(Needs(at) \subseteq caps)
  BY DEF UsbSkip, KInv, KillTypeOK, UsbAt, Startup, SmartAt
<1>2. at' \in UsbAt \cup {"done"}
  BY <1>1 DEF Onward, UsbAt, Startup
<1>3. /\ left' \in 0 .. 3
      /\ at' \in Walk => left' <= setting[at']
  BY <1>1, <1>2 DEF Reads, KillTypeOK
<1>4. KillTypeOK'
  BY <1>1, <1>2, <1>3, Zenon DEF KillTypeOK, config, lineVars
<1>5. ~misled => (UsbOrder /\ UsbFlags)'
  <2>1. SUFFICES ASSUME ~misled PROVE (UsbOrder /\ UsbFlags)'
    OBVIOUS
  <2>2. UsbOrder /\ UsbFlags
    BY <1>1, <2>1 DEF KInv
  <2>3. UsbFlags'
    <3>1. at \notin {"Delay", "unDWAKE", "BUPSelfTest", "unBUPHibernate"}
      BY <1>1 DEF Needs, Startup, Walk
    <3>2. /\ at' \notin {"Delay", "BUPSelfTest"}
          /\ at \in {"Reboot", "Force", "Shutdown"}
               => at' \in {"Force", "Shutdown", "done"}
      BY <1>1, <3>1 DEF Onward, UsbAt, Startup
    <3>3. at # "done"
      BY <1>1 DEF UsbAt, Startup
    <3> QED BY <1>1, <2>2, <3>1, <3>2, <3>3 DEF UsbFlags
  <2>4. ASSUME NEW m \in Method, at' \notin ToCome(m) PROVE GivenUp(m)'
    <3>1. at \notin m \/ at \notin Startup
      BY DEF Startup, Method
    <3> QED BY <1>1, <2>2, <2>4, <3>1, OnwardGivesUp DEF GivenUp, config
  <2>5. at' = "done" => \A m \in Method : at' \notin ToCome(m)
    BY DEF ToCome, First, Walk, UsbAt, Startup, Method
  <2>6. UsbOrder'
    BY <1>1, <1>2, <2>2, <2>4, <2>5, UsbOrderNext DEF UsbOrder, UsbAt, Startup
  <2> QED BY <2>3, <2>6
<1> QED BY <1>1, <1>2, <1>3, <1>4, <1>5 DEF KInv, config, UsbAt, Startup

LEMMA UsbWalkStep ==
  ASSUME KInv, UsbWalk
  PROVE  KInv' /\ \A w \in Walk : setting'[w] <= setting[w]
<1>1. /\ at \in Walk /\ KillTypeOK /\ driver = "usb" /\ mode = "SMART"
      /\ UNCHANGED <<config, onbatt, countdown, failed, misled, armed, lineVars>>
      /\ Needs(at) \subseteq caps
  BY DEF UsbWalk, KInv, KillTypeOK, UsbAt, Startup, SmartAt, Walk
<1>2. left <= setting[at]
  BY <1>1 DEF KInv
<1>3. /\ setting' \in [Walk -> 0 .. 3] /\ left' \in 0 .. 3
      /\ at' \in Walk => left' <= setting'[at']
      /\ \A w \in Walk : setting'[w] <= setting[w]
  <2>1. CASE left > 0 /\ left' = left - 1 /\ at' = at
    <3>1. setting[at] \in 1 .. 3 /\ setting \in [Walk -> 0 .. 3] /\ left \in 1 .. 3
      BY <1>1, <1>2, <2>1 DEF KillTypeOK
    <3>2. (setting[at] + 3) % 4 = setting[at] - 1
      <4>1. (1 + 3) % 4 = 0 /\ (2 + 3) % 4 = 1 /\ (3 + 3) % 4 = 2
        BY SMT
      <4> QED BY <3>1, <4>1
    <3>3. setting' = setting \/ setting' = [setting EXCEPT ![at] = (@ + 3) % 4]
      BY <1>1, <2>1 DEF UsbWalk
    <3>4. CASE setting' = setting
      BY <1>1, <1>2, <2>1, <3>1, <3>4
    <3>5. CASE setting' = [setting EXCEPT ![at] = setting[at] - 1]
      BY <1>1, <1>2, <2>1, <3>1, <3>5
    <3> QED BY <3>2, <3>3, <3>4, <3>5
  <2>2. CASE left = 0 /\ Reads(at') /\ setting' = setting
    BY <1>1, <2>2 DEF Reads, KillTypeOK
  <2> QED BY <1>1, <2>1, <2>2 DEF UsbWalk
<1>4. at' \in UsbAt
  BY <1>1 DEF UsbWalk, Onward, UsbAt, Startup, Walk
<1>5. KillTypeOK'
  BY <1>1, <1>3, <1>4, Zenon DEF KillTypeOK, config, lineVars
<1>6. ~misled => (UsbOrder /\ UsbFlags)'
  <2>1. SUFFICES ASSUME ~misled PROVE (UsbOrder /\ UsbFlags)'
    OBVIOUS
  <2>2. UsbOrder /\ UsbFlags
    BY <1>1, <2>1 DEF KInv
  <2>3. at \in Walk /\ at' \in First
    BY <1>1 DEF UsbWalk, Onward, Walk, First, Startup
  <2> QED
    BY <1>1, <2>2, <2>3 DEF UsbFlags, UsbOrder, Walk, UsbAt, Startup, ToCome, First, Method
<1> QED BY <1>1, <1>3, <1>4, <1>5, <1>6 DEF KInv, config, UsbAt, Startup

-----------------------------------------------------------------------------
(* The serial line: an answer comes last and is read first.                *)
LEMMA AnswerComes ==
  ASSUME out \in Seq(Answer), NEW a \in Answer, out' = Append(out, a)
  PROVE  /\ out' \in Seq(Answer)
         /\ a = "data" => Verdicts' = Verdicts
         /\ a # "data" => Verdicts' = Verdicts \cup {Len(out) + 1}
         /\ \A i \in Verdicts : out'[i] = out[i]
         /\ out'[Len(out) + 1] = a
BY DEF Verdicts

LEMMA AnswerRead ==
  ASSUME out \in Seq(Answer), out # <<>>, out' = Tail(out)
  PROVE  /\ out' \in Seq(Answer) /\ Head(out) \in Answer
         /\ \A i \in Verdicts' : i + 1 \in Verdicts
         /\ \A i \in Verdicts : i # 1 => i - 1 \in Verdicts' /\ out'[i - 1] = out[i]
         /\ 1 \in Verdicts <=> Head(out) # "data"
         /\ Head(out) = out[1]
         /\ Verdicts \subseteq Nat \ {0} /\ Verdicts' \subseteq Nat \ {0}
<1>1. /\ out' \in Seq(Answer) /\ Head(out) \in Answer /\ Head(out) = out[1]
      /\ Len(out') = Len(out) - 1 /\ Len(out) \in Nat \ {0}
      /\ \A i \in 1 .. Len(out) - 1 : out'[i] = out[i + 1]
      /\ DOMAIN out = 1 .. Len(out) /\ DOMAIN out' = 1 .. Len(out')
  OBVIOUS
<1> QED BY <1>1 DEF Verdicts

(* A line read in part: its rest stays, as something else.                 *)
LEMMA RestLeft ==
  ASSUME out \in Seq(Answer), out # <<>>, out' = <<"data">> \o Tail(out)
  PROVE  /\ out' \in Seq(Answer) /\ Head(out) \in Answer
         /\ 1 \in Verdicts <=> Head(out) # "data"
         /\ Head(out) = out[1]
         /\ Verdicts \subseteq Nat \ {0}
         /\ \A i \in Verdicts' : i # 1 /\ i \in Verdicts
<1>1. /\ Head(out) \in Answer /\ Head(out) = out[1]
      /\ Len(out) \in Nat \ {0} /\ Tail(out) \in Seq(Answer)
      /\ Len(Tail(out)) = Len(out) - 1
      /\ \A i \in 1 .. Len(out) - 1 : Tail(out)[i] = out[i + 1]
      /\ DOMAIN out = 1 .. Len(out)
  OBVIOUS
<1>2. /\ <<"data">> \in Seq(Answer) /\ Len(<<"data">>) = 1 /\ <<"data">>[1] = "data"
  BY DEF Answer
<1>3. /\ out' \in Seq(Answer) /\ DOMAIN out' = 1 .. Len(out)
      /\ out'[1] = "data"
      /\ \A i \in 2 .. Len(out) : out'[i] = out[i]
  BY <1>1, <1>2
<1> QED BY <1>1, <1>3 DEF Verdicts

LEMMA OnTheLine ==
  ASSUME KInv, driver = "smart", config' = config, usbVars' = usbVars,
         failed' = failed,
         onbatt' \in BOOLEAN, misled' \in BOOLEAN, asked' \in BOOLEAN,
         at \in SmartAt, at' \in SmartAt \cup {"done"},
         countdown' \in {"none", "hibernate", "off"},
         sent' \in 0 .. 3, partial' \in 0 .. 3,
         response' \in {"none"} \cup Answer, out' \in Seq(Answer),
         LineInStep', ~misled' => AnswersInStep'
  PROVE  KInv'
<1>1. KillTypeOK
  BY DEF KInv
<1>2. KillTypeOK'
  BY <1>1, Zenon DEF KillTypeOK, config, usbVars
<1>3. at' \notin Walk /\ at' # "check"
  BY DEF Walk, SmartAt
<1> QED BY <1>2, <1>3, Zenon DEF KInv, config, usbVars

LEMMA AtSmart ==
  ASSUME KInv, at \in SmartAt
  PROVE  /\ driver = "smart" /\ KillTypeOK /\ LineInStep
         /\ countdown \in {"none", "hibernate", "off"}
         /\ ~misled => AnswersInStep
BY DEF KInv, KillTypeOK, SmartAt, UsbAt, Startup

LEMMA DelayStep == ASSUME KInv, AskDelay \/ GetDelay PROVE KInv'
<1>1. /\ at \in {"D", "D?"} /\ at' \in {"D?", "S"}
      /\ UNCHANGED <<config, onbatt, countdown, failed, misled, usbVars, sent, response,
                     asked>>
      /\ partial' \in {0, partial}
  BY DEF AskDelay, GetDelay
<1>2. /\ driver = "smart" /\ KillTypeOK /\ LineInStep
      /\ countdown \in {"none", "hibernate", "off"}
      /\ ~misled => AnswersInStep
  BY <1>1, AtSmart DEF SmartAt
<1>3. /\ out' \in Seq(Answer)
      /\ Verdicts = {} => Verdicts' = {}
  <2>1. CASE out' = Append(out, "data")
    BY <1>2, <2>1, AnswerComes DEF KillTypeOK, Answer
  <2>2. CASE out # <<>> /\ out' = Tail(out)
    BY <1>2, <2>2, AnswerRead DEF KillTypeOK
  <2>3. CASE out' = out
    BY <1>2, <2>3 DEF KillTypeOK, Verdicts
  <2> QED BY <2>1, <2>2, <2>3 DEF AskDelay, GetDelay
<1>4. LineInStep'
  BY <1>1, <1>2 DEF LineInStep, Sending, Length, KillTypeOK
<1>5. ~misled' => AnswersInStep'
  BY <1>1, <1>2, <1>3 DEF AnswersInStep, Awaited
<1> QED BY <1>1, <1>2, <1>3, <1>4, <1>5, OnTheLine DEF KillTypeOK, SmartAt

LEMMA SendCharStep ==
  ASSUME KInv, SendChar
  PROVE  KInv' /\ (countdown' # countdown /\ ~misled' => countdown # "hibernate")
<1>1. /\ at \in Sending
      /\ UNCHANGED <<config, onbatt, failed, usbVars, response, asked>>
      /\ (misled => misled') /\ misled' \in BOOLEAN
  BY DEF SendChar, Sending, KInv, KillTypeOK
<1>2. /\ driver = "smart" /\ KillTypeOK /\ LineInStep
      /\ countdown \in {"none", "hibernate", "off"}
      /\ ~misled => AnswersInStep
  BY <1>1, AtSmart DEF SmartAt, Sending
<1>3. /\ Length(at) \in 1 .. 4 /\ sent < Length(at)
      /\ AnswerOf(at) \in Awaited /\ (AnswerOf(at) = "K?" => at = "K")
  BY <1>1, <1>2 DEF Length, AnswerOf, Sending, Awaited, LineInStep
<1>4. ~misled => Verdicts = {} /\ countdown # "hibernate"
  BY <1>1, <1>2 DEF AnswersInStep, Sending, Awaited
<1>5. CASE sent + 1 = Length(at)
  <2>1. /\ at' = AnswerOf(at) /\ sent' = 0 /\ partial' = 0
    BY <1>5 DEF SendChar
  <2>2. /\ out' \in Seq(Answer)
        /\ countdown' \in {"none", "hibernate", "off"}
        /\ ~misled' => AnswersInStep'
    <3>1. CASE partial + 1 # Length(at)
      <4>1. out' = out /\ countdown' = countdown
        BY <3>1 DEF SendChar
      <4> QED
        BY <1>1, <1>2, <1>4, <4>1 DEF AnswersInStep, Verdicts, KillTypeOK
    <3>2. CASE partial + 1 = Length(at)
      <4>1. PICK a \in {"OK", "*", "NA"} :
              /\ out' = Append(out, a)
              /\ a = "NA" => countdown' = countdown
              /\ at = "K" /\ a # "NA" => countdown' = "off"
              /\ at = "S" /\ a = "*" => misled'
              /\ countdown' \in {countdown, "hibernate", "off"}
        BY <3>2 DEF SendChar
      <4>2. /\ out' \in Seq(Answer) /\ out'[Len(out) + 1] = a
            /\ Verdicts' = Verdicts \cup {Len(out) + 1}
        BY <1>2, <4>1, AnswerComes DEF KillTypeOK, Answer
      <4> QED
        <5>1. /\ at' = "K?" => at = "K"
              /\ at' = "S?" => at = "S"
          BY <1>1, <2>1 DEF AnswerOf, Sending
        <5>2. ~misled' /\ a # "NA" => Acknowledges(at', a)
          BY <1>2, <4>1, <5>1 DEF Acknowledges, KillTypeOK
        <5> QED
          BY <1>1, <1>2, <1>3, <1>4, <2>1, <4>1, <4>2, <5>1, <5>2 DEF AnswersInStep
    <3> QED BY <3>1, <3>2
  <2>3. LineInStep'
    BY <1>3, <2>1 DEF LineInStep, Awaited, Sending
  <2> QED
    BY <1>1, <1>2, <1>3, <1>4, <2>1, <2>2, <2>3, OnTheLine
    DEF KillTypeOK, Awaited, SmartAt, Sending
<1>6. CASE sent + 1 # Length(at)
  <2>1. /\ at' = at /\ sent' = sent + 1 /\ partial' = partial + 1
        /\ partial + 1 # Length(at) /\ partial <= sent
    BY <1>2, <1>3, <1>6 DEF SendChar, LineInStep, KillTypeOK
  <2>2. out' = out /\ countdown' = countdown
    BY <2>1 DEF SendChar
  <2>3. LineInStep'
    BY <1>1, <1>2, <1>3, <1>6, <2>1 DEF LineInStep, KillTypeOK, Sending
  <2>4. ~misled' => AnswersInStep'
    BY <1>1, <1>2, <2>1, <2>2 DEF AnswersInStep, Verdicts
  <2>5. sent' \in 0 .. 3 /\ partial' \in 0 .. 3
    BY <1>2, <1>3, <1>6, <2>1 DEF KillTypeOK, LineInStep
  <2> QED
    BY <1>1, <1>2, <2>1, <2>2, <2>3, <2>4, <2>5, OnTheLine
    DEF KillTypeOK, SmartAt, Sending
<1> QED BY <1>5, <1>6

LEMMA GetAnswerStep == ASSUME KInv, GetAnswer PROVE KInv'
<1>1. /\ at \in Awaited /\ at' = Verdict(at, response')
      /\ UNCHANGED <<config, onbatt, countdown, failed, usbVars, sent, partial, asked>>
  BY DEF GetAnswer, Awaited
<1>2. /\ driver = "smart" /\ KillTypeOK /\ LineInStep
      /\ countdown \in {"none", "hibernate", "off"}
      /\ ~misled => AnswersInStep
  BY <1>1, AtSmart DEF SmartAt, Awaited
<1>3. /\ at' \in {"@1", "@2", "K", "done"}
      /\ Acknowledges(at, response') => at' = "done"
      /\ at' # "done" => at # "K?"
  BY <1>1 DEF Verdict, Awaited
<1>4. LineInStep'
  BY <1>1, <1>2, <1>3 DEF LineInStep, Length, Sending, Awaited, KillTypeOK
<1>5. /\ out' \in Seq(Answer) /\ response' \in {"none"} \cup Answer
      /\ misled' \in BOOLEAN
      /\ ~misled' => AnswersInStep'
  <2>1. CASE /\ out # <<>>
             /\ \/ response' = Head(out) /\ out' = Tail(out)
                \/ Head(out) = "data" /\ response' = "OK" /\ out' = Tail(out)
                \/ /\ response' \in {Head(out), "data"}
                   /\ out' = <<"data">> \o Tail(out)
             /\ misled' = (misled \/ Head(out) = "data" \/ response' # Head(out))
    <3>1. /\ out' \in Seq(Answer) /\ Head(out) \in Answer
          /\ 1 \in Verdicts <=> Head(out) # "data"
          /\ Head(out) = out[1]
          /\ Verdicts \subseteq Nat \ {0}
          /\ (\A i \in Verdicts : i = 1) => Verdicts' = {}
      <4>1. CASE out' = Tail(out)
        BY <1>2, <2>1, <4>1, AnswerRead DEF KillTypeOK
      <4>2. CASE out' = <<"data">> \o Tail(out)
        BY <1>2, <2>1, <4>2, RestLeft DEF KillTypeOK
      <4> QED BY <2>1, <4>1, <4>2
    <3>2. ~misled' /\ at' # "done" => Verdicts' = {} /\ countdown # "hibernate"
      <4>1. SUFFICES ASSUME ~misled', at' # "done"
                     PROVE  Verdicts' = {} /\ countdown # "hibernate"
        OBVIOUS
      <4>2. /\ ~misled /\ 1 \in Verdicts /\ \A i \in Verdicts : i = 1
            /\ ~Acknowledges(at, out[1])
        BY <1>1, <1>2, <1>3, <2>1, <3>1, <4>1 DEF AnswersInStep, KillTypeOK, Awaited
      <4> QED BY <1>1, <1>2, <3>1, <4>2 DEF AnswersInStep, Awaited
    <3>3. misled' \in BOOLEAN /\ response' \in {"none"} \cup Answer
      BY <1>2, <2>1, <3>1 DEF KillTypeOK, Answer
    <3> QED
      BY <1>1, <2>1, <3>1, <3>2, <3>3 DEF AnswersInStep
  <2>2. CASE /\ UNCHANGED <<response, out>>
             /\ misled' = (misled \/ \E i \in DOMAIN out : out[i] # "data")
    <3>1. ~misled' => ~misled /\ Verdicts = {} /\ Verdicts' = {}
      BY <1>2, <2>2 DEF Verdicts, KillTypeOK
    <3>2. ~misled' => countdown # "hibernate"
      BY <1>1, <1>2, <3>1 DEF AnswersInStep, Awaited
    <3>3. misled' \in BOOLEAN
      BY <1>2, <2>2 DEF KillTypeOK
    <3> QED
      BY <1>1, <1>2, <2>2, <3>1, <3>2, <3>3 DEF AnswersInStep, KillTypeOK
  <2> QED BY <2>1, <2>2 DEF GetAnswer, GetLine
<1> QED
  BY <1>1, <1>2, <1>3, <1>4, <1>5, OnTheLine DEF KillTypeOK, SmartAt, Awaited

(* The driver thread, at any time, adds a poll's answer or takes one.      *)
LEMMA ThreadStep == ASSUME KInv, at # "done", Poll \/ ThreadReads \/ Flush PROVE KInv'
<1>1. /\ driver = "smart" /\ at' = at /\ asked' \in BOOLEAN
      /\ UNCHANGED <<config, onbatt, countdown, failed, usbVars, sent, response>>
      /\ partial' \in {0, partial} /\ KillTypeOK /\ LineInStep
      /\ ~misled => AnswersInStep
  BY DEF Poll, ThreadReads, Flush, KInv
<1>2. /\ out' \in Seq(Answer) /\ misled' \in BOOLEAN /\ (~misled' => ~misled)
      /\ ~misled' => AnswersInStep'
  <2>1. CASE out' = Append(out, "data") /\ misled' = misled
    <3>1. /\ out' \in Seq(Answer) /\ Verdicts' = Verdicts
          /\ \A i \in Verdicts : out'[i] = out[i]
      BY <1>1, <2>1, AnswerComes DEF KillTypeOK, Answer
    <3> QED BY <1>1, <2>1, <3>1 DEF AnswersInStep, KillTypeOK
  <2>2. CASE /\ out # <<>> /\ out' = Tail(out)
             /\ misled' = (misled \/ Head(out) # "data")
    <3>1. /\ out' \in Seq(Answer) /\ misled' \in BOOLEAN
          /\ \A i \in Verdicts' : i + 1 \in Verdicts
          /\ \A i \in Verdicts : i # 1 => i - 1 \in Verdicts' /\ out'[i - 1] = out[i]
          /\ 1 \in Verdicts <=> Head(out) # "data"
          /\ Verdicts \subseteq Nat \ {0} /\ Verdicts' \subseteq Nat \ {0}
      BY <1>1, <2>2, AnswerRead DEF KillTypeOK
    <3>2. ASSUME ~misled' PROVE AnswersInStep'
      <4>1. ~misled /\ 1 \notin Verdicts /\ AnswersInStep
        BY <1>1, <2>2, <3>1, <3>2
      <4>2. at \notin Awaited \cup {"done"} => Verdicts' = {}
        BY <3>1, <4>1 DEF AnswersInStep
      <4>3. at # "done" => \A i, j \in Verdicts' : i = j
        <5>1. SUFFICES ASSUME at # "done", NEW i \in Verdicts', NEW j \in Verdicts'
                       PROVE  i = j
          OBVIOUS
        <5>2. i + 1 = j + 1 /\ i \in Nat /\ j \in Nat
          BY <3>1, <4>1, <5>1 DEF AnswersInStep
        <5> QED BY <5>2
      <4>4. (\E i \in Verdicts : Acknowledges(at, out[i]))
              => \E i \in Verdicts' : Acknowledges(at', out'[i])
        BY <1>1, <3>1, <4>1
      <4> QED BY <1>1, <4>1, <4>2, <4>3, <4>4 DEF AnswersInStep
    <3> QED BY <1>1, <2>2, <3>1, <3>2 DEF KillTypeOK
  <2>3. CASE out = <<>> /\ out' = out /\ misled' = (misled \/ FALSE)
    BY <1>1, <2>3 DEF AnswersInStep, KillTypeOK, Verdicts
  <2>4. CASE /\ out' = <<>>
             /\ misled' = (misled \/ \E i \in DOMAIN out : out[i] # "data")
    <3>1. out' \in Seq(Answer) /\ Verdicts' = {} /\ misled' \in BOOLEAN
      BY <1>1, <2>4 DEF KillTypeOK, Verdicts
    <3>2. ASSUME ~misled' PROVE AnswersInStep'
      <4>1. ~misled /\ Verdicts = {}
        BY <1>1, <2>4, <3>2 DEF Verdicts
      <4> QED BY <1>1, <3>1, <4>1 DEF AnswersInStep
    <3> QED BY <1>1, <2>4, <3>1, <3>2 DEF KillTypeOK
  <2> QED BY <2>1, <2>2, <2>3, <2>4 DEF Poll, ThreadReads, Flush
<1>3. LineInStep'
  BY <1>1 DEF LineInStep, KillTypeOK
<1>4. partial' \in 0 .. 3
  BY <1>1 DEF KillTypeOK
<1>5. KillTypeOK'
  BY <1>1, <1>2, <1>4, Zenon DEF KillTypeOK, config, usbVars
<1> QED BY <1>1, <1>2, <1>3, <1>5, Zenon DEF KInv, config, usbVars

LEMMA SameKInv ==
  ASSUME KInv, onbatt' \in BOOLEAN,
         UNCHANGED <<config, at, countdown, failed, misled, usbVars, lineVars>>
  PROVE  KInv'
<1>1. UsbOrder' = UsbOrder /\ UsbFlags' = UsbFlags
  BY DEF UsbOrder, UsbFlags, GivenUp, Fate, config, usbVars
<1>2. LineInStep' = LineInStep /\ AnswersInStep' = AnswersInStep
  BY DEF LineInStep, AnswersInStep, Verdicts, lineVars
<1>3. KillTypeOK'
  BY Zenon DEF KInv, KillTypeOK, config, usbVars, lineVars
<1> QED BY <1>1, <1>2, <1>3, Zenon DEF KInv, config, usbVars, lineVars

LEMMA KInvStep == KInv /\ [KillNext]_killVars => KInv'
<1>1. ASSUME KInv, KillStep PROVE KInv'
  BY <1>1, KillCheckStep, UsbWriteStep, UsbSkipStep, UsbWalkStep, DelayStep,
     SendCharStep, GetAnswerStep DEF KillStep
<1>2. ASSUME KInv, Mains PROVE KInv'
  BY <1>2, SameKInv DEF Mains, KInv, KillTypeOK
<1>3. ASSUME KInv, UNCHANGED killVars PROVE KInv'
  BY <1>3, SameKInv DEF killVars, KInv, KillTypeOK
<1> QED BY <1>1, <1>2, <1>3, ThreadStep DEF KillNext

LEMMA KillInvariance == KillSpec => []KInv
<1> QED BY KillInitInv, KInvStep, PTL DEF KillSpec

(* Whatever fails on the way, the run is at one of its steps and the UPS   *)
(* in one of its states.                                                   *)
THEOREM KillTypeCorrect == KillSpec => []KillTypeOK
<1>1. KInv => KillTypeOK
  BY DEF KInv
<1> QED BY <1>1, KillInvariance, PTL

(* A USB UPS with a way to hibernate that no write of has failed ends in   *)
(* hibernation, whatever else fails, on every UPS (UsbDriver::KillPower).  *)
THEOREM AbleHibernates == KillSpec => []Hibernates
<1>1. KInv => Hibernates
  <2>1. SUFFICES ASSUME KInv, at = "done", pwrfail, UsbAble, ~misled
                 PROVE  Fate = "hibernate"
    BY DEF Hibernates
  <2>2. UsbOrder
    BY <2>1 DEF KInv, UsbAble
  <2>3. \E m \in Method : ~GivenUp(m)
    BY <2>1 DEF UsbAble, GivenUp
  <2> QED BY <2>1, <2>2, <2>3 DEF UsbOrder
<1> QED BY <1>1, KillInvariance, PTL

(* A flag that stays set in the UPS is the one whose reset failed          *)
(* (UsbDriver::KillPower).                                                 *)
THEOREM FlagsReset == KillSpec => []NoFlagLeft
<1>1. KInv => NoFlagLeft
  <2>1. SUFFICES ASSUME KInv, at = "done", ~misled PROVE NoFlagLeft
    BY DEF NoFlagLeft
  <2>2. CASE driver = "usb"
    BY <2>1, <2>2 DEF KInv, UsbFlags, NoFlagLeft
  <2>3. CASE driver # "usb"
    BY <2>1, <2>3 DEF KInv, NoFlagLeft
  <2> QED BY <2>2, <2>3
<1> QED BY <1>1, KillInvariance, PTL

(* A UPS on its way to hibernation is never then turned off for good,      *)
(* unless a report or an answer was taken for what it was not              *)
(* (ApcSmartDriver::KillPower, UsbDriver::KillPower).                      *)
THEOREM HibernationStands == KillSpec => StaysHibernating
<1>1. ASSUME KInv, KillNext, Fate = "hibernate", Fate' = "off", ~misled'
      PROVE  FALSE
  <2>1. KillTypeOK
    BY <1>1 DEF KInv
  <2>2. CASE UsbWrite
    <3>1. at # "done" /\ driver = "usb" /\ ~misled
      BY <1>1, <2>1, <2>2 DEF UsbWrite, KInv, KillTypeOK, UsbAt, Startup, SmartAt
    <3>2. countdown = "none"
      BY <1>1, <3>1 DEF KInv, UsbOrder
    <3> QED BY <1>1, <3>2 DEF Fate
  <2>3. CASE SendChar
    <3>1. /\ driver = "smart" /\ countdown # "Delay" /\ countdown' # "Delay"
      BY <1>1, <2>1, <2>3, SendCharStep DEF SendChar, KInv, KillTypeOK, SmartAt, UsbAt, Startup, config
    <3>2. countdown = "hibernate" /\ countdown' # countdown
      BY <1>1, <2>1, <3>1 DEF Fate, KillTypeOK
    <3> QED BY <1>1, <2>3, <3>1, <3>2, SendCharStep
  <2>4. CASE Check
    <3>1. countdown = "none"
      BY <1>1, <2>4 DEF Check, KInv
    <3> QED BY <1>1, <3>1 DEF Fate
  <2>5. CASE countdown' = countdown /\ armed' = armed
    BY <1>1, <2>5 DEF Fate
  <2> QED
    BY <1>1, <2>2, <2>3, <2>4, <2>5 DEF KillNext, KillStep, UsbSkip, UsbWalk,
       AskDelay, GetDelay, GetAnswer, Poll, ThreadReads, Flush, Mains, usbVars
<1>2. KInv /\ [KillNext]_killVars
        => [Fate = "hibernate" /\ Fate' = "off" => misled']_killVars
  BY <1>1
<1> QED BY <1>2, KillInvariance, PTL DEF KillSpec, StaysHibernating

(* No walk takes a setting past its minimum, from whatever value and with  *)
(* whatever writes failing (UsbDriver::KillPower).                         *)
THEOREM SettingsOnlyFall == KillSpec => SettingsFall
<1>1. ASSUME KInv, KillNext PROVE \A w \in Walk : setting'[w] <= setting[w]
  <2>1. CASE UsbWalk
    BY <1>1, <2>1, UsbWalkStep
  <2>2. CASE setting' = setting
    BY <1>1, <2>2 DEF KInv, KillTypeOK
  <2> QED
    BY <1>1, <2>1, <2>2 DEF KillNext, KillStep, Check, UsbWrite, UsbSkip, AskDelay,
       GetDelay, SendChar, GetAnswer, Poll, ThreadReads, Flush, Mains, usbVars
<1>2. KInv /\ [KillNext]_killVars
        => [\A w \in Walk : setting'[w] <= setting[w]]_killVars
  BY <1>1
<1> QED BY <1>2, KillInvariance, PTL DEF KillSpec, SettingsFall
=============================================================================
