------------------------------ MODULE LockFile ------------------------------
(***************************************************************************)
(* The lock file of the UPS port (src/lib/apclock.c) and the processes     *)
(* that use it: daemons, apctest, and the "--killpower" run at halt.       *)
(*                                                                         *)
(* The file is read, its process probed, the file removed, created and     *)
(* written in system calls of their own, between which other processes     *)
(* run.  Each process calls delete_lockfile() when it starts, opens the    *)
(* port, creates the lock in setup_device() and, a daemon, again in main() *)
(* and deletes it when it ends.  A pid that is the parent's counts as the  *)
(* process's own.                                                          *)
(***************************************************************************)
EXTENDS Naturals, FiniteSets

CONSTANTS
  Pid,     \* the process ids the programs may get
  Serial,  \* the driver sets UPSINFO::fd, on which setup_device() locks
  Retrier, \* a pid whose program is started again whenever it is not there
  MaxFaults   \* bound: crashes, signals and failed opens of the port

ASSUME LockAssumption ==
  /\ "nobody" \notin Pid
  /\ Serial \in BOOLEAN
  /\ Retrier \in Pid
  /\ MaxFaults \in Nat

VARIABLES
  file,    \* the lock file: whose it is and whether the pid is in it
  kind,    \* the program each process runs
  parent,  \* getppid(), where it is a pid the programs may get
  call,    \* what it is doing
  step,    \* its next system call in check_stale_lockfile() and callers
  seen,    \* the file it has opened, as far as it has read it
  beaten,  \* history: the file or its pid is another's by now than was found
  raced,   \* history: a process that was beaten removed a lock in use
  shared,  \* history: a process took its parent's lock for its own
  crashed, \* history: pids whose last process ended without cleaning up
  faults   \* faults still to come

procVars == <<kind, parent, call, step, seen>>
vars == <<file, procVars, beaten, raced, shared, crashed, faults>>

Off == {"off", "foreign"}   \* no program of ours has the pid
Calls == {"start", "fork", "open", "setup", "main", "run", "end"}
Kinds == {"daemon", "test", "kill"}
Looking == {"read", "probe", "unlink", "remove"}
Steps == {"look", "create", "write", "none"} \cup Looking

NoFile == [by |-> "nobody", written |-> FALSE]
File == [by : Pid, written : BOOLEAN] \cup {NoFile}

Active(p) == call[p] \notin Off

LockTypeOK ==
  /\ file \in File
  /\ kind \in [Pid -> Kinds \cup {"none"}]
  /\ parent \in [Pid -> Pid \cup {"nobody"}]
  /\ call \in [Pid -> Calls \cup Off]
  /\ step \in [Pid -> Steps]
  /\ seen \in [Pid -> File]
  /\ raced \in BOOLEAN /\ shared \in BOOLEAN
  /\ beaten \subseteq Pid /\ crashed \subseteq Pid
  /\ faults \in 0 .. MaxFaults

Init ==
  /\ file = NoFile
  /\ kind = [p \in Pid |-> "none"]
  /\ parent = [p \in Pid |-> "nobody"]
  /\ call = [p \in Pid |-> "off"]
  /\ step = [p \in Pid |-> "none"]
  /\ seen = [p \in Pid |-> NoFile]
  /\ beaten = {} /\ raced = FALSE /\ shared = FALSE /\ crashed = {}
  /\ faults = MaxFaults

-----------------------------------------------------------------------------
(* The children of a process that ends are handed to init.                 *)
Orphaned(p) ==
  [q \in Pid |-> IF q = p \/ parent[q] = p THEN "nobody" ELSE parent[q]]

Goto(p, c, s) ==
  /\ call' = [call EXCEPT ![p] = c]
  /\ step' = [step EXCEPT ![p] = s]
  /\ kind' = IF c \in Off THEN [kind EXCEPT ![p] = "none"] ELSE kind
  /\ parent' = IF c \in Off THEN Orphaned(p) ELSE parent

Step(p, s) == Goto(p, call[p], s)

Exit(p) == Goto(p, "off", "none")

(* error_out: the process cleans up.                                       *)
Fail(p) == Goto(p, "end", "look")

(* The check at the start is over: a daemon goes into the background.      *)
Started(p) == Goto(p, IF kind[p] = "daemon" THEN "fork" ELSE "open", "none")

(* delete_lockfile() is over.                                              *)
Deleted(p) == IF call[p] = "start" THEN Started(p) ELSE Exit(p)

(* check_stale_lockfile() is over with LCKERROR.                           *)
Refused(p) ==
  CASE call[p] \in {"start", "end"} -> Deleted(p)
    [] OTHER -> Fail(p)

(* create_lockfile() is over with LCKSUCCESS.                              *)
Locked(p) ==
  IF call[p] = "setup" /\ kind[p] = "daemon"
    THEN Goto(p, "main", "look")
    ELSE Goto(p, "run", "none")

(* There is no lock file: only create_lockfile() goes on.                  *)
Absent(p) ==
  CASE call[p] \in {"start", "end"} -> Deleted(p)
    [] OTHER -> Step(p, "create")

(* The process looks at the lock file no more.                             *)
Forget(p) ==
  /\ seen' = [seen EXCEPT ![p] = NoFile]
  /\ beaten' = beaten \ {p}

(* What others have found out about the lock file is outdated.             *)
Outdated(p) == beaten \cup {q \in Pid \ {p} : step[q] \in Looking}

(* A pid that was looked up is in use again.                               *)
Reborn(p) ==
  beaten \cup {q \in Pid : step[q] \in {"unlink", "remove"} /\ seen[q].by = p}

-----------------------------------------------------------------------------
(* open() of the lock file.                                                *)
Look(p) ==
  /\ step[p] = "look"
  /\ seen' = [seen EXCEPT ![p] = file]
  /\ IF file = NoFile THEN Absent(p) ELSE Step(p, "read")
  /\ UNCHANGED <<file, beaten, raced, shared, crashed, faults>>

(* Mutant: an ending process leaves the lock alone.                        *)
ExistsKept(p) ==
  \/ call[p] = "start" /\ Step(p, "remove") /\ UNCHANGED <<seen, beaten, shared>>
  \/ call[p] = "end" /\ Exit(p) /\ Forget(p) /\ UNCHANGED shared
  \/ call[p] \in {"setup", "main"} /\ Locked(p) /\ Forget(p) /\ UNCHANGED shared

(* LCKEXIST: the pid is that of the process or of its parent.              *)
Exists(p) ==
  \/ /\ call[p] \in {"start", "end"} /\ Step(p, "remove")
     /\ UNCHANGED <<seen, beaten, shared>>
  \/ /\ call[p] \in {"setup", "main"} /\ Locked(p) /\ Forget(p)
     /\ shared' = (shared \/ seen[p].by # p)

(* read() of what was opened, which may have lost its name since.  A file  *)
(* without a pid is an error.                                              *)
Read(p) ==
  /\ step[p] = "read"
  /\ \/ ~seen[p].written /\ Refused(p) /\ Forget(p) /\ UNCHANGED shared
     \/ seen[p].written /\ seen[p].by \in {p, parent[p]} /\ Exists(p)
     \/ /\ seen[p].written /\ seen[p].by \notin {p, parent[p]}
        /\ Step(p, "probe") /\ UNCHANGED <<seen, beaten, shared>>
  /\ UNCHANGED <<file, raced, crashed, faults>>

(* Mutant: a failing kill() is an error.                                   *)
ProbeRefused(p) ==
  /\ step[p] = "probe"
  /\ Refused(p) /\ Forget(p)
  /\ UNCHANGED <<file, raced, shared, crashed, faults>>

(* kill(stalepid, 0): any process with that pid makes the lock valid.      *)
Probe(p) ==
  /\ step[p] = "probe"
  /\ IF call[seen[p].by] = "off"
       THEN Step(p, "unlink") /\ UNCHANGED <<seen, beaten>>
       ELSE Refused(p) /\ Forget(p)
  /\ UNCHANGED <<file, raced, shared, crashed, faults>>

(* unlink() of whatever has the name by now.                               *)
Unlinked(p) ==
  /\ file' = NoFile
  /\ IF file # NoFile /\ Active(file.by)
       THEN /\ raced' = (raced \/ (p \in beaten /\ file.by # p))
            /\ shared' = (shared \/ file.by = parent[p])
       ELSE UNCHANGED <<raced, shared>>

(* The stale file goes away.                                               *)
Unlink(p) ==
  /\ step[p] = "unlink"
  /\ \/ file # NoFile /\ Unlinked(p) /\ Absent(p)
     \/ file = NoFile /\ Refused(p) /\ UNCHANGED <<file, raced, shared>>
  /\ Forget(p)
  /\ UNCHANGED <<crashed, faults>>

(* Mutant: open() without O_EXCL.                                          *)
CreateOver(p) ==
  /\ step[p] = "create"
  /\ file' = [by |-> p, written |-> FALSE] /\ Step(p, "write")
  /\ beaten' = Outdated(p)
  /\ UNCHANGED <<seen, raced, shared, crashed, faults>>

(* open() with O_CREAT and O_EXCL.                                         *)
Create(p) ==
  /\ step[p] = "create"
  /\ \/ /\ file = NoFile
        /\ file' = [by |-> p, written |-> FALSE]
        /\ Step(p, "write")
        /\ beaten' = Outdated(p)
     \/ file # NoFile /\ Refused(p) /\ UNCHANGED <<file, beaten>>
  /\ UNCHANGED <<seen, raced, shared, crashed, faults>>

(* The pid is written into the file that was created, for those who have   *)
(* it open, too, though it may have lost its name since.  A failure leaves *)
(* it empty.                                                               *)
Write(p) ==
  /\ step[p] = "write"
  /\ \/ /\ file' = IF file.by = p THEN [file EXCEPT !.written = TRUE] ELSE file
        /\ seen' = [q \in Pid |-> IF step[q] = "read" /\ seen[q].by = p
                                    THEN [seen[q] EXCEPT !.written = TRUE]
                                    ELSE seen[q]]
        /\ Locked(p)
     \/ Refused(p) /\ UNCHANGED <<file, seen>>
  /\ UNCHANGED <<beaten, raced, shared, crashed, faults>>

(* delete_lockfile() has found its own pid, or its parent's.               *)
Remove(p) ==
  /\ step[p] = "remove"
  /\ Unlinked(p)
  /\ Deleted(p)
  /\ Forget(p)
  /\ UNCHANGED <<crashed, faults>>

-----------------------------------------------------------------------------
Fault == faults > 0 /\ faults' = faults - 1

(* Who may have started a program: a daemon, whose event script executes   *)
(* it, a program of another kind, or one with a pid that none of ours get. *)
Parents(p) ==
  {"nobody"} \cup
  {q \in Pid \ {p} : call[q] = "foreign" \/ (call[q] = "run" /\ kind[q] = "daemon")}

(* main() up to delete_lockfile().                                         *)
Start(p) ==
  /\ call[p] = "off"
  /\ call' = [call EXCEPT ![p] = "start"]
  /\ step' = [step EXCEPT ![p] = "look"]
  /\ \E k \in Kinds : kind' = [kind EXCEPT ![p] = k]
  /\ \E q \in Parents(p) : parent' = [parent EXCEPT ![p] = q]
  /\ crashed' = crashed \ {p}
  /\ beaten' = Reborn(p)
  /\ UNCHANGED <<file, seen, raced, shared, faults>>

(* daemon_start() goes on as a child of init with a pid of its own, unless *)
(* the daemon was told to stay in the foreground.                          *)
Fork(p) ==
  /\ call[p] = "fork"
  /\ \/ Goto(p, "open", "none") /\ UNCHANGED <<crashed, beaten>>
     \/ \E q \in Pid :
          /\ call[q] = "off"
          /\ call' = [call EXCEPT ![p] = "off", ![q] = "open"]
          /\ kind' = [kind EXCEPT ![p] = "none", ![q] = kind[p]]
          /\ parent' = Orphaned(p)
          /\ crashed' = crashed \ {q}
          /\ beaten' = Reborn(q)
          /\ UNCHANGED step
  /\ UNCHANGED <<file, seen, raced, shared, faults>>

(* setup_device(): the port is opened first.  A kill-power run takes no    *)
(* lock; without a descriptor, only a daemon locks, in main().             *)
Open(p) ==
  /\ call[p] = "open"
  /\ \/ Fault /\ Fail(p)
     \/ /\ UNCHANGED faults
        /\ CASE kind[p] = "kill"   -> Goto(p, "run", "none")
             [] kind[p] # "kill" /\ Serial -> Goto(p, "setup", "look")
             [] kind[p] = "daemon" /\ ~Serial -> Goto(p, "main", "look")
             [] OTHER -> Fail(p)
  /\ UNCHANGED <<file, seen, beaten, raced, shared, crashed>>

(* The work is done, or a signal ends it.                                  *)
Stop(p) ==
  /\ call[p] = "run"
  /\ Fail(p)
  /\ UNCHANGED <<file, seen, beaten, raced, shared, crashed, faults>>

(* A signal while apcupsd, which sets its handlers before setup_device(),  *)
(* is not that far: it cleans up from where it is.                         *)
Interrupt(p) ==
  /\ call[p] \in {"open", "setup", "main"} /\ kind[p] # "test"
  /\ Fail(p) /\ Fault /\ Forget(p)
  /\ UNCHANGED <<file, raced, shared, crashed>>

(* A process ends at once, whatever it was doing.                          *)
Crash(p) ==
  /\ Active(p)
  /\ Exit(p) /\ Fault /\ Forget(p)
  /\ crashed' = crashed \cup {p}
  /\ UNCHANGED <<file, raced, shared>>

(* Another process gets a free pid, and ends.                              *)
Reuse(p) ==
  /\ \/ call[p] = "off" /\ Goto(p, "foreign", "none")
     \/ call[p] = "foreign" /\ Exit(p)
  /\ UNCHANGED <<file, seen, beaten, raced, shared, crashed, faults>>

-----------------------------------------------------------------------------
Run(p) == \/ Look(p) \/ Read(p) \/ Probe(p) \/ Unlink(p) \/ Create(p)
          \/ Write(p) \/ Remove(p) \/ Fork(p) \/ Open(p)

Next == \E p \in Pid : \/ Run(p) \/ Start(p) \/ Stop(p)
                       \/ Interrupt(p) \/ Crash(p) \/ Reuse(p)

Spec == Init /\ [][Next]_vars

(* A process keeps running, and one program is started again for ever.     *)
LockFairness ==
  /\ \A p \in Pid : WF_vars(Run(p))
  /\ WF_vars(Start(Retrier))

LockSpec == Spec /\ LockFairness

-----------------------------------------------------------------------------
(* A program that believes it has the port for itself.                     *)
Working(p) == call[p] = "run" /\ kind[p] # "kill"

(* manual.rst on LOCKFILE: it keeps two programs from using the port at    *)
(* the same time (check_stale_lockfile, create_lockfile).                  *)
OnePort == \A p, q \in Pid : Working(p) /\ Working(q) => p = q

(* Two ways lead to more, and no other: a process unlinks what it found    *)
(* stale after another has created the file or got the pid in it; and one  *)
(* that a daemon started takes the daemon's lock for its own.              *)
OneOwner == OnePort \/ raced \/ shared

(* A pid found in the file with no process of that pid was left by a       *)
(* crash; every other end, in error or by a signal, removes the lock       *)
(* (apcupsd_terminate, apcupsd_error_cleanup, delete_lockfile).  A file    *)
(* without a pid is no such lock: a failed write leaves one, too.          *)
LeftByCrash == file.written /\ call[file.by] \in Off => file.by \in crashed

(* Once there is no more than one program at a time, and no other process  *)
(* has one of the pids, a lock that was left, in whatever way, does not    *)
(* keep programs from working, of which one is started again and again,    *)
(* unless it is empty (check_stale_lockfile).                              *)
StaleGivesWay ==
  /\ <>[](\A p, q \in Pid : Active(p) /\ Active(q) => p = q)
  /\ <>[](\A p \in Pid : call[p] # "foreign")
  => \/ []<>(\E p \in Pid : call[p] = "run")
     \/ <>[](file # NoFile /\ ~file.written)
=============================================================================
