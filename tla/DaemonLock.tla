----------------------------- MODULE DaemonLock -----------------------------
(***************************************************************************)
(* The daemon's single-instance lock (internal/daemon/lock.go over         *)
(* internal/lockutil): a file created with O_EXCL that holds the PID of    *)
(* its creator, reclaimed by renaming it aside when that PID is dead.      *)
(*                                                                         *)
(* A process starts at most one daemon, so a file is named by the process  *)
(* that created it.  The PID goes to the file the creator has open,        *)
(* wherever that file has been renamed to meanwhile.                       *)
(*                                                                         *)
(* Operators named ...Mutant are bugs the code could have had; nothing     *)
(* below uses them.                                                        *)
(***************************************************************************)
EXTENDS Integers, FiniteSets

CONSTANTS
  Processes,  \* processes that start a daemon
  NoFile      \* no file has this name

ASSUME FileAssumption == NoFile \notin Processes

VARIABLES
  path,     \* the file at the lock's path
  aside,    \* the file each process has renamed aside
  written,  \* the files that hold their creator's PID
  stage,    \* where each process is
  attempt,  \* which of its two passes each process is in
  exposed,  \* history: the lock was absent or without a PID when it mattered
  alone     \* history: processes that no other has met since they started

vars == <<path, aside, written, stage, attempt, exposed, alone>>

-----------------------------------------------------------------------------
Stages == {"new", "create", "write", "read", "rename", "inspect", "restore",
           "held", "refused", "failed", "released", "dead"}
Ended  == {"refused", "failed", "released", "dead"}

\* readPidFile finds a PID, and processAlive says that it lives.  A process that
\* was refused or has released the lock ends as well.
Alive(p)    == stage[p] \notin {"new"} \cup Ended
LiveLock(f) == f # NoFile /\ f \in written /\ Alive(f)

Init ==
  /\ path = NoFile
  /\ aside = [p \in Processes |-> NoFile]
  /\ written = {}
  /\ stage = [p \in Processes |-> "new"]
  /\ attempt = [p \in Processes |-> 1]
  /\ exposed = FALSE
  /\ alone = {}

At(p, g)   == stage[p] = g
Goto(p, g) == stage' = [stage EXCEPT ![p] = g]

Start(p) ==
  /\ At(p, "new")
  /\ Goto(p, "create")
  /\ alone' = IF \E q \in Processes : Alive(q) THEN {} ELSE {p}
  /\ UNCHANGED <<path, aside, written, attempt, exposed>>

\* A file that a live process created, or is about to put its PID in, is aside.
LiveAside == \E q \in Processes : aside[q] # NoFile /\ Alive(aside[q])

Create(p) ==
  /\ At(p, "create")
  /\ IF path = NoFile
       THEN path' = p /\ Goto(p, "write") /\ exposed' = (exposed \/ LiveAside)
       ELSE Goto(p, "read") /\ UNCHANGED <<path, exposed>>
  /\ UNCHANGED <<aside, written, attempt, alone>>

WritePid(p) ==
  /\ At(p, "write")
  /\ written' = written \cup {p}
  /\ Goto(p, "held")
  /\ UNCHANGED <<path, aside, attempt, exposed, alone>>

\* A PID that cannot be written: the file at the path is removed.
WriteFails(p) ==
  /\ At(p, "write")
  /\ path' = NoFile
  /\ exposed' = (exposed \/ (path \notin {p, NoFile} /\ Alive(path)))
  /\ Goto(p, "failed")
  /\ UNCHANGED <<aside, written, attempt, alone>>

\* A live PID refuses the start; a dead one, or none, is taken for a stale lock.
ReadPid(p) ==
  /\ At(p, "read")
  /\ IF LiveLock(path)
       THEN Goto(p, "refused") /\ UNCHANGED exposed
       ELSE /\ Goto(p, "rename")
            /\ exposed' = (exposed \/ (path # NoFile /\ Alive(path)))
  /\ UNCHANGED <<path, aside, written, attempt, alone>>

\* The second pass that does not end with the lock is the last.
TryAgainMutant(p) == Goto(p, "refused") /\ UNCHANGED attempt
TryAgainEndlessMutant(p) == Goto(p, "create") /\ attempt' = [attempt EXCEPT ![p] = @ + 1]
TryAgain(p) ==
  IF attempt[p] = 1
    THEN Goto(p, "create") /\ attempt' = [attempt EXCEPT ![p] = 2]
    ELSE Goto(p, "refused") /\ UNCHANGED attempt

\* ReclaimStaleLock: only one rename of a file succeeds.
RenameAside(p) ==
  /\ At(p, "rename")
  /\ IF path = NoFile
       THEN TryAgain(p) /\ UNCHANGED <<path, aside>>
       ELSE /\ aside' = [aside EXCEPT ![p] = path]
            /\ path' = NoFile
            /\ Goto(p, "inspect")
            /\ UNCHANGED attempt
  /\ UNCHANGED <<written, exposed, alone>>

\* A rename that fails for another reason ends the start.
RenameFails(p) ==
  /\ At(p, "rename") /\ path # NoFile
  /\ Goto(p, "failed")
  /\ UNCHANGED <<path, aside, written, attempt, exposed, alone>>

\* A file that is live after all is put back, any other is removed.
InspectMutant(p) ==
  /\ At(p, "inspect")
  /\ aside' = [aside EXCEPT ![p] = NoFile]
  /\ TryAgain(p)
  /\ UNCHANGED <<path, written, exposed, alone>>
Inspect(p) ==
  /\ At(p, "inspect")
  /\ IF LiveLock(aside[p])
       THEN Goto(p, "restore") /\ UNCHANGED <<aside, attempt, exposed>>
       ELSE /\ aside' = [aside EXCEPT ![p] = NoFile]
            /\ exposed' = (exposed \/ Alive(aside[p]))
            /\ TryAgain(p)
  /\ UNCHANGED <<path, written, alone>>

\* The rename back replaces whatever was created at the path meanwhile.
Restore(p) ==
  /\ At(p, "restore")
  /\ path' = aside[p]
  /\ aside' = [aside EXCEPT ![p] = NoFile]
  /\ exposed' = (exposed \/ (path # NoFile /\ Alive(path)))
  /\ TryAgain(p)
  /\ UNCHANGED <<written, alone>>

\* When it fails, a restore that replaces nothing is tried: it finds a new lock at
\* the path, or its failure ends the start.  The file aside is removed.
RestoreFails(p) ==
  /\ At(p, "restore")
  /\ aside' = [aside EXCEPT ![p] = NoFile]
  /\ exposed' = (exposed \/ Alive(aside[p]))
  /\ \/ path # NoFile /\ TryAgain(p)
     \/ Goto(p, "failed") /\ UNCHANGED attempt
  /\ UNCHANGED <<path, written, alone>>

\* A shutdown removes the file at the path, whoever created it.
Release(p) ==
  /\ At(p, "held")
  /\ path' = NoFile
  /\ exposed' = (exposed \/ (path \notin {p, NoFile} /\ Alive(path)))
  /\ Goto(p, "released")
  /\ UNCHANGED <<aside, written, attempt, alone>>

Die(p) ==
  /\ Alive(p)
  /\ Goto(p, "dead")
  /\ UNCHANGED <<path, aside, written, attempt, exposed, alone>>

Finished == (\A p \in Processes : stage[p] \in Ended) /\ UNCHANGED vars

\* What a starting process does next.
Acquire(p) ==
  \/ Create(p) \/ WritePid(p) \/ WriteFails(p) \/ ReadPid(p)
  \/ RenameAside(p) \/ RenameFails(p) \/ Inspect(p) \/ Restore(p) \/ RestoreFails(p)

Next ==
  \/ \E p \in Processes : Start(p) \/ Acquire(p) \/ Release(p) \/ Die(p)
  \/ Finished

Spec == Init /\ [][Next]_vars

-----------------------------------------------------------------------------
(* Properties.                                                             *)

\* The variables keep their types.
TypeOK ==
  /\ path \in Processes \cup {NoFile}
  /\ aside \in [Processes -> Processes \cup {NoFile}]
  /\ written \subseteq Processes
  /\ stage \in [Processes -> Stages]
  /\ attempt \in [Processes -> {1, 2}]
  /\ exposed \in BOOLEAN
  /\ alone \subseteq Processes

\* "A second start fails" (acquireLock): no two processes hold the lock.
SingleInstance == \A p, q \in Processes : At(p, "held") /\ At(q, "held") => p = q

\* Two daemons hold the lock only after a live holder's file was found without
\* its PID, was away from its path when another was created, was replaced by the
\* file that another put back, or was removed by another's release or failed
\* restore: reclaiming a dead daemon's lock is otherwise exclusive, however many
\* starts race for it and whichever of them die.
SingleUnlessExposed == ~exposed => SingleInstance

\* "The daemon recovers from an unclean shutdown without manual cleanup": a start
\* that no other process competes with is not refused, whatever dead ones left.
RecoversAlone == \A p \in alone : ~At(p, "refused")

=============================================================================
