-------------------------- MODULE DaemonLockProofs --------------------------
(***************************************************************************)
(* Reclaiming a dead daemon's lock is exclusive but for the exposures that *)
(* DaemonLock names, and a start that meets no other is never refused: for *)
(* any number of processes.                                                *)
(***************************************************************************)
EXTENDS DaemonLock, TLAPS

\* A process that has created the lock's file and not yet given it up.
Owner(p) == stage[p] \in {"write", "held"}

\* The file of process p is somewhere.
Placed(p) == path = p \/ \E q \in Processes : aside[q] = p

\* While nothing was exposed the owner is one, and its file is at the path or aside.
OwnerInv ==
  ~exposed =>
    /\ \A p, q \in Processes : Owner(p) /\ Owner(q) => p = q
    /\ \A p \in Processes : Owner(p) => Placed(p)

\* A process that has not created a file yet has none anywhere.
FileInv ==
  \A p \in Processes :
    stage[p] \in {"new", "create", "read", "rename", "inspect", "restore"} =>
      ~Placed(p) /\ p \notin written

\* A process has a file aside only once it has renamed one, and starts with its
\* first pass.
AsideInv ==
  \A p \in Processes :
    /\ stage[p] \in {"new", "create", "read", "rename"} => aside[p] = NoFile
    /\ stage[p] = "new" => attempt[p] = 1

\* What a start that meets nobody finds: at most one stale file, which it removes.
AloneInv ==
  \A p \in alone :
    /\ \A q \in Processes : q # p => ~Alive(q)
    /\ stage[p] \notin {"new", "restore", "refused"}
    /\ stage[p] = "create" => attempt[p] = 1 \/ path = NoFile
    /\ stage[p] \in {"read", "rename"} => attempt[p] = 1 /\ path # NoFile
    /\ stage[p] = "inspect" => attempt[p] = 1 /\ path = NoFile

IInv == TypeOK /\ OwnerInv /\ FileInv /\ AsideInv /\ AloneInv

-----------------------------------------------------------------------------
LEMMA InitInv == Init => IInv
<1> SUFFICES ASSUME Init PROVE IInv
  OBVIOUS
<1>1. TypeOK
  BY DEF Init, TypeOK, Stages
<1>2. OwnerInv /\ AloneInv
  BY DEF Init, OwnerInv, Owner, AloneInv
<1>3. FileInv /\ AsideInv
  BY FileAssumption DEF Init, FileInv, Placed, AsideInv
<1> QED BY <1>1, <1>2, <1>3 DEF IInv

\* The process of a step is alive, so a process that is alone takes every step but
\* those that start another.
LEMMA AloneActs ==
  ASSUME IInv, NEW p \in Processes, Alive(p), NEW q \in alone
  PROVE  q = p
BY DEF IInv, TypeOK, AloneInv

\* A step of a process that is alive and stays so, or ends, brings nobody else to
\* life.
LEMMA OthersStay ==
  ASSUME TypeOK, NEW p \in Processes, NEW g \in Stages, Goto(p, g)
  PROVE  /\ stage' \in [Processes -> Stages] /\ stage'[p] = g
         /\ \A q \in Processes : q # p =>
              stage'[q] = stage[q] /\ (Owner(q)' <=> Owner(q)) /\ (Alive(q)' <=> Alive(q))
         /\ Owner(p)' <=> g \in {"write", "held"}
BY DEF TypeOK, Goto, Owner, Alive

\* What TryAgain does.
LEMMA TryAgainCases ==
  ASSUME TypeOK, NEW p \in Processes, TryAgain(p)
  PROVE  /\ attempt' \in [Processes -> {1, 2}]
         /\ \A q \in Processes : q # p => attempt'[q] = attempt[q]
         /\ \/ attempt[p] = 1 /\ attempt'[p] = 2 /\ Goto(p, "create")
            \/ attempt[p] = 2 /\ Goto(p, "refused")
BY DEF TypeOK, TryAgain

-----------------------------------------------------------------------------
LEMMA StartInv ==
  ASSUME IInv, NEW p \in Processes, Start(p)
  PROVE  IInv'
<1>1. "create" \in Stages /\ Goto(p, "create") /\ stage[p] = "new"
  BY DEF Start, At, Stages
<1>2. /\ stage' \in [Processes -> Stages] /\ stage'[p] = "create"
      /\ \A q \in Processes : q # p =>
           stage'[q] = stage[q] /\ (Owner(q)' <=> Owner(q)) /\ (Alive(q)' <=> Alive(q))
      /\ ~Owner(p)'
  BY <1>1, OthersStay DEF IInv
<1>3. TypeOK'
  BY <1>2 DEF Start, IInv, TypeOK
<1>4. OwnerInv'
  BY <1>2 DEF Start, IInv, OwnerInv, Placed
<1>5. FileInv' /\ AsideInv'
  BY <1>1, <1>2 DEF Start, IInv, FileInv, Placed, AsideInv
<1>6. AloneInv'
  <2>1. CASE \E q \in Processes : Alive(q)
    BY <2>1 DEF Start, AloneInv
  <2>2. CASE ~ \E q \in Processes : Alive(q)
    <3>1. alone' = {p} /\ attempt'[p] = 1
      BY <1>1, <2>2 DEF Start, IInv, AsideInv
    <3>2. \A q \in Processes : q # p => ~Alive(q)'
      BY <1>2, <2>2
    <3> QED BY <1>2, <3>1, <3>2 DEF AloneInv
  <2> QED BY <2>1, <2>2
<1> QED BY <1>3, <1>4, <1>5, <1>6 DEF IInv

LEMMA WritePidInv ==
  ASSUME IInv, NEW p \in Processes, WritePid(p)
  PROVE  IInv'
<1>1. "held" \in Stages /\ Goto(p, "held") /\ stage[p] = "write" /\ Alive(p)
  BY DEF WritePid, At, Stages, Alive, Ended
<1>2. /\ stage' \in [Processes -> Stages] /\ stage'[p] = "held"
      /\ \A q \in Processes : q # p =>
           stage'[q] = stage[q] /\ (Owner(q)' <=> Owner(q)) /\ (Alive(q)' <=> Alive(q))
      /\ Owner(p)'
  BY <1>1, OthersStay DEF IInv
<1>3. TypeOK'
  BY <1>2 DEF WritePid, IInv, TypeOK
<1>4. OwnerInv'
  BY <1>1, <1>2 DEF WritePid, IInv, TypeOK, OwnerInv, Owner, Placed
<1>5. FileInv' /\ AsideInv'
  BY <1>1, <1>2, FileAssumption DEF WritePid, IInv, TypeOK, FileInv, Placed, AsideInv
<1>6. AloneInv'
  BY <1>1, <1>2, AloneActs DEF WritePid, IInv, AloneInv
<1> QED BY <1>3, <1>4, <1>5, <1>6 DEF IInv

LEMMA WriteFailsInv ==
  ASSUME IInv, NEW p \in Processes, WriteFails(p)
  PROVE  IInv'
<1>1. "failed" \in Stages /\ Goto(p, "failed") /\ stage[p] = "write" /\ Alive(p)
  BY DEF WriteFails, At, Stages, Alive, Ended
<1>2. /\ stage' \in [Processes -> Stages] /\ stage'[p] = "failed"
      /\ \A q \in Processes : q # p =>
           stage'[q] = stage[q] /\ (Owner(q)' <=> Owner(q)) /\ (Alive(q)' <=> Alive(q))
      /\ ~Owner(p)'
  BY <1>1, OthersStay DEF IInv
<1>3. TypeOK'
  BY <1>2 DEF WriteFails, IInv, TypeOK
<1>4. OwnerInv'
  BY <1>1, <1>2 DEF WriteFails, IInv, TypeOK, OwnerInv, Owner, Placed
<1>5. FileInv' /\ AsideInv'
  BY <1>1, <1>2, FileAssumption DEF WriteFails, IInv, TypeOK, FileInv, Placed, AsideInv
<1>6. AloneInv'
  BY <1>1, <1>2, AloneActs DEF WriteFails, IInv, AloneInv
<1> QED BY <1>3, <1>4, <1>5, <1>6 DEF IInv

LEMMA RenameFailsInv ==
  ASSUME IInv, NEW p \in Processes, RenameFails(p)
  PROVE  IInv'
<1>1. "failed" \in Stages /\ Goto(p, "failed") /\ stage[p] = "rename" /\ Alive(p)
  BY DEF RenameFails, At, Stages, Alive, Ended
<1>2. /\ stage' \in [Processes -> Stages] /\ stage'[p] = "failed"
      /\ \A q \in Processes : q # p =>
           stage'[q] = stage[q] /\ (Owner(q)' <=> Owner(q)) /\ (Alive(q)' <=> Alive(q))
      /\ ~Owner(p)'
  BY <1>1, OthersStay DEF IInv
<1>3. TypeOK'
  BY <1>2 DEF RenameFails, IInv, TypeOK
<1>4. OwnerInv'
  BY <1>1, <1>2 DEF RenameFails, IInv, TypeOK, OwnerInv, Owner, Placed
<1>5. FileInv' /\ AsideInv'
  BY <1>1, <1>2, FileAssumption DEF RenameFails, IInv, TypeOK, FileInv, Placed, AsideInv
<1>6. AloneInv'
  BY <1>1, <1>2, AloneActs DEF RenameFails, IInv, AloneInv
<1> QED BY <1>3, <1>4, <1>5, <1>6 DEF IInv

LEMMA ReleaseInv ==
  ASSUME IInv, NEW p \in Processes, Release(p)
  PROVE  IInv'
<1>1. "released" \in Stages /\ Goto(p, "released") /\ stage[p] = "held" /\ Alive(p)
  BY DEF Release, At, Stages, Alive, Ended
<1>2. /\ stage' \in [Processes -> Stages] /\ stage'[p] = "released"
      /\ \A q \in Processes : q # p =>
           stage'[q] = stage[q] /\ (Owner(q)' <=> Owner(q)) /\ (Alive(q)' <=> Alive(q))
      /\ ~Owner(p)'
  BY <1>1, OthersStay DEF IInv
<1>3. TypeOK'
  BY <1>2 DEF Release, IInv, TypeOK
<1>4. OwnerInv'
  BY <1>1, <1>2 DEF Release, IInv, TypeOK, OwnerInv, Owner, Placed
<1>5. FileInv' /\ AsideInv'
  BY <1>1, <1>2, FileAssumption DEF Release, IInv, TypeOK, FileInv, Placed, AsideInv
<1>6. AloneInv'
  BY <1>1, <1>2, AloneActs DEF Release, IInv, AloneInv
<1> QED BY <1>3, <1>4, <1>5, <1>6 DEF IInv

LEMMA DieInv ==
  ASSUME IInv, NEW p \in Processes, Die(p)
  PROVE  IInv'
<1>1. "dead" \in Stages /\ Goto(p, "dead") /\ Alive(p) /\ Alive(p)
  BY DEF Die, At, Stages, Alive, Ended
<1>2. /\ stage' \in [Processes -> Stages] /\ stage'[p] = "dead"
      /\ \A q \in Processes : q # p =>
           stage'[q] = stage[q] /\ (Owner(q)' <=> Owner(q)) /\ (Alive(q)' <=> Alive(q))
      /\ ~Owner(p)'
  BY <1>1, OthersStay DEF IInv
<1>3. TypeOK'
  BY <1>2 DEF Die, IInv, TypeOK
<1>4. OwnerInv'
  BY <1>1, <1>2 DEF Die, IInv, TypeOK, OwnerInv, Owner, Placed
<1>5. FileInv' /\ AsideInv'
  BY <1>1, <1>2, FileAssumption DEF Die, IInv, TypeOK, FileInv, Placed, AsideInv
<1>6. AloneInv'
  BY <1>1, <1>2, AloneActs DEF Die, IInv, AloneInv
<1> QED BY <1>3, <1>4, <1>5, <1>6 DEF IInv

LEMMA CreateInv ==
  ASSUME IInv, NEW p \in Processes, Create(p)
  PROVE  IInv'
<1>1. stage[p] = "create" /\ Alive(p) /\ aside[p] = NoFile
  BY DEF Create, At, Alive, Ended, IInv, AsideInv
<1>2. CASE path = NoFile
  <2>1. "write" \in Stages /\ Goto(p, "write") /\ path' = p
        /\ exposed' = (exposed \/ LiveAside)
    BY <1>2 DEF Create, Stages
  <2>2. /\ stage' \in [Processes -> Stages] /\ stage'[p] = "write"
        /\ \A q \in Processes : q # p =>
             stage'[q] = stage[q] /\ (Owner(q)' <=> Owner(q)) /\ (Alive(q)' <=> Alive(q))
        /\ Owner(p)'
    BY <2>1, OthersStay DEF IInv
  <2>3. TypeOK'
    BY <2>1, <2>2 DEF Create, IInv, TypeOK
  \* An owner's file would be aside, and the owner alive.
  <2>4. ~exposed' => \A q \in Processes : ~Owner(q)
    BY <1>2, <2>1, FileAssumption
       DEF IInv, OwnerInv, Owner, Placed, LiveAside, Alive, Ended
  <2>5. OwnerInv'
    BY <2>1, <2>2, <2>4 DEF OwnerInv, Placed
  <2>6. FileInv' /\ AsideInv'
    BY <1>1, <2>1, <2>2 DEF Create, IInv, FileInv, Placed, AsideInv
  <2>7. AloneInv'
    BY <1>1, <2>2, AloneActs DEF Create, IInv, AloneInv
  <2> QED BY <2>3, <2>5, <2>6, <2>7 DEF IInv
<1>3. CASE path # NoFile
  <2>1. "read" \in Stages /\ Goto(p, "read") /\ UNCHANGED <<path, exposed>>
    BY <1>3 DEF Create, Stages
  <2>2. /\ stage' \in [Processes -> Stages] /\ stage'[p] = "read"
        /\ \A q \in Processes : q # p =>
             stage'[q] = stage[q] /\ (Owner(q)' <=> Owner(q)) /\ (Alive(q)' <=> Alive(q))
        /\ ~Owner(p)'
    BY <2>1, OthersStay DEF IInv
  <2>3. TypeOK'
    BY <2>1, <2>2 DEF Create, IInv, TypeOK
  <2>4. OwnerInv'
    BY <2>1, <2>2 DEF Create, IInv, OwnerInv, Placed
  <2>5. FileInv' /\ AsideInv'
    BY <1>1, <2>1, <2>2 DEF Create, IInv, FileInv, Placed, AsideInv
  <2>6. AloneInv'
    BY <1>1, <1>3, <2>1, <2>2, AloneActs DEF Create, IInv, AloneInv
  <2> QED BY <2>3, <2>4, <2>5, <2>6 DEF IInv
<1> QED BY <1>2, <1>3

LEMMA ReadPidInv ==
  ASSUME IInv, NEW p \in Processes, ReadPid(p)
  PROVE  IInv'
<1>1. stage[p] = "read" /\ Alive(p)
  BY DEF ReadPid, At, Alive, Ended
<1> DEFINE g == IF LiveLock(path) THEN "refused" ELSE "rename"
<1>2. g \in Stages /\ Goto(p, g) /\ g \in {"refused", "rename"}
  BY DEF ReadPid, Stages
<1>3. /\ stage' \in [Processes -> Stages] /\ stage'[p] = g
      /\ \A q \in Processes : q # p =>
           stage'[q] = stage[q] /\ (Owner(q)' <=> Owner(q)) /\ (Alive(q)' <=> Alive(q))
      /\ ~Owner(p)'
  <2> HIDE DEF g
  <2> QED BY <1>2, OthersStay DEF IInv
<1>4. exposed' \in BOOLEAN /\ (~exposed' => ~exposed)
  BY DEF ReadPid, IInv, TypeOK, Alive
<1>5. TypeOK'
  BY <1>3, <1>4 DEF ReadPid, IInv, TypeOK
<1>6. OwnerInv'
  BY <1>3, <1>4 DEF ReadPid, IInv, OwnerInv, Placed
<1>7. FileInv' /\ AsideInv'
  BY <1>1, <1>2, <1>3 DEF ReadPid, IInv, FileInv, Placed, AsideInv
\* The file a lone start finds is not its own, and the others are not alive.
<1>8. p \in alone => ~LiveLock(path)
  BY <1>1 DEF IInv, TypeOK, AloneInv, FileInv, Placed, LiveLock
<1>9. AloneInv'
  BY <1>1, <1>3, <1>8, AloneActs DEF ReadPid, IInv, AloneInv
<1> QED BY <1>5, <1>6, <1>7, <1>9 DEF IInv

\* A pass that ends without the lock, whatever it did to the files: the process is
\* then no owner, and its stage is one of two.
LEMMA PassEnds ==
  ASSUME IInv, NEW p \in Processes, TryAgain(p)
  PROVE  /\ stage' \in [Processes -> Stages] /\ stage'[p] \in {"create", "refused"}
         /\ \A q \in Processes : q # p =>
              /\ stage'[q] = stage[q] /\ (Owner(q)' <=> Owner(q)) /\ (Alive(q)' <=> Alive(q))
              /\ attempt'[q] = attempt[q]
         /\ ~Owner(p)'
         /\ attempt' \in [Processes -> {1, 2}]
         /\ attempt[p] = 1 => stage'[p] = "create"
<1>1. {"create", "refused"} \subseteq Stages
  BY DEF Stages
<1>2. CASE attempt[p] = 1
  BY <1>1, <1>2, TryAgainCases, OthersStay DEF IInv
<1>3. CASE attempt[p] # 1
  BY <1>1, <1>3, TryAgainCases, OthersStay DEF IInv
<1> QED BY <1>2, <1>3

LEMMA RenameAsideInv ==
  ASSUME IInv, NEW p \in Processes, RenameAside(p)
  PROVE  IInv'
<1>1. stage[p] = "rename" /\ Alive(p) /\ aside[p] = NoFile
  BY DEF RenameAside, At, Alive, Ended, IInv, AsideInv
<1>2. CASE path = NoFile
  <2>1. TryAgain(p) /\ UNCHANGED <<path, aside>>
    BY <1>2 DEF RenameAside
  <2>2. TypeOK'
    BY <2>1, PassEnds DEF RenameAside, IInv, TypeOK
  <2>3. OwnerInv'
    BY <2>1, PassEnds DEF RenameAside, IInv, OwnerInv, Placed
  <2>4. FileInv' /\ AsideInv'
    BY <1>1, <2>1, PassEnds DEF RenameAside, IInv, FileInv, Placed, AsideInv
  <2>5. p \notin alone
    BY <1>1, <1>2 DEF IInv, AloneInv
  <2>6. AloneInv'
    BY <1>1, <2>5, AloneActs DEF RenameAside, IInv, AloneInv
  <2> QED BY <2>2, <2>3, <2>4, <2>6 DEF IInv
<1>3. CASE path # NoFile
  <2>1. /\ "inspect" \in Stages /\ Goto(p, "inspect") /\ UNCHANGED attempt
        /\ aside' = [aside EXCEPT ![p] = path] /\ path' = NoFile
    BY <1>3 DEF RenameAside, Stages
  <2>2. /\ stage' \in [Processes -> Stages] /\ stage'[p] = "inspect"
        /\ \A q \in Processes : q # p =>
             stage'[q] = stage[q] /\ (Owner(q)' <=> Owner(q)) /\ (Alive(q)' <=> Alive(q))
        /\ ~Owner(p)'
    BY <2>1, OthersStay DEF IInv
  <2>3. TypeOK'
    BY <2>1, <2>2 DEF RenameAside, IInv, TypeOK
  \* A file that was somewhere still is, and no other is.
  <2>4. \A q \in Processes : Placed(q)' <=> Placed(q)
    <3> SUFFICES ASSUME NEW q \in Processes PROVE Placed(q)' <=> Placed(q)
      OBVIOUS
    <3> QED BY <1>1, <2>1, FileAssumption DEF IInv, TypeOK, Placed
  <2>5. OwnerInv'
    BY <2>2, <2>4 DEF RenameAside, IInv, OwnerInv
  <2>6. FileInv' /\ AsideInv'
    BY <1>1, <2>1, <2>2, <2>4 DEF RenameAside, IInv, TypeOK, FileInv, AsideInv
  <2>7. AloneInv'
    BY <1>1, <2>1, <2>2, AloneActs DEF RenameAside, IInv, AloneInv
  <2> QED BY <2>3, <2>5, <2>6, <2>7 DEF IInv
<1> QED BY <1>2, <1>3

LEMMA InspectInv ==
  ASSUME IInv, NEW p \in Processes, Inspect(p)
  PROVE  IInv'
<1>1. stage[p] = "inspect" /\ Alive(p)
  BY DEF Inspect, At, Alive, Ended
<1>2. p \in alone => ~LiveLock(aside[p])
  BY <1>1 DEF IInv, TypeOK, AloneInv, FileInv, Placed, LiveLock
<1>3. CASE LiveLock(aside[p])
  <2>1. "restore" \in Stages /\ Goto(p, "restore") /\ UNCHANGED <<aside, attempt, exposed>>
    BY <1>3 DEF Inspect, Stages
  <2>2. /\ stage' \in [Processes -> Stages] /\ stage'[p] = "restore"
        /\ \A q \in Processes : q # p =>
             stage'[q] = stage[q] /\ (Owner(q)' <=> Owner(q)) /\ (Alive(q)' <=> Alive(q))
        /\ ~Owner(p)'
    BY <2>1, OthersStay DEF IInv
  <2>3. TypeOK'
    BY <2>1, <2>2 DEF Inspect, IInv, TypeOK
  <2>4. OwnerInv'
    BY <2>1, <2>2 DEF Inspect, IInv, OwnerInv, Placed
  <2>5. FileInv' /\ AsideInv'
    BY <1>1, <2>1, <2>2 DEF Inspect, IInv, FileInv, Placed, AsideInv
  <2>6. AloneInv'
    BY <1>1, <1>2, <1>3, AloneActs DEF Inspect, IInv, AloneInv
  <2> QED BY <2>3, <2>4, <2>5, <2>6 DEF IInv
<1>4. CASE ~LiveLock(aside[p])
  <2>1. /\ TryAgain(p) /\ aside' = [aside EXCEPT ![p] = NoFile]
        /\ exposed' = (exposed \/ Alive(aside[p]))
    BY <1>4 DEF Inspect
  <2>2. TypeOK'
    BY <2>1, PassEnds DEF Inspect, IInv, TypeOK, Alive
  \* The file removed is no live process's, so no owner's.
  <2>3. ~exposed' => ~exposed /\ \A q \in Processes : Owner(q) /\ Placed(q) => Placed(q)'
    <3> SUFFICES ASSUME ~exposed', NEW q \in Processes, Owner(q), Placed(q)
                 PROVE  Placed(q)'
      BY <2>1
    <3>1. aside[p] # q
      BY <2>1 DEF Owner, Alive, Ended
    <3> QED BY <2>1, <3>1 DEF Inspect, IInv, TypeOK, Placed
  <2>4. OwnerInv'
    BY <2>1, <2>3, PassEnds DEF IInv, OwnerInv
  <2>5. FileInv' /\ AsideInv'
    BY <1>1, <2>1, PassEnds, FileAssumption
       DEF Inspect, IInv, TypeOK, FileInv, Placed, AsideInv
  <2>6. AloneInv'
    BY <1>1, <2>1, PassEnds, AloneActs DEF Inspect, IInv, AloneInv
  <2> QED BY <2>2, <2>4, <2>5, <2>6 DEF IInv
<1> QED BY <1>3, <1>4

LEMMA RestoreInv ==
  ASSUME IInv, NEW p \in Processes, Restore(p)
  PROVE  IInv'
<1>1. stage[p] = "restore" /\ Alive(p) /\ p \notin alone
  BY DEF Restore, At, Alive, Ended, IInv, AloneInv
<1>2. /\ TryAgain(p) /\ path' = aside[p] /\ aside' = [aside EXCEPT ![p] = NoFile]
      /\ exposed' = (exposed \/ (path # NoFile /\ Alive(path)))
  BY DEF Restore
<1>3. TypeOK'
  BY <1>2, PassEnds DEF Restore, IInv, TypeOK, Alive
<1>4. ~exposed' => ~exposed /\ \A q \in Processes : Owner(q) /\ Placed(q) => Placed(q)'
  <2> SUFFICES ASSUME ~exposed', NEW q \in Processes, Owner(q), Placed(q)
               PROVE  Placed(q)'
    BY <1>2
  <2>1. path # q
    BY <1>2, FileAssumption DEF Owner, Alive, Ended
  <2>2. PICK r \in Processes : aside[r] = q
    BY <2>1 DEF Placed
  <2> QED BY <1>2, <2>2 DEF IInv, TypeOK, Placed
<1>5. OwnerInv'
  BY <1>2, <1>4, PassEnds DEF IInv, OwnerInv
<1>6. FileInv' /\ AsideInv'
  BY <1>1, <1>2, PassEnds, FileAssumption
     DEF Restore, IInv, TypeOK, FileInv, Placed, AsideInv
<1>7. AloneInv'
  BY <1>1, AloneActs DEF Restore, IInv, AloneInv
<1> QED BY <1>3, <1>5, <1>6, <1>7 DEF IInv

LEMMA RestoreFailsInv ==
  ASSUME IInv, NEW p \in Processes, RestoreFails(p)
  PROVE  IInv'
<1>1. stage[p] = "restore" /\ Alive(p) /\ p \notin alone
  BY DEF RestoreFails, At, Alive, Ended, IInv, AloneInv
<1>2. /\ stage' \in [Processes -> Stages] /\ stage'[p] \in {"create", "refused", "failed"}
      /\ \A q \in Processes : q # p =>
           stage'[q] = stage[q] /\ (Owner(q)' <=> Owner(q)) /\ (Alive(q)' <=> Alive(q))
      /\ ~Owner(p)' /\ attempt' \in [Processes -> {1, 2}]
      /\ \A q \in Processes : q # p => attempt'[q] = attempt[q]
  <2>1. CASE TryAgain(p)
    BY <2>1, PassEnds
  <2>2. CASE Goto(p, "failed") /\ UNCHANGED attempt
    <3>1. "failed" \in Stages
      BY DEF Stages
    <3> QED BY <2>2, <3>1, OthersStay DEF IInv, TypeOK
  <2> QED BY <2>1, <2>2 DEF RestoreFails
<1>3. /\ aside' = [aside EXCEPT ![p] = NoFile] /\ path' = path
      /\ exposed' = (exposed \/ Alive(aside[p]))
  BY DEF RestoreFails
<1>4. TypeOK'
  BY <1>2, <1>3 DEF RestoreFails, IInv, TypeOK, Alive
<1>5. ~exposed' => ~exposed /\ \A q \in Processes : Owner(q) /\ Placed(q) => Placed(q)'
  <2> SUFFICES ASSUME ~exposed', NEW q \in Processes, Owner(q), Placed(q)
               PROVE  Placed(q)'
    BY <1>3
  <2>1. aside[p] # q
    BY <1>3 DEF Owner, Alive, Ended
  <2> QED BY <1>3, <2>1 DEF IInv, TypeOK, Placed
<1>6. OwnerInv'
  BY <1>2, <1>5 DEF IInv, OwnerInv
<1>7. FileInv' /\ AsideInv'
  BY <1>1, <1>2, <1>3, FileAssumption
     DEF RestoreFails, IInv, TypeOK, FileInv, Placed, AsideInv
<1>8. AloneInv'
  BY <1>1, AloneActs DEF RestoreFails, IInv, AloneInv
<1> QED BY <1>4, <1>6, <1>7, <1>8 DEF IInv

-----------------------------------------------------------------------------
LEMMA StepInv == IInv /\ [Next]_vars => IInv'
<1> SUFFICES ASSUME IInv, [Next]_vars PROVE IInv'
  OBVIOUS
<1>1. CASE UNCHANGED vars
  BY <1>1 DEF vars, IInv, TypeOK, OwnerInv, Owner, Placed, FileInv, AsideInv, AloneInv,
              Alive
<1>2. CASE Finished
  BY <1>1, <1>2 DEF Finished
<1>3. CASE \E p \in Processes : Start(p) \/ Acquire(p) \/ Release(p) \/ Die(p)
  <2> SUFFICES ASSUME NEW p \in Processes, Start(p) \/ Acquire(p) \/ Release(p) \/ Die(p)
               PROVE  IInv'
    BY <1>3
  <2>1. CASE Start(p)  BY <2>1, StartInv
  <2>2. CASE Acquire(p)
    BY <2>2, CreateInv, WritePidInv, WriteFailsInv, ReadPidInv, RenameAsideInv,
       RenameFailsInv, InspectInv, RestoreInv, RestoreFailsInv DEF Acquire
  <2>3. CASE Release(p)  BY <2>3, ReleaseInv
  <2>4. CASE Die(p)  BY <2>4, DieInv
  <2> QED BY <2>1, <2>2, <2>3, <2>4
<1> QED BY <1>1, <1>2, <1>3 DEF Next

\* The inductive invariant holds in every state of a run of the lock.
THEOREM Invariant == Spec => []IInv
BY InitInv, StepInv, PTL DEF Spec

\* The variables keep their types, whatever the number of processes.
THEOREM TypeCorrect == Spec => []TypeOK
<1>1. IInv => TypeOK
  BY DEF IInv
<1> QED BY <1>1, Invariant, PTL

\* acquireLock and ReclaimStaleLock exclude every second holder, but for the
\* exposures that DaemonLock names: with any number of starts, failures and deaths.
THEOREM SingleExclusive == Spec => []SingleUnlessExposed
<1>1. IInv => SingleUnlessExposed
  BY DEF IInv, OwnerInv, Owner, SingleUnlessExposed, SingleInstance, At
<1> QED BY <1>1, Invariant, PTL

\* A start that meets no other live process is never refused: whatever file a dead
\* one left, its two passes are enough to reclaim it.
THEOREM Recovers == Spec => []RecoversAlone
<1>1. IInv => RecoversAlone
  BY DEF IInv, AloneInv, RecoversAlone, At
<1> QED BY <1>1, Invariant, PTL

=============================================================================
