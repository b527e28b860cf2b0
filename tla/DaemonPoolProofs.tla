-------------------------- MODULE DaemonPoolProofs --------------------------
(***************************************************************************)
(* The pool's slots bound its workers, its attempts bound the launches, a  *)
(* success is a complete one, and a drain leaves no worker it could have   *)
(* seen: for any set of sessions, any number of slots and of attempts.     *)
(***************************************************************************)
EXTENDS DaemonPool, FiniteSetTheorems, TLAPS

Holding == {"loop", "launch", "started", "pump", "broken", "sleep"}
Leased  == {s \in Sessions : stage[s] \in Holding}

\* A slot is taken by each session that is past the queue.
SlotInv == IsFiniteSet(Leased) /\ slots = Cardinality(Leased)

\* A worker belongs to a session that has a slot; the pool tracks it from Track on.
WorkerInv ==
  \A s \in Sessions :
    /\ worker[s] # "none" => stage[s] \in {"started", "pump", "broken"}
    /\ s \in active <=> stage[s] \in {"pump", "broken"}

\* Every attempt launches once.
LaunchInv ==
  \A s \in Sessions :
    /\ stage[s] \in {"new", "queued", "loop", "launch"} => launches[s] = attempt[s] - 1
    /\ stage[s] \in {"started", "pump", "broken", "sleep"} => launches[s] = attempt[s]
    /\ launches[s] <= attempt[s]

ResultInv ==
  /\ \A s \in Sessions : stage[s] # "ended" => result[s] = "none"
  /\ CompleteSuccess /\ RetriesBounded

\* A worker that lives while the pool drains was tracked when the drain began, and
\* the drain does not end without it.
DrainInv ==
  Draining => \A s \in Sessions : Alive(s) /\ s \notin unseen =>
    s \in active /\ phase # "over" /\ (phase = "kill" => s \in doomed)

IInv == TypeOK /\ SlotInv /\ WorkerInv /\ LaunchInv /\ ResultInv /\ DrainInv

-----------------------------------------------------------------------------
LEMMA InitInv == Init => IInv
<1> SUFFICES ASSUME Init PROVE IInv
  OBVIOUS
<1>1. TypeOK
  BY SizeAssumption, AttemptsAssumption DEF Init, TypeOK, Stages, Results, Phases
<1>2. SlotInv
  <2>1. Leased = {}
    BY DEF Init, Leased, Holding
  <2> QED BY <2>1, FS_EmptySet DEF Init, SlotInv
<1>3. WorkerInv /\ LaunchInv
  BY DEF Init, WorkerInv, LaunchInv
<1>4. ResultInv
  BY AttemptsAssumption DEF Init, ResultInv, CompleteSuccess, RetriesBounded
<1>5. DrainInv
  BY DEF Init, DrainInv, Draining
<1> QED BY <1>1, <1>2, <1>3, <1>4, <1>5 DEF IInv

\* Slots.

LEMMA SlotKept ==
  ASSUME TypeOK, SlotInv, NEW s \in Sessions, NEW g, Goto(s, g), UNCHANGED slots,
         stage[s] \in Holding <=> g \in Holding
  PROVE  SlotInv'
<1>1. Leased' = Leased
  BY DEF TypeOK, Goto, Leased
<1> QED BY <1>1 DEF SlotInv

LEMMA SlotReleased ==
  ASSUME TypeOK, SlotInv, NEW s \in Sessions, NEW r, Return(s, r), stage[s] \in Holding
  PROVE  SlotInv' /\ slots' \in 0..Size
<1>1. Leased' = Leased \ {s} /\ s \in Leased
  BY DEF TypeOK, Return, Finish, Goto, Leased, Holding
<1>2. IsFiniteSet(Leased') /\ Cardinality(Leased') = Cardinality(Leased) - 1
  BY <1>1, FS_RemoveElement DEF SlotInv
<1>3. Cardinality(Leased') \in Nat
  BY <1>2, FS_CardinalityType
<1> QED BY <1>2, <1>3, SizeAssumption DEF SlotInv, TypeOK, Return

LEMMA SlotTaken ==
  ASSUME TypeOK, SlotInv, NEW s \in Sessions, Lease(s)
  PROVE  SlotInv' /\ slots' \in 0..Size
<1>1. Leased' = Leased \cup {s} /\ s \notin Leased
  BY DEF TypeOK, Lease, At, Goto, Leased, Holding
<1>2. IsFiniteSet(Leased') /\ Cardinality(Leased') = Cardinality(Leased) + 1
  BY <1>1, FS_AddElement DEF SlotInv
<1> QED BY <1>2, SizeAssumption DEF SlotInv, TypeOK, Lease

\* What Run does about an attempt that ended.
LEMMA HandleCases ==
  ASSUME NEW s \in Sessions, NEW exit \in Exits, Handle(s, exit)
  PROVE  \/ Continue(s, "sleep")
         \/ \E r \in {"ok", "permanent", "cancelled"} :
              /\ Return(s, r)
              /\ r = "ok" => exit = "ok"
              /\ r = "permanent" => exit = "permanent" \/ attempt[s] = MaxAttempts
BY DEF Handle

-----------------------------------------------------------------------------
(* acquire.                                                                *)

LEMMA SubmitInv ==
  ASSUME IInv, NEW s \in Sessions, Submit(s)
  PROVE  IInv'
<1>1. /\ At(s, "new") /\ UNCHANGED slots
      /\ UNCHANGED <<attempt, worker, active, shutdownVars, launches, fate>>
      /\ \/ Goto(s, "ended") /\ result' = [result EXCEPT ![s] = "draining"]
         \/ Goto(s, "queued") /\ UNCHANGED result
  BY DEF Submit, Refuse, Finish, Continue
<1>2. TypeOK'
  BY <1>1 DEF IInv, TypeOK, Goto, Stages, Results, shutdownVars
<1>3. SlotInv'
  BY <1>1, SlotKept DEF IInv, At, Holding
<1>4. WorkerInv' /\ LaunchInv' /\ DrainInv'
  BY <1>1 DEF IInv, TypeOK, WorkerInv, LaunchInv, DrainInv, Draining, Alive, At, Goto, shutdownVars
<1>5. ResultInv'
  BY <1>1 DEF IInv, TypeOK, ResultInv, CompleteSuccess, RetriesBounded, At, Goto
<1> QED BY <1>2, <1>3, <1>4, <1>5 DEF IInv

LEMMA LeaseInv ==
  ASSUME IInv, NEW s \in Sessions, Lease(s)
  PROVE  IInv'
<1>1. TypeOK'
  BY SlotTaken DEF Lease, IInv, TypeOK, Goto, Stages, shutdownVars
<1>2. SlotInv'
  BY SlotTaken DEF IInv
<1>3. WorkerInv' /\ LaunchInv' /\ DrainInv'
  BY DEF Lease, IInv, TypeOK, WorkerInv, LaunchInv, DrainInv, Draining, Alive, At, Goto, shutdownVars
<1>4. ResultInv'
  BY DEF Lease, IInv, TypeOK, ResultInv, CompleteSuccess, RetriesBounded, At, Goto
<1> QED BY <1>1, <1>2, <1>3, <1>4 DEF IInv

LEMMA LeaveQueueInv ==
  ASSUME IInv, NEW s \in Sessions, LeaveQueue(s)
  PROVE  IInv'
<1>1. PICK r \in {"cancelled", "draining"} :
        /\ At(s, "queued") /\ Goto(s, "ended") /\ result' = [result EXCEPT ![s] = r]
        /\ UNCHANGED <<slots, attempt, worker, active, shutdownVars, launches, fate>>
  BY DEF LeaveQueue, Refuse, Finish
<1>2. TypeOK'
  BY <1>1 DEF IInv, TypeOK, Goto, Stages, Results, shutdownVars
<1>3. SlotInv'
  BY <1>1, SlotKept DEF IInv, At, Holding
<1>4. WorkerInv' /\ LaunchInv' /\ DrainInv'
  BY <1>1 DEF IInv, TypeOK, WorkerInv, LaunchInv, DrainInv, Draining, Alive, At, Goto, shutdownVars
<1>5. ResultInv'
  BY <1>1 DEF IInv, TypeOK, ResultInv, CompleteSuccess, RetriesBounded, At, Goto
<1> QED BY <1>2, <1>3, <1>4, <1>5 DEF IInv

-----------------------------------------------------------------------------
(* Run and runOnce.                                                        *)

LEMMA CheckDrainingInv ==
  ASSUME IInv, NEW s \in Sessions, CheckDraining(s)
  PROVE  IInv'
<1>1. At(s, "loop") /\ UNCHANGED <<attempt, worker, active, shutdownVars, launches, fate>>
  BY DEF CheckDraining
<1>2. CASE Return(s, "draining")
  <2>1. SlotInv' /\ slots' \in 0..Size
    BY <1>1, <1>2, SlotReleased DEF IInv, At, Holding
  <2>2. TypeOK'
    BY <1>1, <1>2, <2>1 DEF Return, Finish, IInv, TypeOK, Goto, Stages, Results, shutdownVars
  <2>3. WorkerInv' /\ LaunchInv' /\ DrainInv'
    BY <1>1, <1>2 DEF Return, Finish, IInv, TypeOK, WorkerInv, LaunchInv, DrainInv, Draining, Alive,
         At, Goto, shutdownVars
  <2>4. ResultInv'
    BY <1>1, <1>2 DEF Return, Finish, IInv, TypeOK, ResultInv, CompleteSuccess, RetriesBounded, At,
         Goto
  <2> QED BY <2>1, <2>2, <2>3, <2>4 DEF IInv
<1>3. CASE Continue(s, "launch")
  <2>1. SlotInv'
    BY <1>1, <1>3, SlotKept DEF Continue, IInv, At, Holding
  <2>2. TypeOK'
    BY <1>1, <1>3 DEF Continue, IInv, TypeOK, Goto, Stages, shutdownVars
  <2>3. WorkerInv' /\ LaunchInv' /\ DrainInv'
    BY <1>1, <1>3 DEF Continue, IInv, TypeOK, WorkerInv, LaunchInv, DrainInv, Draining, Alive, At,
         Goto, shutdownVars
  <2>4. ResultInv'
    BY <1>1, <1>3 DEF Continue, IInv, TypeOK, ResultInv, CompleteSuccess, RetriesBounded, At, Goto
  <2> QED BY <2>1, <2>2, <2>3, <2>4 DEF IInv
<1> QED BY <1>2, <1>3 DEF CheckDraining

LEMMA LaunchStepInv ==
  ASSUME IInv, NEW s \in Sessions, Launch(s)
  PROVE  IInv'
<1>1. /\ At(s, "launch") /\ ~Cancelled /\ worker' = [worker EXCEPT ![s] = "running"]
      /\ launches' = [launches EXCEPT ![s] = @ + 1] /\ Goto(s, "started")
      /\ UNCHANGED <<slots, result, attempt, active, shutdownVars, fate>>
  BY DEF Launch, Continue
<1>2. SlotInv'
  BY <1>1, SlotKept DEF IInv, At, Holding
<1>3. TypeOK'
  BY <1>1 DEF IInv, TypeOK, Goto, Stages, shutdownVars
<1>4. WorkerInv' /\ LaunchInv'
  BY <1>1 DEF IInv, TypeOK, WorkerInv, LaunchInv, At, Goto
<1>5. DrainInv'
  BY <1>1 DEF DrainInv, Draining, Cancelled, shutdownVars
<1>6. ResultInv'
  <2>1. \A q \in Sessions : launches'[q] <= MaxAttempts
    BY <1>4, <1>3, AttemptsAssumption DEF LaunchInv, TypeOK
  <2>2. result[s] = "none"
    BY <1>1 DEF IInv, ResultInv, At
  <2>3. \A q \in Sessions : q # s => launches'[q] = launches[q] /\ stage'[q] = stage[q]
    BY <1>1 DEF IInv, TypeOK, Goto
  <2>4. CompleteSuccess' /\ \A q \in Sessions : stage'[q] # "ended" => result'[q] = "none"
    BY <1>1, <2>2, <2>3 DEF IInv, ResultInv, CompleteSuccess
  <2> QED BY <1>1, <2>1, <2>2, <2>3, <2>4 DEF IInv, ResultInv, RetriesBounded
<1> QED BY <1>2, <1>3, <1>4, <1>5, <1>6 DEF IInv

\* An attempt that ended: its session returns or sleeps.
LEMMA AttemptOver ==
  ASSUME TypeOK, SlotInv, LaunchInv, ResultInv, NEW s \in Sessions, NEW exit \in Exits,
         Handle(s, exit), stage[s] \in Holding, launches' \in [Sessions -> Nat],
         launches'[s] = attempt[s], \A q \in Sessions : q # s => launches'[q] = launches[q],
         fate' = [fate EXCEPT ![s] = exit], UNCHANGED attempt
  PROVE  /\ SlotInv' /\ LaunchInv' /\ ResultInv' /\ slots' \in 0..Size
         /\ result' \in [Sessions -> Results]
         /\ \E g \in {"ended", "sleep"} : stage' = [stage EXCEPT ![s] = g]
<1>1. stage[s] # "ended" /\ result[s] = "none"
  BY DEF Holding, ResultInv
<1>2. CASE Continue(s, "sleep")
  <2>1. Goto(s, "sleep") /\ UNCHANGED <<slots, result>>
    BY <1>2 DEF Continue
  <2>2. SlotInv' /\ slots' \in 0..Size
    BY <2>1, SlotKept DEF Holding, TypeOK
  <2>3. /\ stage'[s] = "sleep" /\ fate'[s] = exit /\ result' \in [Sessions -> Results]
        /\ \A q \in Sessions : q # s => stage'[q] = stage[q] /\ fate'[q] = fate[q]
    BY <2>1 DEF TypeOK, Goto
  <2>4. LaunchInv'
    BY <2>3, AttemptsAssumption DEF LaunchInv, TypeOK
  <2>5. \A q \in Sessions : launches'[q] <= MaxAttempts
    BY <2>4, AttemptsAssumption DEF LaunchInv, TypeOK
  <2>6. ResultInv'
    BY <1>1, <2>1, <2>3, <2>5 DEF ResultInv, CompleteSuccess, RetriesBounded
  <2> QED BY <2>1, <2>2, <2>3, <2>4, <2>6 DEF Goto
<1>3. ASSUME NEW r \in {"ok", "permanent", "cancelled"}, Return(s, r), r = "ok" => exit = "ok",
             r = "permanent" => exit = "permanent" \/ attempt[s] = MaxAttempts
      PROVE  /\ SlotInv' /\ LaunchInv' /\ ResultInv' /\ slots' \in 0..Size
             /\ result' \in [Sessions -> Results]
             /\ \E g \in {"ended", "sleep"} : stage' = [stage EXCEPT ![s] = g]
  <2>1. Goto(s, "ended") /\ result' = [result EXCEPT ![s] = r]
    BY <1>3 DEF Return, Finish
  <2>2. SlotInv' /\ slots' \in 0..Size
    BY <1>3, SlotReleased
  <2>3. /\ stage'[s] = "ended" /\ fate'[s] = exit /\ result'[s] = r
        /\ result' \in [Sessions -> Results]
        /\ \A q \in Sessions : q # s => /\ stage'[q] = stage[q] /\ fate'[q] = fate[q]
                                        /\ result'[q] = result[q]
    BY <2>1 DEF TypeOK, Goto, Results
  <2>4. LaunchInv'
    BY <2>3, AttemptsAssumption DEF LaunchInv, TypeOK
  <2>5. \A q \in Sessions : launches'[q] <= MaxAttempts
    BY <2>4, AttemptsAssumption DEF LaunchInv, TypeOK
  <2>6. ResultInv'
    BY <1>3, <2>3, <2>5 DEF ResultInv, CompleteSuccess, RetriesBounded
  <2> QED BY <2>1, <2>2, <2>3, <2>4, <2>6 DEF Goto
<1> QED BY <1>2, <1>3, HandleCases

LEMMA LaunchFailsInv ==
  ASSUME IInv, NEW s \in Sessions, LaunchFails(s)
  PROVE  IInv'
<1>1. /\ At(s, "launch") /\ Handle(s, "error") /\ "error" \in Exits
      /\ launches' = [launches EXCEPT ![s] = @ + 1] /\ fate' = [fate EXCEPT ![s] = "error"]
      /\ UNCHANGED <<attempt, worker, active, shutdownVars>>
  BY DEF LaunchFails, Exits
<1>2. /\ launches' \in [Sessions -> Nat] /\ launches'[s] = attempt[s]
      /\ \A q \in Sessions : q # s => launches'[q] = launches[q]
  BY <1>1, AttemptsAssumption DEF IInv, TypeOK, LaunchInv, At
<1>3. /\ SlotInv' /\ LaunchInv' /\ ResultInv' /\ slots' \in 0..Size
      /\ result' \in [Sessions -> Results]
      /\ \E g \in {"ended", "sleep"} : stage' = [stage EXCEPT ![s] = g]
  BY <1>1, <1>2, AttemptOver DEF IInv, At, Holding
<1>4. TypeOK'
  BY <1>1, <1>2, <1>3 DEF IInv, TypeOK, Stages, shutdownVars
<1>5. WorkerInv' /\ DrainInv'
  BY <1>1, <1>3 DEF IInv, TypeOK, WorkerInv, DrainInv, Draining, Alive, At, shutdownVars
<1> QED BY <1>3, <1>4, <1>5 DEF IInv

LEMMA ReapInv ==
  ASSUME IInv, NEW s \in Sessions, Reap(s)
  PROVE  IInv'
<1> DEFINE exit == IF At(s, "broken") THEN "error" ELSE worker[s]
<1>1. /\ stage[s] \in {"pump", "broken"} /\ worker[s] \in Exits /\ exit \in Exits
      /\ active' = active \ {s} /\ worker' = [worker EXCEPT ![s] = "none"]
      /\ fate' = [fate EXCEPT ![s] = exit] /\ Handle(s, exit)
      /\ UNCHANGED <<attempt, shutdownVars, launches>>
  BY DEF Reap, Exits
<1> HIDE DEF exit
<1>2. launches' \in [Sessions -> Nat] /\ launches'[s] = attempt[s]
  BY <1>1 DEF IInv, TypeOK, LaunchInv
<1>3. /\ SlotInv' /\ LaunchInv' /\ ResultInv' /\ slots' \in 0..Size
      /\ result' \in [Sessions -> Results]
      /\ \E g \in {"ended", "sleep"} : stage' = [stage EXCEPT ![s] = g]
  BY <1>1, <1>2, AttemptOver DEF IInv, Holding
<1>4. TypeOK'
  BY <1>1, <1>3 DEF IInv, TypeOK, Stages, shutdownVars
<1>5. WorkerInv' /\ DrainInv'
  BY <1>1, <1>3 DEF IInv, TypeOK, WorkerInv, DrainInv, Draining, Alive, shutdownVars
<1> QED BY <1>3, <1>4, <1>5 DEF IInv

LEMMA TrackInv ==
  ASSUME IInv, NEW s \in Sessions, Track(s)
  PROVE  IInv'
<1>1. /\ At(s, "started") /\ Goto(s, "pump") /\ active' = active \cup {s}
      /\ UNCHANGED <<slots, result, attempt, worker, shutdownVars, launches, fate>>
  BY DEF Track, Continue
<1>2. SlotInv'
  BY <1>1, SlotKept DEF IInv, At, Holding
<1>3. TypeOK'
  BY <1>1 DEF IInv, TypeOK, Goto, Stages, shutdownVars
<1>4. WorkerInv' /\ LaunchInv' /\ DrainInv'
  BY <1>1 DEF IInv, TypeOK, WorkerInv, LaunchInv, DrainInv, Draining, Alive, At, Goto, shutdownVars
<1>5. ResultInv'
  BY <1>1 DEF IInv, TypeOK, ResultInv, CompleteSuccess, RetriesBounded, At, Goto
<1> QED BY <1>2, <1>3, <1>4, <1>5 DEF IInv

LEMMA ReadErrorInv ==
  ASSUME IInv, NEW s \in Sessions, ReadError(s)
  PROVE  IInv'
<1>1. /\ At(s, "pump") /\ Goto(s, "broken") /\ worker' = Signalled(s)
      /\ UNCHANGED <<slots, result, attempt, active, shutdownVars, launches, fate>>
  BY DEF ReadError, Continue
<1>2. SlotInv'
  BY <1>1, SlotKept DEF IInv, At, Holding
<1>3. TypeOK'
  BY <1>1 DEF IInv, TypeOK, Goto, Signalled, Stages, shutdownVars
<1>4. WorkerInv' /\ LaunchInv' /\ DrainInv'
  BY <1>1 DEF IInv, TypeOK, WorkerInv, LaunchInv, DrainInv, Draining, Alive, Signalled, At, Goto,
       shutdownVars
<1>5. ResultInv'
  BY <1>1 DEF IInv, TypeOK, ResultInv, CompleteSuccess, RetriesBounded, At, Goto
<1> QED BY <1>2, <1>3, <1>4, <1>5 DEF IInv

\* The attempt that a session wakes for has not launched yet.
LEMMA WakeInv ==
  ASSUME IInv, NEW s \in Sessions, Wake(s)
  PROVE  IInv'
<1>1. At(s, "sleep") /\ UNCHANGED <<worker, active, shutdownVars, launches, fate>>
  BY DEF Wake
<1>2. CASE /\ attempt[s] # MaxAttempts
           /\ attempt' = [attempt EXCEPT ![s] = @ + 1] /\ Continue(s, "loop")
  <2>1. Goto(s, "loop") /\ UNCHANGED <<slots, result>>
    BY <1>2 DEF Continue
  <2>2. SlotInv'
    BY <1>1, <2>1, SlotKept DEF IInv, At, Holding
  <2>3. attempt' \in [Sessions -> 1..MaxAttempts]
    BY <1>2, AttemptsAssumption DEF IInv, TypeOK
  <2>4. TypeOK'
    BY <1>1, <2>1, <2>3 DEF IInv, TypeOK, Goto, Stages, shutdownVars
  <2>5. WorkerInv' /\ DrainInv'
    BY <1>1, <2>1 DEF IInv, TypeOK, WorkerInv, DrainInv, Draining, Alive, At, Goto, shutdownVars
  <2>6. LaunchInv'
    BY <1>1, <1>2, <2>1, AttemptsAssumption DEF IInv, TypeOK, LaunchInv, At, Goto
  <2>7. ResultInv'
    BY <1>1, <2>1 DEF IInv, TypeOK, ResultInv, CompleteSuccess, RetriesBounded, At, Goto
  <2> QED BY <2>2, <2>4, <2>5, <2>6, <2>7 DEF IInv
<1>3. ASSUME NEW r \in {"cancelled", "permanent"}, Return(s, r), UNCHANGED attempt,
             r = "permanent" => attempt[s] = MaxAttempts
      PROVE  IInv'
  <2>1. Goto(s, "ended") /\ result' = [result EXCEPT ![s] = r]
    BY <1>3 DEF Return, Finish
  <2>2. SlotInv' /\ slots' \in 0..Size
    BY <1>1, <1>3, SlotReleased DEF IInv, At, Holding
  <2>3. TypeOK'
    BY <1>1, <1>3, <2>1, <2>2 DEF IInv, TypeOK, Goto, Stages, Results, shutdownVars
  <2>4. WorkerInv' /\ LaunchInv' /\ DrainInv'
    BY <1>1, <1>3, <2>1 DEF IInv, TypeOK, WorkerInv, LaunchInv, DrainInv, Draining, Alive, At, Goto,
         shutdownVars
  <2>5. launches[s] = attempt[s]
    BY <1>1 DEF IInv, LaunchInv, At
  <2>6. ResultInv'
    BY <1>1, <1>3, <2>1, <2>5 DEF IInv, TypeOK, ResultInv, CompleteSuccess, RetriesBounded, At, Goto
  <2> QED BY <2>2, <2>3, <2>4, <2>6 DEF IInv
<1> QED BY <1>2, <1>3 DEF Wake

-----------------------------------------------------------------------------
(* The worker processes and the shutdown.                                  *)

\* A step in which no session moves.
LEMMA SessionsStay ==
  ASSUME IInv, UNCHANGED <<sessionVars, launches, fate>>
  PROVE  SlotInv' /\ LaunchInv' /\ ResultInv'
<1>1. SlotInv'
  BY DEF IInv, SlotInv, Leased, sessionVars
<1>2. LaunchInv' /\ ResultInv'
  BY DEF IInv, LaunchInv, ResultInv, CompleteSuccess, RetriesBounded, sessionVars
<1> QED BY <1>1, <1>2

LEMMA ExitInv ==
  ASSUME IInv, NEW s \in Sessions, WorkerExits(s) \/ TerminatedExits(s)
  PROVE  IInv'
<1>1. PICK exit \in Exits : worker' = [worker EXCEPT ![s] = exit]
  BY DEF WorkerExits, TerminatedExits, Exit
<1>2. /\ worker[s] \in {"running", "signalled"}
      /\ UNCHANGED <<sessionVars, active, shutdownVars, launches, fate>>
  BY DEF WorkerExits, TerminatedExits, Exit
<1>3. TypeOK' /\ WorkerInv' /\ DrainInv'
  BY <1>1, <1>2 DEF IInv, TypeOK, WorkerInv, DrainInv, Draining, Alive, Exits, sessionVars,
       shutdownVars
<1> QED BY <1>2, <1>3, SessionsStay DEF IInv

LEMMA ContextKillInv ==
  ASSUME IInv, NEW s \in Sessions, ContextKill(s)
  PROVE  IInv'
<1>1. TypeOK' /\ WorkerInv' /\ DrainInv'
  BY DEF ContextKill, Signalled, IInv, TypeOK, WorkerInv, DrainInv, Draining, Alive, sessionVars,
       shutdownVars
<1> QED BY <1>1, SessionsStay DEF ContextKill, IInv

LEMMA KillStragglerInv ==
  ASSUME IInv, NEW s \in Sessions, KillStraggler(s)
  PROVE  IInv'
<1>1. TypeOK' /\ WorkerInv' /\ DrainInv'
  BY DEF KillStraggler, Signalled, IInv, TypeOK, WorkerInv, DrainInv, Draining, Alive, sessionVars
<1> QED BY <1>1, SessionsStay DEF KillStraggler, IInv

\* When the drain begins, the workers that live are those it can see and the unseen.
LEMMA ShutdownInv ==
  ASSUME IInv, Cancel \/ Shutdown
  PROVE  IInv'
<1>1. UNCHANGED <<sessionVars, worker, active, launches, fate>>
  BY DEF Cancel, Shutdown, BeginDrain, DrainIdle, GraceEnds, KillsDone
<1>2. TypeOK' /\ WorkerInv'
  BY <1>1 DEF Cancel, Shutdown, BeginDrain, DrainIdle, GraceEnds, KillsDone, IInv, TypeOK,
       WorkerInv, Phases, sessionVars
<1>3. DrainInv'
  <2>1. CASE Cancel
    BY <2>1 DEF Cancel, DrainInv, Draining
  <2>2. CASE BeginDrain
    BY <2>2 DEF BeginDrain, IInv, DrainInv, WorkerInv, Draining, Alive, sessionVars
  <2>3. CASE DrainIdle \/ GraceEnds \/ KillsDone
    BY <2>3 DEF DrainIdle, GraceEnds, KillsDone, IInv, DrainInv, Draining, Alive
  <2> QED BY <2>1, <2>2, <2>3 DEF Shutdown
<1> QED BY <1>1, <1>2, <1>3, SessionsStay DEF IInv

LEMMA StutterInv ==
  ASSUME IInv, UNCHANGED vars
  PROVE  IInv'
<1>1. TypeOK' /\ WorkerInv' /\ DrainInv'
  BY DEF vars, IInv, TypeOK, WorkerInv, DrainInv, Draining, Alive, sessionVars, shutdownVars
<1> QED BY <1>1, SessionsStay DEF vars, IInv

LEMMA StepInv ==
  ASSUME IInv, [Next]_vars
  PROVE  IInv'
<1>1. ASSUME NEW s \in Sessions, Submit(s) \/ Wait(s) \/ Proceed(s) \/ ReadError(s)
      PROVE  IInv'
  BY <1>1, SubmitInv, LeaseInv, LeaveQueueInv, CheckDrainingInv, LaunchStepInv, LaunchFailsInv,
     TrackInv, ReapInv, WakeInv, ReadErrorInv DEF Wait, Proceed
<1>2. ASSUME NEW s \in Sessions,
             WorkerExits(s) \/ TerminatedExits(s) \/ ContextKill(s) \/ KillStraggler(s)
      PROVE  IInv'
  BY <1>2, ExitInv, ContextKillInv, KillStragglerInv
<1> QED BY <1>1, <1>2, ShutdownInv, StutterInv DEF Next, Stopped

LEMMA InvariantHolds == Spec => []IInv
<1> QED BY InitInv, StepInv, PTL DEF Spec

-----------------------------------------------------------------------------
(* The theorems.                                                           *)

\* The pool keeps its types: the channel of slots holds between none and Size, and a
\* session is in one of its attempts (acquire, release and Run in pool.go).
THEOREM TypeCorrect == Spec => []TypeOK
<1>1. IInv => TypeOK
  BY DEF IInv
<1> QED BY <1>1, InvariantHolds, PTL

\* The workers that live are of sessions with a slot, so they are at most Size,
\* through retries, kills and read errors (Run and runOnce in pool.go).
THEOREM WorkersBounded == Spec => []BoundedWorkers
<1>1. ASSUME IInv PROVE BoundedWorkers
  <2> DEFINE Living == {s \in Sessions : Alive(s)}
  <2>1. Living \subseteq Leased
    BY <1>1 DEF IInv, WorkerInv, Alive, Leased, Holding
  <2>2. IsFiniteSet(Leased) /\ Cardinality(Leased) \in 0..Size
    BY <1>1 DEF IInv, SlotInv, TypeOK
  <2>3. Cardinality(Living) <= Cardinality(Leased) /\ Cardinality(Living) \in Nat
    BY <2>1, <2>2, FS_Subset, FS_CardinalityType
  <2>4. Cardinality(Living) <= Size
    <3> HIDE DEF Living
    <3> QED BY <2>2, <2>3, SizeAssumption
  <2> QED BY <2>4 DEF BoundedWorkers
<1>2. IInv => BoundedWorkers
  BY <1>1
<1> QED BY <1>2, InvariantHolds, PTL

\* A session succeeds only with a worker that exited cleanly and whose output was
\* read to the end (runOnce in pool.go).
THEOREM SuccessComplete == Spec => []CompleteSuccess
<1>1. IInv => CompleteSuccess
  BY DEF IInv, ResultInv
<1> QED BY <1>1, InvariantHolds, PTL

\* A session is launched at most as often as it has attempts, whatever its workers
\* end with, and given up as permanent only for cause (Run in pool.go).
THEOREM LaunchesBounded == Spec => []RetriesBounded
<1>1. IInv => RetriesBounded
  BY DEF IInv, ResultInv
<1> QED BY <1>1, InvariantHolds, PTL

\* When Drain returns, no worker it could have seen is alive (Drain in pool.go).
THEOREM DrainComplete == Spec => []DrainLeavesNone
<1>1. IInv => DrainLeavesNone
  BY DEF IInv, DrainInv, Draining, DrainLeavesNone
<1> QED BY <1>1, InvariantHolds, PTL
=============================================================================
