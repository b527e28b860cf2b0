----------------------------- MODULE DaemonPool -----------------------------
(***************************************************************************)
(* The daemon's worker pool (internal/daemon/pool.go) and the shutdown of  *)
(* the server over it (server.go): sessions queue for a slot, each runs a  *)
(* worker process and retries it, and a shutdown cancels and drains them.  *)
(*                                                                         *)
(* Delays and the grace window have no length: a timer may fire at once,   *)
(* and the window may end at any moment after it began.                    *)
(*                                                                         *)
(* Operators named ...Mutant are bugs the code could have had; nothing     *)
(* below uses them.                                                        *)
(***************************************************************************)
EXTENDS Integers, FiniteSets

CONSTANTS
  Sessions,    \* sessions given to the pool
  Size,        \* lease slots
  MaxAttempts  \* attempts a session gets, the first included

ASSUME SizeAssumption     == Size \in Nat \ {0}
ASSUME AttemptsAssumption == MaxAttempts \in Nat \ {0}

VARIABLES
  slots,    \* lease slots taken
  stage,    \* where each session's goroutine is
  attempt,  \* which attempt each session is in
  worker,   \* each session's worker process: none, alive, or what it ended with
  active,   \* sessions whose worker is tracked
  result,   \* what each session ended with
  phase,    \* how far the shutdown is
  doomed,   \* stragglers still to be killed by the drain
  launches, \* history: how often each session's launcher was called
  fate,     \* history: what became of each session's last worker
  unseen    \* history: sessions between check and track when the drain began

sessionVars == <<slots, stage, attempt, result>>
shutdownVars == <<phase, doomed, unseen>>
vars == <<sessionVars, worker, active, shutdownVars, launches, fate>>

-----------------------------------------------------------------------------
\* The exit codes 0, ExitPermanent, ExitTempfail, any other, and a failing Wait.
Exits   == {"ok", "permanent", "tempfail", "crash", "error"}
Stages  == {"new", "queued", "loop", "launch", "started", "pump", "broken", "sleep", "ended"}
Results == {"none", "ok", "permanent", "draining", "cancelled"}
Phases  == {"up", "cancelled", "grace", "kill", "over"}

Cancelled == phase # "up"
Draining  == phase \in {"grace", "kill", "over"}

Alive(s) == worker[s] \in {"running", "signalled"}

Init ==
  /\ slots = 0
  /\ stage    = [s \in Sessions |-> "new"]
  /\ attempt  = [s \in Sessions |-> 1]
  /\ result   = [s \in Sessions |-> "none"]
  /\ worker   = [s \in Sessions |-> "none"]
  /\ launches = [s \in Sessions |-> 0]
  /\ fate     = [s \in Sessions |-> "none"]
  /\ active = {}
  /\ phase = "up" /\ doomed = {} /\ unseen = {}

At(s, g)   == stage[s] = g
Goto(s, g) == stage' = [stage EXCEPT ![s] = g]

\* Run returns: its slot is released and the session finished.  A session that
\* leaves the queue has no slot.
Finish(s, r) == Goto(s, "ended") /\ result' = [result EXCEPT ![s] = r]
Return(s, r) == Finish(s, r) /\ slots' = slots - 1
RefuseMutant(s, r) == Return(s, r)
Refuse(s, r) == Finish(s, r) /\ UNCHANGED slots
Continue(s, g) == Goto(s, g) /\ UNCHANGED <<slots, result>>

-----------------------------------------------------------------------------
(* acquire.  Its select takes any of the cases that are ready.             *)

Submit(s) ==
  /\ At(s, "new")
  /\ IF Draining THEN Refuse(s, "draining") ELSE Continue(s, "queued")
  /\ UNCHANGED <<attempt, worker, active, shutdownVars, launches, fate>>

Lease(s) ==
  /\ At(s, "queued") /\ slots < Size
  /\ slots' = slots + 1
  /\ Goto(s, "loop")
  /\ UNCHANGED <<attempt, result, worker, active, shutdownVars, launches, fate>>

LeaveQueue(s) ==
  /\ At(s, "queued")
  /\ \/ Cancelled /\ Refuse(s, "cancelled")
     \/ Draining  /\ Refuse(s, "draining")
  /\ UNCHANGED <<attempt, worker, active, shutdownVars, launches, fate>>

-----------------------------------------------------------------------------
(* Run and runOnce.                                                        *)

CheckDraining(s) ==
  /\ At(s, "loop")
  /\ IF Draining THEN Return(s, "draining") ELSE Continue(s, "launch")
  /\ UNCHANGED <<attempt, worker, active, shutdownVars, launches, fate>>

\* What Run does about the way an attempt ended.  A tempfail sleeps even after the
\* last attempt.
Handle(s, exit) ==
  LET again == exit = "crash" \/ (exit = "error" /\ ~Cancelled)
  IN  \/ exit = "ok"        /\ Return(s, "ok")
      \/ exit = "permanent" /\ Return(s, "permanent")
      \/ exit = "tempfail"  /\ Continue(s, "sleep")
      \/ exit = "error" /\ Cancelled /\ Return(s, "cancelled")
      \/ again /\ attempt[s] = MaxAttempts /\ Return(s, "permanent")
      \/ again /\ attempt[s] # MaxAttempts /\ Continue(s, "sleep")

\* A cancelled context starts no process.
Launch(s) ==
  /\ At(s, "launch") /\ ~Cancelled
  /\ worker' = [worker EXCEPT ![s] = "running"]
  /\ launches' = [launches EXCEPT ![s] = @ + 1]
  /\ Continue(s, "started")
  /\ UNCHANGED <<attempt, active, shutdownVars, fate>>

LaunchFails(s) ==
  /\ At(s, "launch")
  /\ launches' = [launches EXCEPT ![s] = @ + 1]
  /\ fate' = [fate EXCEPT ![s] = "error"]
  /\ Handle(s, "error")
  /\ UNCHANGED <<attempt, worker, active, shutdownVars>>

Track(s) ==
  /\ At(s, "started")
  /\ active' = active \cup {s}
  /\ Continue(s, "pump")
  /\ UNCHANGED <<attempt, worker, shutdownVars, launches, fate>>

\* The worker's output cannot be read to its end: it is killed and waited for.
Signalled(s) == IF worker[s] = "running" THEN [worker EXCEPT ![s] = "signalled"] ELSE worker

ReadError(s) ==
  /\ At(s, "pump")
  /\ worker' = Signalled(s)
  /\ Continue(s, "broken")
  /\ UNCHANGED <<attempt, active, shutdownVars, launches, fate>>

\* The worker has exited: it is untracked, and what it ended with is handled.
ReapMutant(s) ==
  /\ stage[s] \in {"pump", "broken"} /\ worker[s] \in Exits
  /\ active' = active \ {s}
  /\ worker' = [worker EXCEPT ![s] = "none"]
  /\ fate'   = [fate EXCEPT ![s] = IF At(s, "broken") THEN "error" ELSE worker[s]]
  /\ Handle(s, worker[s])
  /\ UNCHANGED <<attempt, shutdownVars, launches>>
ReapUnwaitedMutant(s) ==
  /\ At(s, "broken") \/ (At(s, "pump") /\ worker[s] \in Exits)
  /\ active' = active \ {s}
  /\ worker' = IF Alive(s) THEN worker ELSE [worker EXCEPT ![s] = "none"]
  /\ LET exit == IF At(s, "broken") THEN "error" ELSE worker[s]
     IN  fate' = [fate EXCEPT ![s] = exit] /\ Handle(s, exit)
  /\ UNCHANGED <<attempt, shutdownVars, launches>>
Reap(s) ==
  /\ stage[s] \in {"pump", "broken"} /\ worker[s] \in Exits
  /\ active' = active \ {s}
  /\ worker' = [worker EXCEPT ![s] = "none"]
  /\ LET exit == IF At(s, "broken") THEN "error" ELSE worker[s]
     IN  fate' = [fate EXCEPT ![s] = exit] /\ Handle(s, exit)
  /\ UNCHANGED <<attempt, shutdownVars, launches>>

\* sleep observes the context, not the drain; either case may win.
WakeMutant(s) ==
  /\ At(s, "sleep")
  /\ \/ Cancelled /\ Return(s, "cancelled") /\ UNCHANGED attempt
     \/ fate[s] = "tempfail" /\ Continue(s, "loop") /\ UNCHANGED attempt
     \/ /\ fate[s] # "tempfail"
        /\ attempt' = [attempt EXCEPT ![s] = @ + 1] /\ Continue(s, "loop")
  /\ UNCHANGED <<worker, active, shutdownVars, launches, fate>>
Wake(s) ==
  /\ At(s, "sleep")
  /\ \/ Cancelled /\ Return(s, "cancelled") /\ UNCHANGED attempt
     \/ attempt[s] = MaxAttempts /\ Return(s, "permanent") /\ UNCHANGED attempt
     \/ /\ attempt[s] # MaxAttempts
        /\ attempt' = [attempt EXCEPT ![s] = @ + 1] /\ Continue(s, "loop")
  /\ UNCHANGED <<worker, active, shutdownVars, launches, fate>>

-----------------------------------------------------------------------------
(* The worker processes.                                                   *)

Exit(s) ==
  /\ \E exit \in Exits : worker' = [worker EXCEPT ![s] = exit]
  /\ UNCHANGED <<sessionVars, active, shutdownVars, launches, fate>>

\* A worker may run for as long as it likes; a terminated one is gone in the end.
WorkerExits(s)     == worker[s] = "running" /\ Exit(s)
TerminatedExits(s) == worker[s] = "signalled" /\ Exit(s)

\* The launcher's command terminates its process group when the context ends.
ContextKillMutant(s) == Cancelled /\ worker[s] = "running" /\ UNCHANGED vars
ContextKill(s) ==
  /\ Cancelled /\ worker[s] = "running"
  /\ worker' = Signalled(s)
  /\ UNCHANGED <<sessionVars, active, shutdownVars, launches, fate>>

-----------------------------------------------------------------------------
(* Server.Shutdown: cancel the runs, then Drain the pool.                  *)

Cancel ==
  /\ phase = "up"
  /\ phase' = "cancelled"
  /\ UNCHANGED <<sessionVars, worker, active, doomed, unseen, launches, fate>>

BeginDrain ==
  /\ phase = "cancelled"
  /\ phase' = "grace"
  /\ unseen' = {s \in Sessions : stage[s] \in {"launch", "started"}}
  /\ UNCHANGED <<sessionVars, worker, active, doomed, launches, fate>>

\* The poll finds no tracked worker.
DrainIdle ==
  /\ phase = "grace" /\ active = {}
  /\ phase' = "over"
  /\ UNCHANGED <<sessionVars, worker, active, doomed, unseen, launches, fate>>

GraceEndsMutant ==
  /\ phase = "grace"
  /\ phase' = "over"
  /\ UNCHANGED <<sessionVars, worker, active, doomed, unseen, launches, fate>>
GraceEnds ==
  /\ phase = "grace"
  /\ phase' = "kill" /\ doomed' = active
  /\ UNCHANGED <<sessionVars, worker, active, unseen, launches, fate>>

\* Kill returns when the process is gone.
KillStraggler(s) ==
  /\ phase = "kill" /\ s \in doomed
  /\ worker' = Signalled(s)
  /\ doomed' = IF Alive(s) THEN doomed ELSE doomed \ {s}
  /\ UNCHANGED <<sessionVars, active, phase, unseen, launches, fate>>

KillsDone ==
  /\ phase = "kill" /\ doomed = {}
  /\ phase' = "over"
  /\ UNCHANGED <<sessionVars, worker, active, doomed, unseen, launches, fate>>

-----------------------------------------------------------------------------
Wait(s)    == Lease(s) \/ LeaveQueue(s)
Proceed(s) == CheckDraining(s) \/ Launch(s) \/ LaunchFails(s) \/ Track(s) \/ Reap(s) \/ Wake(s)
Shutdown   == BeginDrain \/ DrainIdle \/ GraceEnds \/ KillsDone

\* The daemon has stopped, and every session with it.
Stopped == phase = "over" /\ (\A s \in Sessions : At(s, "ended")) /\ UNCHANGED vars

Next ==
  \/ \E s \in Sessions :
       \/ Submit(s) \/ Wait(s) \/ Proceed(s) \/ ReadError(s)
       \/ WorkerExits(s) \/ TerminatedExits(s) \/ ContextKill(s) \/ KillStraggler(s)
  \/ Cancel \/ Shutdown \/ Stopped

Spec == Init /\ [][Next]_vars

\* Goroutines run, a cancelled context is observed, and SIGKILL ends a process.
\* Nothing makes a worker exit by itself.
Fairness ==
  /\ WF_vars(Shutdown)
  /\ \A s \in Sessions :
       /\ WF_vars(Wait(s)) /\ WF_vars(Proceed(s)) /\ WF_vars(KillStraggler(s))
       /\ WF_vars(ContextKill(s)) /\ WF_vars(TerminatedExits(s))

FairSpec == Spec /\ Fairness

-----------------------------------------------------------------------------
(* Properties.                                                             *)

\* The variables keep their types; the channel of slots never holds more than Size.
TypeOK ==
  /\ slots \in 0..Size
  /\ stage \in [Sessions -> Stages]
  /\ attempt \in [Sessions -> 1..MaxAttempts]
  /\ worker \in [Sessions -> {"none", "running", "signalled"} \cup Exits]
  /\ active \subseteq Sessions /\ doomed \subseteq Sessions /\ unseen \subseteq Sessions
  /\ result \in [Sessions -> Results]
  /\ phase \in Phases
  /\ launches \in [Sessions -> Nat]
  /\ fate \in [Sessions -> {"none"} \cup Exits]

\* No more workers live at a time than the pool has slots, through retries, kills,
\* read errors and sessions refused while they queued (the lease of Run).
BoundedWorkers == Cardinality({s \in Sessions : Alive(s)}) <= Size

\* A session succeeds only if its last worker exited cleanly and its output was
\* read to the end; an exit status that comes after a broken read is no success.
CompleteSuccess == \A s \in Sessions : result[s] = "ok" => fate[s] = "ok"

\* Retries are bounded, tempfail ones too, and a session is given up as failed
\* permanently only when its worker said so or all attempts are used.
RetriesBounded ==
  \A s \in Sessions :
    /\ launches[s] <= MaxAttempts
    /\ result[s] = "permanent" => fate[s] = "permanent" \/ launches[s] = MaxAttempts

\* When Drain returns no worker is left alive, but for one whose session had passed
\* the draining check and not yet been tracked when the drain began.
DrainLeavesNone == phase = "over" => {s \in Sessions : Alive(s)} \subseteq unseen

\* A shutdown ends every session, in whatever step of a queue, launch, read or
\* backoff it is, although workers need not exit by themselves.
ShutdownEnds == \A s \in Sessions : (Cancelled /\ ~At(s, "new")) ~> At(s, "ended")

=============================================================================
