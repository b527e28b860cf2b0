---------------------------- MODULE CronScheduler ----------------------------
(***************************************************************************)
(* One scheduled job: its record in the job store (internal/cron), the     *)
(* processes that run `kajicode cron run` over the same store, and a user  *)
(* at the command line who pauses, resumes and removes the job.            *)
(*                                                                         *)
(* Time is counted in minutes, the resolution of a schedule.  The store's  *)
(* calls are atomic, as the per-job lock makes them; between two calls a   *)
(* process has nothing but the copy it read.                               *)
(*                                                                         *)
(* Operators named ...Mutant are bugs the code could have had; nothing     *)
(* below uses them.                                                        *)
(***************************************************************************)
EXTENDS Integers, FiniteSets

CONSTANTS
  Schedulers,    \* processes that run `cron run`
  Slots,         \* the minutes at which the job's schedule fires
  Horizon,       \* bound: the last minute
  MaxStarts,     \* bound: schedulers started, counting restarts
  MaxCommands,   \* bound: commands given
  MaxErrors      \* bound: calls of the job store that fail

ASSUME HorizonAssumption == Horizon \in Nat \ {0} /\ Slots \subseteq 1..Horizon
ASSUME BoundAssumption   == MaxStarts \in Nat /\ MaxCommands \in Nat /\ MaxErrors \in Nat

VARIABLES
  now,         \* the current minute
  job,         \* the stored job
  recorded,    \* the job's runs.jsonl has a record
  stage,       \* where each scheduler is
  mode,        \* how each scheduler was started
  copy,        \* the job as each scheduler listed it
  fired,       \* the minute each scheduler began to fire the job
  command,     \* the command being carried out, with the job it read
  claims,      \* history: how often each slot was claimed
  raced,       \* history: a claim came between another process's read and write
  pauseKept,   \* history: a pause was acknowledged, and not taken back since
  stale,       \* history: a scheduler has written over the last command, or is about
               \* to write over it, what it read before and does not read again
  starts, commands, errors

schedulerVars == <<stage, mode, copy, fired>>
history       == <<claims, raced, pauseKept, stale>>
bounds        == <<starts, commands, errors>>
vars == <<now, job, recorded, schedulerVars, command, history, bounds>>

-----------------------------------------------------------------------------
Modes  == {"once", "catch-up", "reconcile"}
Stages == {"off", "reconcile", "reschedule", "list", "due", "claim", "running", "record"}
Job    == [exists : BOOLEAN, status : {"active", "paused"}, next : 1..Horizon]
Verbs  == {"none", "pause", "resume"}

\* Schedule.Next: the first slot after a minute, or no slot at all.
Never == 0
NextSlot(t) ==
  IF \E s \in Slots : s > t
    THEN CHOOSE s \in Slots : s > t /\ \A r \in Slots : r > t => s <= r
    ELSE Never

Active(j) == j.exists /\ j.status = "active"
Removed   == [job EXCEPT !.exists = FALSE]

\* What writes the whole job: an Update of a removed job is an error.
UpdateMutant(j) == job' = j
Update(j) == job' = IF job.exists THEN j ELSE job

\* A job is added with its next slot, or due at once (--run-now).
NewJob(next) == [exists |-> TRUE, status |-> "active", next |-> next]

Init ==
  /\ now = 1
  /\ \E next \in {1, NextSlot(1)} \ {Never} : job = NewJob(next)
  /\ recorded = FALSE
  /\ stage = [s \in Schedulers |-> "off"]
  /\ mode  = [s \in Schedulers |-> "once"]
  /\ copy  = [s \in Schedulers |-> NewJob(1)]
  /\ fired = [s \in Schedulers |-> 1]
  /\ command = [verb |-> "none", read |-> NewJob(1)]
  /\ claims = [t \in 1..Horizon |-> 0]
  /\ raced = FALSE /\ pauseKept = FALSE /\ stale = FALSE
  /\ starts = 0 /\ commands = 0 /\ errors = 0

At(s, g)   == stage[s] = g
Goto(s, g) == stage' = [stage EXCEPT ![s] = g]

-----------------------------------------------------------------------------
(* cronRun: --once makes one pass; the others loop until they are stopped. *)

Start(s) ==
  /\ At(s, "off") /\ starts < MaxStarts
  /\ \E m \in Modes :
       /\ mode' = [mode EXCEPT ![s] = m]
       /\ Goto(s, IF m = "reconcile" THEN "reconcile" ELSE "list")
  /\ starts' = starts + 1
  /\ UNCHANGED <<now, job, recorded, copy, fired, command, history, commands, errors>>

\* An interrupt is taken between two passes.
Stop(s) ==
  /\ At(s, "list") /\ mode[s] # "once"
  /\ Goto(s, "off")
  /\ UNCHANGED <<now, job, recorded, mode, copy, fired, command, history, bounds>>

\* The job is done with for this pass, and the copy of it is forgotten.
Forget(s) ==
  /\ copy'  = [copy EXCEPT ![s] = NewJob(1)]
  /\ fired' = [fired EXCEPT ![s] = 1]
Rest(s) == Forget(s) /\ Goto(s, IF mode[s] = "once" THEN "off" ELSE "list")

\* The process ends at any step; a claimed run it had started ends with it.
Crash(s) ==
  /\ ~At(s, "off")
  /\ Goto(s, "off") /\ Forget(s)
  /\ UNCHANGED <<now, job, recorded, mode, command, history, bounds>>

\* reconcileOverdue lists the jobs and moves one that is strictly overdue to its
\* next slot, without firing it.
ReconcileList(s) ==
  /\ At(s, "reconcile")
  /\ IF Active(job) /\ job.next < now /\ NextSlot(now) # Never
       THEN copy' = [copy EXCEPT ![s] = [job EXCEPT !.next = NextSlot(now)]] /\ Goto(s, "reschedule")
       ELSE UNCHANGED copy /\ Goto(s, "list")
  /\ UNCHANGED <<now, job, recorded, mode, fired, command, history, bounds>>

Reschedule(s) ==
  /\ At(s, "reschedule")
  /\ Update(copy[s])
  /\ Goto(s, "list") /\ Forget(s)
  /\ UNCHANGED <<now, recorded, mode, command, history, bounds>>

-----------------------------------------------------------------------------
(* fireDue: list the jobs, then fire each that is due.                     *)

List(s) ==
  /\ At(s, "list")
  /\ IF Active(job)
       THEN copy' = [copy EXCEPT ![s] = job] /\ Goto(s, "due") /\ UNCHANGED fired
       ELSE Rest(s)
  /\ UNCHANGED <<now, job, recorded, mode, command, history, bounds>>

ConsiderMutant(s) ==
  /\ At(s, "due")
  /\ IF copy[s].next >= now
       THEN Rest(s)
       ELSE fired' = [fired EXCEPT ![s] = now] /\ Goto(s, "claim") /\ UNCHANGED copy
  /\ UNCHANGED <<now, job, recorded, mode, command, history, bounds>>
Consider(s) ==
  /\ At(s, "due")
  /\ IF copy[s].next > now
       THEN Rest(s)
       ELSE fired' = [fired EXCEPT ![s] = now] /\ Goto(s, "claim") /\ UNCHANGED copy
  /\ UNCHANGED <<now, job, recorded, mode, command, history, bounds>>

\* claimFire, under the lock: the winner moves the job to its next slot, or pauses
\* a job that has none, so that nobody else finds it due.
ClaimedMutant(s) == [job EXCEPT !.next = NextSlot(fired[s])]
Claimed(s) ==
  IF NextSlot(fired[s]) = Never THEN [job EXCEPT !.status = "paused"]
                                ELSE [job EXCEPT !.next = NextSlot(fired[s])]

\* Another process is about to write back what it read before this claim.
Amid(s) ==
  command.verb # "none" \/ \E r \in Schedulers \ {s} : At(r, "running") \/ At(r, "reschedule")

ClaimMutant(s) ==
  /\ At(s, "claim")
  /\ IF Active(job) /\ job.next <= fired[s]
       THEN /\ Goto(s, "running")
            /\ claims' = [claims EXCEPT ![job.next] = @ + 1]
            /\ raced' = (raced \/ Amid(s))
            /\ UNCHANGED <<copy, fired>>
       ELSE Rest(s) /\ UNCHANGED <<claims, raced>>
  /\ UNCHANGED <<now, job, recorded, mode, command, pauseKept, stale, bounds>>
Claim(s) ==
  /\ At(s, "claim")
  /\ IF Active(job) /\ job.next <= fired[s]
       THEN /\ job' = Claimed(s)
            /\ Goto(s, "running")
            /\ claims' = [claims EXCEPT ![job.next] = @ + 1]
            /\ raced' = (raced \/ Amid(s))
            /\ UNCHANGED <<copy, fired>>
       ELSE Rest(s) /\ UNCHANGED <<job, claims, raced>>
  /\ UNCHANGED <<now, recorded, mode, command, pauseKept, stale, bounds>>

-----------------------------------------------------------------------------
(* fireJob after the run: advance the copy listed before it, and persist.  *)

\* The listed copy after the run.  (FireCount, which no decision reads, is left out.)
Advanced(s) ==
  IF NextSlot(fired[s]) = Never THEN [copy[s] EXCEPT !.status = "paused"]
                                ELSE [copy[s] EXCEPT !.next = NextSlot(fired[s])]

\* What Mutate makes of the stored job: a pause that came during the run stays.
Merged(s) ==
  [job EXCEPT !.next   = Advanced(s).next,
              !.status = IF @ = "paused" THEN "paused" ELSE Advanced(s).status]

PersistMutant(s) ==
  /\ At(s, "running")
  /\ IF job.exists
       THEN job' = Advanced(s) /\ Goto(s, "record") /\ UNCHANGED <<copy, fired>>
       ELSE Rest(s) /\ UNCHANGED job
  /\ UNCHANGED <<now, recorded, mode, command, history, bounds>>
Persist(s) ==
  /\ At(s, "running")
  /\ IF job.exists
       THEN job' = Merged(s) /\ Goto(s, "record") /\ UNCHANGED <<copy, fired>>
       ELSE Rest(s) /\ UNCHANGED job
  /\ UNCHANGED <<now, recorded, mode, command, history, bounds>>

\* A failure to read that is not a removal: the copy is written as it is, over
\* whatever came during the run.
PersistUnread(s) ==
  /\ At(s, "running") /\ job.exists /\ errors < MaxErrors
  /\ job' = Advanced(s)
  /\ Goto(s, "record")
  /\ stale' = TRUE
  /\ errors' = errors + 1
  /\ UNCHANGED <<now, recorded, mode, copy, fired, command, claims, raced, pauseKept, starts, commands>>

\* The store call a scheduler makes fails (its lock is not had, the disk is full).
\* A claim that fails gives the run up, a persist that fails is recorded all the same.
StoreFails(s) ==
  /\ errors < MaxErrors
  /\ \/ At(s, "reschedule") /\ Forget(s) /\ Goto(s, "list")
     \/ stage[s] \in {"claim", "record"} /\ Rest(s)
     \/ At(s, "running") /\ Goto(s, "record") /\ UNCHANGED <<copy, fired>>
  /\ errors' = errors + 1
  /\ UNCHANGED <<now, job, recorded, mode, command, history, starts, commands>>

\* AppendRun, which leaves a removed job alone.
Record(s) ==
  /\ At(s, "record")
  /\ recorded' = (recorded \/ job.exists)
  /\ Rest(s)
  /\ UNCHANGED <<now, job, mode, command, history, bounds>>

-----------------------------------------------------------------------------
(* cron pause, cron resume, cron remove.                                   *)

\* cronSetStatus and cronResume read the job, and write it back in a second call.
\* A resume that finds no next slot is refused.
CommandGet(verb) ==
  /\ command.verb = "none" /\ commands < MaxCommands /\ job.exists
  /\ verb = "resume" => NextSlot(now) # Never
  /\ command' = [verb |-> verb,
                 read |-> IF verb = "pause" THEN [job EXCEPT !.status = "paused"]
                          ELSE [job EXCEPT !.status = "active", !.next = NextSlot(now)]]
  /\ commands' = commands + 1
  /\ UNCHANGED <<now, job, recorded, schedulerVars, history, starts, errors>>

\* The command is acknowledged.  A starting scheduler may have listed the job before
\* and be about to write that back.
CommandUpdate ==
  /\ command.verb # "none"
  /\ Update(command.read)
  /\ pauseKept' = (command.verb = "pause" /\ job.exists)
  /\ stale' = (\E s \in Schedulers : At(s, "reschedule"))
  /\ command' = [command EXCEPT !.verb = "none"]
  /\ UNCHANGED <<now, recorded, schedulerVars, claims, raced, bounds>>

Remove ==
  /\ job.exists /\ commands < MaxCommands
  /\ job' = Removed
  /\ recorded' = FALSE
  /\ pauseKept' = FALSE
  /\ commands' = commands + 1
  /\ UNCHANGED <<now, schedulerVars, command, claims, raced, stale, starts, errors>>

-----------------------------------------------------------------------------
Tick ==
  /\ now < Horizon
  /\ now' = now + 1
  /\ UNCHANGED <<job, recorded, schedulerVars, command, history, bounds>>

\* What a scheduler does when it is not stopped.
Proceed(s) ==
  \/ ReconcileList(s) \/ Reschedule(s)
  \/ List(s) \/ Consider(s) \/ Claim(s)
  \/ Persist(s) \/ Record(s)

Finished ==
  /\ now = Horizon /\ command.verb = "none" /\ \A s \in Schedulers : At(s, "off")
  /\ UNCHANGED vars

Next ==
  \/ \E s \in Schedulers :
       Start(s) \/ Stop(s) \/ Crash(s) \/ Proceed(s)
       \/ PersistUnread(s) \/ StoreFails(s)
  \/ \E verb \in {"pause", "resume"} : CommandGet(verb)
  \/ CommandUpdate \/ Remove \/ Tick \/ Finished

Spec == Init /\ [][Next]_vars
FairSpec == Spec /\ \A s \in Schedulers : WF_vars(Proceed(s))

-----------------------------------------------------------------------------
(* Properties.                                                             *)

\* The variables keep their types: NextRunAt is never the zero time.
TypeOK ==
  /\ now \in 1..Horizon /\ job \in Job /\ recorded \in BOOLEAN
  /\ stage \in [Schedulers -> Stages] /\ mode \in [Schedulers -> Modes]
  /\ copy \in [Schedulers -> Job] /\ fired \in [Schedulers -> 1..Horizon]
  /\ command \in [verb : Verbs, read : Job]
  /\ claims \in [1..Horizon -> Nat]
  /\ raced \in BOOLEAN /\ pauseKept \in BOOLEAN /\ stale \in BOOLEAN
  /\ starts \in 0..MaxStarts /\ commands \in 0..MaxCommands
  /\ errors \in 0..MaxErrors

\* "A valid recurring job never double-fires" (claimFire).
NeverDoubleFires == \A t \in 1..Horizon : claims[t] <= 1

\* A slot is claimed once, whatever schedulers crash, restart or make a --once
\* pass beside the loop, as long as no claim comes while another process holds a
\* copy it will write back: a run, a command, or a scheduler that starts.
ClaimedOnce == ~raced => NeverDoubleFires

\* What the comment on the persist says: "an external pause/remove landing here can
\* no longer be clobbered" (fireJob).
PauseNeverClobbered == pauseKept => job.status = "paused"

\* A paused job stays paused until it is resumed: neither a run that was in flight
\* when it was paused nor its bookkeeping, a later claim or a restart makes it active
\* again.  Two writes of an older copy are excepted: that of a run which could not
\* read the job again, and that of a starting scheduler which listed it before.
PauseHolds == ~stale => PauseNeverClobbered

\* Whatever a scheduler or a command still has to do, a removed job does not come
\* back, nor a record of a run in its place.
RemovedStays == [][~job.exists => ~job'.exists /\ ~recorded']_vars

Due == Active(job) /\ job.next <= now

\* A scheduler that is not stopped fires a job that is due, or moves it on.
DueFires == \A s \in Schedulers : (Due /\ ~At(s, "off")) ~> (~Due \/ At(s, "off"))

=============================================================================
