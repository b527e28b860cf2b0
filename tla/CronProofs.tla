----------------------------- MODULE CronProofs ------------------------------
(***************************************************************************)
(* The cron scheduler: a removed job stays removed, a paused one paused,   *)
(* and no slot is claimed twice but for the races that CronScheduler       *)
(* names, for any schedulers, any schedule, and any number of restarts,    *)
(* commands and failures.                                                  *)
(* The search for the next run (CronSchedule): it passes over no run, for  *)
(* any calendar and any change of the clock on the hour.                   *)
(***************************************************************************)
EXTENDS CronScheduler, CronSchedule, WellFoundedInduction, TLAPS

\* Nothing is claimed before its time.
TimeInv ==
  /\ \A s \in Schedulers : fired[s] <= now
  /\ \A c \in 1..Horizon : claims[c] # 0 => c <= now

\* What a pause is acknowledged over does not hold an active copy to write back.
PauseInv ==
  /\ pauseKept /\ ~stale => job.status = "paused" /\ \A s \in Schedulers : ~At(s, "reschedule")
  /\ command.verb = "pause" => command.read.status = "paused"

\* Nothing is held that would bring the job back by what it says.
RemovalInv ==
  /\ ~job.exists => ~recorded
  /\ command.read.exists /\ \A s \in Schedulers : copy[s].exists

\* All that was claimed lies before minute m.
Before(m) == \A c \in 1..Horizon : claims[c] # 0 => c < m

\* While no claim has raced, what makes or may make the job active puts it after
\* every slot that was claimed.
ClaimInv ==
  ~raced =>
    /\ NeverDoubleFires
    /\ job.status = "active" => Before(job.next)
    /\ command.verb # "none" /\ command.read.status = "active" => Before(command.read.next)
    /\ \A s \in Schedulers : At(s, "reschedule") => Before(copy[s].next)
    /\ \A s \in Schedulers : At(s, "running") => Before(fired[s] + 1)

IInv == TypeOK /\ TimeInv /\ PauseInv /\ RemovalInv /\ ClaimInv

-----------------------------------------------------------------------------
Less == {ss \in Nat \X Nat : ss[1] < ss[2]}

LEMMA LessWellFounded == IsWellFoundedOn(Less, Nat)
BY NatLessThanWellFounded DEF OpToRel, Less

LEMMA HasFirst ==
  ASSUME NEW T, T \subseteq Nat, T # {}
  PROVE  \E x \in T : \A y \in T : x <= y
<1>1. \E x \in T : \A y \in T : ~ (<<y, x>> \in Less)
  BY LessWellFounded, WFMin
<1>2. PICK x \in T : \A y \in T : ~ (<<y, x>> \in Less)
  BY <1>1
<1>3. ASSUME NEW y \in T, y < x
      PROVE  FALSE
  <2>1. <<y, x>> \in Nat \X Nat /\ <<y, x>>[1] < <<y, x>>[2]
    BY <1>3
  <2>2. <<y, x>> \in Less
    BY <2>1 DEF Less
  <2> QED BY <1>2, <2>2
<1>4. \A y \in T : y \in Nat /\ x \in Nat /\ ~(y < x)
  BY <1>3
<1> QED BY <1>4

\* The next slot is one, if there is any; a set of minutes has a first.
LEMMA NextSlotIsNext ==
  ASSUME NEW c, NextSlot(c) # Never
  PROVE  NextSlot(c) \in 1..Horizon /\ NextSlot(c) > c
<1> DEFINE T == {s \in Slots : s > c}
<1>1. \E s \in Slots : s > c
  BY DEF NextSlot
<1>2. T # {} /\ T \subseteq Nat
  <2>1. T # {}
    BY <1>1
  <2>2. 1..Horizon \subseteq Nat
    BY HorizonAssumption
  <2> QED BY <2>1, <2>2, HorizonAssumption
<1>3. \E x \in T : \A y \in T : x <= y
  BY <1>2, HasFirst
<1>4. \E s \in Slots : s > c /\ \A r \in Slots : r > c => s <= r
  BY <1>3
<1>5. NextSlot(c) \in Slots /\ NextSlot(c) > c
  BY <1>1, <1>4 DEF NextSlot
<1> QED BY <1>5, HorizonAssumption

LEMMA NewJobIsJob == \A n \in 1..Horizon : NewJob(n) \in Job /\ NewJob(n).exists
BY DEF NewJob, Job

LEMMA FirstMinute == 1 \in 1..Horizon /\ Horizon \in Nat
BY HorizonAssumption

LEMMA InitInv == Init => IInv
<1> SUFFICES ASSUME Init PROVE IInv
  OBVIOUS
<1>1. PICK next \in 1..Horizon : job = NewJob(next)
  BY FirstMinute, NextSlotIsNext DEF Init
<1>2. TypeOK
  <2>1. job \in Job /\ NewJob(1) \in Job
    BY <1>1, FirstMinute, NewJobIsJob
  <2>2. command \in [verb : Verbs, read : Job]
    BY <2>1 DEF Init, Verbs
  <2>3. copy \in [Schedulers -> Job] /\ fired \in [Schedulers -> 1..Horizon]
    BY <2>1, FirstMinute DEF Init
  <2>4. stage \in [Schedulers -> Stages] /\ mode \in [Schedulers -> Modes]
    BY DEF Init, Stages, Modes
  <2>5. /\ now \in 1..Horizon /\ claims \in [1..Horizon -> Nat]
        /\ starts \in 0..MaxStarts /\ commands \in 0..MaxCommands /\ errors \in 0..MaxErrors
    BY FirstMinute, BoundAssumption DEF Init
  <2>6. recorded \in BOOLEAN /\ raced \in BOOLEAN /\ pauseKept \in BOOLEAN /\ stale \in BOOLEAN
    BY Zenon DEF Init
  <2> QED BY <2>1, <2>2, <2>3, <2>4, <2>5, <2>6 DEF TypeOK
<1>3. TimeInv /\ PauseInv /\ RemovalInv
  BY FirstMinute, NewJobIsJob DEF Init, TimeInv, PauseInv, RemovalInv
<1>4. ClaimInv
  <2>1. \A m : Before(m)
    BY DEF Init, Before
  <2> QED BY <2>1 DEF Init, ClaimInv, NeverDoubleFires
<1> QED BY <1>2, <1>3, <1>4 DEF IInv

-----------------------------------------------------------------------------
\* A scheduler's step that changes no job and starts nothing that will write one.
LEMMA QuietStep ==
  ASSUME IInv, NEW s \in Schedulers, NEW g \in Stages \ {"reschedule", "running"}, Goto(s, g),
         UNCHANGED <<now, job, command, history, commands>>,
         \/ copy' \in {copy, [copy EXCEPT ![s] = NewJob(1)]}
         \/ job.exists /\ copy' = [copy EXCEPT ![s] = job],
         fired' \in {fired, [fired EXCEPT ![s] = 1], [fired EXCEPT ![s] = now]},
         recorded' \in BOOLEAN, ~job.exists => ~recorded',
         mode' \in [Schedulers -> Modes], starts' \in 0..MaxStarts, errors' \in 0..MaxErrors
  PROVE  IInv'
<1>1. /\ NewJob(1) \in Job /\ NewJob(1).exists /\ job \in Job /\ copy \in [Schedulers -> Job]
      /\ now \in 1..Horizon /\ fired \in [Schedulers -> 1..Horizon]
      /\ stage \in [Schedulers -> Stages]
  BY FirstMinute, NewJobIsJob DEF IInv, TypeOK
<1>2. /\ stage' \in [Schedulers -> Stages] /\ stage'[s] = g
      /\ \A r \in Schedulers : r # s => stage'[r] = stage[r]
  BY <1>1 DEF Goto
<1>3. /\ copy' \in [Schedulers -> Job] /\ \A r \in Schedulers : copy'[r].exists
      /\ \A r \in Schedulers : r # s => copy'[r] = copy[r]
  BY <1>1 DEF IInv, RemovalInv
<1>4. /\ fired' \in [Schedulers -> 1..Horizon] /\ fired'[s] \in {fired[s], 1, now}
      /\ \A r \in Schedulers : r # s => fired'[r] = fired[r]
  BY <1>1, FirstMinute
<1>5. TypeOK'
  BY <1>2, <1>3, <1>4 DEF IInv, TypeOK, history
<1>6. TimeInv'
  BY <1>1, <1>4 DEF IInv, TimeInv, history
<1>7. PauseInv' /\ RemovalInv'
  BY <1>2, <1>3 DEF IInv, PauseInv, RemovalInv, At, history
<1>8. ClaimInv'
  BY <1>2, <1>3, <1>4 DEF IInv, ClaimInv, NeverDoubleFires, Before, At, history
<1> QED BY <1>5, <1>6, <1>7, <1>8 DEF IInv

LEMMA RestStep ==
  ASSUME IInv, NEW s \in Schedulers, Rest(s), UNCHANGED <<now, job, mode, command, history>>,
         UNCHANGED <<starts, commands>>, errors' \in 0..MaxErrors,
         recorded' \in BOOLEAN, ~job.exists => ~recorded'
  PROVE  IInv'
<1> DEFINE g == IF mode[s] = "once" THEN "off" ELSE "list"
<1>1. g \in Stages \ {"reschedule", "running"}
  BY DEF Stages
<1>2. Goto(s, g) /\ copy' = [copy EXCEPT ![s] = NewJob(1)] /\ fired' = [fired EXCEPT ![s] = 1]
  BY DEF Rest, Forget
<1>3. mode' \in [Schedulers -> Modes] /\ starts' \in 0..MaxStarts
  BY DEF IInv, TypeOK
<1> HIDE DEF g
<1> QED BY <1>1, <1>2, <1>3, QuietStep

LEMMA RunsInv ==
  ASSUME IInv, NEW s \in Schedulers, Start(s) \/ Stop(s) \/ Crash(s)
  PROVE  IInv'
<1>1. recorded \in BOOLEAN /\ (~job.exists => ~recorded)
  BY DEF IInv, TypeOK, RemovalInv
<1>2. CASE Start(s)
  <2>1. PICK m \in Modes : mode' = [mode EXCEPT ![s] = m]
                           /\ Goto(s, IF m = "reconcile" THEN "reconcile" ELSE "list")
    BY <1>2 DEF Start
  <2>2. (IF m = "reconcile" THEN "reconcile" ELSE "list") \in Stages \ {"reschedule", "running"}
    BY DEF Stages
  <2>3. /\ mode' \in [Schedulers -> Modes] /\ starts' \in 0..MaxStarts /\ errors' \in 0..MaxErrors
    BY <1>2, <2>1, BoundAssumption DEF Start, IInv, TypeOK
  <2> QED BY <1>1, <1>2, <2>1, <2>2, <2>3, QuietStep DEF Start
<1>3. CASE Stop(s) \/ Crash(s)
  <2>1. /\ Goto(s, "off") /\ "off" \in Stages \ {"reschedule", "running"}
        /\ UNCHANGED <<now, job, recorded, mode, command, history, bounds>>
        /\ copy' \in {copy, [copy EXCEPT ![s] = NewJob(1)]}
        /\ fired' \in {fired, [fired EXCEPT ![s] = 1]}
    BY <1>3 DEF Stop, Crash, Forget, Stages
  <2>2. mode' \in [Schedulers -> Modes] /\ starts' \in 0..MaxStarts /\ errors' \in 0..MaxErrors
    BY <2>1 DEF IInv, TypeOK, bounds
  <2> QED BY <1>1, <2>1, <2>2, QuietStep DEF bounds
<1> QED BY <1>2, <1>3

-----------------------------------------------------------------------------
\* What is before a slot is before the next one after now.
LEMMA BeforeNext ==
  ASSUME TypeOK, TimeInv, NextSlot(now) # Never
  PROVE  NextSlot(now) \in 1..Horizon /\ Before(NextSlot(now))
<1>1. NextSlot(now) \in 1..Horizon /\ NextSlot(now) > now
  BY NextSlotIsNext
<1>2. now \in Nat /\ NextSlot(now) \in Nat
  BY <1>1, FirstMinute DEF TypeOK
<1> QED BY <1>1, <1>2 DEF Before, TimeInv

LEMMA ReconcileInv ==
  ASSUME IInv, NEW s \in Schedulers, ReconcileList(s)
  PROVE  IInv'
<1>1. recorded \in BOOLEAN /\ (~job.exists => ~recorded)
  BY DEF IInv, TypeOK, RemovalInv
<1>2. CASE Goto(s, "list") /\ UNCHANGED copy
  <2>1. "list" \in Stages \ {"reschedule", "running"}
    BY DEF Stages
  <2>2. mode' \in [Schedulers -> Modes] /\ starts' \in 0..MaxStarts /\ errors' \in 0..MaxErrors
    BY DEF ReconcileList, IInv, TypeOK, bounds
  <2> QED BY <1>1, <1>2, <2>1, <2>2, QuietStep DEF ReconcileList, bounds
<1>3. CASE /\ Active(job) /\ job.next < now /\ NextSlot(now) # Never
           /\ copy' = [copy EXCEPT ![s] = [job EXCEPT !.next = NextSlot(now)]]
           /\ Goto(s, "reschedule")
  <2> DEFINE j == [job EXCEPT !.next = NextSlot(now)]
  <2>1. j \in Job /\ j.exists /\ j.next = NextSlot(now) /\ Before(NextSlot(now))
    BY <1>3, BeforeNext DEF Active, IInv, TypeOK, Job
  <2> HIDE DEF j
  <2>2. /\ copy' \in [Schedulers -> Job] /\ copy'[s] = j
        /\ \A r \in Schedulers : r # s => copy'[r] = copy[r]
        /\ stage' \in [Schedulers -> Stages] /\ stage'[s] = "reschedule"
        /\ \A r \in Schedulers : r # s => stage'[r] = stage[r]
    BY <1>3, <2>1 DEF j, IInv, TypeOK, Goto, Stages
  <2>3. UNCHANGED <<now, job, recorded, mode, fired, command, history, bounds>>
    BY DEF ReconcileList
  <2>4. TypeOK'
    BY <2>2, <2>3 DEF IInv, TypeOK, history, bounds
  <2>5. TimeInv' /\ RemovalInv'
    BY <2>1, <2>2, <2>3 DEF IInv, TimeInv, RemovalInv, history
  <2>6. PauseInv'
    BY <1>3, <2>3 DEF IInv, PauseInv, Active, history
  <2>7. ClaimInv'
    BY <2>1, <2>2, <2>3 DEF IInv, ClaimInv, NeverDoubleFires, Before, At, history
  <2> QED BY <2>4, <2>5, <2>6, <2>7 DEF IInv
<1> QED BY <1>2, <1>3 DEF ReconcileList

\* A scheduler's step that writes the job, and starts nothing that will.
LEMMA JobStep ==
  ASSUME IInv, NEW s \in Schedulers, NEW g \in Stages \ {"reschedule", "running"}, Goto(s, g),
         UNCHANGED <<now, recorded, mode, command, claims, raced, starts, commands>>,
         job' \in Job, job'.exists = job.exists,
         ~raced /\ job'.status = "active" =>
           \A c \in 1..Horizon : claims[c] # 0 => c < job'.next,
         pauseKept' = pauseKept, stale' \in BOOLEAN,
         pauseKept /\ ~stale' => ~stale /\ job'.status = "paused",
         copy' \in {copy, [copy EXCEPT ![s] = NewJob(1)]},
         fired' \in {fired, [fired EXCEPT ![s] = 1]}, errors' \in 0..MaxErrors
  PROVE  IInv'
<1>1. /\ NewJob(1) \in Job /\ NewJob(1).exists /\ copy \in [Schedulers -> Job]
      /\ now \in 1..Horizon /\ fired \in [Schedulers -> 1..Horizon]
      /\ stage \in [Schedulers -> Stages]
  BY FirstMinute, NewJobIsJob DEF IInv, TypeOK
<1>2. /\ stage' \in [Schedulers -> Stages] /\ stage'[s] = g
      /\ \A r \in Schedulers : r # s => stage'[r] = stage[r]
  BY <1>1 DEF Goto
<1>3. /\ copy' \in [Schedulers -> Job] /\ \A r \in Schedulers : copy'[r].exists
      /\ \A r \in Schedulers : r # s => copy'[r] = copy[r]
  BY <1>1 DEF IInv, RemovalInv
<1>4. /\ fired' \in [Schedulers -> 1..Horizon] /\ fired'[s] \in {fired[s], 1}
      /\ \A r \in Schedulers : r # s => fired'[r] = fired[r]
  BY <1>1, FirstMinute
<1>5. TypeOK'
  BY <1>2, <1>3, <1>4 DEF IInv, TypeOK
<1>6. TimeInv'
  BY <1>1, <1>4 DEF IInv, TimeInv
<1>7. PauseInv' /\ RemovalInv'
  BY <1>2, <1>3 DEF IInv, PauseInv, RemovalInv, At
<1>8. ClaimInv'
  BY <1>2, <1>3, <1>4 DEF IInv, ClaimInv, NeverDoubleFires, Before, At
<1> QED BY <1>5, <1>6, <1>7, <1>8 DEF IInv

LEMMA RescheduleInv ==
  ASSUME IInv, NEW s \in Schedulers, Reschedule(s)
  PROVE  IInv'
<1>1. /\ copy[s] \in Job /\ job \in Job /\ ~(pauseKept /\ ~stale)
      /\ pauseKept' = pauseKept /\ stale' = stale /\ stale \in BOOLEAN
  BY DEF Reschedule, IInv, TypeOK, PauseInv, history
<1>2. /\ Goto(s, "list") /\ "list" \in Stages \ {"reschedule", "running"}
      /\ UNCHANGED <<now, recorded, mode, command, claims, raced, starts, commands, errors>>
      /\ copy' = [copy EXCEPT ![s] = NewJob(1)] /\ fired' = [fired EXCEPT ![s] = 1]
      /\ job' = IF job.exists THEN copy[s] ELSE job
  BY DEF Reschedule, Update, Forget, Stages, history, bounds
<1>3. /\ job' \in Job /\ job'.exists = job.exists
      /\ pauseKept /\ ~stale' => ~stale /\ job'.status = "paused"
  <2>1. copy[s].exists
    BY DEF IInv, RemovalInv
  <2>2. CASE job.exists
    <3>1. job' = copy[s]
      BY <1>2, <2>2
    <3>2. job.exists = TRUE /\ copy[s].exists = TRUE
      BY <1>1, <2>1, <2>2 DEF Job
    <3> QED BY <1>1, <3>1, <3>2
  <2>3. CASE ~job.exists
    BY <1>1, <1>2, <2>3
  <2> QED BY <2>2, <2>3
<1>4. ~raced /\ job'.status = "active" => \A c \in 1..Horizon : claims[c] # 0 => c < job'.next
  BY <1>2 DEF Reschedule, IInv, ClaimInv, Before, At
<1>5. errors' \in 0..MaxErrors
  BY <1>2 DEF IInv, TypeOK
<1> QED BY <1>1, <1>2, <1>3, <1>4, <1>5, JobStep

-----------------------------------------------------------------------------
(* fireDue and fireJob.                                                    *)

LEMMA ListInv ==
  ASSUME IInv, NEW s \in Schedulers, List(s)
  PROVE  IInv'
<1>1. /\ recorded \in BOOLEAN /\ (~job.exists => ~recorded)
      /\ mode \in [Schedulers -> Modes] /\ starts \in 0..MaxStarts /\ errors \in 0..MaxErrors
  BY DEF IInv, TypeOK, RemovalInv
<1>2. UNCHANGED <<now, job, recorded, mode, command, history, starts, commands, errors>>
  BY DEF List, bounds
<1>3. CASE Rest(s)
  BY <1>1, <1>2, <1>3, RestStep
<1>4. CASE Active(job) /\ copy' = [copy EXCEPT ![s] = job] /\ Goto(s, "due") /\ UNCHANGED fired
  <2>1. "due" \in Stages \ {"reschedule", "running"} /\ job.exists
    BY <1>4 DEF Stages, Active
  <2> QED BY <1>1, <1>2, <1>4, <2>1, QuietStep
<1> QED BY <1>3, <1>4 DEF List

LEMMA ConsiderInv ==
  ASSUME IInv, NEW s \in Schedulers, Consider(s)
  PROVE  IInv'
<1>1. /\ recorded \in BOOLEAN /\ (~job.exists => ~recorded)
      /\ mode \in [Schedulers -> Modes] /\ starts \in 0..MaxStarts /\ errors \in 0..MaxErrors
  BY DEF IInv, TypeOK, RemovalInv
<1>2. UNCHANGED <<now, job, recorded, mode, command, history, starts, commands, errors>>
  BY DEF Consider, bounds
<1>3. CASE Rest(s)
  BY <1>1, <1>2, <1>3, RestStep
<1>4. CASE fired' = [fired EXCEPT ![s] = now] /\ Goto(s, "claim") /\ UNCHANGED copy
  <2>1. "claim" \in Stages \ {"reschedule", "running"}
    BY DEF Stages
  <2> QED BY <1>1, <1>2, <1>4, <2>1, QuietStep
<1> QED BY <1>3, <1>4 DEF Consider

LEMMA RecordInv ==
  ASSUME IInv, NEW s \in Schedulers, Record(s)
  PROVE  IInv'
<1>1. /\ recorded' \in BOOLEAN /\ (~job.exists => ~recorded') /\ errors \in 0..MaxErrors
  BY DEF Record, IInv, TypeOK, RemovalInv
<1> QED BY <1>1, RestStep DEF Record, bounds

LEMMA StoreFailsInv ==
  ASSUME IInv, NEW s \in Schedulers, StoreFails(s)
  PROVE  IInv'
<1>1. /\ recorded \in BOOLEAN /\ (~job.exists => ~recorded)
      /\ mode \in [Schedulers -> Modes] /\ starts \in 0..MaxStarts
  BY DEF IInv, TypeOK, RemovalInv
<1>2. /\ UNCHANGED <<now, job, recorded, mode, command, history, starts, commands>>
      /\ errors' \in 0..MaxErrors
  BY BoundAssumption DEF StoreFails, IInv, TypeOK
<1>3. CASE Rest(s)
  BY <1>1, <1>2, <1>3, RestStep
<1>4. CASE \E g \in {"list", "record"} :
             /\ Goto(s, g)
             /\ copy' \in {copy, [copy EXCEPT ![s] = NewJob(1)]}
             /\ fired' \in {fired, [fired EXCEPT ![s] = 1]}
  <2>1. {"list", "record"} \subseteq Stages \ {"reschedule", "running"}
    BY DEF Stages
  <2> QED BY <1>1, <1>2, <1>4, <2>1, QuietStep
<1> QED BY <1>3, <1>4 DEF StoreFails, Forget

\* The one claim of a slot puts the job after it and after all that were claimed.
LEMMA ClaimStepInv ==
  ASSUME IInv, NEW s \in Schedulers, Claim(s)
  PROVE  IInv'
<1>1. CASE Rest(s) /\ UNCHANGED <<job, claims, raced>>
  <2>1. /\ recorded \in BOOLEAN /\ (~job.exists => ~recorded) /\ errors \in 0..MaxErrors
    BY DEF IInv, TypeOK, RemovalInv
  <2> QED BY <1>1, <2>1, RestStep DEF Claim, history, bounds
<1>2. CASE /\ Active(job) /\ job.next <= fired[s] /\ job' = Claimed(s) /\ Goto(s, "running")
           /\ claims' = [claims EXCEPT ![job.next] = @ + 1]
           /\ raced' = (raced \/ Amid(s))
           /\ UNCHANGED <<copy, fired>>
  <2>1. /\ UNCHANGED <<now, recorded, mode, command, pauseKept, stale, bounds>>
        /\ job \in Job /\ fired[s] \in 1..Horizon /\ fired[s] <= now /\ now \in 1..Horizon
        /\ job.next \in 1..Horizon /\ job.next <= fired[s] /\ job.exists /\ job.status = "active"
    BY <1>2 DEF Claim, IInv, TypeOK, TimeInv, Active, Job
  <2>2. /\ stage' \in [Schedulers -> Stages] /\ stage'[s] = "running"
        /\ \A r \in Schedulers : r # s => stage'[r] = stage[r]
    BY <1>2 DEF IInv, TypeOK, Goto, Stages
  <2>3. /\ job' \in Job /\ job'.exists
        /\ job'.status = "active" => job'.next > fired[s]
    <3>1. CASE NextSlot(fired[s]) = Never
      BY <1>2, <2>1, <3>1 DEF Claimed, Job
    <3>2. CASE NextSlot(fired[s]) # Never
      <4>1. NextSlot(fired[s]) \in 1..Horizon /\ NextSlot(fired[s]) > fired[s]
        BY <3>2, NextSlotIsNext
      <4> QED BY <1>2, <2>1, <3>2, <4>1 DEF Claimed, Job
    <3> QED BY <3>1, <3>2
  <2>4. /\ claims' \in [1..Horizon -> Nat] /\ claims'[job.next] = claims[job.next] + 1
        /\ \A c \in 1..Horizon : c # job.next => claims'[c] = claims[c]
    BY <1>2, <2>1 DEF IInv, TypeOK
  <2>5. raced' \in BOOLEAN
    BY <1>2 DEF IInv, TypeOK, Amid
  <2>6. TypeOK'
    BY <1>2, <2>1, <2>2, <2>3, <2>4, <2>5 DEF IInv, TypeOK, bounds
  <2>7. TimeInv'
    BY <1>2, <2>1, <2>4 DEF IInv, TimeInv
  <2>8. PauseInv' /\ RemovalInv'
    BY <1>2, <2>1, <2>3 DEF IInv, PauseInv, RemovalInv
  <2>9. ASSUME ~raced'
        PROVE  /\ \A c \in 1..Horizon : claims'[c] <= 1 /\ (claims'[c] # 0 => c <= fired[s])
               /\ command.verb = "none"
               /\ \A r \in Schedulers : r # s => ~At(r, "running") /\ ~At(r, "reschedule")
    <3>1. ~raced /\ ~Amid(s)
      BY <1>2, <2>9
    <3>2. /\ \A c \in 1..Horizon : claims[c] <= 1 /\ claims[c] \in Nat
          /\ \A c \in 1..Horizon : claims[c] # 0 => c < job.next
      BY <2>1, <3>1 DEF IInv, TypeOK, ClaimInv, NeverDoubleFires, Before
    <3>3. claims[job.next] = 0
      BY <2>1, <3>2
    <3>4. \A c \in 1..Horizon : claims'[c] <= 1 /\ (claims'[c] # 0 => c <= fired[s])
      BY <2>1, <2>4, <3>2, <3>3
    <3> QED BY <3>1, <3>4 DEF Amid
  <2>10. ClaimInv'
    <3> SUFFICES ASSUME ~raced'
                 PROVE  /\ NeverDoubleFires' /\ command'.verb = "none"
                        /\ job'.status = "active" =>
                             \A c \in 1..Horizon : claims'[c] # 0 => c < job'.next
                        /\ \A r \in Schedulers : stage'[r] # "reschedule"
                        /\ \A r \in Schedulers : stage'[r] = "running" =>
                             \A c \in 1..Horizon : claims'[c] # 0 => c < fired'[r] + 1
      BY DEF ClaimInv, Before, At
    <3>1. NeverDoubleFires' /\ command'.verb = "none"
      BY <2>1, <2>9 DEF NeverDoubleFires
    <3>2. \A c \in 1..Horizon : claims'[c] # 0 => c <= fired[s] /\ c \in Nat /\ fired[s] \in Nat
      BY <2>1, <2>9, FirstMinute
    <3>3. job'.status = "active" => \A c \in 1..Horizon : claims'[c] # 0 => c < job'.next
      <4>1. job'.next \in Nat
        BY <2>3, FirstMinute DEF Job
      <4> QED BY <2>3, <3>2, <4>1
    <3>4. \A r \in Schedulers : stage'[r] # "reschedule" /\ (stage'[r] = "running" => r = s)
      BY <2>2, <2>9 DEF At
    <3> QED BY <1>2, <3>1, <3>2, <3>3, <3>4
  <2> QED BY <2>6, <2>7, <2>8, <2>10 DEF IInv
<1> QED BY <1>1, <1>2 DEF Claim

\* What the run persists lies after all that was claimed, if it is active.
LEMMA AdvancedIsAfter ==
  ASSUME IInv, NEW s \in Schedulers, At(s, "running")
  PROVE  /\ Advanced(s) \in Job /\ Advanced(s).exists
         /\ ~raced /\ Advanced(s).status = "active" =>
              \A c \in 1..Horizon : claims[c] # 0 => c < Advanced(s).next
<1>1. copy[s] \in Job /\ copy[s].exists /\ fired[s] \in 1..Horizon
  BY DEF IInv, TypeOK, RemovalInv
<1>2. CASE NextSlot(fired[s]) = Never
  BY <1>1, <1>2 DEF Advanced, Job
<1>3. CASE NextSlot(fired[s]) # Never
  <2>1. NextSlot(fired[s]) \in 1..Horizon /\ NextSlot(fired[s]) > fired[s]
    BY <1>3, NextSlotIsNext
  <2>2. Advanced(s) \in Job /\ Advanced(s).exists /\ Advanced(s).next = NextSlot(fired[s])
    BY <1>1, <1>3, <2>1 DEF Advanced, Job
  <2>3. ~raced => \A c \in 1..Horizon : claims[c] # 0 => c < fired[s] + 1
    BY DEF IInv, ClaimInv, Before
  <2>4. ~raced => \A c \in 1..Horizon : claims[c] # 0 => c < Advanced(s).next
    BY <1>1, <2>1, <2>2, <2>3, FirstMinute
  <2> QED BY <2>2, <2>4
<1> QED BY <1>2, <1>3

LEMMA PersistInv ==
  ASSUME IInv, NEW s \in Schedulers, Persist(s)
  PROVE  IInv'
<1>1. CASE Rest(s) /\ UNCHANGED job
  <2>1. /\ recorded \in BOOLEAN /\ (~job.exists => ~recorded) /\ errors \in 0..MaxErrors
    BY DEF IInv, TypeOK, RemovalInv
  <2> QED BY <1>1, <2>1, RestStep DEF Persist, bounds
<1>2. CASE job.exists /\ job' = Merged(s) /\ Goto(s, "record") /\ UNCHANGED <<copy, fired>>
  <2>1. /\ Advanced(s) \in Job
        /\ ~raced /\ Advanced(s).status = "active" =>
             \A c \in 1..Horizon : claims[c] # 0 => c < Advanced(s).next
    BY AdvancedIsAfter DEF Persist
  <2>2. /\ job' \in Job /\ job'.exists = job.exists /\ job'.next = Advanced(s).next
        /\ job'.status = IF job.status = "paused" THEN "paused" ELSE Advanced(s).status
    <3> DEFINE a == Advanced(s)
    <3>1. job' = [job EXCEPT !.next = a.next, !.status = IF @ = "paused" THEN "paused" ELSE a.status]
      BY <1>2 DEF Merged
    <3>2. a \in Job /\ job \in Job
      BY <2>1 DEF IInv, TypeOK
    <3> HIDE DEF a
    <3>3. /\ job' \in Job /\ job'.exists = job.exists /\ job'.next = a.next
          /\ job'.status = IF job.status = "paused" THEN "paused" ELSE a.status
      BY <3>1, <3>2 DEF Job
    <3> QED BY <3>3 DEF a
  <2>3. /\ "record" \in Stages \ {"reschedule", "running"}
        /\ UNCHANGED <<now, recorded, mode, command, claims, raced, pauseKept, stale, starts, commands>>
        /\ errors' \in 0..MaxErrors /\ stale' \in BOOLEAN
    BY DEF Persist, Stages, history, bounds, IInv, TypeOK
  <2>4. pauseKept /\ ~stale' => ~stale /\ job'.status = "paused"
    BY <2>2, <2>3 DEF IInv, PauseInv
  <2>5. ~raced /\ job'.status = "active" =>
          \A c \in 1..Horizon : claims[c] # 0 => c < job'.next
    BY <2>1, <2>2
  <2> QED BY <1>2, <2>2, <2>3, <2>4, <2>5, JobStep
<1> QED BY <1>1, <1>2 DEF Persist

LEMMA PersistUnreadInv ==
  ASSUME IInv, NEW s \in Schedulers, PersistUnread(s)
  PROVE  IInv'
<1>1. /\ Advanced(s) \in Job /\ Advanced(s).exists
      /\ ~raced /\ Advanced(s).status = "active" =>
           \A c \in 1..Horizon : claims[c] # 0 => c < Advanced(s).next
  BY AdvancedIsAfter DEF PersistUnread
<1>2. /\ "record" \in Stages \ {"reschedule", "running"}
      /\ job.exists /\ job' = Advanced(s) /\ Goto(s, "record") /\ stale'
      /\ UNCHANGED <<now, recorded, mode, copy, fired, command, claims, raced, pauseKept, starts,
                     commands>>
      /\ errors' = errors + 1 /\ errors < MaxErrors
  BY DEF PersistUnread, Stages
<1>3. errors' \in 0..MaxErrors
  BY <1>2, BoundAssumption DEF IInv, TypeOK
<1>4. stale' \in BOOLEAN
  BY Zenon DEF PersistUnread
<1>5. job'.exists = job.exists
  BY <1>1, <1>2 DEF IInv, TypeOK, Job
<1>6. ~raced /\ job'.status = "active" =>
        \A c \in 1..Horizon : claims[c] # 0 => c < job'.next
  BY <1>1, <1>2
<1> QED BY <1>1, <1>2, <1>3, <1>4, <1>5, <1>6, JobStep

-----------------------------------------------------------------------------
(* The commands, time, and the theorems.                                   *)

\* A resume puts the job after now; a pause pauses it.
LEMMA CommandGetInv ==
  ASSUME IInv, NEW verb \in {"pause", "resume"}, CommandGet(verb)
  PROVE  IInv'
<1> DEFINE j == IF verb = "pause" THEN [job EXCEPT !.status = "paused"]
                ELSE [job EXCEPT !.status = "active", !.next = NextSlot(now)]
<1>1. /\ command' = [verb |-> verb, read |-> j] /\ job.exists
      /\ verb = "resume" => NextSlot(now) # Never
      /\ UNCHANGED <<now, job, recorded, schedulerVars, history, starts, errors>>
  BY DEF CommandGet
<1>2. /\ j \in Job /\ j.exists
      /\ verb = "pause" => j.status = "paused"
      /\ verb = "resume" => Before(j.next)
  <2>1. job \in Job
    BY DEF IInv, TypeOK
  <2>2. CASE verb = "pause"
    BY <1>1, <2>1, <2>2 DEF Job
  <2>3. CASE verb = "resume"
    <3>1. NextSlot(now) \in 1..Horizon /\ Before(NextSlot(now))
      BY <1>1, <2>3, BeforeNext DEF IInv
    <3>2. j = [job EXCEPT !.status = "active", !.next = NextSlot(now)]
      BY <2>3
    <3>3. j \in Job /\ j.exists /\ j.next = NextSlot(now)
      BY <1>1, <2>1, <3>1, <3>2 DEF Job
    <3> QED BY <2>3, <3>1, <3>3
  <2> QED BY <2>2, <2>3
<1>3. command' \in [verb : Verbs, read : Job] /\ command'.verb = verb /\ command'.read = j
  <2> HIDE DEF j
  <2> QED BY <1>1, <1>2 DEF Verbs
<1> HIDE DEF j
<1>4. commands' \in 0..MaxCommands
  BY BoundAssumption DEF CommandGet, IInv, TypeOK
<1>5. TypeOK'
  BY <1>1, <1>3, <1>4 DEF IInv, TypeOK, schedulerVars, history
<1>6. TimeInv' /\ PauseInv' /\ RemovalInv'
  BY <1>1, <1>2, <1>3 DEF IInv, TimeInv, PauseInv, RemovalInv, At, schedulerVars, history
<1>7. ClaimInv'
  <2>1. j.status = "active" => Before(j.next)
    BY <1>2
  <2> QED BY <1>1, <1>3, <2>1 DEF IInv, ClaimInv, NeverDoubleFires, Before, At, schedulerVars,
            history
<1> QED BY <1>5, <1>6, <1>7 DEF IInv

LEMMA CommandUpdateInv ==
  ASSUME IInv, CommandUpdate
  PROVE  IInv'
<1>1. /\ command \in [verb : Verbs, read : Job] /\ job \in Job /\ command.verb # "none"
      /\ job' = IF job.exists THEN command.read ELSE job
      /\ command' = [command EXCEPT !.verb = "none"]
      /\ UNCHANGED <<now, recorded, schedulerVars, claims, raced, bounds>>
  BY DEF CommandUpdate, Update, IInv, TypeOK
<1>2. /\ command' \in [verb : Verbs, read : Job] /\ command'.verb = "none"
      /\ command'.read = command.read /\ job' \in Job
  BY <1>1 DEF Verbs
<1>3. pauseKept' \in BOOLEAN /\ stale' \in BOOLEAN
  BY Zenon DEF CommandUpdate
<1>4. TypeOK'
  BY <1>1, <1>2, <1>3 DEF IInv, TypeOK, schedulerVars, bounds
<1>5. TimeInv'
  BY <1>1 DEF IInv, TimeInv, schedulerVars
<1>6. PauseInv'
  <2>1. pauseKept' /\ ~stale' =>
          command.verb = "pause" /\ job.exists /\ ~ \E s \in Schedulers : At(s, "reschedule")
    BY DEF CommandUpdate
  <2> QED BY <1>1, <1>2, <2>1 DEF IInv, PauseInv, At, schedulerVars
<1>7. RemovalInv'
  BY <1>1, <1>2 DEF IInv, RemovalInv, schedulerVars
<1>8. ClaimInv'
  BY <1>1, <1>2 DEF IInv, ClaimInv, NeverDoubleFires, Before, At, schedulerVars
<1> QED BY <1>4, <1>5, <1>6, <1>7, <1>8 DEF IInv

LEMMA RemoveInv ==
  ASSUME IInv, Remove
  PROVE  IInv'
<1>1. /\ job' = Removed /\ job \in Job /\ ~recorded' /\ ~pauseKept'
      /\ UNCHANGED <<now, schedulerVars, command, claims, raced, stale, starts, errors>>
  BY DEF Remove, IInv, TypeOK
<1>2. job' \in Job /\ job'.next = job.next /\ job'.status = job.status
  BY <1>1 DEF Removed, Job
<1>3. recorded' \in BOOLEAN /\ pauseKept' \in BOOLEAN
  BY Zenon DEF Remove
<1>4. commands' \in 0..MaxCommands
  BY BoundAssumption DEF Remove, IInv, TypeOK
<1>5. TypeOK'
  BY <1>1, <1>2, <1>3, <1>4 DEF IInv, TypeOK, schedulerVars
<1>6. TimeInv' /\ PauseInv' /\ RemovalInv'
  BY <1>1, <1>2 DEF IInv, TimeInv, PauseInv, RemovalInv, schedulerVars
<1>7. ClaimInv'
  BY <1>1, <1>2 DEF IInv, ClaimInv, NeverDoubleFires, Before, At, schedulerVars
<1> QED BY <1>5, <1>6, <1>7 DEF IInv

LEMMA TickInv ==
  ASSUME IInv, Tick
  PROVE  IInv'
<1>1. /\ now' = now + 1 /\ now \in 1..Horizon /\ now' \in 1..Horizon
      /\ UNCHANGED <<job, recorded, schedulerVars, command, history, bounds>>
  BY FirstMinute DEF Tick, IInv, TypeOK
<1>2. TypeOK'
  BY <1>1 DEF IInv, TypeOK, schedulerVars, history, bounds
<1>3. TimeInv'
  BY <1>1, FirstMinute DEF IInv, TypeOK, TimeInv, schedulerVars, history
<1>4. PauseInv' /\ RemovalInv'
  BY <1>1 DEF IInv, PauseInv, RemovalInv, At, schedulerVars, history
<1>5. ClaimInv'
  BY <1>1 DEF IInv, ClaimInv, NeverDoubleFires, Before, At, schedulerVars, history
<1> QED BY <1>2, <1>3, <1>4, <1>5 DEF IInv

LEMMA StutterInv ==
  ASSUME IInv, UNCHANGED vars
  PROVE  IInv'
<1>1. TypeOK' /\ TimeInv'
  BY DEF vars, IInv, TypeOK, TimeInv, schedulerVars, history, bounds
<1>2. PauseInv' /\ RemovalInv' /\ ClaimInv'
  BY DEF vars, IInv, PauseInv, RemovalInv, ClaimInv, NeverDoubleFires, Before, At, schedulerVars,
         history
<1> QED BY <1>1, <1>2 DEF IInv

LEMMA StepInv ==
  ASSUME IInv, [Next]_vars
  PROVE  IInv'
<1>1. ASSUME NEW s \in Schedulers,
             Start(s) \/ Stop(s) \/ Crash(s) \/ Proceed(s) \/ PersistUnread(s) \/ StoreFails(s)
      PROVE  IInv'
  BY <1>1, RunsInv, ReconcileInv, RescheduleInv, ListInv, ConsiderInv, ClaimStepInv, PersistInv,
     RecordInv, PersistUnreadInv, StoreFailsInv DEF Proceed
<1>2. ASSUME NEW verb \in {"pause", "resume"}, CommandGet(verb)
      PROVE  IInv'
  BY <1>2, CommandGetInv
<1> QED BY <1>1, <1>2, CommandUpdateInv, RemoveInv, TickInv, StutterInv DEF Next, Finished

LEMMA InvariantHolds == Spec => []IInv
<1> QED BY InitInv, StepInv, PTL DEF Spec

\* The store, the schedulers and the command keep their types; the job's next run is
\* always a minute, never the zero time (Schedule.Next and the checks of its result).
THEOREM TypeCorrect == Spec => []TypeOK
<1>1. IInv => TypeOK
  BY DEF IInv
<1> QED BY <1>1, InvariantHolds, PTL

\* Without a race that the model names, no slot is claimed twice (claimFire and
\* fireJob in cron_run.go).
THEOREM SlotsClaimedOnce == Spec => []ClaimedOnce
<1>1. IInv => ClaimedOnce
  BY DEF IInv, ClaimInv, ClaimedOnce
<1> QED BY <1>1, InvariantHolds, PTL

\* A paused job stays paused through runs that were in flight (Mutate in fireJob), as
\* long as nobody writes an older copy without reading the job again.
THEOREM PausesHold == Spec => []PauseHolds
<1>1. IInv => PauseHolds
  BY DEF IInv, PauseInv, PauseHolds, PauseNeverClobbered
<1> QED BY <1>1, InvariantHolds, PTL

\* No step brings a removed job back, nor a record of its runs (Update and AppendRun
\* in store.go).
THEOREM RemovalsStay == Spec => RemovedStays
<1>1. ASSUME IInv, [Next]_vars, ~job.exists
      PROVE  ~job'.exists
  <2>1. ASSUME NEW s \in Schedulers,
               Start(s) \/ Stop(s) \/ Crash(s) \/ Proceed(s) \/ PersistUnread(s) \/ StoreFails(s)
        PROVE  job' = job
    BY <1>1, <2>1 DEF Start, Stop, Crash, Proceed, PersistUnread, StoreFails, ReconcileList,
         Reschedule, List, Consider, Claim, Persist, Record, Update, Active
  <2>2. CASE CommandUpdate
    BY <1>1, <2>2 DEF CommandUpdate, Update
  <2>3. CASE Tick \/ Finished \/ UNCHANGED vars
    BY <1>1, <2>3 DEF Tick, Finished, vars
  <2> QED BY <1>1, <2>1, <2>2, <2>3 DEF Next, CommandGet, Remove
<1>2. ASSUME IInv, [Next]_vars, ~job.exists
      PROVE  ~job'.exists /\ ~recorded'
  <2>1. IInv' /\ ~job'.exists
    BY <1>1, <1>2, StepInv
  <2> QED BY <2>1 DEF IInv, RemovalInv
<1>3. IInv /\ [Next]_vars => [~job.exists => ~job'.exists /\ ~recorded']_vars
  BY <1>2
<1> QED BY <1>3, InvariantHolds, PTL DEF Spec, RemovedStays

-----------------------------------------------------------------------------
(* Division of minutes into hours and days.                                *)

LEMMA DivMod ==
  ASSUME NEW a \in Int, NEW b \in Nat \ {0}
  PROVE  a \div b \in Int /\ a % b \in 0..(b - 1) /\ a = b * (a \div b) + (a % b)
<1>1. a \div b \in Int /\ a % b \in Int
  BY SMT
<1>2. 0 <= a % b
  BY SMT
<1>3. a % b < b
  BY SMT
<1>4. a = b * (a \div b) + (a % b)
  BY SMT
<1> QED BY <1>1, <1>2, <1>3, <1>4

LEMMA DivNat ==
  ASSUME NEW a \in Nat, NEW b \in Nat \ {0}
  PROVE  a \div b \in Nat
BY SMT

LEMMA TimesMono ==
  ASSUME NEW b \in Nat \ {0}, NEW x \in Int, NEW y \in Int, x <= y
  PROVE  b * x <= b * y
BY SMT

LEMMA Quotient ==
  ASSUME NEW b \in Nat \ {0}, NEW q \in Int, NEW r \in 0..(b - 1)
  PROVE  (b * q + r) \div b = q
BY SMT

LEMMA Remainder ==
  ASSUME NEW b \in Nat \ {0}, NEW q \in Int, NEW r \in 0..(b - 1)
  PROVE  (b * q + r) % b = r
BY SMT

\* A multiple, by its quotient.
LEMMA Multiple ==
  ASSUME NEW b \in Nat \ {0}, NEW x \in Int
  PROVE  /\ x % b = 0 => x \div b \in Int /\ x = b * (x \div b)
         /\ \A q \in Int : x = b * q => x % b = 0
<1>1. x % b = 0 => x \div b \in Int /\ x = b * (x \div b)
  BY DivMod
<1>2. ASSUME NEW q \in Int, x = b * q
      PROVE  x % b = 0
  <2>1. b * q \in Int /\ 0 \in 0..(b - 1)
    OBVIOUS
  <2>2. b * q + 0 = x
    BY <1>2, <2>1
  <2>3. (b * q + 0) % b = 0
    BY Remainder, <2>1
  <2> QED BY <2>2, <2>3
<1> QED BY <1>1, <1>2

LEMMA MultipleSum ==
  ASSUME NEW b \in Nat \ {0}, NEW x \in Int, NEW y \in Int, x % b = 0, y % b = 0
  PROVE  (x + y) % b = 0 /\ (x - y) % b = 0
<1>1. PICK p \in Int : x = b * p
  BY Multiple
<1>2. PICK q \in Int : y = b * q
  BY Multiple
<1>3. x + y = b * (p + q) /\ x - y = b * (p - q)
  BY <1>1, <1>2
<1>4. p + q \in Int /\ p - q \in Int /\ x + y \in Int /\ x - y \in Int
  OBVIOUS
<1> QED BY <1>3, <1>4, Multiple

\* Two multiples are a multiple apart.
LEMMA MultipleGap ==
  ASSUME NEW b \in Nat \ {0}, NEW x \in Int, NEW y \in Int, x % b = 0, y % b = 0, x < y
  PROVE  x + b <= y
<1>1. PICK p \in Int : x = b * p
  BY Multiple
<1>2. PICK q \in Int : y = b * q
  BY Multiple
<1>3. ~(q <= p)
  <2>1. q <= p => b * q <= b * p
    BY TimesMono
  <2>2. b * q \in Int /\ b * p \in Int
    OBVIOUS
  <2> QED BY <1>1, <1>2, <2>1, <2>2
<1>4. b * (p + 1) <= b * q
  <2>1. p + 1 <= q /\ p + 1 \in Int
    BY <1>3
  <2> QED BY <2>1, TimesMono
<1>5. b * (p + 1) = b * p + b
  OBVIOUS
<1> QED BY <1>1, <1>2, <1>4, <1>5

\* The multiple at or before w.
LEMMA Floor ==
  ASSUME NEW b \in Nat \ {0}, NEW w \in Int
  PROVE  /\ w - (w % b) \in Int
         /\ (w - (w % b)) % b = 0
         /\ w - (w % b) <= w /\ w < w - (w % b) + b
         /\ \A c \in Int : c % b = 0 /\ c <= w => c <= w - (w % b)
<1>1. w \div b \in Int /\ w % b \in 0..(b - 1) /\ w = b * (w \div b) + (w % b)
  BY DivMod
<1> DEFINE f == w - (w % b)
<1>2. f \in Int /\ f <= w /\ w < f + b
  BY <1>1
<1>3. f % b = 0
  <2>1. b * (w \div b) \in Int
    BY <1>1
  <2>2. f = b * (w \div b)
    BY <1>1, <2>1
  <2> QED BY <1>1, <1>2, <2>2, Multiple
<1>4. ASSUME NEW c \in Int, c % b = 0, c <= w, ~(c <= f)
      PROVE  FALSE
  <2>1. f < c
    BY <1>2, <1>4
  <2>2. f + b <= c
    BY <1>2, <1>3, <1>4, <2>1, MultipleGap
  <2> QED BY <1>2, <1>4, <2>2
<1> QED BY <1>2, <1>3, <1>4

LEMMA SameQuotient ==
  ASSUME NEW b \in Nat \ {0}, NEW f \in Int, f % b = 0, NEW x \in f..(f + b - 1)
  PROVE  x \div b = f \div b
<1>1. f \div b \in Int /\ f = b * (f \div b)
  BY Multiple
<1>2. x - f \in 0..(b - 1) /\ x = f + (x - f)
  OBVIOUS
<1>3. (b * (f \div b) + (x - f)) \div b = f \div b
  BY <1>1, <1>2, Quotient
<1> QED BY <1>1, <1>2, <1>3

-----------------------------------------------------------------------------
(* Days and hours of the wall clock.                                       *)

LEMMA Lengths ==
  /\ MinutesPerHour \in Nat \ {0} /\ HoursPerDay \in Nat \ {0} /\ DaysPerWeek \in Nat \ {0}
  /\ MinutesPerDay \in Nat \ {0} /\ MinutesPerDay = MinutesPerHour * HoursPerDay
  /\ SearchYears \in Nat
<1>1. /\ MinutesPerHour \in Nat \ {0} /\ HoursPerDay \in Nat \ {0} /\ DaysPerWeek \in Nat \ {0}
      /\ SearchYears \in Nat
  BY CalendarAssumption
<1>2. HoursPerDay * MinutesPerHour \in Nat \ {0}
      /\ HoursPerDay * MinutesPerHour = MinutesPerHour * HoursPerDay
  BY <1>1
<1> QED BY <1>1, <1>2 DEF MinutesPerDay

LEMMA MidnightOnTheHour ==
  ASSUME NEW x \in Int, x % MinutesPerDay = 0
  PROVE  x % MinutesPerHour = 0
<1>1. PICK k \in Int : x = MinutesPerDay * k
  BY Lengths, Multiple
<1>2. x = MinutesPerHour * (HoursPerDay * k)
  BY <1>1, Lengths
<1>3. HoursPerDay * k \in Int
  BY <1>1, Lengths
<1> QED BY <1>2, <1>3, Lengths, Multiple

LEMMA DayStart ==
  ASSUME NEW n \in Int
  PROVE  /\ MinutesPerDay * n \in Int
         /\ (MinutesPerDay * n) % MinutesPerDay = 0 /\ (MinutesPerDay * n) % MinutesPerHour = 0
<1>1. MinutesPerDay * n \in Int
  BY Lengths
<1>2. (MinutesPerDay * n) % MinutesPerDay = 0
  BY <1>1, Lengths, Multiple
<1> QED BY <1>1, <1>2, MidnightOnTheHour

\* The days between two midnights.
LEMMA DayBetween ==
  ASSUME NEW m \in Int, NEW n \in Int, NEW x \in Int,
         MinutesPerDay * m <= x, x < MinutesPerDay * n
  PROVE  DayNumber(x) \in Int /\ m <= DayNumber(x) /\ DayNumber(x) < n
<1> DEFINE D == MinutesPerDay
           d == x \div D
           r == x % D
<1>1. D \in Nat \ {0}
  BY Lengths
<1>2. d \in Int /\ r \in 0..(D - 1) /\ x = D * d + r
  BY <1>1, DivMod
<1>3. D * m \in Int /\ D * n \in Int /\ D * d \in Int
  BY <1>1, <1>2
<1> HIDE DEF D, d, r
<1>4. ASSUME d + 1 <= m
      PROVE  FALSE
  <2>1. d + 1 \in Int /\ D * (d + 1) = D * d + D
    BY <1>1, <1>2
  <2>2. D * (d + 1) <= D * m
    BY <1>1, <1>2, <1>4, <2>1, TimesMono
  <2>3. D * m <= x
    BY DEF D
  <2> QED BY <1>1, <1>2, <1>3, <2>1, <2>2, <2>3
<1>5. ASSUME n <= d
      PROVE  FALSE
  <2>1. D * n <= D * d
    BY <1>1, <1>2, <1>5, TimesMono
  <2>2. x < D * n
    BY DEF D
  <2> QED BY <1>1, <1>2, <1>3, <2>1, <2>2
<1>6. d \in Int /\ m <= d /\ d < n
  BY <1>2, <1>4, <1>5
<1> QED BY <1>6 DEF DayNumber, D, d

LEMMA DayBounds ==
  ASSUME NEW w \in Int
  PROVE  /\ DayNumber(w) \in Int
         /\ MinutesPerDay * DayNumber(w) <= w
         /\ w < MinutesPerDay * (DayNumber(w) + 1)
<1> DEFINE D == MinutesPerDay
           d == w \div D
           r == w % D
<1>1. D \in Nat \ {0}
  BY Lengths
<1>2. d \in Int /\ r \in 0..(D - 1) /\ w = D * d + r
  BY <1>1, DivMod
<1> HIDE DEF D, d, r
<1>3. D * (d + 1) = D * d + D /\ D * d \in Int
  BY <1>1, <1>2
<1>4. d \in Int /\ D * d <= w /\ w < D * (d + 1)
  BY <1>1, <1>2, <1>3
<1> QED BY <1>4 DEF DayNumber, D, d

\* The day and hour of a minute by the count of whole hours before it.
LEMMA ByHours ==
  ASSUME NEW x \in Int
  PROVE  /\ DayNumber(x) = (x \div MinutesPerHour) \div HoursPerDay
         /\ Hour(x) = (x \div MinutesPerHour) % HoursPerDay
<1> DEFINE M == MinutesPerHour
           H == HoursPerDay
           q == x \div M
           r == x % M
           k == q \div H
           h == q % H
<1>1. M \in Nat \ {0} /\ H \in Nat \ {0} /\ MinutesPerDay = M * H /\ MinutesPerDay \in Nat \ {0}
  BY Lengths
<1>2. q \in Int /\ r \in 0..(M - 1) /\ x = M * q + r
  BY <1>1, DivMod
<1>3. k \in Int /\ h \in 0..(H - 1) /\ q = H * k + h
  BY <1>1, <1>2, DivMod
<1> HIDE DEF M, H, q, r, k, h
<1>4. M * h \in Int /\ 0 <= M * h /\ M * h <= M * (H - 1) /\ M * (H - 1) = M * H - M
  <2>1. h \in Int /\ 0 <= h /\ h <= H - 1 /\ H - 1 \in Int
    BY <1>1, <1>3
  <2>2. M * 0 <= M * h /\ M * h <= M * (H - 1)
    BY <1>1, <2>1, TimesMono
  <2>3. M * 0 = 0 /\ M * (H - 1) = M * H - M /\ M * h \in Int
    BY <1>1, <2>1
  <2> QED BY <2>2, <2>3
<1>5. M * h + r \in 0..(M * H - 1) /\ M * H \in Int
  BY <1>1, <1>2, <1>4
<1>6. x = (M * H) * k + (M * h + r)
  <2>1. M * (H * k + h) = (M * H) * k + M * h
    BY <1>1, <1>3
  <2> QED BY <1>1, <1>2, <1>3, <2>1
<1>7. x \div (M * H) = k /\ x % (M * H) = M * h + r
  <2>1. M * H \in Nat \ {0}
    BY <1>1
  <2>2. ((M * H) * k + (M * h + r)) \div (M * H) = k
    BY <2>1, <1>3, <1>5, Quotient
  <2>3. ((M * H) * k + (M * h + r)) % (M * H) = M * h + r
    BY <2>1, <1>3, <1>5, Remainder
  <2> QED BY <1>6, <2>2, <2>3
<1>8. (M * h + r) \div M = h
  BY <1>1, <1>2, <1>3, Quotient
<1>9. x \div MinutesPerDay = k /\ (x % MinutesPerDay) \div M = h
  BY <1>1, <1>7, <1>8
<1> QED BY <1>9 DEF DayNumber, Hour, M, H, q, k, h

\* The minutes of one hour of the clock are of one day and one hour.
LEMMA SameHour ==
  ASSUME NEW w \in Int, NEW x \in (w - Minute(w))..(w - Minute(w) + MinutesPerHour - 1)
  PROVE  DayNumber(x) = DayNumber(w) /\ Hour(x) = Hour(w)
<1> DEFINE M == MinutesPerHour
           f == w - Minute(w)
<1>1. M \in Nat \ {0}
  BY Lengths
<1>2. f \in Int /\ f % M = 0 /\ f <= w /\ w < f + M
  BY <1>1, Floor DEF Minute
<1>3. x \in f..(f + M - 1) /\ w \in f..(f + M - 1)
  BY <1>1, <1>2
<1>4. x \div M = f \div M /\ w \div M = f \div M
  BY <1>1, <1>2, <1>3, SameQuotient
<1>5. x \in Int
  BY <1>1, <1>2, <1>3
<1> QED BY <1>4, <1>5, ByHours

-----------------------------------------------------------------------------
(* The readings of the wall clock.                                         *)

IsZone(z) == z.at \in Nat /\ z.shift \in Int /\ z.shift >= -z.at /\ z.east \in BOOLEAN

LEMMA TwoReadings ==
  ASSUME NEW x \in Int, NEW y \in Int
  PROVE  /\ Max({x, y}) = IF x >= y THEN x ELSE y
         /\ Min({x, y}) = IF x <= y THEN x ELSE y
<1>1. Max({x, y}) = IF x >= y THEN x ELSE y
  BY DEF Max
<1>2. Min({x, y}) = IF x <= y THEN x ELSE y
  BY DEF Min
<1> QED BY <1>1, <1>2

\* time.Date by the sides of the change its two readings lie on.
LEMMA DateIs ==
  ASSUME NEW z, IsZone(z), NEW v \in Int
  PROVE  /\ v < z.at /\ v - z.shift < z.at => Date(z, v) = v
         /\ v >= z.at /\ v - z.shift >= z.at => Date(z, v) = v - z.shift
         /\ (v < z.at) # (v - z.shift < z.at) =>
              Date(z, v) = IF z.east = (z.shift <= 0) THEN v - z.shift ELSE v
<1> DEFINE a == z.at
           s == z.shift
           readings == {v, v - s}
           exact == {i \in readings : Wall(z, i) = v}
<1>1. a \in Nat /\ s \in Int /\ v - s \in Int /\ z.east \in BOOLEAN
  BY DEF IsZone
<1>2. Date(z, v) = LET candidates == IF exact = {} THEN readings ELSE exact
                   IN  IF z.east THEN Max(candidates) ELSE Min(candidates)
  BY DEF Date
<1>3. /\ Wall(z, v) = v <=> v < a \/ s = 0
      /\ Wall(z, v - s) = v <=> v - s >= a \/ s = 0
  BY <1>1 DEF Wall
<1>4. Max({v}) = v /\ Min({v}) = v /\ Max({v - s}) = v - s /\ Min({v - s}) = v - s
  <2>1. {v} = {v, v} /\ {v - s} = {v - s, v - s}
    OBVIOUS
  <2> QED BY <1>1, <2>1, TwoReadings
<1>5. /\ Max(readings) = IF v >= v - s THEN v ELSE v - s
      /\ Min(readings) = IF v <= v - s THEN v ELSE v - s
  BY <1>1, TwoReadings
<1>6. CASE v < a /\ v - s < a
  <2>1. exact = {v}
    BY <1>1, <1>3, <1>6
  <2>2. Date(z, v) = v
    BY <1>2, <1>4, <2>1
  <2> QED BY <1>1, <1>6, <2>2
<1>7. CASE v >= a /\ v - s >= a
  <2>1. exact = {v - s}
    BY <1>1, <1>3, <1>7
  <2>2. Date(z, v) = v - s
    BY <1>2, <1>4, <2>1
  <2> QED BY <1>1, <1>7, <2>2
<1>8. CASE v < a /\ v - s >= a
  <2>1. exact = readings /\ exact # {} /\ s < 0
    BY <1>1, <1>3, <1>8
  <2>2. Date(z, v) = IF z.east THEN v - s ELSE v
    BY <1>1, <1>2, <1>5, <2>1
  <2> QED BY <1>1, <1>8, <2>1, <2>2
<1>9. CASE v >= a /\ v - s < a
  <2>1. exact = {} /\ s > 0
    BY <1>1, <1>3, <1>9
  <2>2. Date(z, v) = IF z.east THEN v ELSE v - s
    BY <1>1, <1>2, <1>5, <2>1
  <2> QED BY <1>1, <1>9, <2>1, <2>2
<1> QED BY <1>1, <1>6, <1>7, <1>8, <1>9

LEMMA BackAnHour ==
  ASSUME NEW z, IsZone(z), OnTheHour(z), z.shift < 0
  PROVE  z.shift = -MinutesPerHour
<1> DEFINE s == z.shift
           M == MinutesPerHour
<1>1. M \in Nat \ {0} /\ s \in Int /\ s % M = 0 /\ s >= -M /\ s < 0
  BY Lengths DEF IsZone, OnTheHour
<1>2. 0 % M = 0
  <2>1. 0 = M * 0
    BY <1>1
  <2> QED BY <1>1, <2>1, Multiple
<1> HIDE DEF s, M
<1>3. s + M <= 0
  BY <1>1, <1>2, MultipleGap
<1>4. s = -M
  BY <1>1, <1>3
<1> QED BY <1>4 DEF s, M

\* A minute i that a search at j has passed over is shown again an hour later,
\* after a change back east of Greenwich, and the search is still before that.
ShownAgain(z, i, j) ==
  /\ z.east /\ z.shift = -MinutesPerHour
  /\ z.at - MinutesPerHour <= i /\ i < z.at
  /\ j <= i + MinutesPerHour

\* A jump to a midnight, from c over wall minutes that do not match, passes over
\* no run but one that is shown again.
LEMMA JumpToDay ==
  ASSUME NEW z, IsZone(z), OnTheHour(z), NEW e, NEW c \in Nat,
         NEW w, w = Wall(z, c),
         NEW v \in Int, w < v, v % MinutesPerDay = 0,
         \A x \in (w - Minute(w))..(v - 1) : ~Matches(e, x),
         NEW i \in Nat, c <= i, i < Date(z, v), Matches(e, Wall(z, i))
  PROVE  ShownAgain(z, i, Date(z, v))
<1> DEFINE a == z.at
           s == z.shift
           M == MinutesPerHour
           f == w - Minute(w)
           x == Wall(z, i)
           j == Date(z, v)
<1>1. M \in Nat \ {0} /\ MinutesPerDay \in Nat \ {0}
  BY Lengths
<1>2. a \in Nat /\ s \in Int /\ z.east \in BOOLEAN /\ a + s >= 0
  BY DEF IsZone
<1>3. a % M = 0 /\ s % M = 0 /\ s >= -M /\ v % M = 0
  BY MidnightOnTheHour DEF OnTheHour
<1>4. w = (IF c < a THEN c ELSE c + s) /\ w \in Int
  BY <1>2 DEF Wall
<1>5. x = (IF i < a THEN i ELSE i + s) /\ x \in Int
  BY <1>2 DEF Wall
<1>6. f \in Int /\ f <= w /\ w < f + M /\ f % M = 0 /\ \A m \in Int : m % M = 0 /\ m <= w => m <= f
  BY <1>1, <1>4, Floor DEF Minute
<1>7. f <= x => v <= x
  BY <1>5, <1>6
<1>8. /\ v < a /\ v - s < a => j = v
      /\ v >= a /\ v - s >= a => j = v - s
      /\ (v < a) # (v - s < a) => j = IF z.east = (s <= 0) THEN v - s ELSE v
  BY DateIs
<1>9. j \in Int /\ (j = v \/ j = v - s)
  BY <1>2, <1>8
<1>10. z.east => \A m \in (a + 1)..(a + s - 1) : m % MinutesPerDay # 0
  BY DEF OnTheHour
<1>11. s < 0 => s = -M
  BY BackAnHour
<1> HIDE DEF a, s, M, f, x, j
<1>12. i < j
  BY DEF j
<1>13. CASE c >= a
  <2>1. w = c + s /\ x = i + s /\ w <= x
    BY <1>2, <1>4, <1>5, <1>13
  <2>2. v <= x
    BY <1>4, <1>5, <1>6, <1>7, <2>1
  <2>3. v - s <= i
    BY <1>2, <2>1, <2>2
  <2>4. j = v /\ s > 0
    BY <1>2, <1>9, <1>12, <2>3
  <2>5. v >= a /\ v - s >= a
    BY <1>2, <1>13, <2>1, <2>4
  <2> QED BY <1>2, <1>8, <1>12, <2>3, <2>5
<1>14. CASE c < a /\ s >= 0
  <2>1. w = c
    BY <1>4, <1>14
  <2>2. v <= x
    BY <1>2, <1>4, <1>5, <1>6, <1>7, <1>14, <2>1
  <2>3. i >= a /\ x = i + s
    BY <1>2, <1>5, <1>9, <1>12, <1>14, <2>2
  <2>4. j = v /\ s > 0 /\ v > a
    BY <1>2, <1>9, <1>12, <2>2, <2>3
  <2>5. v - s < a
    BY <1>2, <1>8, <1>12, <2>2, <2>3, <2>4
  <2>6. v \in (a + 1)..(a + s - 1) /\ z.east
    BY <1>2, <1>8, <2>4, <2>5
  <2> QED BY <1>10, <2>6
<1>15. CASE c < a /\ s < 0
  <2>1. w = c /\ s = -M
    BY <1>3, <1>4, <1>11, <1>15
  <2>2. a - M \in Int /\ (a - M) % M = 0
    <3>1. M % M = 0
      <4>1. M = M * 1
        BY <1>1
      <4> QED BY <1>1, <4>1, Multiple
    <3> QED BY <1>1, <1>2, <1>3, <3>1, MultipleSum
  <2>3. CASE i < a
    <3>1. v <= i
      BY <1>4, <1>5, <1>6, <1>7, <2>1, <2>3
    <3>2. j = v + M /\ v < a /\ z.east
      BY <1>1, <1>2, <1>8, <1>9, <1>12, <2>1, <2>3, <3>1
    <3>3. a - M <= v
      BY <1>1, <1>2, <1>8, <1>12, <2>1, <3>1, <3>2
    <3>4. z.east /\ s = -M /\ a - M <= i /\ i < a /\ j <= i + M
      BY <1>1, <1>2, <2>1, <2>3, <3>1, <3>2, <3>3
    <3> QED BY <3>4 DEF ShownAgain, a, s, M, j
  <2>4. CASE i >= a
    <3>1. x = i - M /\ a - M <= x
      BY <1>1, <1>2, <1>5, <2>1, <2>4
    <3>2. f <= x
      <4>1. CASE w <= x
        BY <1>4, <1>5, <1>6, <4>1
      <4>2. CASE x < w
        \* x is in the hour that is shown twice, and so is w.
        <5>1. f % M = 0 /\ w < f + M
          BY <1>6
        <5>2. w < a
          BY <1>15, <2>1
        <5>3. ~(a - M < f)
          <6>1. ASSUME NEW g \in Int, g % M = 0, g < f
                PROVE  g + M <= f
            BY <1>1, <1>6, <5>1, <6>1, MultipleGap
          <6>2. a - M < f => (a - M) + M <= f
            BY <2>2, <6>1
          <6> QED BY <1>1, <1>2, <1>4, <1>6, <5>2, <6>2
        <5> QED BY <1>1, <1>2, <1>6, <2>2, <3>1, <5>3
      <4> QED BY <1>4, <1>5, <4>1, <4>2
    <3>3. v <= i - M
      BY <1>7, <3>1, <3>2
    <3>4. j <= v + M
      BY <1>1, <1>9, <2>1
    <3> QED BY <1>1, <1>9, <1>12, <3>3, <3>4
  <2> QED BY <1>2, <2>3, <2>4
<1> QED BY <1>2, <1>13, <1>14, <1>15

\* A jump to the end of the hour passes over no run.
LEMMA JumpToHour ==
  ASSUME NEW z, IsZone(z), OnTheHour(z), NEW e, NEW c \in Nat,
         NEW w, w = Wall(z, c),
         \A x \in (w - Minute(w))..(w - Minute(w) + MinutesPerHour - 1) : ~Matches(e, x),
         NEW i \in Nat, c <= i, i < NextHour(z, w), Matches(e, Wall(z, i))
  PROVE  FALSE
<1> DEFINE a == z.at
           s == z.shift
           M == MinutesPerHour
           f == w - Minute(w)
           x == Wall(z, i)
           d == Date(z, f)
<1>1. M \in Nat \ {0}
  BY Lengths
<1>2. a \in Nat /\ s \in Int /\ z.east \in BOOLEAN /\ a + s >= 0
  BY DEF IsZone
<1>3. a % M = 0 /\ s % M = 0 /\ s >= -M
  BY DEF OnTheHour
<1>4. w = (IF c < a THEN c ELSE c + s) /\ w \in Int
  BY <1>2 DEF Wall
<1>5. x = (IF i < a THEN i ELSE i + s) /\ x \in Int
  BY <1>2 DEF Wall
<1>6. /\ f \in Int /\ f <= w /\ w < f + M /\ f % M = 0
      /\ \A m \in Int : m % M = 0 /\ m <= w => m <= f
  BY <1>1, <1>4, Floor DEF Minute
<1>7. ~(f <= x /\ x < f + M)
  BY <1>1, <1>5, <1>6
<1>8. /\ f < a /\ f - s < a => d = f
      /\ f >= a /\ f - s >= a => d = f - s
      /\ (f < a) # (f - s < a) => d = IF z.east = (s <= 0) THEN f - s ELSE f
  BY <1>6, DateIs
<1>9. (a + s) % M = 0
  BY <1>1, <1>2, <1>3, MultipleSum
<1>10. s < 0 => s = -M
  BY BackAnHour
<1>11. i < d + M
  BY DEF NextHour
<1>12. \A m, n \in Int : m % M = 0 /\ n % M = 0 /\ m < n => m + M <= n
  BY <1>1, MultipleGap
<1> HIDE DEF a, s, M, f, x, d
<1>13. CASE c >= a
  <2>1. w = c + s /\ x = i + s /\ w <= x
    BY <1>2, <1>4, <1>5, <1>13
  <2>2. a + s <= f
    BY <1>2, <1>6, <1>9, <1>13, <2>1
  <2>3. f + M <= x
    BY <1>1, <1>4, <1>5, <1>6, <1>7, <2>1
  <2>4. f - s >= a /\ f + M <= i + s
    BY <1>2, <1>6, <2>1, <2>2, <2>3
  <2>5. d = f - s \/ (s < 0 /\ d = f)
    BY <1>2, <1>6, <1>8, <2>4
  <2> QED BY <1>1, <1>2, <1>6, <1>11, <2>4, <2>5
<1>14. CASE c < a /\ s >= 0
  <2>1. w = c /\ f < a /\ f - s < a
    BY <1>2, <1>4, <1>6, <1>14
  <2>2. d = f /\ f + M <= a
    BY <1>2, <1>3, <1>6, <1>8, <1>12, <2>1
  <2>3. x = i /\ f <= x /\ x < f + M
    BY <1>1, <1>2, <1>5, <1>6, <1>11, <2>1, <2>2
  <2> QED BY <1>7, <2>3
<1>15. CASE c < a /\ s < 0
  <2>1. w = c /\ f < a /\ s = -M /\ f <= i
    BY <1>1, <1>2, <1>4, <1>6, <1>10, <1>15
  <2>2. f + M <= a
    BY <1>2, <1>3, <1>6, <1>12, <2>1
  <2>3. (f - s < a => d = f) /\ (d = f \/ d = f + M)
    BY <1>1, <1>2, <1>6, <1>8, <2>1
  <2>4. CASE i < a
    <3>1. x = i /\ f <= x
      BY <1>5, <2>1, <2>4
    <3>2. x < f + M
      BY <1>1, <1>2, <1>6, <1>11, <2>1, <2>2, <2>3, <2>4, <3>1
    <3> QED BY <1>7, <3>1, <3>2
  <2>5. CASE i >= a
    <3>1. x = i - M
      BY <1>1, <1>2, <1>5, <2>1, <2>5
    <3>2. d = f + M /\ f + M >= a
      BY <1>1, <1>2, <1>6, <1>11, <2>1, <2>2, <2>3, <2>5
    <3>3. f <= x /\ x < f + M
      BY <1>1, <1>2, <1>6, <1>11, <2>2, <2>5, <3>1, <3>2
    <3> QED BY <1>7, <3>3
  <2> QED BY <1>2, <2>4, <2>5
<1> QED BY <1>2, <1>13, <1>14, <1>15

-----------------------------------------------------------------------------
(* The calendar.                                                           *)

LEMMA CalendarDays ==
  /\ Len(Days) \in Nat \ {0}
  /\ \A k \in 1..Len(Days) :
       /\ Days[k].year \in Nat
       /\ Days[k].year <= Days[Len(Days)].year
<1>1. ASSUME NEW S, NEW d \in Seq(S), d # <<>>
      PROVE  Len(d) \in Nat \ {0} /\ DOMAIN d = 1..Len(d) /\ \A k \in 1..Len(d) : d[k] \in S
  BY <1>1
<1>2. /\ Len(Days) \in Nat \ {0} /\ DOMAIN Days = 1..Len(Days)
      /\ \A k \in 1..Len(Days) : Days[k] \in [year : Nat, month : Nat, day : Nat]
  BY <1>1, DaysAssumption
<1>3. ASSUME NEW k \in 1..Len(Days)
      PROVE  Days[k].year \in Nat /\ Days[k].year <= Days[Len(Days)].year
  <2>1. k \in DOMAIN Days /\ Len(Days) \in DOMAIN Days /\ k <= Len(Days)
    BY <1>2
  <2>2. Days[k].year <= Days[Len(Days)].year
    BY <2>1, DaysAssumption
  <2>3. Days[k] \in [year : Nat, month : Nat, day : Nat]
    BY <1>2
  <2> QED BY <2>2, <2>3
<1> QED BY <1>2, <1>3

LEMMA SameDay ==
  ASSUME NEW e, NEW w, NEW x, DayNumber(x) = DayNumber(w)
  PROVE  DateOf(x) = DateOf(w) /\ (DayMatches(e, x) <=> DayMatches(e, w))
BY DEF DateOf, Weekday, DayMatches

\* The days up to the first of the next month are of the same month.
LEMMA NextMonthIs ==
  ASSUME NEW w \in Int, DayNumber(w) \in Nat, DayNumber(w) < Len(Days)
  PROVE  \E n \in Nat :
           /\ NextMonth(w) = MinutesPerDay * n
           /\ DayNumber(w) < n /\ n <= Len(Days)
           /\ \A d \in DayNumber(w)..(n - 1) : Days[d + 1].month = DateOf(w).month
<1> DEFINE Other(d) == Days[d + 1].month # DateOf(w).month \/ Days[d + 1].year # DateOf(w).year
           rest == {d \in DayNumber(w)..(Len(Days) - 1) : Other(d)}
           T == rest \cup {Len(Days)}
           n == Min(T)
<1>1. Len(Days) \in Nat
  BY CalendarDays
<1>2. T \subseteq Nat /\ T # {}
  BY <1>1
<1>3. \E y \in T : \A u \in T : y <= u
  BY <1>2, HasFirst
<1>4. n \in T /\ \A u \in T : n <= u
  BY <1>3 DEF Min
<1>5. n \in Nat /\ n <= Len(Days) /\ DayNumber(w) <= n
  BY <1>1, <1>2, <1>4
<1>6. DateOf(w) = Days[DayNumber(w) + 1]
  BY DEF DateOf
<1>7. ~Other(DayNumber(w))
  BY <1>6
<1>8. n # DayNumber(w)
  BY <1>4, <1>7
<1>9. ASSUME NEW d \in DayNumber(w)..(n - 1)
      PROVE  Days[d + 1].month = DateOf(w).month
  <2>1. d \in DayNumber(w)..(Len(Days) - 1) /\ ~(n <= d)
    BY <1>1, <1>5
  <2>2. d \notin rest
    BY <1>4, <2>1
  <2> QED BY <2>1, <2>2
<1>10. NextMonth(w) = MinutesPerDay * n
  BY DEF NextMonth
<1> HIDE DEF n
<1>11. DayNumber(w) < n
  BY <1>5, <1>8
<1> QED BY <1>5, <1>9, <1>10, <1>11

-----------------------------------------------------------------------------
(* The search.                                                             *)

\* Up to the candidate, only what will be shown again has been passed over.
SearchInv ==
  /\ zone \in Zones /\ after \in Afters /\ t \in Nat /\ after < t
  /\ OnTheHour(zone) =>
       \A i \in (after + 1)..(t - 1) : IsDue(i) => ShownAgain(zone, i, t)

LEMMA WallNat ==
  ASSUME NEW z, IsZone(z), NEW i \in Nat
  PROVE  Wall(z, i) \in Nat
BY DEF IsZone, Wall

LEMMA DateInt ==
  ASSUME NEW z, IsZone(z), NEW v \in Int
  PROVE  Date(z, v) \in Int
<1>1. z.at \in Nat /\ z.shift \in Int /\ v - z.shift \in Int /\ z.east \in BOOLEAN
  BY DEF IsZone
<1>2. Date(z, v) = v \/ Date(z, v) = v - z.shift
  BY <1>1, DateIs
<1> QED BY <1>1, <1>2

LEMMA ZoneOk ==
  ASSUME zone \in Zones, after \in Afters
  PROVE  IsZone(zone) /\ after \in Nat /\ DayNumber(Wall(zone, after)) < Len(Days)
BY InputAssumption DEF IsZone

\* What the search reaches is in the calendar.
LEMMA Reached ==
  ASSUME zone \in Zones, after \in Afters, NEW i \in Nat, InReach(i)
  PROVE  /\ DayNumber(Wall(zone, i)) \in Nat
         /\ DayNumber(Wall(zone, i)) < Len(Days)
<1> DEFINE n == DayNumber(Wall(zone, i))
           m == DayNumber(Wall(zone, after))
           last == Days[Len(Days)].year
<1>1. IsZone(zone) /\ after \in Nat /\ m < Len(Days)
  BY ZoneOk
<1>2. n \in Nat /\ m \in Nat
  <2>1. Wall(zone, i) \in Nat /\ Wall(zone, after) \in Nat
    BY <1>1, WallNat
  <2> QED BY <2>1, Lengths, DivNat DEF DayNumber
<1>3. Len(Days) \in Nat \ {0} /\ last \in Nat /\ SearchYears \in Nat
  BY CalendarDays, Lengths
<1>4. DateOf(Wall(zone, after)).year \in Nat /\ DateOf(Wall(zone, after)).year <= last
  <2>1. m + 1 \in 1..Len(Days)
    BY <1>1, <1>2, <1>3
  <2>2. DateOf(Wall(zone, after)) = Days[m + 1]
    BY <1>1 DEF DateOf
  <2> QED BY <2>1, <2>2, CalendarDays
<1>5. ASSUME ~(n < Len(Days))
      PROVE  FALSE
  <2>1. DateOf(Wall(zone, i)).year = last + SearchYears + 1
    BY <1>5 DEF DateOf, Beyond
  <2>2. last + SearchYears + 1 <= DateOf(Wall(zone, after)).year + SearchYears
    BY <2>1 DEF InReach
  <2> QED BY <1>3, <1>4, <2>2
<1> QED BY <1>2, <1>5

\* The minutes from the wall clock's full hour to the end of a day are of that day.
LEMMA RestOfDays ==
  ASSUME NEW w \in Int, NEW n \in Int, NEW v \in Int, v = MinutesPerDay * n,
         NEW x \in (w - Minute(w))..(v - 1)
  PROVE  DayNumber(x) \in Int /\ DayNumber(w) <= DayNumber(x) /\ DayNumber(x) < n
<1> DEFINE f == w - Minute(w)
           m == DayNumber(w)
<1>1. m \in Int /\ MinutesPerDay * m <= w
  BY DayBounds
<1>2. MinutesPerDay * m \in Int /\ (MinutesPerDay * m) % MinutesPerHour = 0 /\ MinutesPerDay * n \in Int
  BY <1>1, DayStart
<1>3. f \in Int /\ MinutesPerDay * m <= f
  BY <1>1, <1>2, Lengths, Floor DEF Minute
<1> HIDE DEF f, m
<1>4. x \in Int /\ f <= x /\ x < v
  BY <1>3 DEF f
<1>5. MinutesPerDay * m <= x
  BY <1>2, <1>3, <1>4
<1>6. DayNumber(x) \in Int /\ m <= DayNumber(x) /\ DayNumber(x) < n
  BY <1>1, <1>4, <1>5, DayBetween
<1> QED BY <1>6 DEF m

\* Whatever step the search takes, it passes over no run that is not shown again.
LEMMA Jumps ==
  ASSUME zone \in Zones, after \in Afters, t \in Nat, OnTheHour(zone), InReach(t), ~Found,
         NEW i \in Nat, t <= i, i < Forward(Jump), IsDue(i)
  PROVE  ShownAgain(zone, i, Forward(Jump))
<1> DEFINE w == Wall(zone, t)
           m == DayNumber(w)
           e == schedule
<1>1. IsZone(zone) /\ w \in Nat /\ m \in Nat /\ m < Len(Days)
  BY ZoneOk, WallNat, Reached
<1>2. Matches(e, Wall(zone, i))
  BY DEF IsDue
<1>3. Forward(Jump) # t + 1
  <2>1. Forward(Jump) = t + 1 => i = t
    OBVIOUS
  <2> QED BY <2>1 DEF Found, IsDue
<1>4. Forward(Jump) = Jump /\ i < Jump /\ Jump # t + 1
  BY <1>3 DEF Forward
<1>5. CASE DateOf(w).month \notin e.month
  <2>1. PICK n \in Nat : /\ NextMonth(w) = MinutesPerDay * n
                         /\ m < n /\ n <= Len(Days)
                         /\ \A d \in m..(n - 1) : Days[d + 1].month = DateOf(w).month
    BY <1>1, NextMonthIs
  <2> DEFINE v == MinutesPerDay * n
  <2>2. Jump = Date(zone, v)
    BY <1>5, <2>1 DEF Jump
  <2>3. v \in Int /\ v % MinutesPerDay = 0
    BY DayStart
  <2>4. w < v
    <3>1. m + 1 \in Int /\ m + 1 <= n /\ w \in Int
      BY <1>1, <2>1
    <3>2. w < MinutesPerDay * (m + 1)
      BY <3>1, DayBounds
    <3>3. MinutesPerDay * (m + 1) \in Int
      BY <3>1, DayStart
    <3>4. MinutesPerDay * (m + 1) <= v
      BY <1>1, <3>1, Lengths, TimesMono
    <3> QED BY <1>1, <2>3, <3>2, <3>3, <3>4
  <2>5. ASSUME NEW x \in (w - Minute(w))..(v - 1)
        PROVE  ~Matches(e, x)
    <3>1. DayNumber(x) \in Int /\ m <= DayNumber(x) /\ DayNumber(x) < n
      BY ONLY <1>1, <2>1, <2>3, x \in (w - Minute(w))..(v - 1), RestOfDays
    <3>2. DayNumber(x) \in m..(n - 1) /\ DayNumber(x) < Len(Days)
      BY <1>1, <2>1, <3>1, CalendarDays
    <3>3. DateOf(x).month = DateOf(w).month
      BY <2>1, <3>2 DEF DateOf
    <3> QED BY <1>5, <3>3 DEF Matches
  <2> HIDE DEF v
  <2>6. ShownAgain(zone, i, Date(zone, v))
    BY <1>1, <1>2, <1>4, <2>2, <2>3, <2>4, <2>5, JumpToDay
  <2> QED BY <1>4, <2>2, <2>6
<1>6. CASE DateOf(w).month \in e.month /\ ~DayMatches(e, w)
  <2> DEFINE n == m + 1
             v == MinutesPerDay * n
  <2>1. Jump = Date(zone, v)
    BY <1>6 DEF Jump, NextDay
  <2>2. n \in Int
    BY <1>1
  <2>3. v \in Int /\ v % MinutesPerDay = 0
    BY <2>2, DayStart
  <2>4. w < v
    BY <1>1, DayBounds
  <2>5. ASSUME NEW x \in (w - Minute(w))..(v - 1)
        PROVE  ~Matches(e, x)
    <3>1. DayNumber(x) \in Int /\ m <= DayNumber(x) /\ DayNumber(x) < n
      BY ONLY <1>1, <2>2, <2>3, x \in (w - Minute(w))..(v - 1), RestOfDays
    <3>2. DayNumber(x) = m
      BY <1>1, <3>1
    <3>3. ~DayMatches(e, x)
      BY <1>6, <3>2, SameDay
    <3> QED BY <3>3 DEF Matches
  <2> HIDE DEF v
  <2>6. ShownAgain(zone, i, Date(zone, v))
    BY <1>1, <1>2, <1>4, <2>1, <2>3, <2>4, <2>5, JumpToDay
  <2> QED BY <1>4, <2>1, <2>6
<1>7. CASE DateOf(w).month \in e.month /\ DayMatches(e, w) /\ Hour(w) \notin e.hour
  <2>1. Jump = NextHour(zone, w)
    BY <1>7 DEF Jump
  <2>2. ASSUME NEW x \in (w - Minute(w))..(w - Minute(w) + MinutesPerHour - 1)
        PROVE  ~Matches(e, x)
    <3>1. Hour(x) = Hour(w)
      BY <1>1, SameHour
    <3> QED BY <1>7, <3>1 DEF Matches
  <2>3. FALSE
    BY <1>1, <1>2, <1>4, <2>1, <2>2, JumpToHour
  <2> QED BY <2>3
<1>8. CASE ~(DateOf(w).month \notin e.month) /\ DayMatches(e, w) /\ Hour(w) \in e.hour
  <2>1. Jump = t + 1
    BY <1>8 DEF Jump
  <2> QED BY <1>4, <2>1
<1> QED BY <1>5, <1>6, <1>7, <1>8

\* The second showing of a minute is due if the first is.
LEMMA SecondShowing ==
  ASSUME zone \in Zones, NEW i \in Nat, NEW j, ShownAgain(zone, i, j), IsDue(i)
  PROVE  LET u == i + MinutesPerHour IN
           /\ u \in Nat /\ u >= zone.at /\ u = i - zone.shift /\ j <= u
           /\ Wall(zone, u) = Wall(zone, i) /\ IsDue(u)
<1> DEFINE u == i + MinutesPerHour
<1>1. zone.at \in Nat /\ MinutesPerHour \in Nat \ {0}
  BY InputAssumption, Lengths
<1>2. /\ zone.shift = -MinutesPerHour
      /\ zone.at - MinutesPerHour <= i /\ i < zone.at /\ j <= u
  BY DEF ShownAgain
<1>3. u \in Nat /\ u >= zone.at /\ u = i - zone.shift /\ u + zone.shift = i
  BY <1>1, <1>2
<1> HIDE DEF u
<1>4. Wall(zone, u) = i /\ Wall(zone, i) = i
  BY <1>1, <1>2, <1>3 DEF Wall
<1>5. IsDue(u)
  BY <1>4 DEF IsDue, Repeated
<1> QED BY <1>2, <1>3, <1>4, <1>5 DEF u

LEMMA SearchInvInit == SearchInit => SearchInv
<1> SUFFICES ASSUME SearchInit
             PROVE  SearchInv
  OBVIOUS
<1>1. zone \in Zones /\ after \in Afters /\ t = after + 1
  BY DEF SearchInit
<1>2. after \in Nat
  BY <1>1, InputAssumption
<1>3. t \in Nat /\ after < t
  BY <1>1, <1>2
<1>4. (after + 1)..(t - 1) = {}
  BY <1>1, <1>2
<1> QED BY <1>1, <1>3, <1>4 DEF SearchInv

LEMMA SearchInvNext == SearchInv /\ [SearchNext]_searchVars => SearchInv'
<1> SUFFICES ASSUME SearchInv, [SearchNext]_searchVars
             PROVE  SearchInv'
  OBVIOUS
<1> USE DEF SearchInv
<1>1. CASE Advance
  <2> DEFINE c == Forward(Jump)
  <2>1. /\ InReach(t) /\ ~Found /\ t' = c
        /\ zone' = zone /\ after' = after /\ schedule' = schedule /\ aligned' = aligned
    BY <1>1 DEF Advance
  <2>2. IsZone(zone) /\ after \in Nat /\ t \in Nat /\ after < t
    BY ZoneOk
  <2>3. c \in Nat /\ t < c
    <3>1. Jump \in Int
      <4> DEFINE w == Wall(zone, t)
      <4>1. w \in Nat /\ DayNumber(w) \in Nat /\ DayNumber(w) < Len(Days)
        BY <2>1, <2>2, WallNat, Reached
      <4>2. NextMonth(w) \in Int
        <5>1. PICK n \in Nat : NextMonth(w) = MinutesPerDay * n
          BY <4>1, NextMonthIs
        <5> QED BY <5>1, DayStart
      <4>3. NextDay(w) \in Int
        <5>1. DayNumber(w) + 1 \in Int
          BY <4>1
        <5> QED BY <5>1, DayStart DEF NextDay
      <4>4. NextHour(zone, w) \in Int
        <5> HIDE DEF w
        <5>1. w - Minute(w) \in Int
          BY <4>1, Lengths, Floor DEF Minute
        <5>2. Date(zone, w - Minute(w)) \in Int
          BY <2>2, <5>1, DateInt
        <5> QED BY <5>2, Lengths DEF NextHour
      <4>5. Date(zone, NextMonth(w)) \in Int /\ Date(zone, NextDay(w)) \in Int
        BY <2>2, <4>2, <4>3, DateInt
      <4>6. t + 1 \in Int
        BY <2>2
      <4> QED BY <4>4, <4>5, <4>6 DEF Jump
    <3> QED BY <2>2, <3>1 DEF Forward
  <2>4. ASSUME OnTheHour(zone), NEW i \in (after + 1)..(c - 1), IsDue(i)
        PROVE  ShownAgain(zone, i, c)
    <3>1. i \in Nat /\ after < i /\ i < c
      BY <2>2, <2>3
    <3>2. CASE t <= i
      BY <2>1, <2>2, <2>4, <3>1, <3>2, Jumps
    <3>3. CASE i < t
      <4> DEFINE u == i + MinutesPerHour
      <4>1. ShownAgain(zone, i, t)
        <5>1. i \in (after + 1)..(t - 1)
          BY <2>2, <3>1, <3>3
        <5> QED BY <2>4, <5>1
      <4>2. u \in Nat /\ u >= zone.at /\ t <= u /\ IsDue(u)
        BY <2>4, <3>1, <4>1, SecondShowing
      <4>3. ASSUME u < c
            PROVE  FALSE
        <5>1. ShownAgain(zone, u, c)
          BY <2>1, <2>2, <2>4, <4>2, <4>3, Jumps
        <5>2. u < zone.at /\ zone.at \in Nat
          BY <2>2, <5>1 DEF ShownAgain, IsZone
        <5> QED BY <4>2, <5>2
      <4>4. c <= u
        BY <2>3, <4>2, <4>3
      <4> QED BY <4>1, <4>4 DEF ShownAgain
    <3> QED BY <2>2, <3>1, <3>2, <3>3
  <2> HIDE DEF c
  <2>5. \A i : IsDue(i)' <=> IsDue(i)
    BY <2>1 DEF IsDue, Repeated
  <2>6. t' \in Nat /\ after' < t'
    BY <2>1, <2>2, <2>3
  <2>7. OnTheHour(zone)' => \A i \in (after' + 1)..(t' - 1) : IsDue(i)' => ShownAgain(zone', i, t')
    BY <2>1, <2>4, <2>5
  <2> QED BY <2>1, <2>6, <2>7
<1>2. CASE Return \/ UNCHANGED searchVars
  <2>1. /\ zone' = zone /\ after' = after /\ t' = t
        /\ schedule' = schedule /\ aligned' = aligned
    BY <1>2 DEF Return, searchVars
  <2>2. \A i : IsDue(i)' <=> IsDue(i)
    BY <2>1 DEF IsDue, Repeated
  <2> QED BY <2>1, <2>2
<1> QED BY <1>1, <1>2 DEF SearchNext

THEOREM SearchInvariant == SearchSpec => []SearchInv
BY SearchInvInit, SearchInvNext, PTL DEF SearchSpec

(* For every expression, calendar, local time whose offset changes by full *)
(* hours and back by no more than one, and instant that is searched from:  *)
(* no run is passed over but one that the clock will show again            *)
(* (schedule.go, Next).                                                    *)
THEOREM SearchSkipsNothing == SearchSpec => [](OnTheHour(zone) => NothingSkipped)
<1>1. SearchInv => (OnTheHour(zone) => NothingSkipped)
  <2> SUFFICES ASSUME SearchInv, OnTheHour(zone),
                      NEW i \in (after + 1)..(t - 1), IsDue(i)
               PROVE  \E u \in {i + zone.shift, i - zone.shift} :
                        u >= t /\ Wall(zone, u) = Wall(zone, i)
    BY DEF NothingSkipped
  <2>1. ShownAgain(zone, i, t) /\ zone \in Zones /\ t \in Nat
    BY DEF SearchInv
  <2>2. i \in Nat
    BY ZoneOk DEF SearchInv
  <2> DEFINE u == i + MinutesPerHour
  <2>3. u \in Nat /\ u = i - zone.shift /\ t <= u /\ Wall(zone, u) = Wall(zone, i)
    BY <2>1, <2>2, SecondShowing
  <2> QED BY <2>1, <2>3
<1> QED BY <1>1, SearchInvariant, PTL

(* Where no hour is repeated, or west of Greenwich, the answer is the      *)
(* first scheduled instant after the one that is searched from             *)
(* (schedule.go, Next).                                                    *)
THEOREM SearchFindsFirst ==
  SearchSpec =>
    [](OnTheHour(zone) /\ ~(zone.east /\ zone.shift < 0) => FirstInstant)
<1>1. SearchInv => (OnTheHour(zone) /\ ~(zone.east /\ zone.shift < 0) => FirstInstant)
  <2> SUFFICES ASSUME SearchInv, OnTheHour(zone), ~(zone.east /\ zone.shift < 0),
                      NEW i \in (after + 1)..(t - 1), IsDue(i)
               PROVE  FALSE
    BY DEF FirstInstant
  <2>1. ShownAgain(zone, i, t)
    BY DEF SearchInv
  <2>2. zone.east /\ zone.shift = -MinutesPerHour /\ MinutesPerHour \in Nat \ {0}
    BY <2>1, Lengths DEF ShownAgain
  <2> QED BY <2>2
<1> QED BY <1>1, SearchInvariant, PTL

-----------------------------------------------------------------------------
(* The end of the search.                                                  *)

LEMMA YearGrows ==
  ASSUME NEW w \in Nat, NEW x \in Nat, w <= x
  PROVE  DateOf(w).year <= DateOf(x).year /\ DateOf(w).year \in Nat /\ DateOf(x).year \in Nat
<1> DEFINE m == DayNumber(w)
           n == DayNumber(x)
           last == Days[Len(Days)].year
<1>1. m \in Nat /\ n \in Nat
  BY Lengths, DivNat DEF DayNumber
<1>2. m <= n
  <2>1. MinutesPerDay * m <= w /\ x < MinutesPerDay * (n + 1)
    BY DayBounds
  <2>2. MinutesPerDay * m \in Int
    BY <1>1, DayStart
  <2>3. MinutesPerDay * m <= x
    BY <2>1, <2>2
  <2>4. n + 1 \in Int /\ m \in Int /\ x \in Int
    BY <1>1
  <2>5. m <= DayNumber(x)
    BY ONLY <2>1, <2>3, <2>4, DayBetween
  <2> QED BY <2>5
<1>3. Len(Days) \in Nat \ {0} /\ last \in Nat /\ SearchYears \in Nat
  BY CalendarDays, Lengths
<1>4. \A k \in 1..Len(Days) : Days[k].year \in Nat /\ Days[k].year <= last
  BY CalendarDays
<1>5. DateOf(w).year = IF m < Len(Days) THEN Days[m + 1].year ELSE last + SearchYears + 1
  BY DEF DateOf, Beyond
<1>6. DateOf(x).year = IF n < Len(Days) THEN Days[n + 1].year ELSE last + SearchYears + 1
  BY DEF DateOf, Beyond
<1> HIDE DEF m, n, last
<1>7. CASE n < Len(Days)
  <2>1. m + 1 \in 1..Len(Days) /\ n + 1 \in 1..Len(Days) /\ m + 1 <= n + 1 /\ m < Len(Days)
    BY <1>1, <1>2, <1>3, <1>7
  <2>2. Days[m + 1].year <= Days[n + 1].year
    <3>1. DOMAIN Days = 1..Len(Days)
      BY DaysAssumption
    <3> QED BY <2>1, <3>1, DaysAssumption
  <2> QED BY <1>4, <1>5, <1>6, <1>7, <2>1, <2>2
<1>8. CASE ~(n < Len(Days)) /\ m < Len(Days)
  <2>1. m + 1 \in 1..Len(Days)
    BY <1>1, <1>3, <1>8
  <2> QED BY <1>3, <1>4, <1>5, <1>6, <1>8, <2>1
<1>9. CASE ~(n < Len(Days)) /\ ~(m < Len(Days))
  BY <1>3, <1>5, <1>6, <1>9
<1> QED BY <1>7, <1>8, <1>9

\* Once out of reach, the clock does not come back into it.
LEMMA StaysOut ==
  ASSUME zone \in Zones, OnTheHour(zone), after \in Afters, NEW c \in Nat, ~InReach(c),
         NEW i \in Nat, c <= i
  PROVE  ~InReach(i)
<1> DEFINE a == zone.at
           s == zone.shift
           w == Wall(zone, c)
           x == Wall(zone, i)
           y == Wall(zone, after)
<1>1. IsZone(zone) /\ after \in Nat /\ a \in Nat /\ s \in Int
  BY ZoneOk DEF IsZone
<1>2. w \in Nat /\ x \in Nat /\ y \in Nat
  BY <1>1, WallNat
<1>3. w = (IF c < a THEN c ELSE c + s) /\ x = (IF i < a THEN i ELSE i + s)
  BY DEF Wall
<1>4. DateOf(w).year \in Nat /\ DateOf(x).year \in Nat /\ DateOf(y).year \in Nat /\ SearchYears \in Nat
  BY <1>2, YearGrows, Lengths
<1>5. ~(DateOf(w).year <= DateOf(y).year + SearchYears)
  BY DEF InReach
<1>6. DateOf(w).year <= DateOf(x).year
  <2>1. CASE w <= x
    BY <1>2, <2>1, YearGrows
  <2>2. CASE x < w
    \* c is in the hour that is shown twice, and i in its second showing.
    <3>1. c < a /\ i >= a /\ s < 0
      BY <1>1, <1>3, <2>2
    <3>2. s = -MinutesPerHour /\ MinutesPerHour \in Nat \ {0} /\ a % MinutesPerHour = 0
      BY <1>1, <3>1, BackAnHour, Lengths DEF OnTheHour
    <3>3. (a + s) \in Int /\ (a + s) % MinutesPerHour = 0
      BY <1>1, <3>2, MultipleSum DEF OnTheHour
    <3> DEFINE M == MinutesPerHour
               f == w - Minute(w)
    <3>4. /\ f \in Int /\ f <= w /\ w < f + M /\ f % M = 0
          /\ \A m \in Int : m % M = 0 /\ m <= w => m <= f
      BY <1>2, <3>2, Floor DEF Minute
    <3> HIDE DEF a, s, w, x, M, f
    <3>5. a + s <= x /\ a + s <= w /\ w < a
      BY <1>1, <1>2, <1>3, <2>2, <3>1
    <3>6. a + s <= f
      BY <1>2, <3>3, <3>4, <3>5 DEF M
    <3>7. f <= x /\ x <= f + M - 1
      <4>1. s = -M /\ M \in Nat
        BY <3>2 DEF M
      <4>2. ~(a + s < f)
        <5>1. a + s < f => (a + s) + M <= f
          BY <3>2, <3>3, <3>4, MultipleGap DEF M
        <5> QED BY <1>1, <1>2, <3>4, <3>5, <4>1, <5>1
      <4> QED BY <1>1, <1>2, <2>2, <3>4, <3>5, <4>1, <4>2
    <3>8. x \in f..(f + M - 1)
      BY <1>2, <3>4, <3>7
    <3>9. DayNumber(x) = DayNumber(w)
      BY <1>2, <3>8, SameHour DEF f, M
    <3>10. DateOf(x) = DateOf(w)
      BY <3>9 DEF DateOf
    <3> QED BY <1>4, <3>10 DEF w, x
  <2> QED BY <1>2, <2>1, <2>2
<1>7. ~(DateOf(x).year <= DateOf(y).year + SearchYears)
  BY <1>4, <1>5, <1>6
<1> QED BY <1>7 DEF InReach

LEMMA OutOfReach == SearchSpec => [](result = "none" => ~InReach(t))
<1>1. SearchInit => (result = "none" => ~InReach(t))
  BY DEF SearchInit
<1>2. (result = "none" => ~InReach(t)) /\ [SearchNext]_searchVars => (result = "none" => ~InReach(t))'
  BY DEF SearchNext, Advance, Return, searchVars, InReach
<1> QED BY <1>1, <1>2, PTL DEF SearchSpec

(* The zero time, that makes a job never run again, is returned only when  *)
(* no minute after the one that is searched from, within nextSearchYears,  *)
(* matches (schedule.go, Next).                                            *)
THEOREM NoneOnlyWhenNone ==
  SearchSpec =>
    [](OnTheHour(zone) /\ result = "none" =>
         \A i \in Nat : after < i /\ InReach(i) => ~IsDue(i))
<1>1. SearchInv /\ (result = "none" => ~InReach(t)) =>
        (OnTheHour(zone) /\ result = "none" =>
           \A i \in Nat : after < i /\ InReach(i) => ~IsDue(i))
  <2> SUFFICES ASSUME SearchInv, ~InReach(t), OnTheHour(zone),
                      NEW i \in Nat, after < i, InReach(i), IsDue(i)
               PROVE  FALSE
    OBVIOUS
  <2>1. zone \in Zones /\ after \in Afters /\ after \in Nat /\ t \in Nat
    BY ZoneOk DEF SearchInv
  <2>2. ~(t <= i)
    BY <2>1, StaysOut
  <2>3. ShownAgain(zone, i, t)
    <3>1. i \in (after + 1)..(t - 1)
      BY <2>1, <2>2
    <3> QED BY <3>1 DEF SearchInv
  <2> DEFINE u == i + MinutesPerHour
  <2>4. u \in Nat /\ t <= u /\ Wall(zone, u) = Wall(zone, i)
    BY <2>1, <2>3, SecondShowing
  <2>5. InReach(u)
    BY <2>4 DEF InReach
  <2> HIDE DEF u
  <2>6. ~InReach(u)
    BY <2>1, <2>4, StaysOut
  <2> QED BY <2>5, <2>6
<1> QED BY <1>1, SearchInvariant, OutOfReach, PTL

LEMMA FoundIsDue == SearchSpec => [](result = "found" => IsDue(t))
<1>1. SearchInit => (result = "found" => IsDue(t))
  BY DEF SearchInit
<1>2. (result = "found" => IsDue(t)) /\ [SearchNext]_searchVars => (result = "found" => IsDue(t))'
  <2> SUFFICES ASSUME result = "found" => IsDue(t), [SearchNext]_searchVars, result' = "found"
               PROVE  IsDue(t)'
    OBVIOUS
  <2>1. /\ t' = t /\ zone' = zone /\ after' = after /\ schedule' = schedule /\ aligned' = aligned
        /\ result = "found" \/ Found
    BY DEF SearchNext, Advance, Return, searchVars
  <2>2. IsDue(t)
    BY <2>1 DEF Found, IsDue
  <2> QED BY <2>1, <2>2 DEF IsDue, Repeated
<1> QED BY <1>1, <1>2, PTL DEF SearchSpec

(* The contract that CronScheduler takes Schedule.Next to have: the answer *)
(* is what its NextSlot is among the minutes that are due, the first of    *)
(* them after the one that is searched from (schedule.go, Next).           *)
THEOREM SearchIsNextSlot ==
  SearchSpec =>
    [](OnTheHour(zone) /\ ~(zone.east /\ zone.shift < 0) /\ result = "found" =>
         t \in {i \in Nat : IsDue(i) /\ i > after} /\
         \A i \in {i \in Nat : IsDue(i) /\ i > after} : t <= i)
<1>1. SearchInv /\ (result = "found" => IsDue(t))
        /\ (OnTheHour(zone) /\ ~(zone.east /\ zone.shift < 0) => FirstInstant) =>
        (OnTheHour(zone) /\ ~(zone.east /\ zone.shift < 0) /\ result = "found" =>
           t \in {i \in Nat : IsDue(i) /\ i > after} /\
           \A i \in {i \in Nat : IsDue(i) /\ i > after} : t <= i)
  <2> SUFFICES ASSUME SearchInv, IsDue(t), FirstInstant, result = "found"
               PROVE  t \in {i \in Nat : IsDue(i) /\ i > after} /\
                      \A i \in {i \in Nat : IsDue(i) /\ i > after} : t <= i
    OBVIOUS
  <2>1. after \in Nat /\ t \in Nat /\ after < t
    BY ZoneOk DEF SearchInv
  <2>2. ASSUME NEW i \in Nat, IsDue(i), i > after
        PROVE  t <= i
    <3>1. i \notin (after + 1)..(t - 1)
      BY <2>2 DEF FirstInstant
    <3> QED BY <2>1, <2>2, <3>1
  <2> QED BY <2>1, <2>2
<1> QED BY <1>1, SearchInvariant, FoundIsDue, SearchFindsFirst, PTL
=============================================================================
