------------------------------ MODULE SessionLog ------------------------------
(***************************************************************************)
(* One session of the event store (internal/sessions): the append-only log *)
(* events.jsonl, the derived document metadata.json, and the writers that  *)
(* change them under the session lock, with failing calls, crashed         *)
(* processes and power loss between any two steps.                         *)
(*                                                                         *)
(* A line of the log is its sequence number and its type; the payload is   *)
(* left out.  A line that no JSON decoder accepts has the type "corrupt".  *)
(* What follows the last newline of the file is its tail.                  *)
(*                                                                         *)
(* Operators named ...Mutant are bugs the code could have had; nothing     *)
(* below uses them.                                                        *)
(***************************************************************************)
EXTENDS Integers, Sequences, FiniteSets

CONSTANTS
  Writers,     \* goroutines and processes sharing the store's RootDir
  Nobody,      \* the lock's value when it is free
  Kinds,       \* the operations the writers perform
  Titles,      \* titles a retitle may set
  NoTitle,     \* the title the session was created with
  MaxBatch,    \* bound: events in one AppendEvents call
  MaxOps,      \* bound: operations begun
  MaxFaults    \* bound: failed calls, crashes and power losses

ASSUME WriterAssumption == Nobody \notin Writers
ASSUME KindAssumption   == Kinds \subseteq {"append", "once", "retitle", "rewind"}
ASSUME BoundAssumption  == MaxBatch \in Nat \ {0} /\ MaxOps \in Nat /\ MaxFaults \in Nat

VARIABLES
  lock,       \* holder of the session lock (the mutex and the flock together)
  log,        \* events.jsonl as a reader sees it
  survivors,  \* the contents the file may have after a power loss
  displaced,  \* contents of files it replaced, while the rename is not durable
  meta,       \* metadata.json as a reader sees it
  metaPast,   \* metadata it replaced, while the rename is not durable
  pc,         \* where each writer is
  op,         \* the operation each writer performs
  held,       \* the metadata each writer read under the lock
  base,       \* the first sequence number of each writer's batch
  acked,      \* history: lines of the appends that returned without an error
  titled,     \* history: the last title acknowledged and those tried since
  unsynced,   \* history: titles a power loss may bring back all the same, because
              \* the last one was acknowledged without a sync
  torn,       \* history: a write was cut inside a line
  ops, faults

logVars   == <<log, survivors, displaced>>
metaVars  == <<meta, metaPast>>
localVars == <<op, held, base>>
history   == <<acked, titled, unsynced, torn>>
bounds    == <<ops, faults>>
vars == <<lock, logVars, metaVars, pc, localVars, history, bounds>>

-----------------------------------------------------------------------------
(* Lines, files and what the readers of the store make of them.            *)

EventTypes == {"message", "once", "rewind"}
Line       == [seq : Nat, type : EventTypes \cup {"corrupt"}]
Ending     == [seq : Nat, type : EventTypes \cup {"none", "partial"}]
File       == [lines : Seq(Line), tail : Ending]
Corrupt    == [seq |-> 0, type |-> "corrupt"]
NoTail     == [seq |-> 0, type |-> "none"]
Partial    == [seq |-> 0, type |-> "partial"]
Metadata   == [count : Nat, title : Titles \cup {NoTitle}]
Operation  == [kind : {"append", "once", "retitle", "rewind"},
               n : 1..MaxBatch, title : Titles \cup {NoTitle}, target : Nat]
Stages     == {"idle", "want", "check", "derive", "write", "sync", "retitle", "rename",
               "dirsync", "truncate", "logdirsync", "truncmeta", "truncdirsync"}

\* An event that decodes and lacks only its newline.
Whole(t) == t.type \in EventTypes

\* ReadEvents returns no error.
Readable(f) == \A i \in DOMAIN f.lines : f.lines[i].type # "corrupt"

\* What ReadEvents returns: a tail that decodes is kept, another is dropped.
ReadEvents(f) == IF Whole(f.tail) THEN Append(f.lines, f.tail) ELSE f.lines

\* The last newline-terminated line decides; 0 when it is corrupt, because the
\* full read the code then turns to fails, and its caller ignores the error.
LastEventSequence(f) == IF f.lines = <<>> THEN 0 ELSE f.lines[Len(f.lines)].seq

NextSequenceMutant(f, count) == count + 1
NextSequence(f, count) ==
  IF LastEventSequence(f) > count THEN LastEventSequence(f) + 1 ELSE count + 1

EventType(kind) == CASE kind = "once"   -> "once"
                     [] kind = "rewind" -> "rewind"
                     [] OTHER           -> "message"

\* The lines a writer's batch is encoded to.
Batch(w) == [i \in 1..op[w].n |-> [seq |-> base[w] + i - 1, type |-> EventType(op[w].kind)]]

\* O_APPEND writes at the end of the file: what is left there joins the first line.
Glue(t, lines) ==
  [i \in DOMAIN lines |-> IF i = 1 /\ t # NoTail THEN Corrupt ELSE lines[i]]

\* The file after all of a write, and after any part of it.
AppendedMutant(f, lines) ==
  [lines |-> f.lines \o SubSeq(Glue(f.tail, lines), 1, Len(lines) - 1),
   tail  |-> lines[Len(lines)]]
Appended(f, lines) == [lines |-> f.lines \o Glue(f.tail, lines), tail |-> NoTail]
CutTails(f, lines, k) ==
  CASE k = Len(lines) -> {NoTail}
    [] k = 0          -> {f.tail, Partial} \cup (IF f.tail = NoTail THEN {lines[1]} ELSE {})
    [] OTHER          -> {NoTail, Partial, lines[k + 1]}
CutAppends(f, lines) ==
  UNION {{[lines |-> f.lines \o SubSeq(Glue(f.tail, lines), 1, k), tail |-> t] :
            t \in CutTails(f, lines, k)} : k \in 0..Len(lines)}

\* A truncation keeps the events up to the target: the log increases, so they
\* are a prefix of it, whose every line is written with its newline.
Truncated(f, target) ==
  {[lines |-> SubSeq(ReadEvents(f), 1, k), tail |-> NoTail] :
     k \in {k \in 0..Len(ReadEvents(f)) :
              \A i \in 1..Len(ReadEvents(f)) : (i <= k) <=> (ReadEvents(f)[i].seq <= target)}}

-----------------------------------------------------------------------------
(* The session lock.  Every step but Begin and LockSession is its holder's. *)

EmptyFile  == [lines |-> <<>>, tail |-> NoTail]
NewSession == [count |-> 0, title |-> NoTitle]
NoOp       == [kind |-> "append", n |-> 1, title |-> NoTitle, target |-> 0]

Init ==
  /\ lock = Nobody
  /\ log = EmptyFile /\ survivors = {EmptyFile} /\ displaced = {}
  /\ meta = NewSession /\ metaPast = {}
  /\ pc   = [w \in Writers |-> "idle"]
  /\ op   = [w \in Writers |-> NoOp]
  /\ held = [w \in Writers |-> NewSession]
  /\ base = [w \in Writers |-> 0]
  /\ acked = {} /\ titled = {NoTitle} /\ unsynced = {} /\ torn = FALSE
  /\ ops = 0 /\ faults = 0

At(w, stage) == pc[w] = stage
Goto(w, stage) == pc' = [pc EXCEPT ![w] = stage] /\ UNCHANGED lock

\* The deferred unlock at a return; the locals die with the call.
Return(w) ==
  /\ lock' = Nobody
  /\ pc'   = [pc EXCEPT ![w] = "idle"]
  /\ op'   = [op EXCEPT ![w] = NoOp]
  /\ held' = [held EXCEPT ![w] = NewSession]
  /\ base' = [base EXCEPT ![w] = 0]

\* The arguments the callers pass.  A rewind targets an event of the session.
Arguments ==
  {o \in [kind : Kinds, n : 1..MaxBatch, title : Titles \cup {NoTitle},
          target : {0} \cup {log.lines[i].seq : i \in DOMAIN log.lines}] :
     /\ o.kind # "append" => o.n = 1
     /\ (o.kind = "retitle") <=> (o.title # NoTitle)
     /\ o.kind # "rewind" => o.target = 0}

Begin(w) ==
  /\ At(w, "idle") /\ ops < MaxOps
  /\ \E o \in Arguments : op' = [op EXCEPT ![w] = o]
  /\ pc' = [pc EXCEPT ![w] = "want"]
  /\ ops' = ops + 1
  /\ UNCHANGED <<lock, logVars, metaVars, held, base, history, faults>>

FirstStage(kind) == CASE kind = "append"  -> "derive"
                      [] kind = "once"    -> "check"
                      [] kind = "retitle" -> "retitle"
                      [] kind = "rewind"  -> "truncate"

LockSessionMutant(w) ==
  /\ At(w, "want")
  /\ lock' = w
  /\ pc' = [pc EXCEPT ![w] = FirstStage(op[w].kind)]
  /\ UNCHANGED <<logVars, metaVars, localVars, history, bounds>>
LockSession(w) ==
  /\ At(w, "want") /\ lock = Nobody
  /\ lock' = w
  /\ pc' = [pc EXCEPT ![w] = FirstStage(op[w].kind)]
  /\ UNCHANGED <<logVars, metaVars, localVars, history, bounds>>

-----------------------------------------------------------------------------
(* AppendEvents and AppendEventUnlessExists.                               *)

\* The predicate the caller passes: is the event recorded already?
Exists(f) == \E i \in DOMAIN ReadEvents(f) : ReadEvents(f)[i].type = "once"

\* An unreadable log is an error, an existing event an early return.
CheckExists(w) ==
  /\ At(w, "check")
  /\ IF Readable(log) /\ ~Exists(log)
       THEN Goto(w, "derive") /\ UNCHANGED localVars
       ELSE Return(w)
  /\ UNCHANGED <<logVars, metaVars, history, bounds>>

Derive(w) ==
  /\ At(w, "derive")
  /\ held' = [held EXCEPT ![w] = meta]
  /\ base' = [base EXCEPT ![w] = NextSequence(log, meta.count)]
  /\ Goto(w, "write")
  /\ UNCHANGED <<logVars, metaVars, op, history, bounds>>

WriteBatch(w) ==
  /\ At(w, "write")
  /\ log' = Appended(log, Batch(w))
  /\ survivors' = survivors \cup CutAppends(log, Batch(w))
  /\ Goto(w, "sync")
  /\ UNCHANGED <<displaced, metaVars, localVars, history, bounds>>

SyncMutant(w) ==
  /\ At(w, "sync")
  /\ Goto(w, "rename")
  /\ UNCHANGED <<logVars, metaVars, localVars, history, bounds>>
Sync(w) ==
  /\ At(w, "sync")
  /\ survivors' = {log}
  /\ Goto(w, "rename")
  /\ UNCHANGED <<log, displaced, metaVars, localVars, history, bounds>>

\* The metadata an operation writes, from what it read when it derived.
NewMetadata(w) ==
  IF op[w].kind = "retitle"
    THEN [held[w] EXCEPT !.title = op[w].title]
    ELSE [held[w] EXCEPT !.count = base[w] + op[w].n - 1]

\* writeMetadata: the temporary file is durable before the rename shows it.
Rename(w) ==
  /\ At(w, "rename")
  /\ meta' = NewMetadata(w)
  /\ metaPast' = metaPast \cup {meta}
  /\ titled' = IF op[w].kind = "retitle" THEN titled \cup {op[w].title} ELSE titled
  /\ Goto(w, "dirsync")
  /\ UNCHANGED <<logVars, localVars, acked, unsynced, torn, bounds>>

\* A directory sync makes every rename in the directory durable, and with it the
\* title that is stored, unless that is one a power loss brought back.
SyncDir ==
  /\ displaced' = {} /\ metaPast' = {}
  /\ unsynced' = IF meta.title \in titled' THEN {} ELSE unsynced

RangeOf(lines) == {lines[i] : i \in DOMAIN lines}

DirSyncMutant(w) ==
  /\ At(w, "dirsync")
  /\ Return(w)
  /\ acked' = IF op[w].kind = "retitle" THEN acked ELSE acked \cup RangeOf(Batch(w))
  /\ titled' = IF op[w].kind = "retitle" THEN {op[w].title} ELSE titled
  /\ UNCHANGED <<logVars, metaVars, unsynced, torn, bounds>>
DirSync(w) ==
  /\ At(w, "dirsync")
  /\ Return(w)
  /\ acked' = IF op[w].kind = "retitle" THEN acked ELSE acked \cup RangeOf(Batch(w))
  /\ titled' = IF op[w].kind = "retitle" THEN {op[w].title} ELSE titled
  /\ SyncDir
  /\ UNCHANGED <<log, survivors, meta, torn, bounds>>

-----------------------------------------------------------------------------
(* UpdateTitle; UpdatePermissionProfile has the same steps.                *)

\* An unchanged title is acknowledged as it is, without a sync: what stood there
\* before a rename that is not durable yet may come back.
Retitle(w) ==
  /\ At(w, "retitle")
  /\ IF meta.title = op[w].title
       THEN /\ Return(w)
            /\ titled' = {op[w].title}
            /\ unsynced' = {m.title : m \in metaPast}
       ELSE /\ held' = [held EXCEPT ![w] = meta]
            /\ Goto(w, "rename")
            /\ UNCHANGED <<op, base, titled, unsynced>>
  /\ UNCHANGED <<logVars, metaVars, acked, torn, bounds>>

-----------------------------------------------------------------------------
(* ApplyRewind, under one lock: the log is rewritten, then the metadata,   *)
(* then the marker is appended.                                            *)

Truncate(w) ==
  /\ At(w, "truncate")
  /\ IF Readable(log)
       THEN /\ log' \in Truncated(log, op[w].target)
            /\ displaced' = displaced \cup survivors
            /\ survivors' = {log'}
            /\ acked' = {l \in acked : l.seq <= op[w].target}
            /\ Goto(w, "logdirsync")
            /\ UNCHANGED localVars
       ELSE Return(w) /\ UNCHANGED <<logVars, acked>>
  /\ UNCHANGED <<metaVars, titled, unsynced, torn, bounds>>

LogDirSync(w) ==
  /\ At(w, "logdirsync")
  /\ Goto(w, "truncmeta")
  /\ UNCHANGED <<log, survivors, meta, localVars, acked, titled, torn, bounds>>
  /\ SyncDir

TruncateMetadataMutant(w) ==
  /\ At(w, "truncmeta")
  /\ meta' = [meta EXCEPT !.count = Len(log.lines) - 1]
  /\ metaPast' = metaPast \cup {meta}
  /\ Goto(w, "truncdirsync")
  /\ UNCHANGED <<logVars, localVars, history, bounds>>
TruncateMetadata(w) ==
  /\ At(w, "truncmeta")
  /\ meta' = [meta EXCEPT !.count = Len(log.lines)]
  /\ metaPast' = metaPast \cup {meta}
  /\ Goto(w, "truncdirsync")
  /\ UNCHANGED <<logVars, localVars, history, bounds>>

\* The marker must not take the lock again: the mutex is not reentrant.
TruncateDirSyncMutant(w) ==
  /\ At(w, "truncdirsync")
  /\ Goto(w, "want")
  /\ UNCHANGED <<log, survivors, meta, localVars, acked, titled, torn, bounds>>
  /\ SyncDir
TruncateDirSync(w) ==
  /\ At(w, "truncdirsync")
  /\ Goto(w, "derive")
  /\ UNCHANGED <<log, survivors, meta, localVars, acked, titled, torn, bounds>>
  /\ SyncDir

-----------------------------------------------------------------------------
(* Faults.                                                                 *)

\* write(2) stores part of the batch: the disk fills, or the process is killed.
ShortWrite(w) ==
  /\ At(w, "write") /\ faults < MaxFaults
  /\ log' \in CutAppends(log, Batch(w)) \ {Appended(log, Batch(w))}
  /\ survivors' = survivors \cup CutAppends(log, Batch(w))
  /\ torn' = (torn \/ log'.tail # NoTail)
  /\ Return(w)
  /\ faults' = faults + 1
  /\ UNCHANGED <<displaced, metaVars, acked, titled, unsynced, ops>>

\* A call returns an error before it has an effect, or the process is killed:
\* the operation ends, unacknowledged, and the lock goes.
Abort(w) ==
  /\ lock = w /\ faults < MaxFaults
  /\ Return(w)
  /\ faults' = faults + 1
  /\ UNCHANGED <<logVars, metaVars, history, ops>>

\* Every process ends; the files are what stable storage holds.
PowerLoss ==
  /\ faults < MaxFaults
  /\ log' \in survivors \cup displaced
  /\ survivors' = {log'} /\ displaced' = {}
  /\ torn' = (torn \/ log'.tail # NoTail)
  /\ meta' \in {meta} \cup metaPast
  /\ metaPast' = {}
  /\ lock' = Nobody
  /\ pc'   = [w \in Writers |-> "idle"]
  /\ op'   = [w \in Writers |-> NoOp]
  /\ held' = [w \in Writers |-> NewSession]
  /\ base' = [w \in Writers |-> 0]
  /\ faults' = faults + 1
  /\ UNCHANGED <<acked, titled, unsynced, ops>>

-----------------------------------------------------------------------------
AppendSteps(w) ==
  CheckExists(w) \/ Derive(w) \/ WriteBatch(w) \/ Sync(w) \/ Rename(w) \/ DirSync(w)
RewindSteps(w) ==
  Truncate(w) \/ LogDirSync(w) \/ TruncateMetadata(w) \/ TruncateDirSync(w)

\* What the lock's holder does next when nothing fails.
Proceed(w) == AppendSteps(w) \/ Retitle(w) \/ RewindSteps(w)

Finished == ops = MaxOps /\ (\A w \in Writers : At(w, "idle")) /\ UNCHANGED vars

Next ==
  \/ \E w \in Writers : Begin(w) \/ LockSession(w) \/ Proceed(w) \/ ShortWrite(w) \/ Abort(w)
  \/ PowerLoss
  \/ Finished

Spec == Init /\ [][Next]_vars
FairSpec == Spec /\ \A w \in Writers : WF_vars(Proceed(w))

-----------------------------------------------------------------------------
(* Properties.                                                             *)

LogTypeOK     == log \in File /\ survivors \subseteq File /\ displaced \subseteq File
MetaTypeOK    == meta \in Metadata /\ metaPast \subseteq Metadata
ControlTypeOK ==
  /\ lock \in Writers \cup {Nobody}
  /\ pc \in [Writers -> Stages]
  /\ op \in [Writers -> Operation]
  /\ held \in [Writers -> Metadata]
  /\ base \in [Writers -> Nat]
HistoryTypeOK ==
  /\ acked \subseteq Line
  /\ titled \subseteq Titles \cup {NoTitle} /\ unsynced \subseteq Titles \cup {NoTitle}
  /\ torn \in BOOLEAN
BoundTypeOK   == ops \in 0..MaxOps /\ faults \in 0..MaxFaults

\* The variables keep their types: in particular no count or sequence the store
\* derives is negative.
TypeOK == LogTypeOK /\ MetaTypeOK /\ ControlTypeOK /\ HistoryTypeOK /\ BoundTypeOK

Increasing(events) ==
  \A i, j \in DOMAIN events : i < j => events[i].seq < events[j].seq

\* No sequence number is reused: whatever failed before, the events ReadEvents
\* returns increase strictly, so a revert finds the one event it targets
\* (appendPreparedEventsLocked takes the log, not the metadata, for its source).
SequencesIncrease == Readable(log) => Increasing(ReadEvents(log))

\* An append that returned without an error is in what stable storage holds as
\* long as that log can be read, until a rewind removes it.
AckedSurvive ==
  \A f \in {log} \cup survivors \cup displaced :
    Readable(f) => acked \subseteq RangeOf(ReadEvents(f))

\* AppendEventUnlessExists records its event once, though callers race and die.
RecordedOnce ==
  Readable(log) =>
    Cardinality({i \in DOMAIN ReadEvents(log) : ReadEvents(log)[i].type = "once"}) <= 1

\* What writeMetadata syncs the directory for ("so the rename itself is durable"):
\* the metadata has the last title UpdateTitle acknowledged, or one tried since, and
\* would have it after a power loss.
AckedTitleDurable == \A m \in {meta} \cup metaPast : m.title \in titled

\* No append, rewind or failed retitle brings back a title older than the last one
\* acknowledged.  The exception is a power loss after UpdateTitle has acknowledged an
\* unchanged title whose rename is not durable, as after a retitle that died before
\* its sync: until the directory is synced it may bring back what the rename replaced.
TitleKept == \A m \in {meta} \cup metaPast : m.title \in titled \cup unsynced

\* "Resume still recovers every complete event" (ReadEvents): the log can be read.
AlwaysReadable == Readable(log)

\* Nothing but a write cut inside a line makes the log unreadable: not a write
\* cut between lines, nor a crash or a rewind at any step.
ReadableUnlessTorn == ~torn => Readable(log)

\* An operation that has the lock gives it back: no step waits for the lock it
\* holds (ApplyRewind calls the variants that do not lock).
LockReleased == \A w \in Writers : lock = w ~> lock # w

=============================================================================
