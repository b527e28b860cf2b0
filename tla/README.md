# A formal model of KajiCode's agent loop, stores, schedulers and servers

KajiCode is a coding agent in Go: an agent loop between a language model and tools, a
terminal interface over it, and around them the parts that keep state for longer than one
turn. The loop and those parts are what this directory models, in TLA+, with TLC runs over
small instances and TLAPS proofs for every instance. Paths below are relative to
`src/internal`.

## 1. The system

### Components

| component | state | operations | what it must keep |
|---|---|---|---|
| session event store, `sessions/store.go` | `events.jsonl` (append-only), `metadata.json` (derived), a lock per session (mutex and flock) | append a batch, append unless recorded, retitle, change profile, create, delete, read | acknowledged events survive; sequence numbers increase; metadata is never lost to a concurrent rewrite |
| rewind and checkpoints, `sessions/rewind.go`, `checkpoint.go` | snapshots of files as blobs, checkpoint events in the log | capture, restore, truncate the log, prune blobs, append a marker | a rewind is one step for every other writer; no blob is pruned that an event needs |
| cron, `cli/cron_run.go`, `cli/cron.go`, `cron/store.go` | one directory per job: `metadata.json`, `runs.jsonl` | add, pause, resume, remove, fire due jobs, reconcile overdue ones | a slot fires once; a paused or removed job stays so; a due job is not forgotten |
| cron job lock, `cron/lock.go` | an `O_EXCL` file per job, with a token | take, release, reclaim after 60 s | mutual exclusion of the store's calls |
| cron schedule, `cron/schedule.go` | the candidate of a search | the next instant a five-field expression matches | strictly later, matching, nothing passed over when the clock changes; the search ends |
| daemon lock, `daemon/lock.go`, `lockutil` | a PID file | acquire, reclaim a dead one, release | one daemon; no manual cleanup after a crash |
| daemon pool, `daemon/pool.go`, `launcher.go` | lease slots, tracked workers, a draining flag | run a session with retries, drain | bounded workers and retries; no silent loss of output; shutdown ends |
| daemon server, `daemon/server.go`, `cli/daemon.go` | listener, open connections, cancelled context | serve, run, attach, status, shutdown | shutdown finishes whatever clients and workers do |
| daemon sessions, `daemon/session.go`, the handlers of `daemon/server.go` | a ring of output lines, subscribers with a bounded channel, a registry of sessions, a handler per connection | line, subscribe, finish, start, evict, run, attach, stream | a subscriber sees the lines in order and learns of every gap; its stream ends |
| daemon protocol, remote bridge, `daemon/protocol.go`, `daemon/remote` | frames | encode, decode, authenticate, relay | framing |
| oauth, `oauth/manager.go`, `store.go`, `scheduler.go` | encrypted tokens, a lock per key, refresh timers | login, fresh token, refresh, logout | a single-use refresh token is used once; a logout holds |
| agent loop, `agent/loop.go`, `parallel_tools.go`, `completion_policy.go` | the conversation, the counters of its guards | turns, retries, recovery, batches of tool calls, compaction, the completion gate | every tool call has a result; text is shown once; an edit is recorded; limits are kept |
| background diagnostics, `agent/async_diagnostics.go` | pending and finished checks, one worker | enqueue, work, drain | no report of content that is no longer there |
| learning engine, `agent/learning.go`, `harness` | signals, one pass in flight, memory files | note, schedule, apply | single flight; an edit is applied once |
| sub-agents, `agents/supervisor.go` | background tasks, a queue of completions | start, finish, drain | each completion is delivered once |
| ACP server, `acp/agent.go`, `acp/jsonrpc.go` | sessions, one turn each, pending calls | prompt, cancel, call, deliver | a cancel reaches its turn; each call ends once |
| exec sessions, `tools/exec_command.go` | a capped table of running commands | start, poll, write, prune | no command outlives its entry unnoticed |
| hooks, `hooks/hooks.go` | an audit log with its own lock | dispatch, append | the log stays readable |
| the rest: `tui`, `cli`, `tools`, `sandbox`, `mcp`, `lsp`, `providers`, `config`, `plugins`, `skills`, `update` | | | not concurrent state of the kind modelled here; see `PROJECT.json` |

### Interactions

* The terminal interface, `kajicode exec`, the ACP server and the rewind command are
  processes over one session directory. They meet in the session lock and in the two files.
* `cron run` starts `kajicode exec` for a due job. Several `cron run` processes, and the
  commands that pause, resume or remove a job, share the job's directory and its lock, which
  is held during one store call and never during a run.
* The daemon's server gives each accepted session to the pool; the pool starts a worker
  process, reads its output and passes each line to the session, which fans it out to
  attached clients. A shutdown cancels the context of all runs, closes the connections and
  drains the pool.
* The agent loop queues the files its tools changed for the diagnostics worker and takes the
  verdicts before a turn and before it ends; a guard of the loop, an abort or an approval may
  end it at any tool call.
* An ACP client's prompts each run the agent loop, one at a time for a session, and ask the
  client for permissions over the connection the prompts came in on.
* Every provider call takes its token from the oauth manager, in whichever process it is made.
* The lock of the daemon, of cron jobs, of hooks and of oauth all use `lockutil`, which
  renames a suspected stale lock aside.

### What is hard

Crashes and power loss between two writes; a write that is cut; a copy read in one store call
and written back in a later one; two processes between check and act; a kill, a cancelled
context and an exit that meet; a retry limit reached by different paths; a lock that must be
recovered and must not be stolen. `PROJECT.json` lists each of these at its line under
`hazards`, with the property that covers it or the reason that none does yet.

## 2. Modules

| module | models | code |
|---|---|---|
| `SessionLog` | one session of the event store, its writers, faults | `sessions/store.go`, `sessions/rewind.go`, `filelock_unix.go` |
| `SessionLogProofs` | theorems about `SessionLog` | |
| `CronScheduler` | one job, the schedulers and the commands over it | `cli/cron_run.go`, `cli/cron.go`, `cron/store.go` |
| `CronSchedule` | the search for the next run of an expression | `cron/schedule.go` |
| `DaemonLock` | processes that start a daemon over one lock path | `daemon/lock.go`, `lockutil/reclaim.go` |
| `DaemonPool` | sessions, their workers, and a shutdown | `daemon/pool.go`, `launcher.go`, `Server.Shutdown` |
| `LineStream` | what a client that follows a session is promised | (abstract) |
| `SessionFanout` | sessions, their registry, the connections that follow them; implements `LineStream` | `daemon/session.go`, `daemon/server.go` |
| `OAuthRefresh` | several processes over one token file, and the provider | `oauth/manager.go`, `oauth/store.go` |
| `Transcript` | the history of a run: messages, placeholders, compaction | `agent/loop.go`, `agent/compaction.go` |
| `AsyncDiagnostics` | the background checks of changed files | `agent/async_diagnostics.go` |
| `AgentLoop` | a run: extends the two above | `agent/loop.go`, `parallel_tools.go`, `completion_policy.go`, `guardrails.go` |
| `AcpTurns` | the turns of one ACP session over its connection | `acp/agent.go`, `acp/jsonrpc.go` |
| `DaemonLockProofs`, `DaemonPoolProofs`, `SessionFanoutProofs`, `OAuthRefreshProofs`, `AgentLoopProofs`, `AcpTurnsProofs` | theorems about the module each is named after | |
| `CronProofs` | theorems about `CronScheduler` and `CronSchedule` | |
| `MC...` | the instances TLC checks | |

Operators named `...Mutant` are bugs the code could have had. Nothing in a specification uses
them; putting one in the place of the definition it mutates makes the property that
`PROJECT.json` names with it fail, so each property is one the code could break.

### SessionLog

*State.* `log` is `events.jsonl` as a reader sees it: complete lines and a tail without a newline.
`survivors` are the contents the file may have after a power loss, because a write was not synced;
`displaced` the contents of files it replaced by a rename whose directory was not synced. `meta` and
`metaPast` are the same for `metadata.json`. `lock` stands for mutex and flock together. `acked`,
`titled`, `unsynced` and `torn` are history: the appends and titles that callers were told are
stored, the titles a power loss may bring back although another was acknowledged, and whether a
write was cut inside a line. Each writer has its stage `pc`, its operation, the metadata it read
(`held`) and the number of its first event (`base`).

*Actions.* `LockSession` is `lockSession`; `CheckExists` the predicate of
`AppendEventUnlessExists`; `Derive`, `WriteBatch`, `Sync`, `Rename`, `DirSync` the steps of
`appendPreparedEventsLocked` and `writeMetadata`; `Retitle` is `UpdateTitle` (and
`UpdatePermissionProfile`, which has the same steps on another field), whose early return for an
unchanged title is an acknowledgement too; `Truncate`,
`LogDirSync`, `TruncateMetadata`, `TruncateDirSync` are `truncateEventsLocked`, after which
`ApplyRewind` appends its marker through the same steps as any append. `ShortWrite` is a
write of which a part is stored, `Abort` a call that fails before it has an effect or a
process that dies, `PowerLoss` the end of every process with what stable storage holds.

*Abstractions.* Payload, time stamps and identifiers are left out; two lines differ by
sequence number and type. A cut inside a line is one of two tails: a fragment that does not
decode, or a whole event that lacks its newline, which `ReadEvents` keeps. A sync that fails
leaves the file as unsynced as it was. A lock is granted when it is free; on a platform
without flock only writers of one process exclude each other. The restore of workspace files
and the pruning of blobs, which an `ApplyRewind` does under the same lock, touch neither file.

### CronScheduler

*State.* The stored `job` (present, status, next slot), whether it has a run record, and per
scheduler its stage, its mode, the copy it listed and the minute it began to fire. `command`
is a pause or resume between its `Get` and its `Update`.

*Actions.* `Start`, `Stop`, `Crash` are the life of a `cron run` process (`--once`, `--catch-up`
or the default, which reconciles). `ReconcileList` and `Reschedule` are the two store calls of
`reconcileOverdue`; `List`, `Consider`, `Claim`, `Persist`, `Record` those of `fireDue` and
`fireJob`; `PersistUnread` and `StoreFails` their error paths. `CommandGet`/`CommandUpdate` and
`Remove` are the commands. `Tick` is a minute.

*History.* `claims` counts the claims of each slot and `raced` says that one fell between another
process's read and its write. `pauseKept` says that a pause was acknowledged and neither resumed nor
removed since; no scheduler's step changes it. `stale` says that such a pause may be lost, or is: a run
that could not read the job again wrote its copy (`PersistUnread`), or a scheduler that had listed the
job before the pause was about to write it back (`Reschedule`).

*Abstractions.* A store call is atomic, as the job lock makes it while no holder is suspended
past the stale limit. Time is in minutes; the schedule is the set `Slots`, after which it never
fires again. One job and one command at a time. `FireCount` decides nothing and is left out.

### DaemonLock

*State.* `path` is the file at the lock's path and `aside[p]` the one a process has renamed
aside; a file is named by the process that created it, and is in `written` once it has a PID.
`exposed` records that the lock was in one of four windows: a live holder's file had no PID yet when
it was read, was aside when another file was created, was replaced by a file that another process
put back, or was removed by another's release or failed restore. The comments of `ReclaimStaleLock`
name the second and the third; they shrink the window and do not close it. `alone` are the starts
that met no other live process.

*Actions.* `Create`, `WritePid`, `WriteFails`, `ReadPid` are the passes of `acquireLock`;
`RenameAside`, `RenameFails`, `Inspect`, `Restore`, `RestoreFails` are `ReclaimStaleLock`;
`Release` and `Die` end a daemon. A process starts one daemon, so a PID is not reused.

### DaemonPool

*State.* Slots taken; per session the stage of its goroutine, the attempt, the worker process,
whether the worker is tracked, and its result; and the `phase` of the shutdown. `launches`,
`fate` and `unseen` are history.

*Actions.* `Submit`, `Lease`, `LeaveQueue` are `acquire`; `CheckDraining`, `Launch`,
`LaunchFails`, `Track`, `ReadError`, `Reap`, `Wake` are `Run` and `runOnce`; `WorkerExits` and
`TerminatedExits` are the process; `ContextKill` is the command's `Cancel`; `Cancel`,
`BeginDrain`, `DrainIdle`, `GraceEnds`, `KillStraggler`, `KillsDone` are `Server.Shutdown` and
`Drain`.

*Abstractions.* Delays, the cool-off and the grace window have no length: a timer may fire at
once, and the window may end at any time, which covers every real length. A terminated worker
may end with any status: os/exec turns a clean exit after the cancellation into an error, which
is one of them. The end of the output coincides with the exit of the worker, so a descendant
that has left the process group and holds the pipe open is not modelled. `Shutdown` cancels
the context before it drains, so in the daemon a worker gets SIGTERM before the grace window
begins.

### CronSchedule

*State.* The expression, the local time, the instant the search is `after` and whether it falls
on a full minute; the candidate `t`. An instant is a count of minutes; `Wall` is the wall clock's
reading of it, and `Date` is `time.Date`, which must choose when a reading does not exist or
exists twice.

*Actions.* `Advance` is one pass of the loop, with its jumps to the next month, day, hour or
minute and the guard that makes each go forward; `Return` ends it at a match or past the last
year.

Its `SearchInit`, `SearchNext` and `SearchSpec` are so named because `CronProofs` extends both cron
modules.

*Abstractions.* The fields are sets. The calendar is a parameter, as many days as the searches need,
and what follows it is out of every search's reach; the assumptions have the searches begin in it. A
zone changes its offset once, which is what one search meets. Go's choice is the offset at the wall
reading taken as UTC: the later instant east of Greenwich, the earlier west of it, and both kinds of
zone are checked.

### SessionFanout and LineStream

*State.* Each session's state, ring and number of lines, and the registry in creation order; per
connection its handler's stage, the session it streams from, the buffered lines still to write,
its channel, the count of lines dropped, and the state of its subscription. `next`, `got` and
`over` are history: the first line the client has heard nothing of, what it was sent, how it ended.

*Actions.* `Started`, `Line`, `Finish` and `CloseChannel` are the session's methods: `finish`
marks it ended under the lock and closes the channels after. `Run` is `handleRun` with `Start` and
its pruning; `Find`, `Subscribe`, `FindAgain` are `handleAttach`, which looks the ID up twice;
`Replay`, `Forward`, `FinishStream`, `Interrupt`, `Leave` are `streamToClient`.

*Abstractions.* Lines are numbered and say nothing else. What the pool does between the start and
the end of a session is `DaemonPool`.

*Refinement.* `LineStream` has only the lines written, the first line each client has heard nothing
of and the items it received: the next line or the number of lines that are left out. Its `Spec` is
a property of `SessionFanout` under the mapping `written <- lines, source <- Followed`, so a ring,
a bounded channel and a drop counter together deliver such a stream.

### OAuthRefresh

*State.* The token file; the lock file's holder and whether a dead process left one; the latest
generation of each grant at the provider; per call its stage, the token it loaded, the token it
will save and the file as it read it under the lock. `wrote`, `spender`, `lost`, `seen` are history.

*Actions.* `GetFresh`, `LookAgain`, `Refresh`, `LoseAnswer`, `RefreshFails` are `GetFresh`,
`Handle401` and `refreshAndSave`; `Login` and `Logout` are those; `LockAndRead`, `LockTimesOut`,
`Write`, `WriteFails` are `Store.Save` and `Store.Delete`; `Crash` ends a process and `ReclaimLock`
takes away the lock file it left.

*Abstractions.* A token is a grant and a generation, and the provider takes each generation once.
Time has no measure: a token may need its refresh at any moment. A holder of the lock file is not
suspended for the 30 seconds after which its lock counts as stale. Encryption is left out.

### AgentLoop, Transcript, AsyncDiagnostics

*State.* `Transcript` holds the form of the history: user messages, assistant messages with a
number of calls, results, placeholders. `AsyncDiagnostics` holds each file's content version, the
queue, the worker's job and the verdicts. `AgentLoop` adds where the run is (`step`, `stage`), the
turn's retries and the reply, the batch with the results not recorded yet, the counters of the
guards and of the completion policy. `shown`, `ran`, `waited` are history.

*Actions.* `BeginTurn` drains verdicts, adds notes, compacts and starts the request. `Connected`,
`ConnectRecovers`, `ConnectFails`, `Collect`, `Recover`, `CancelSeen`, `Reconnect`,
`CheckedStream`, `StallRetry`, `NoStallRetry`, `LastRecover`, `LastReissued` are the request with
its three retry loops and two recoveries. `CutTurn`, `DroppedTurn`, `SilentTurn`, `ProseTurn`,
`BatchTurn` are what a reply may be. `Execute` runs a call or a window of reads at once; the
actions of the batch record one result each and end the run with placeholders for the calls that
are left, or go on. The worker of the diagnostics and `Cancel` interleave with all of them.

*Abstractions.* A call is named by what it does, and two with the same name have the same
arguments. An error is one of the classes the loop distinguishes. What the text says is a choice:
that it admits work is left, that it ends on a cue. A check that times out counts as made, with no
errors. Hooks, permissions and the sandbox decide what a call comes to and are that choice.
Compaction keeps a suffix that starts where no result is separated from its call, as the code's
boundary search does, or fails.

### AcpTurns

*State.* The session in the store and the object registered for it (a session that is closed and
loaded again is a new object); per object its history, its plan mode, its turn mutex and the
cancel function that is set; per prompt its handler's stage; per control message (cancel, close,
delete) and per load its stage; the read loop; the pending calls and each prompt's response
channel. `requests`, `asked`, `granted` are history.

*Actions.* `Find`, `Lock`, `Command`, `StartRun`, `EndRun`, `Persist`, `Leave` are a prompt;
`RegisterCall`, `WriteCall`, `TakeAnswer`, `AbandonCall` are `requestPermission` over `Conn.Call`;
`FindToCancel`, `DeleteStored`, `Drop`, `Grab`, `Fire`, `CloseWorkspace` are the controls;
`ReadHistory` and `Register` are `session/load` and `session/resume`; `Respond` is the client;
`StreamEnds`, `CancelHandlers`, `Return` are the read loop's end.

*Abstractions.* A turn's record is the prompt it ran for. `RunAgent` is a step that may end in any
way; what happens in it is `AgentLoop`. A write to the store may fail. One session.

## 3. Runs

| run | instance | properties | states |
|---|---|---|---|
| `session_log` | 2 writers, 2 titles, batches of 1 or 2, 3 operations of all kinds, 2 faults | types, increasing sequences, survival, once, titles, readability, lock release | 163 000 |
| `session_log_torn` | 1 writer, 3 appends, 1 fault | `AlwaysReadable`, violated | |
| `cron` | 2 schedulers, 3 minutes with slots at 2 and 3, 2 starts, 1 command, 1 error | types, one claim per slot, pause, removal, due jobs fire | 1 187 000 |
| `cron_double_fire` | the same without commands and errors | `NeverDoubleFires`, violated | |
| `cron_schedule` | 5 months of 1 or 2 days of 3 hours of 2 minutes, 360 expressions, 13 zones, 13 starts | nothing skipped, the search ends | 564 000 |
| `daemon_lock` | 5 processes, interchangeable | types, one holder outside the windows, recovery | 443 000 |
| `daemon_lock_two` | 2 processes | `SingleInstance`, violated | |
| `daemon_pool` | 3 sessions on 1 slot, 2 attempts | types, workers, retries, output, drain, shutdown | 292 000 |
| `session_fanout` | a session of 4 lines and one of none, a registry of 1, rings and channels of 2, 2 connections | types, every line accounted for, `LineStream`, streams end | 350 000 |
| `oauth_refresh` | 2 calls of one process and 1 of another, 2 keys, 2 grants of 3 generations | types, no update lost, the stored token is the latest, not spent twice | 1 854 000 |
| `agent_loop` | 3 batches (two reads and an edit, two edits, a plan and an edit), 1 turn and a second after an escalation, 1 retry of each kind | types, replayable history, prose once, edits recorded, the answer after the checks | 3 621 000 |
| `acp_turns` | 2 prompts, 1 control, 1 load, 2 objects, 2 requests | types, the cancel function, the history, permissions; nothing gets stuck | 3 088 000 |

*Why these bounds.* Three operations are enough for a cut write, the append that follows it and one
more that reads the result, and two faults for a failure and a power loss in the same history; a
batch of two has a cut between lines as well as inside one. Two schedulers suffice for every race in
`fireJob`, which is between one process and a store; two slots are enough for one to be overtaken by
the next, and the horizon at the last of them makes the schedule run out, which is the case with no
next slot. With one command a pause in flight while the job is removed is not in the run; the
theorem on removal has any number. The small calendar has months of different length, a day that
exists in one year only and one that never does; the change of the clock is at a midnight, one hour
after it or two, forward and back, so a jump can land in it from a month, a day or an hour. Five
processes are needed for the lock. With four there are a dead holder, two that reclaim and one that
creates in the gap; a fifth lets the owner of a file that is aside die after it was inspected, and a
new owner create its own before the dead one's is put back over it. Three sessions on one slot have
one that runs, one that waits and one that comes after the drain began; a second attempt is both the
retry and the last one. Four lines overflow a ring and a channel of two and leave one line that
announces the gap; the second session evicts the first. That a registry evicts a session between an
attach's lookup and its subscription takes three connections (one runs each session, one attaches),
with which the state space outgrows a run; `StreamsInOrder` is proved for any number, and the end of
such a stream is not checked. Two calls of one process and one of another are every pair that shares
a mutex or only a file; three generations are a token, its refresh, and a refresh of that. Two turns
are enough for a compaction between a batch and the next request and for a guard to count, though
that history has one assistant message, so that the compaction elides nothing, and the guard on
turns without an action does not reach its limit; longer runs are the theorems'
(`HistoryReplayable`). The longest batch has a window of two reads before an edit. Two prompts
queue, one control meets each stage of either, and a load after a close makes a second object for
the same session.

*What they show.* `session_log`: an append that was acknowledged is in the log after any failure;
numbers are not reused even when the metadata is behind or the last line is corrupt; the record-once
primitive records once; no writer brings back a title older than the last one acknowledged, and no
power loss does but after an acknowledgement without a sync; only a write cut inside a line can make
a log unreadable; a rewind does not wait for its own lock. `cron`: one claim per slot unless a claim
falls between another process's read and its write; a pause outlives the run it interrupts, if that
run can read the job again and no starting scheduler had listed it before; a removed job is not
resurrected by a claim, a persist, a record or a command; a scheduler that runs fires or moves what
is due. `cron_schedule`: with a change of the clock by an hour at a full hour, the answer is the
first scheduled minute of the wall clock, or its second showing, and the guard ends every search
that a gap sends back. `daemon_lock`: outside four windows (a file without its PID yet, a live file
that is aside, one replaced by a restore, and one removed by another process) at most one process
holds the lock; a lone start always succeeds. `daemon_pool`: the number of live workers and of
attempts is bounded through kills and retries; no success without the whole output; a drain leaves
no tracked worker; a shutdown ends every session. `session_fanout`: a client's stream has no line
out of place and no gap of the wrong length, whenever it subscribed; the counters account for every
line, those of the last drop included, which the client is never told of (`SessionFanoutLoss`); the
stream of a client that reads ends once its session has finished or the daemon stops, also when it
attached as the session ended. `oauth_refresh`: rewriting the whole file loses no other key's
change; a stored token is one the provider takes unless a refreshed one is on its way or lost on it;
a process does not spend a token again that it finds stored. `agent_loop`: the history sent to the
provider never has a call without its result, through aborts, approvals, guards, retries and
compactions; no two streams of a turn show prose; a call that changed a file has its result in the
history until a compaction elides it, never the placeholder of a call that did not run; an answer is
given after the verdicts on the last content, or after the bounded wait for them. `acp_turns`: the
cancel function set on a session is that of the turn that runs; a run's history is not changed under
it by a load or another prompt; a permission is granted by the answer to its own request; when the
stream ends no handler is stuck on the mutex, the call or the channel.

*Fairness.* `SessionLog` and `CronScheduler` assume that a process which can take its next step
takes it (weak fairness of each process's own steps): goroutines and processes are scheduled,
and a process that crashes is no longer at a step. For `DueFires` this takes in that a run in progress
ends: a scheduler fires nothing while it waits for `kajicode exec`, and a run that hung would hold up
what is due. Nothing is assumed of the start of an
operation, of the faults, of the clock or of a user. No fairness is assumed of the session lock:
the property is about its holder. `CronSchedule` assumes that a loop runs on. `DaemonPool` assumes
that goroutines run, that a cancelled context is noticed and that a signalled worker ends
(TerminateProcess escalates to SIGKILL). A worker that is not signalled may run for ever.
`SessionFanout` assumes that `finish` closes its channels, that handlers run, and that a client reads.
It does not assume that a session finishes: `pool.Run` waits for the worker without a limit, and only
a shutdown makes it end. So `StreamEnds` starts from a session that has finished or a daemon that
stops; the stream of a session whose worker hangs stays open. `AcpTurns` has
`FairSpec` for `AcpServeEnds.cfg`: handlers run, a run whose context has ended returns, and a
prompt that waits for the mutex gets it when it is free infinitely often (strong fairness; a Go
mutex hands itself to a waiter that has starved for a millisecond). Nothing is assumed of the
client, nor that a run ends by itself. `DaemonLock`, `OAuthRefresh` and `AgentLoop` have no
liveness property.

*Symmetry* is used for the processes of `DaemonLock`, the grants of `OAuthRefresh` and the prompts
and controls of `AcpTurns`, in runs with invariants only.

*Deadlock* is checked where a state without a step means that someone waits for ever. It is not in
`CronSchedule`, `AgentLoop`, `OAuthRefresh` and `SessionFanout`, which stop when the search or run has
ended, when the provider's generations are used up, or when every connection is gone.

### Disagreements with the repository's own words

Three are runs, listed under `findings`:

* `AlwaysReadable`: `ReadEvents` drops a torn tail "so resume still recovers every complete
  event". The next append continues the fragment, and the line they form is complete and
  malformed; from then on every read fails (`sessions/store.go:571`, `:720`).
* `NeverDoubleFires`: "a valid recurring job never double-fires" (`cli/cron_run.go:241`). A run
  that outlasts the next slot writes back that slot over the claim another scheduler made.
* `SingleInstance`: "A second start fails" (`daemon/lock.go:16`). The second start may read the
  file before the first wrote its PID.

Others are shown by a configuration of their own, for `tlc -config X.cfg MCY`:

* `CronPauseClobbered` (`MCCronScheduler`), `PauseNeverClobbered`: "a concurrent scheduler or an external
  pause/remove landing here can no longer be clobbered" (`cli/cron_run.go:203-205`). When the job cannot
  be read again after the run, the copy of the run is written as it is, with the status it was listed
  with, and an acknowledged pause is gone (`cli/cron_run.go:208-213`). A scheduler that starts does the
  same to a pause that comes between its listing and its write (`cli/cron_run.go:124`). `PauseHolds`
  excepts these two writes.
* `SessionLogRetitle` (`MCSessionLog`), `AckedTitleDurable`: `writeMetadata` syncs the directory "so the
  rename itself is durable" (`sessions/store.go:873-875`). A retitle that dies between the rename and that
  sync leaves the new title to be read; its retry finds the title unchanged and returns without an error
  and without a sync (`sessions/store.go:627`), and a power loss brings back the old title. `TitleKept`
  excepts the titles such an acknowledgement leaves exposed, until the directory is synced.
* `SessionFanoutLoss` (`MCSessionFanout`), `LossAnnounced`: the drop count is flushed "so a lagging client
  learns its stream is incomplete instead of silently losing output" (`daemon/session.go:61-63`).
  Lines dropped after the last delivery are not announced when the session finishes
  (`daemon/session.go:173`).
* `OAuthLogout` (`MCOAuthRefresh`), `LogoutSticks`: "Logout removes a provider's stored token"
  (`oauth/manager.go:414`). A refresh that was under way saves its token after the logout
  (`oauth/manager.go:354`).
* `AgentCancel` (`MCAgentLoop`), `CancelKeepsSentinel`: the context is checked first because a new
  error "would lose the wrapped sentinel and break errors.Is(err, context.Canceled)"
  (`agent/loop.go:632-634`). A cancellation after that check, during a retry, is returned as such a
  new error (`agent/loop.go:733`).
* `AcpClose` (`MCAcpTurns`), `CloseStopsTurns`: "ACP requires close to cancel any ongoing work first,
  so an in-flight turn stops rather than running on unreachable" (`acp/agent.go:608-610`). A prompt
  that has found the session and waits for its mutex sets its cancel function after the close has
  looked for one (`acp/agent.go:2140`).
* `CronHalfHour` (`MCCronSchedule`), `NothingSkipped`: "adding an hour always moves forward in
  absolute time and correctly skips the missing hour" (`cron/schedule.go:185-186`). Where the clock
  goes forward by half an hour at a full hour, as on Lord Howe Island, `time.Date` of the missing
  full hour is half past, and an hour on from there passes the next full hour (`schedule.go:187`).
  Two more kinds of change skip runs: two hours back, where a jump over the second of the repeated hours
  passes the second showing of the first, and, east of Greenwich, a gap with a midnight strictly inside
  it, where the jump to that midnight lands as far behind the gap as the midnight is in it. `OnTheHour`
  excludes the three.
* `CronRepeatedHour` (`MCCronSchedule`), `RepeatedHourOnce`: "this collapses the repeated hour to one
  fire" (`cron/schedule.go:198`). It collapses the last fire's own minute; an expression with
  another minute in that hour fires in both showings (`schedule.go:205`).
* `CronFirstInstant` (`MCCronSchedule`), `FirstInstant`: "Next returns the first scheduled instant
  strictly after `after`" (`cron/schedule.go:166`). East of Greenwich a jump to a midnight that is
  shown twice lands on the second (`schedule.go:181`).

`AcpServeEnds` (`MCAcpTurns`, 206 000 states) is not a disagreement: `ServeEnds`, that the server
returns when its stream has ended, holds of an instance without loads and with one request.

## 4. Proofs

Eight modules of theorems hold for all values of the constants: any set of processes, sessions,
calls, clients or writers, any batches and any bounds, from the assumptions each specification
names. In each the argument is the same. `IInv` (`ManagerInv` in `OAuthRefreshProofs`; `SearchInv`
for `CronSchedule`; several in `AgentLoopProofs`) is an inductive invariant, a conjunction of the
types and of the parts below; `InitInv` and one lemma per action (`StepInv` joins them) show that it
is one, and the listed theorems follow from it. No property below is inductive alone.

| module | theorems | properties |
|---|---|---|
| `SessionLogProofs` | `TypeCorrect`, `Invariance`, `SequencesNeverReused`, `AckedKept`, `OnceRecorded`, `TitleStays`, `OnlyTornUnreadable` | `TypeOK`, `SequencesIncrease`, `AckedSurvive`, `RecordedOnce`, `TitleKept`, `ReadableUnlessTorn` |
| `CronProofs` | `TypeCorrect`, `SlotsClaimedOnce`, `PausesHold`, `RemovalsStay`; `SearchSkipsNothing`, `SearchFindsFirst`, `NoneOnlyWhenNone`, `SearchIsNextSlot` | `TypeOK`, `ClaimedOnce`, `PauseHolds`, `RemovedStays`; `NothingSkipped`, `FirstInstant` |
| `DaemonLockProofs` | `TypeCorrect`, `SingleExclusive`, `Recovers` | `TypeOK`, `SingleUnlessExposed`, `RecoversAlone` |
| `DaemonPoolProofs` | `TypeCorrect`, `WorkersBounded`, `SuccessComplete`, `LaunchesBounded`, `DrainComplete` | `TypeOK`, `BoundedWorkers`, `CompleteSuccess`, `RetriesBounded`, `DrainLeavesNone` |
| `SessionFanoutProofs` | `TypesHold`, `EveryLineAccounted`, `StreamsInOrder` | `TypeOK`, `Accounted`, `InOrder` |
| `OAuthRefreshProofs` | `TypeCorrect`, `UpdatesKept`, `StoredStaysLatest`, `SpentOnce` | `TypeOK`, `NoUpdateLost`, `StoredIsLatest`, `NotSpentTwice` |
| `AgentLoopProofs` | `TypesHold`, `ShownOnce`, `ChecksBeforeAnswer`, `HistoryReplayable`, `EditsTold` | `TypeOK`, `ProseOnce`, `AnswerAfterChecks`, `Replayable`, `EditsRecorded` |
| `AcpTurnsProofs` | `TypeCorrect`, `CancelReachesTurn`, `HistoryStandsStill`, `GrantsAreOwn` | `TypeOK`, `SlotIsRunning`, `RunSeesHistory`, `GrantIsForRequest` |

### SessionLog

`SequencesIncrease` speaks of a log that can be read, and an unreadable log can become readable
again when a power loss leaves a prefix of it; so the invariant must say something of unreadable
logs as well. `Sound` does: the events before the first corrupt line increase, and a whole tail
follows all of them if there is no corrupt line. `SoundInv` says that every content the file has, or
could have after a power loss, is sound. For a write to keep this the batch must be numbered above
the log *when it is written*, though it was numbered in an earlier step: `BaseInv`. That holds
because only the lock's holder changes the log, which is `HolderInv`. The lemmas about the file
operators are `CutLines` and `CutSound` (every part of a write of a batch above a sound log leaves a
sound log), `NextAbove` (the derived number is above every event of a readable log),
`TruncatedSound` (a prefix by sequence number is sound) and `ReadEventsIncrease`.

The other four speak of `Contents`: the log and all that a power loss may put in its place. A step
either adds a batch to it (`BatchWritten`), cuts it (`LogTruncated`), leaves it or puts one of the
contents back, and each invariant is shown for these four. `OnceInv` has the event absent from the
check to the write, because only the holder writes in between. `AckedInv` says more of a batch the
further its call is: written, it is in the log; synced, the log is all that can come back, but for
files it replaced. `TitleInv` is the same of `metadata.json`: a copy read under the lock still has the
title that is stored, and what a power loss may bring back has a title of `titled` or, after an
acknowledgement without a sync, of `unsynced`. `CleanInv`: as long as no write was cut, no content has a tail.

### CronScheduler

From `HorizonAssumption` and `BoundAssumption`. A slot could be claimed twice by anything that makes
the job active with an old next slot: the job itself, a command's copy, the copy a starting
scheduler will reschedule, the result a run will persist. `ClaimInv` says that each of them, while
no claim has raced, puts the job after every slot claimed so far. `TimeInv` (nothing is claimed
before its time) makes a claim at `now` later than all others; `PauseInv` and `RemovalInv` say what
a copy in flight may hold: while an acknowledged pause is not `stale`, no scheduler holds a copy it
will write back, and a run's persist, which reads the job again, keeps a stored pause. That the
computed next slot is later than the fire is `NextSlotIsNext`, from the well-foundedness of the
naturals.

### CronSchedule

From `CalendarAssumption`, `DaysAssumption` and `InputAssumption`, so for any lengths of hour, day and
week and any calendar whose years do not go back. The theorems speak of the zones of `OnTheHour`: the
change is at a full hour and by full hours, back by at most one, and east of Greenwich no midnight is
strictly inside the gap of a forward change. Without one of these conditions some zone has a run that
is skipped, as `CronHalfHour` shows for the full hours and the two cases described with it for the
others; the yearly changes of most zones meet them (not those of Lord Howe Island, nor those of a
station that changes by two hours).

`NothingSkipped` is not inductive: a minute whose second showing is still ahead may have it passed
over by the next jump. `SearchInv` says which minutes these are (`ShownAgain`): those of the one hour
that is repeated, east of Greenwich, and the search is not past their second showing. A jump that
passes over such a second showing would pass over a run after the change, and `Jumps` says that none
does. Its two parts are `JumpToDay` and `JumpToHour`. From the full hour of the candidate to the
target no wall minute matches, because they are of the same month, day or hour (`NextMonthIs`,
`RestOfDays`, `SameHour`); `DateIs` gives the instant by the sides of the change the target's two
readings lie on; and the target and the change are multiples of an hour, so that nothing lies between
them but what is a whole hour away (`MultipleGap`). The lemmas on quotients and remainders of variable
divisors are the base of it. That the next month has a first day is the well-foundedness of the
naturals again.

`SearchFindsFirst` is `FirstInstant`, which a repeated hour east of Greenwich breaks
(`CronFirstInstant`), for all other changes. `NoneOnlyWhenNone`: once the clock is out of the years
searched it does not come back, not even by an hour (`StaysOut`), so nothing due was left.
`SearchIsNextSlot` is what `CronScheduler` assumes of `Schedule.Next` in its `NextSlot`; it has the
hypothesis of `SearchFindsFirst`, so with an hour repeated east of Greenwich the slots are those the
search gives, not all that match.

### DaemonLock

From `FileAssumption`. Exclusion is of *owners*, which have created the file and perhaps not written
their PID; `OwnerInv` says that while nothing was exposed there is at most one, and that its file is at
the path or aside. Whoever removes or replaces the file then exposes the lock, and whoever creates
one when the path is free finds the owner's aside, which exposes it too. `FileInv` (no file before it is
created) and `AsideInv` (none aside before a rename) keep the files apart. `AloneInv` follows a start
that meets nobody through its two passes: the first may find a file, which is a dead process's and is
removed, so the second finds none. The proof needs the exposure by a restore; without it exclusion
fails, which the instance with five processes shows.

### DaemonPool

From `SizeAssumption` and `AttemptsAssumption`. `SlotInv`: the slots in use are as many as the sessions
past the queue, so a lease or a release changes both; with `WorkerInv` (a worker belongs to such a
session) this bounds the workers. `LaunchInv` counts the launches by the attempt, wherever the session
is in its loop. `DrainInv`: a worker that lives while the pool drains was tracked when the drain began,
or is in `unseen`; and one the kill phase still waits for is in `doomed`.

### OAuthRefresh

From `ProcOfAssumption`, `MaxGenAssumption` and `KeysAssumption`. No change is lost because what the holder
of the lock file read is what the file still holds (`ViewInv`); only the holder writes (`WritersHold`), and
it is the only one (`HolderInv`, which says so without counting).

That the stored token is the latest depends on what each call knows of its grant. `HomeInv`: a grant
belongs to one key, wherever its tokens are. `KnownInv`: what is stored is no older than what any call
has loaded. `FlightInv`: a token on its way to the file is the provider's latest, newer than any stored
or loaded, and the only one of its grant on that way; the provider takes each generation once, so two
refreshes of a grant cannot both be answered. `SpentInv` ties a token that is spent to the one that
replaces it, and `KeyLockInv` (one refresh per process and key) makes the second look at the file
see what this process has spent before.

### SessionFanout

From `IdOfAssumption` and `SizesAssumption`. `RegistryInv`: two registered sessions have different
IDs, so a lookup finds one or none; an eviction adds nothing (`PruneKeeps`, by induction over the
registry, as a set of numbers that holds 0 and every successor). `RingInv`: a ring is the last lines of
its session (`RingGrows`). `HandlerOK` ties where a handler is to the state of its subscription: a
channel that its session closed is a finished session's, so no line comes after it. `AccountedFor`:
the history is the lines from `next` on, and the channel spans the rest up to the lines counted as
dropped, where `Spans` gives each item its place. `SpansMore`, `SpansLess` and `DeliveredSpans` are what
an append, a receive and the delivery with its drop count do to a span. The refinement follows: `Line` is
a `Write`, `Subscribe` a `Follow`, `Replay` a `NextLine`, `Forward` a `NextLine` or a `Gap`, by the place
that the first item of a span has, and every other step a stutter.

### AgentLoop

From `KindsAssumption` (no call is of two kinds), `BatchesAssumption` and `LimitsAssumption`. `TypeInv`
holds the counters below their limits until the run ends, the results not recorded yet to the calls of
the batch, and the prose: a stream that shows its text begins only while none has shown any
(`ShownInv`). `CheckInv`: while a run goes on, the content of each file is queued, in the worker's
job, judged, or that of a change to be recorded next (`Covered`); an answer without a wait is given
with the worker off, and then all of it is judged. `HistoryInv`: outside a batch the history is well
formed, in one it is open at the calls that are not recorded yet (`OpenAt`), and the placeholders of an
early end close it; a compaction keeps a well-formed suffix. `RanInv` and `ToldInv`: a call that changed
a file is the one recorded next or has its result after it, so a placeholder never names it; this needs
`BatchInv`, that an edit runs alone.

### AcpTurns

From `NobodyAssumption` and `BoundsAssumption`. `TurnInv`: a prompt in a turn holds its object's mutex and is
in the object's slot; two such prompts are therefore one. `IDsInv`: a call's ID is its own, is registered
only while its prompt waits, and is that of the one request it wrote. `AnswersInv`: what waits in a
response channel is the error of a closed connection or answers that request, so a late or repeated
answer finds no channel.

### Only model-checked

`LockReleased`, `DueFires`, `ShutdownEnds`, `SearchEnds`, `StreamEnds` and `ServeEnds` are liveness
properties, which stay with TLC, as does anything about ENABLED. Every safety property of a run that
holds has its theorem; that of `NothingSkipped` is for the zones of `OnTheHour`, all of the run's 13
among them. That `Days`, which is the concatenation of the months, is a sequence of days is an
assumption TLC evaluates: its proof is an induction over `Months`. The runs for the disagreements, and
that each mutant breaks its property, are TLC's as well.

## 5. Plan

Done: `SessionLog`, `CronScheduler`, `CronSchedule`, `DaemonLock`, `DaemonPool`, `SessionFanout` with
`LineStream`, `OAuthRefresh`, `AgentLoop` with `Transcript` and `AsyncDiagnostics`, `AcpTurns`, and the
proofs above.

Modules that are worth adding: the deletion of a session, whose lock file is in the directory it
removes; a rewind with its blobs and files; the cron job lock beside `DaemonLock`; the supervisor of
sub-agents; the command tool's sessions; the learning engine's single flight; the hooks' audit log.
An abstract record of events that `SessionLog` implements while no write is cut inside a line.

## 6. Not modelled, and why

The sandbox, configuration, providers, catalogues and most tools are functions of their input,
better tested on inputs than explored. The terminal interface, the largest part of the code, is
judged by what is on the screen. The MCP and LSP clients depend on external servers and persist
nothing. The daemon's framing is a codec, and so is the parser of cron expressions. Within the
modelled parts: Windows differs in its locks and has no directory sync; reuse of a PID by another
process; file systems that reorder a synced write; clock changes other than those of a time zone; a
hung store call; a holder suspended past the limit after which its lock is stale; an attach whose
session failed and was evicted between its two lookups, which ends without the error
(`daemon/server.go`). ACP slash commands, forks and elicitation, and the loop's hooks, sub-agents and
streaming callbacks are choices of the model, not modules of it. `PROJECT.json` gives the status of
each component.
