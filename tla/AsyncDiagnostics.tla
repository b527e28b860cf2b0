-------------------------- MODULE AsyncDiagnostics --------------------------
(***************************************************************************)
(* The background checks of edited files (internal/agent/                  *)
(* async_diagnostics.go): a queue of files, at most one worker goroutine   *)
(* that checks them, and the error blocks that wait to be delivered to the *)
(* model.  Module AgentLoop edits, enqueues and drains.                    *)
(*                                                                         *)
(* A file's content is a version number.  A check may read the file at any *)
(* moment between the worker's taking it and the check's return; an error  *)
(* block is the version it speaks of, 0 when there is none.                *)
(***************************************************************************)
EXTENDS Integers, Sequences

CONSTANT Files   \* the files the run's tools edit

VARIABLES
  cancelled,  \* the run's context is done
  version,    \* content of each file
  queue,      \* files waiting for a check
  queued,     \* the files marked as waiting
  results,    \* the version each undelivered error block speaks of
  worker,     \* "off", "free" between two files, "busy" with a check
  job,        \* the file under check and the version the check has read, if any
  judged      \* history: the version each file's last verdict speaks of

diagnosticsVars == <<version, queue, queued, results, worker, job, judged>>

DiagnosticsTypeOK ==
  /\ cancelled \in BOOLEAN
  /\ version \in [Files -> Nat]
  /\ queue \in Seq(Files)
  /\ queued \subseteq Files
  /\ results \in [Files -> Nat]
  /\ worker \in {"off", "free", "busy"}
  /\ job \subseteq [file : Files, at : Nat]
  /\ judged \in [Files -> Nat]

DiagnosticsInit ==
  /\ cancelled = FALSE
  /\ version = [f \in Files |-> 0]
  /\ queue = <<>>
  /\ queued = {}
  /\ results = [f \in Files |-> 0]
  /\ worker = "off"
  /\ job = {}
  /\ judged = [f \in Files |-> 0]

\* A file that is marked is not queued twice; a block about its earlier
\* content is dropped, and a worker is started if none runs.
Enqueue(f) ==
  /\ IF f \in queued
       THEN UNCHANGED <<queue, queued, results>>
       ELSE /\ queue' = Append(queue, f)
            /\ queued' = queued \cup {f}
            /\ results' = [results EXCEPT ![f] = 0]
  /\ worker' = IF worker = "off" /\ queue' # <<>> THEN "free" ELSE worker

TakeMutant ==
  /\ worker = "free"
  /\ queue # <<>>
  /\ ~cancelled
  /\ worker' = "busy"
  /\ job' = {[file |-> Head(queue), at |-> version[Head(queue)]]}
  /\ queue' = Tail(queue)
  /\ UNCHANGED <<cancelled, version, queued, results, judged>>

\* The worker takes the first file and un-marks it before the check.
Take ==
  /\ worker = "free"
  /\ queue # <<>>
  /\ ~cancelled
  /\ worker' = "busy"
  /\ job' = {[file |-> Head(queue), at |-> version[Head(queue)]]}
  /\ queue' = Tail(queue)
  /\ queued' = queued \ {Head(queue)}
  /\ UNCHANGED <<cancelled, version, results, judged>>

\* The check reads the file.
ReadFile ==
  /\ \E j \in job :
       /\ j.at # version[j.file]
       /\ job' = {[j EXCEPT !.at = version[j.file]]}
  /\ UNCHANGED <<cancelled, version, queue, queued, results, worker, judged>>

\* The check returns, with an error block or without one; a check that
\* exceeds its time limit, or meets the end of the run, counts as without.
StoreVerdict(found) ==
  /\ \E j \in job :
       /\ results' = [results EXCEPT ![j.file] = IF found THEN j.at ELSE 0]
       /\ judged' = [judged EXCEPT ![j.file] = j.at]
  /\ worker' = "free"
  /\ job' = {}
  /\ UNCHANGED <<cancelled, version, queue, queued>>

WorkerExits ==
  /\ worker = "free"
  /\ queue = <<>> \/ cancelled
  /\ worker' = "off"
  /\ UNCHANGED <<cancelled, version, queue, queued, results, job, judged>>

Worker ==
  \/ Take
  \/ ReadFile
  \/ \E found \in BOOLEAN : StoreVerdict(found)
  \/ WorkerExits

\* drainWithin: the blocks once the worker is quiet; none if it is still busy
\* when the time is up or the run is cancelled.
Quiet == worker = "off"
Blocks == {f \in Files : results[f] # 0}
Delivered == results' = [f \in Files |-> 0]
=============================================================================
