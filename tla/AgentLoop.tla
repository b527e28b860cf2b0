----------------------------- MODULE AgentLoop ------------------------------
(***************************************************************************)
(* The run of an agent (internal/agent/loop.go, Run): turns that each send *)
(* the history to a provider, retry what failed before anything was shown, *)
(* execute the tool calls of the answer and record their results, until an *)
(* answer, a guard, the turn limit, an error or a cancellation ends it.    *)
(*                                                                         *)
(* A step of the model is one provider call, one tool call or one decision *)
(* between them; cancellation and the diagnostics worker interleave with   *)
(* all of them.  A tool call is named by what it does (two calls with the  *)
(* same name have the same arguments), an error by how the loop classifies *)
(* it, a streamed answer by whether it holds prose, calls, neither.        *)
(***************************************************************************)
EXTENDS AsyncDiagnostics, Transcript, FiniteSets

CONSTANTS
  Reads,           \* calls that only read and may run concurrently
  Plans,           \* calls that ask the user to approve a plan
  Batches,         \* the sequences of calls a turn may make
  MaxTurns,        \* turn limit at the start of the run
  EscalatedTurns,  \* turn limit after a posture escalation
  MaxReconnects, MaxStallRetries, MaxContinueNudges,
  MaxEmptyTurns, MaxNoActionTurns, ToolFailureStopAt, NoOpStopAt

\* A call that changes a file is named by the file.
Calls == Reads \cup Plans \cup Files

ASSUME KindsAssumption ==
  Reads \cap Plans = {} /\ Reads \cap Files = {} /\ Plans \cap Files = {}
ASSUME BatchesAssumption == \A b \in Batches : b \in Seq(Calls) /\ b # <<>>
ASSUME LimitsAssumption ==
  /\ {MaxTurns, EscalatedTurns, MaxEmptyTurns, MaxNoActionTurns,
      ToolFailureStopAt, NoOpStopAt} \subseteq Nat \ {0}
  /\ {MaxReconnects, MaxStallRetries, MaxContinueNudges} \subseteq Nat

VARIABLES
  messages,   \* the history
  step,       \* where the run is
  stage,      \* which of the turn's requests is being made
  turn,       \* turns begun
  limit,      \* maxTurns
  gate,       \* RequireCompletionSignal
  escalated,  \* the posture escalation has been applied
  recovered,  \* reactiveAttempted: the run's one compaction after an error
  attempt,    \* retries of the current retry loop
  forwarded,  \* prose of this turn has been shown to the user
  reply,      \* what the last stream held
  index,      \* the call of the batch that is executed next
  outcomes,   \* results of executed calls that are not recorded yet
  seen,       \* calls made in earlier batches
  failures,   \* each tool's repeated failures
  guard,      \* the runaway counters
  nudges,     \* continue nudges of the completion policy
  checked,    \* its semantic check was requested, or the profile has none
  outcome,    \* how the run ended
  shown,      \* history: streams of this turn that showed prose
  ran,        \* history: the calls that changed a file
  waited      \* history: the last drain gave up on a busy worker

requestVars == <<stage, attempt, forwarded, reply, shown>>
batchVars   == <<index, outcomes, ran>>
policyVars  == <<limit, gate, escalated, nudges, checked>>
guardVars   == <<seen, failures, guard>>
loopVars == <<messages, step, turn, recovered, requestVars, batchVars,
              policyVars, guardVars, outcome, waited>>
vars == <<loopVars, cancelled, diagnosticsVars>>

-----------------------------------------------------------------------------
Errors == {"none", "context", "image", "transient", "timeout", "other", "cancelled"}

\* What a stream may hold.  Calls of a stream that failed are discarded.
Failed(e, prose) == [error |-> e, prose |-> prose, calls |-> <<>>,
                     dropped |-> FALSE, reasoning |-> FALSE, cut |-> FALSE]
Spoke(prose, calls, dropped, reasoning) ==
  [error |-> "none", prose |-> prose, calls |-> calls,
   dropped |-> dropped, reasoning |-> reasoning, cut |-> FALSE]
CutOff(prose) == [Spoke(prose, <<>>, FALSE, TRUE) EXCEPT !.cut = TRUE]

Breaks  == {Failed(e, p) : e \in Errors \ {"none", "cancelled"}, p \in BOOLEAN}
Texts   == {Spoke(p, <<>>, d, r) : p, d, r \in BOOLEAN}
Acting  == {Spoke(p, b, d, FALSE) : p, d \in BOOLEAN, b \in Batches}
CutOffs == {CutOff(p) : p \in BOOLEAN}
Replies == Breaks \cup Texts \cup Acting \cup CutOffs
Interrupted == {Failed("cancelled", p) : p \in BOOLEAN}

Steps == {"turn", "connect", "stream", "recover", "check", "stalled", "last", "failed", "act",
          "execute", "record", "after", "summary", "done"}
Stages == {"first", "again", "reconnect", "stall", "reissue", "lastReissue"}
Outcomes == {"running", "answer", "incomplete", "stopped", "plan", "limit",
             "error", "cancelled", "sentinelLost"}

NoReply == Spoke(FALSE, <<>>, FALSE, FALSE)

Init ==
  /\ DiagnosticsInit
  /\ messages = <<User>>
  /\ step = "turn" /\ stage = "first" /\ turn = 0
  /\ limit = MaxTurns /\ gate \in BOOLEAN /\ escalated = FALSE
  /\ recovered = FALSE /\ attempt = 0 /\ forwarded = FALSE
  /\ reply = NoReply
  /\ index = 1 /\ outcomes = <<>>
  /\ seen = {} /\ failures = [c \in Calls |-> 0]
  /\ guard = [empty |-> 0, noAction |-> 0, noOp |-> 0]
  /\ nudges = 0 /\ checked \in BOOLEAN
  /\ outcome = "running"
  /\ shown = 0 /\ ran = {} /\ waited = FALSE

Ends(o) == step' = "done" /\ outcome' = o
NextTurn == step' = "turn" /\ UNCHANGED outcome

\* The posture escalation, at most once, when a trigger of the profile has
\* fired: it raises the turn limit and may restore the gate.
Posture ==
  \/ UNCHANGED <<limit, gate, escalated>>
  \/ /\ ~escalated
     /\ escalated' = TRUE
     /\ limit' = IF EscalatedTurns > limit THEN EscalatedTurns ELSE limit
     /\ gate' \in {gate, TRUE}

-----------------------------------------------------------------------------
(* A turn begins: diagnostics, notes, compaction, the request.             *)

\* drainWithin, before a turn: a nudge if the worker is quiet and found errors.
Drain(nudged) ==
  \/ Quiet /\ Delivered /\ nudged = (Blocks # {})
  \/ ~Quiet /\ ~nudged /\ UNCHANGED results

\* Finished sub-agents, guides and skills found by the last turn's tools may
\* add user messages; a history near the context window is compacted.
BeginTurn ==
  /\ step = "turn" /\ turn < limit
  /\ turn' = turn + 1
  /\ \E nudged, noted \in BOOLEAN :
       /\ Drain(nudged)
       /\ LET told == IF nudged \/ noted THEN WithUser(messages) ELSE messages
          IN  messages' \in {told} \cup Compactions(told)
  /\ step' = "connect" /\ stage' = "first"
  /\ attempt' = 0 /\ forwarded' = FALSE /\ shown' = 0 /\ reply' = NoReply
  /\ UNCHANGED <<cancelled, version, queue, queued, worker, job, judged, recovered,
                 batchVars, policyVars, guardVars, outcome, waited>>

(* The request.                                                            *)

Keeps(kept) == UNCHANGED <<kept, cancelled, diagnosticsVars, turn, batchVars,
                           policyVars, guardVars, waited>>

\* compactor.recover, once per run: the history becomes smaller, by a summary
\* or by pruning alone; the loop adds its resume cue.
Shrinks ==
  /\ ~recovered /\ recovered' = TRUE
  /\ messages' \in Compactions(messages) \cup {WithUser(messages)}

\* ... or the summarizer fails, which ends the run ...
SummaryFails ==
  /\ ~recovered /\ recovered' = TRUE
  /\ \E e \in {"error"} \cup (IF cancelled THEN {"cancelled"} ELSE {}) : Ends(e)

\* streamWithReconnect has a stream, after retries of its own.
Connected ==
  /\ step = "connect"
  /\ step' = "stream"
  /\ Keeps(<<messages, requestVars, recovered, outcome>>)

\* The first connect meets the context limit: compact and connect again.
ConnectRecovers ==
  /\ step = "connect" /\ stage = "first"
  /\ \/ Shrinks /\ stage' = "again" /\ UNCHANGED <<step, outcome>>
     \/ SummaryFails /\ messages' = WithUser(messages) /\ UNCHANGED stage
  /\ Keeps(<<attempt, forwarded, reply, shown>>)

\* No stream: any other error, a recovery that has nothing to compact, or a
\* cancellation, which the wait before a retry may also meet.
ConnectFails ==
  /\ step = "connect"
  /\ Ends("error") \/ (cancelled /\ Ends("cancelled"))
  /\ Keeps(<<messages, requestVars, recovered>>)

(* The stream and its retries.                                             *)

\* The reissue after a compaction has no callbacks that show its text.
Visible == stage \notin {"reissue", "lastReissue"}

ShowsMutant(r) ==
  /\ forwarded' = (forwarded \/ (Visible /\ r.prose /\ r.error = "none"))
  /\ shown' = IF Visible /\ r.prose THEN shown + 1 ELSE shown

Shows(r) ==
  /\ forwarded' = (forwarded \/ (Visible /\ r.prose))
  /\ shown' = IF Visible /\ r.prose THEN shown + 1 ELSE shown

\* CollectStreamWithOptions; a cancellation may lose the race with the stream.
Collect ==
  /\ step = "stream"
  /\ \E r \in Replies \cup (IF cancelled THEN Interrupted ELSE {}) :
       /\ reply' = r
       /\ Shows(r)
       /\ step' = CASE stage = "stall" -> "stalled"
                    [] stage = "lastReissue" -> "failed"
                    [] stage # "reissue" /\ r.error # "none" -> "recover"
                    [] OTHER -> "check"
  /\ Keeps(<<messages, stage, attempt, recovered, outcome>>)

\* recoverStreamError: a rejected image ends the run, a context limit is
\* compacted away and the request reissued, any other error is kept.
RecoverStream(reissue, otherwise) ==
  /\ \/ reply.error = "image" /\ Ends("error")
        /\ UNCHANGED <<messages, stage, recovered>>
     \/ reply.error = "context" /\ Shrinks
        /\ step' = "connect" /\ stage' = reissue /\ UNCHANGED outcome
     \/ reply.error = "context" /\ SummaryFails /\ UNCHANGED <<messages, stage>>
     \/ reply.error # "image" /\ otherwise /\ UNCHANGED <<messages, stage, recovered>>
  /\ Keeps(<<attempt, forwarded, reply, shown>>)

Recover ==
  /\ step = "recover"
  /\ RecoverStream("reissue", step' = "check" /\ UNCHANGED outcome)

CancelSeen ==
  /\ step = "check" /\ cancelled
  /\ Ends("cancelled")
  /\ Keeps(<<messages, requestVars, recovered>>)

Committed == forwarded \/ reply.prose

CanReconnectMutant ==
  /\ reply.error \in {"transient", "timeout"}
  /\ ~Committed

\* A transient error before any text is retried ...
CanReconnect ==
  /\ reply.error \in {"transient", "timeout"}
  /\ ~Committed /\ attempt < MaxReconnects

Reconnect ==
  /\ step = "check" /\ ~cancelled /\ CanReconnect
  /\ attempt' = attempt + 1 /\ stage' = "reconnect" /\ step' = "connect"
  /\ Keeps(<<messages, forwarded, reply, shown, recovered, outcome>>)

\* The loop has the reply it goes on with.
Accept ==
  /\ reply.error = "none"
  /\ step' = "act" /\ stage' = "first" /\ attempt' = 0
  /\ UNCHANGED outcome

CheckedStream ==
  /\ step = "check" /\ ~cancelled /\ ~CanReconnect
  /\ Accept \/ (reply.error # "none" /\ step' = "stalled" /\ attempt' = 0
                 /\ UNCHANGED <<stage, outcome>>)
  /\ Keeps(<<messages, forwarded, reply, shown, recovered>>)

\* ... and then a stall, within the silent budget of the turn.
CanRetryStall ==
  /\ reply.error = "timeout"
  /\ ~Committed /\ attempt < MaxStallRetries /\ ~cancelled

StallRetry ==
  /\ step = "stalled" /\ CanRetryStall
  /\ attempt' = attempt + 1 /\ stage' = "stall" /\ step' = "connect"
  /\ Keeps(<<messages, forwarded, reply, shown, recovered, outcome>>)

NoStallRetry ==
  /\ step = "stalled"
  /\ Accept \/ (reply.error # "none" /\ step' = "last" /\ UNCHANGED <<stage, attempt, outcome>>)
  /\ Keeps(<<messages, forwarded, reply, shown, recovered>>)

\* What remains goes through the same recovery a last time, and is returned
\* as a new error: one that came of the cancellation does not say so.
ErrorEnds == Ends(IF reply.error = "cancelled" THEN "sentinelLost" ELSE "error")

LastRecover ==
  /\ step = "last"
  /\ RecoverStream("lastReissue", ErrorEnds)

LastReissued ==
  /\ step = "failed"
  /\ Accept \/ (reply.error # "none" /\ ErrorEnds /\ UNCHANGED <<stage, attempt>>)
  /\ Keeps(<<messages, forwarded, reply, shown, recovered>>)

-----------------------------------------------------------------------------
(* What the reply was: observeTurn and its siblings, the completion gate.  *)

Acts == step = "act"
Answers(n) == Append(messages, Assistant(turn, n))

\* A turn that could not act counts toward the stop; otherwise the model is told.
NoAction(emptied, m) ==
  /\ guard' = [guard EXCEPT !.empty = emptied, !.noAction = @ + 1]
  /\ IF emptied >= MaxEmptyTurns \/ guard.noAction + 1 >= MaxNoActionTurns
       THEN Ends("stopped") /\ messages' = m
       ELSE NextTurn /\ messages' = WithUser(m)
  /\ UNCHANGED <<cancelled, diagnosticsVars, turn, recovered, requestVars,
                 batchVars, policyVars, seen, failures, waited>>

\* Cut off for repeating itself: the reply stays out of the history.
CutTurn ==
  /\ Acts /\ reply.cut
  /\ NoAction(guard.empty, messages)

Ordinary == Acts /\ ~reply.cut

DroppedTurn ==
  /\ Ordinary /\ reply.calls = <<>> /\ reply.dropped
  /\ NoAction(guard.empty, Answers(0))

SilentTurn ==
  /\ Ordinary /\ reply.calls = <<>> /\ ~reply.dropped /\ ~reply.prose
  /\ NoAction(IF reply.reasoning THEN 0 ELSE guard.empty + 1, Answers(0))

\* completionPolicy.evaluate: the text admits that work is left, it ends on a
\* cue to continue, plan items are pending.
Evaluate(admits, cue, pending) ==
  CASE ~gate -> "complete"
    [] gate /\ admits -> "incomplete"
    [] gate /\ ~admits /\ (cue \/ pending) /\ nudges < MaxContinueNudges -> "continue"
    [] gate /\ ~admits /\ cue /\ nudges >= MaxContinueNudges -> "incomplete"
    [] OTHER -> IF ~checked THEN "semanticCheck" ELSE "complete"

\* drainFinal: the last verdicts are waited for, and an error found gives the
\* model another turn.
Finish ==
  \/ /\ Quiet /\ Blocks # {}
     /\ Delivered /\ messages' = WithUser(Answers(0))
     /\ NextTurn /\ UNCHANGED waited
  \/ /\ Quiet /\ Blocks = {}
     /\ messages' = Answers(0)
     /\ Ends("answer") /\ UNCHANGED <<results, waited>>
  \/ /\ ~Quiet
     /\ messages' = Answers(0) /\ waited' = TRUE
     /\ Ends("answer") /\ UNCHANGED results

ProseTurn ==
  /\ Ordinary /\ reply.calls = <<>> /\ ~reply.dropped /\ reply.prose
  /\ guard' = [guard EXCEPT !.empty = 0, !.noAction = 0]
  /\ \E admits, cue, pending \in BOOLEAN :
       LET verdict == Evaluate(admits, cue, pending)
       IN  \/ /\ verdict = "complete"
              /\ Finish /\ UNCHANGED policyVars
           \/ /\ verdict = "incomplete"
              /\ messages' = Answers(0)
              /\ Ends("incomplete") /\ UNCHANGED <<policyVars, results, waited>>
           \/ /\ verdict \in {"continue", "semanticCheck"}
              /\ nudges' = IF verdict = "continue" THEN nudges + 1 ELSE nudges
              /\ checked' = (checked \/ verdict = "semanticCheck")
              /\ Posture
              /\ messages' = WithUser(Answers(0))
              /\ NextTurn /\ UNCHANGED <<results, waited>>
  /\ UNCHANGED <<cancelled, version, queue, queued, worker, job, judged, turn,
                 recovered, requestVars, batchVars, seen, failures>>

BatchTurn ==
  /\ Ordinary /\ reply.calls # <<>>
  /\ guard' = [guard EXCEPT !.empty = 0, !.noAction = 0]
  /\ messages' = Answers(Len(reply.calls))
  /\ index' = 1
  /\ step' = "execute"
  /\ UNCHANGED <<cancelled, diagnosticsVars, turn, recovered, requestVars, outcomes,
                 ran, policyVars, seen, failures, outcome, waited>>

-----------------------------------------------------------------------------
(* The batch.                                                              *)

WindowMutant(i) == Len(reply.calls)

\* extendParallelRun: reads of different resources that follow each other.
Window(i) ==
  LET calls == reply.calls
      runs == {e \in i..Len(calls) :
                 /\ \A k \in i..e : calls[k] \in Reads
                 /\ \A k, l \in i..e : calls[k] = calls[l] => k = l}
  IN  IF runs = {} THEN i ELSE CHOOSE e \in runs : \A o \in runs : o <= e

\* What a call may come to: a prompt it raised may be cancelled, which aborts it.
Comes(c) ==
  CASE c \in Reads -> {"ok", "failed", "abort"}
    [] c \in Plans -> {"ok", "approved"}
    [] c \in Files -> {"changed", "failed", "abort"}

Execute ==
  /\ step = "execute"
  /\ LET calls == reply.calls
         n == Window(index) - index + 1
     IN  \E o \in [1..n -> UNION {Comes(c) : c \in Calls}] :
           /\ \A k \in 1..n : o[k] \in Comes(calls[index + k - 1])
           /\ outcomes' = o
           /\ ran' = ran \cup {Call(turn, index + k - 1) :
                                 k \in {l \in 1..n : o[l] = "changed"}}
           /\ version' = [f \in Files |->
                            IF \E k \in 1..n : o[k] = "changed" /\ calls[index + k - 1] = f
                              THEN version[f] + 1 ELSE version[f]]
  /\ step' = "record"
  /\ UNCHANGED <<cancelled, messages, queue, queued, results, worker, job, judged, turn,
                 recovered, requestVars, index, policyVars, guardVars, outcome, waited>>

Recorded == Append(messages, Result(Call(turn, index)))
Unanswered == [k \in 1..(Len(reply.calls) - index) |-> Call(turn, index + k)]

\* The run stops within the batch: the calls that are left get placeholders.
StopsBatch(o) ==
  /\ step = "record"
  /\ messages' = CloseOut(Recorded, Unanswered)
  /\ outcomes' = <<>>
  /\ Ends(o)
  /\ UNCHANGED <<cancelled, diagnosticsVars, turn, recovered, requestVars, index,
                 ran, policyVars, seen, guard, waited>>

AbortBatch ==
  /\ StopsBatch("cancelled")
  /\ Head(outcomes) = "abort" \/ cancelled
  /\ UNCHANGED failures

Proceeds == ~cancelled /\ Head(outcomes) # "abort"

ApprovePlan ==
  /\ StopsBatch("plan")
  /\ Proceeds /\ Head(outcomes) = "approved"
  /\ UNCHANGED failures

\* observeToolResult: another failure like the last one, or a different one.
Repeats(c) == IF Head(outcomes) = "failed" THEN {1, failures[c] + 1} ELSE {0}

StopOnFailures ==
  /\ StopsBatch("stopped")
  /\ Proceeds /\ Head(outcomes) # "approved"
  /\ \E n \in Repeats(reply.calls[index]) :
       /\ n >= ToolFailureStopAt
       /\ failures' = [failures EXCEPT ![reply.calls[index]] = n]

RecordResult ==
  /\ step = "record"
  /\ Proceeds /\ Head(outcomes) # "approved"
  /\ messages' = Recorded
  /\ \E n \in Repeats(reply.calls[index]) :
       /\ n < ToolFailureStopAt
       /\ failures' = [failures EXCEPT ![reply.calls[index]] = n]
  /\ IF Head(outcomes) = "changed"
       THEN Enqueue(reply.calls[index])
       ELSE UNCHANGED <<queue, queued, results, worker>>
  /\ outcomes' = Tail(outcomes)
  /\ index' = IF index < Len(reply.calls) THEN index + 1 ELSE 1
  /\ step' = CASE Len(outcomes) > 1 -> "record"
               [] Len(outcomes) = 1 /\ index < Len(reply.calls) -> "execute"
               [] OTHER -> "after"
  /\ UNCHANGED <<cancelled, version, job, judged, turn, recovered, requestVars,
                 ran, policyVars, seen, guard, outcome, waited>>

\* observeNoOpToolCalls, the notes that follow a batch, the escalation.
AfterBatch ==
  /\ step = "after"
  /\ LET made == Range(reply.calls)
         changed == \E c \in ran : c.turn = turn
         noOp == IF changed \/ ~(made \subseteq seen) THEN 0 ELSE guard.noOp + 1
     IN  /\ seen' = seen \cup made
         /\ guard' = [guard EXCEPT !.noOp = noOp]
         /\ \/ /\ noOp >= NoOpStopAt
               /\ Ends("stopped") /\ UNCHANGED <<messages, limit, gate, escalated>>
            \/ /\ noOp < NoOpStopAt
               /\ messages' \in {WithUser(messages)} \cup
                                (IF reply.dropped THEN {} ELSE {messages})
               /\ Posture
               /\ NextTurn
  /\ UNCHANGED <<cancelled, diagnosticsVars, turn, recovered, requestVars, batchVars,
                 nudges, checked, failures, waited>>

-----------------------------------------------------------------------------
(* The turn limit, the end, cancellation.                                  *)

LimitCancelled ==
  /\ step = "turn" /\ turn >= limit /\ cancelled
  /\ Ends("cancelled")
  /\ Keeps(<<messages, requestVars, recovered>>)

\* The last verdicts and notes come before the request for a summary.
LimitReached ==
  /\ step = "turn" /\ turn >= limit /\ ~cancelled
  /\ \E nudged, noted \in BOOLEAN :
       /\ Drain(nudged)
       /\ messages' = IF nudged \/ noted THEN WithUser(messages) ELSE messages
  /\ step' = "summary"
  /\ forwarded' = FALSE /\ shown' = 0
  /\ UNCHANGED <<cancelled, version, queue, queued, worker, job, judged, turn, recovered,
                 stage, attempt, reply, batchVars, policyVars, guardVars, outcome, waited>>

\* finalAnswerAfterMaxTurns: without a usable text its prompt is not kept.
Summary ==
  /\ step = "summary"
  /\ \/ ~cancelled /\ messages' = Append(WithUser(messages), Assistant(turn, 0))
     \/ UNCHANGED messages
  /\ Ends("limit")
  /\ Keeps(<<requestVars, recovered>>)

Cancel ==
  /\ ~cancelled /\ step # "done"
  /\ cancelled' = TRUE
  /\ UNCHANGED <<loopVars, diagnosticsVars>>

Diagnose == Worker /\ UNCHANGED loopVars

Loop ==
  \/ BeginTurn \/ Connected \/ ConnectRecovers \/ ConnectFails \/ Collect
  \/ Recover \/ CancelSeen \/ Reconnect \/ CheckedStream \/ StallRetry
  \/ NoStallRetry \/ LastRecover \/ LastReissued
  \/ CutTurn \/ DroppedTurn \/ SilentTurn \/ ProseTurn \/ BatchTurn
  \/ Execute \/ AbortBatch \/ ApprovePlan \/ StopOnFailures \/ RecordResult
  \/ AfterBatch \/ LimitCancelled \/ LimitReached \/ Summary

Next == Loop \/ Diagnose \/ Cancel

Spec == Init /\ [][Next]_vars

-----------------------------------------------------------------------------
(* Properties.                                                             *)

TypeOK ==
  /\ DiagnosticsTypeOK
  /\ step \in Steps /\ stage \in Stages /\ outcome \in Outcomes
  /\ (step = "done") = (outcome # "running")
  /\ turn \in 0..limit /\ limit \in {MaxTurns, EscalatedTurns}
  /\ {gate, escalated, recovered, forwarded, checked, waited} \subseteq BOOLEAN
  /\ reply \in Replies \cup Interrupted
  /\ attempt \in 0..(MaxReconnects + MaxStallRetries)
  /\ seen \subseteq Calls
  /\ failures \in [Calls -> 0..ToolFailureStopAt]
  /\ guard \in [empty : 0..MaxEmptyTurns, noAction : 0..MaxNoActionTurns,
                noOp : 0..NoOpStopAt]
  /\ nudges \in 0..MaxContinueNudges
  /\ shown \in Nat

(* Every request the run sends, and the history it returns however it ends *)
(* (an abort, a guard or an approval within a batch, a compaction before   *)
(* or during a turn), answers every advertised tool call at once and has   *)
(* no other answers: a provider that insists on the pairing accepts it.    *)
Replayable ==
  step \in {"connect", "stream", "summary", "done"} => WellFormed(messages)

(* The user reads the prose of a turn at most once, whatever reconnects,   *)
(* stall retries and reissues after a compaction the turn went through.    *)
ProseOnce == shown <= 1

Holds(item) == \E i \in DOMAIN messages : messages[i] = item
InFlight(c) ==
  step = "record" /\ c.turn = turn /\ c.index \in index..(index + Len(outcomes) - 1)
Elided(c) ==
  \A i \in DOMAIN messages :
    messages[i].role = "assistant" => \A k \in DOMAIN messages[i].calls : messages[i].calls[k] # c

(* The history tells the truth about edits: a call that changed a file has *)
(* its result there until a compaction elides it, and is never answered by *)
(* the placeholder that says it did not run, even when calls of the batch  *)
(* run ahead of their turn to be recorded.                                 *)
EditsRecorded ==
  \A c \in ran : /\ ~Holds(Aborted(c))
                 /\ Holds(Result(c)) \/ Elided(c) \/ InFlight(c)

(* A run that was not cancelled gives its answer only when the last        *)
(* content of every file it edited was checked and what was found is told, *)
(* unless the final wait for the checks ran out: an edit that lands while  *)
(* its file is being checked is checked again.                             *)
AnswerAfterChecks ==
  outcome = "answer" /\ ~cancelled /\ ~waited =>
    \A f \in Files : judged[f] = version[f] /\ results[f] = 0

(* A run that ends because it was cancelled says so: the comment at the    *)
(* stream's cancellation check wants errors.Is(err, context.Canceled).     *)
CancelKeepsSentinel == outcome # "sentinelLost"
=============================================================================
